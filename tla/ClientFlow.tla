----------------------------- MODULE ClientFlow -----------------------------
(***************************************************************************)
(* The whole way of a file: it is cut into blocks, the blocks are uploaded *)
(* to the Block Server, and their hashes are committed as a version by the *)
(* Metadata Service, again if the reply of the first commit is lost.       *)
(*                                                                         *)
(* The two services meet in the blocks table: an upload's statement on a   *)
(* row waits while a commit holds the row, and upload calls that the       *)
(* client has given up run on during the commit.                           *)
(***************************************************************************)
EXTENDS ChunkUpload, Sequences

CONSTANTS
  File,        \* the file's row in files
  Bytes,       \* what files consist of
  Contents,    \* what the file may contain, as sequences of bytes
  ChunkSize,   \* bytes of a full block
  MaxCommits,  \* bound on the commit requests of the client
  Nobody

ASSUME SizeAssumption == ChunkSize \in Nat \ {0}
ASSUME NobodyIsNoCommit == Nobody \notin 1 .. MaxCommits
\* A commit of no blocks does not pass validation.
ASSUME NotEmptyAssumption == Blocks # {}

VARIABLES
  content,     \* what the file contains
  deleted, current, versions, links, fileLock, rowLock,  \* as in VersionCommit
  req, step, idx, nextVer,                               \* step is its pc
  \* history variable
  counted      \* the statements of uploads that have counted a hash

commitVars == <<deleted, current, versions, links, fileLock, rowLock,
                req, step, idx, nextVer>>
flowVars == <<allVars, content, commitVars, counted>>

-----------------------------------------------------------------------------
(* chunk_file                                                              *)

\* read(chunk_size) until it returns nothing; the last block may be short.
ChunkFile(bytes) ==
  LET Rest[pos \in 0 .. Len(bytes) + ChunkSize] ==
        LET end == IF pos + ChunkSize < Len(bytes) THEN pos + ChunkSize ELSE Len(bytes)
            data == SubSeq(bytes, pos + 1, end)
        IN  IF data = <<>> THEN <<>> ELSE <<data>> \o Rest[end]
  IN  Rest[0]

\* enumerate numbers as many blocks as the file is cut into.
ASSUME ContentsAssumption ==
  /\ Contents \subseteq Seq(Bytes)
  /\ \A bytes \in Contents : Len(ChunkFile(bytes)) = Cardinality(Blocks)

\* Mutant: the results of asyncio.as_completed, unsorted, when the last block
\* is the first to end.
LastFirst == [n \in 1 .. Cardinality(Blocks) |-> hash[<<Cardinality(Blocks) - n, 1>>]]

\* What chunk_and_upload returns: gather lists the results in the order of the
\* tasks, whatever the order they end in, and the sort by block_index, which
\* finds them sorted, keeps it.
BlockHashes == [n \in 1 .. Cardinality(Blocks) |-> hash[<<n - 1, 1>>]]

Commits == 1 .. MaxCommits

Service == INSTANCE VersionCommit WITH
  Files <- {File},
  Requests <- Commits,
  BlockLists <- [1 .. Cardinality(Blocks) -> Hashes],
  MaxUploads <- Cardinality(Uploads),
  pc <- step,
  uploads <- counted

\* A block is known by its hash: the block itself stands for the hash.
FlowInit ==
  /\ content \in Contents
  /\ ClientInit
  /\ \A i \in Blocks : hash[<<i, 1>>] = ChunkFile(content)[i + 1]
  /\ Service!Init
  /\ \A r \in Commits : req[r].blocks = BlockHashes

-----------------------------------------------------------------------------
(* The steps of the client and of the Block Server.                        *)

ClientStep(i) ==
  /\ TaskStep(i)
  /\ UNCHANGED <<content, commitVars, counted>>

AllUploaded ==
  /\ Gather
  /\ UNCHANGED <<content, commitVars, counted>>

\* PostgreSQL makes the UPDATE, or the INSERT ON CONFLICT, wait while a commit
\* has the row locked.
CountBlock(c) ==
  /\ rowLock[hash[c]] = Nobody
  /\ Increment(c) \/ Insert(c)
  /\ counted' = [counted EXCEPT ![hash[c]] = @ + 1]

ServerStep(c) ==
  /\ c \in Sent
  /\ \/ CountBlock(c)
     \/ /\ Lookup(c) \/ OpenFile(c) \/ WriteBytes(c) \/ Answer(c) \/ Fail(c)
        /\ UNCHANGED counted
  /\ UNCHANGED <<clientVars, content, commitVars>>

-----------------------------------------------------------------------------
(* The steps of the commits.                                               *)

\* Mutant: the client commits what it has uploaded, although it raised.
MayCommitAnyway(r) ==
  /\ result # "running"
  /\ r > 1 => step[r - 1] # "lookup"

\* The client commits once its blocks are uploaded, and commits again when
\* no reply, or a 500, has come of the last commit, which may still be running.
MayCommit(r) ==
  /\ result = "returned"
  /\ r > 1 => step[r - 1] # "lookup"

\* Commits to one file cannot deadlock (BlockWaitsCrossFiles), and nobody
\* deletes the file here.
CommitStep(r) ==
  /\ step[r] = "lookup" => MayCommit(r)
  /\ \/ Service!Lookup(r)
     \/ Service!Statement(r)
     \/ Service!StatementFails(r)
  /\ UNCHANGED <<backend, disk, calls, collector, clientVars, content>>

\* All is uploaded and committed, or given up.
FlowOver ==
  /\ result # "running"
  /\ UNCHANGED flowVars

FlowNext ==
  \/ \E i \in Blocks : ClientStep(i)
  \/ AllUploaded
  \/ \E c \in Uploads : ServerStep(c)
  \/ \E r \in Commits : CommitStep(r)
  \/ FlowOver

FlowSpec == FlowInit /\ [][FlowNext]_flowVars

\* The client's event loop runs, every request of it ends within its timeout,
\* and the handlers of commits go on.
FairFlowSpec ==
  /\ FlowSpec
  /\ \A i \in Blocks : WF_flowVars(ClientStep(i))
  /\ WF_flowVars(AllUploaded)
  /\ \A r \in Commits : WF_flowVars(Service!Statement(r) /\ UNCHANGED
       <<backend, disk, calls, collector, clientVars, content>>)

-----------------------------------------------------------------------------
(* Properties.                                                             *)

\* The commits are those of VersionCommit, with the uploads of the real Block
\* Server, which wait for rows, in the place of its one upload action: proved,
\* so that the theorems about VersionCommit speak of this module too.
CommitsAsSpecified == Service!Spec

\* A commit that follows a chunk_and_upload that returned never meets an
\* unknown block, whatever attempts were lost, repeated or still run.
NoUnknownBlock ==
  \A r \in Commits : step[r] = "link" => Service!NextHash(r) \in rows

Flatten(lists) ==
  LET Upto[n \in 0 .. Len(lists)] == IF n = 0 THEN <<>> ELSE Upto[n - 1] \o lists[n]
  IN  Upto[Len(lists)]

\* Every version, also the second one of a repeated commit, is the file that
\* was cut up: in the order of their indices its blocks are the content, each
\* has a row, and its file is there and whole.  Two uploads can spoil a file:
\* an attempt that still runs and writes it again, which lasts until it has,
\* and one that failed (blocks_whole shows that such damage may stay).
VersionsRebuildFile ==
  \A v \in versions :
    LET blocks == Service!BlockListOf(v.id)
    IN  /\ Flatten(blocks) = content
        /\ \A i \in DOMAIN blocks :
             /\ blocks[i] \in rows
             /\ \/ disk[blocks[i]] = "whole"
                \/ disk[blocks[i]] = "partial" /\ MayBeDamaged(blocks[i])

Saved == {[save |-> v.id, bytes |-> Flatten(Service!BlockListOf(v.id))] : v \in versions}

Saves == INSTANCE FileSaves WITH
  Saves <- Commits,
  upload <- result,
  saved <- Saved

\* To the user, the uploads and transactions are saves in one step: a version
\* appears whole, after the upload that it relies on has returned, with the
\* bytes of the file, once per commit, and nothing that either service does
\* later (late attempts, other commits, rollbacks) changes what it reads as.
SavesTheFile == Saves!Spec

\* Each counted statement belongs to an attempt that was sent, and what is
\* counted besides are the links of versions.
CountsAreExplained ==
  \A h \in Hashes :
    /\ counted[h] <= Cardinality({c \in Sent : hash[c] = h})
    /\ refs[h] = counted[h] + Cardinality(Service!LinksTo(h))
=============================================================================
