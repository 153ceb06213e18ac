---------------------------- MODULE BlockServer ----------------------------
(***************************************************************************)
(* The Block Server: the upload and download handlers of its HTTP and gRPC *)
(* interfaces, the rows of the blocks table, the block files, and the      *)
(* garbage collection task.                                                *)
(*                                                                         *)
(* A handler gives up the event loop at every database call, and the HTTP  *)
(* and the gRPC server are two processes on one database and one disk: one *)
(* action is one SQL statement or one operation on the storage.  Of the    *)
(* two backends, the local one opens a block's file, which truncates it,   *)
(* and then writes its bytes; S3 puts an object at once.                   *)
(***************************************************************************)
EXTENDS Integers, FiniteSets

CONSTANTS
  Hashes,      \* SHA-256 block hashes
  Uploads,     \* upload calls whose data matches their hash, each made once
  Reads,       \* download calls and existence checks, each made once
  Backends,    \* values of STORAGE_BACKEND: "local", "s3"
  MaxReleases  \* bound on the calls of decrement_refcount

ASSUME ReleasesAssumption == MaxReleases \in Nat
ASSUME BackendsAssumption == Backends \subseteq {"local", "s3"}

VARIABLES
  rows,        \* the hashes with a row in blocks
  refs,        \* blocks.ref_count; 0 where there is no row
  backend,     \* the storage, chosen when the module is loaded
  disk,        \* what the file or object of a block contains
  hash,        \* the block each call is about
  pc,          \* the next operation of each call
  doomed,      \* rows the collector has deleted, and whose files it will
  releases     \* calls of decrement_refcount so far

db == <<backend, rows, refs>>
calls == <<hash, pc>>
collector == <<doomed, releases>>
vars == <<db, disk, calls, collector>>

Calls == Uploads \cup Reads
UploadSteps == {"lookup", "increment", "open", "write", "insert", "answer"}
ReadSteps == {"find", "read", "send"}
Finished == {"done", "failed", "exists", "not_found", "missing", "damaged"}

Init ==
  /\ backend \in Backends
  /\ rows = {}
  /\ refs = [h \in Hashes |-> 0]
  /\ disk = [h \in Hashes |-> "absent"]
  /\ hash \in [Calls -> Hashes]
  /\ pc = [c \in Calls |-> IF c \in Uploads THEN "lookup" ELSE "find"]
  /\ doomed = {}
  /\ releases = 0

Goto(c, label) == pc' = [pc EXCEPT ![c] = label]

-----------------------------------------------------------------------------
(* upload_block, UploadBlock                                               *)

\* Mutant: no look-up, every upload writes.
LookupNever(c) ==
  /\ pc[c] = "lookup"
  /\ Goto(c, "open")
  /\ UNCHANGED <<db, disk, hash, collector>>

\* get_block decides between the two paths, on what it sees now.
Lookup(c) ==
  /\ pc[c] = "lookup"
  /\ Goto(c, IF hash[c] \in rows THEN "increment" ELSE "open")
  /\ UNCHANGED <<db, disk, hash, collector>>

\* increment_refcount touches no row if there is none any more.
Increment(c) ==
  /\ pc[c] = "increment"
  /\ refs' = [refs EXCEPT ![hash[c]] = IF hash[c] \in rows THEN @ + 1 ELSE @]
  /\ Goto(c, "answer")
  /\ UNCHANGED <<backend, rows, disk, hash, collector>>

\* save_block of the local backend: opening for writing truncates the file.
OpenFile(c) ==
  /\ backend = "local"
  /\ pc[c] = "open"
  /\ disk' = [disk EXCEPT ![hash[c]] = "partial"]
  /\ Goto(c, "write")
  /\ UNCHANGED <<db, hash, collector>>

WriteBytes(c) ==
  /\ pc[c] = "write"
  /\ disk' = [disk EXCEPT ![hash[c]] = "whole"]
  /\ Goto(c, "insert")
  /\ UNCHANGED <<db, hash, collector>>

\* save_block of S3: nobody sees a part of an object.
PutObject(c) ==
  /\ backend = "s3"
  /\ pc[c] = "open"
  /\ disk' = [disk EXCEPT ![hash[c]] = "whole"]
  /\ Goto(c, "insert")
  /\ UNCHANGED <<db, hash, collector>>

\* Mutant: ON CONFLICT DO NOTHING.
InsertOrNothing(c) ==
  /\ pc[c] = "insert"
  /\ rows' = rows \cup {hash[c]}
  /\ refs' = [refs EXCEPT ![hash[c]] = IF hash[c] \in rows THEN @ ELSE 1]
  /\ Goto(c, "answer")
  /\ UNCHANGED <<backend, disk, hash, collector>>

\* insert_block: a new row counts 1, a row that has appeared since the
\* look-up counts one more; the answer is stored = true in both cases.
Insert(c) ==
  /\ pc[c] = "insert"
  /\ rows' = rows \cup {hash[c]}
  /\ refs' = [refs EXCEPT ![hash[c]] = IF hash[c] \in rows THEN @ + 1 ELSE 1]
  /\ Goto(c, "answer")
  /\ UNCHANGED <<backend, disk, hash, collector>>

Answer(c) ==
  /\ pc[c] = "answer"
  /\ Goto(c, "done")
  /\ UNCHANGED <<db, disk, hash, collector>>

\* Mutant: a failed upload removes the file it was about to write.
FailAndTidy(c) ==
  /\ pc[c] \notin Finished
  /\ disk' = [disk EXCEPT ![hash[c]] = IF pc[c] \in {"write", "insert"}
                                       THEN "absent" ELSE @]
  /\ Goto(c, "failed")
  /\ UNCHANGED <<db, hash, collector>>

\* A full disk, a database error, a broken connection, a killed process:
\* whatever the call has done stays done, and no answer says so.
Fail(c) ==
  /\ pc[c] \notin Finished
  /\ Goto(c, "failed")
  /\ UNCHANGED <<db, disk, hash, collector>>

-----------------------------------------------------------------------------
(* get_block, GetBlock, has_block, HasBlock                                *)

\* get_block of the database decides; an existence check is over with it.
FindRow(c) ==
  /\ pc[c] = "find"
  /\ \E next \in IF hash[c] \in rows THEN {"read", "exists"} ELSE {"not_found"} :
       Goto(c, next)
  /\ UNCHANGED <<db, disk, hash, collector>>

\* What a reader of the file comes to: nothing compares it with the hash.
Outcome(contents) ==
  CASE contents = "absent"  -> "missing"
    [] contents = "partial" -> "damaged"
    [] contents = "whole"   -> "done"

\* read_block: a file or object that is not there is an error answer.  gRPC
\* sends the bytes it has read; HTTP drops them and keeps the path.
ReadFile(c) ==
  /\ pc[c] = "read"
  /\ \/ Goto(c, Outcome(disk[hash[c]]))
     \/ disk[hash[c]] # "absent" /\ Goto(c, "send")
  /\ UNCHANGED <<db, disk, hash, collector>>

\* FileResponse opens the path anew; an s3:// URI is the path of no file.
SendFile(c) ==
  /\ pc[c] = "send"
  /\ Goto(c, IF backend = "local" THEN Outcome(disk[hash[c]]) ELSE "missing")
  /\ UNCHANGED <<db, disk, hash, collector>>

-----------------------------------------------------------------------------
(* _gc_loop                                                                *)

\* Mutant: the collector asks for rows with a count below 0.
CollectBelowZero ==
  /\ doomed = {}
  /\ doomed' = {h \in rows : refs[h] < 0}
  /\ doomed' # {}
  /\ rows' = rows \ doomed'
  /\ UNCHANGED <<backend, refs, disk, calls, releases>>

\* Mutant: ref_count <= 1, a block in use once counts as unused.
CollectUsedOnce ==
  /\ doomed = {}
  /\ doomed' = {h \in rows : refs[h] <= 1}
  /\ doomed' # {}
  /\ rows' = rows \ doomed'
  /\ UNCHANGED <<backend, refs, disk, calls, releases>>

\* delete_zero_refcount_blocks, when a pass finds something to delete.
CollectRows ==
  /\ doomed = {}
  /\ doomed' = {h \in rows : refs[h] = 0}
  /\ doomed' # {}
  /\ rows' = rows \ doomed'
  /\ UNCHANGED <<backend, refs, disk, calls, releases>>

\* Delete the next file; an error is logged and the loop goes on.
CollectFile(h) ==
  /\ h \in doomed
  /\ doomed' = doomed \ {h}
  /\ \/ disk' = [disk EXCEPT ![h] = "absent"]
     \/ disk' = disk
  /\ UNCHANGED <<db, calls, releases>>

\* The process restarts: the files of rows it has deleted are forgotten.
CollectorRestarts ==
  /\ doomed # {}
  /\ doomed' = {}
  /\ UNCHANGED <<db, disk, calls, releases>>

\* Mutant: ref_count - 1 without GREATEST(..., 0).
ReleaseBelowZero(h) ==
  /\ releases < MaxReleases
  /\ h \in rows
  /\ releases' = releases + 1
  /\ refs' = [refs EXCEPT ![h] = @ - 1]
  /\ UNCHANGED <<backend, rows, disk, calls, doomed>>

\* decrement_refcount, which no code of the repository calls yet.
Release(h) ==
  /\ releases < MaxReleases
  /\ h \in rows
  /\ releases' = releases + 1
  /\ refs' = [refs EXCEPT ![h] = IF @ > 0 THEN @ - 1 ELSE 0]
  /\ UNCHANGED <<backend, rows, disk, calls, doomed>>

-----------------------------------------------------------------------------

\* All calls have been answered and the collector sleeps.
Idle ==
  /\ \A c \in Calls : pc[c] \in Finished
  /\ UNCHANGED vars

Upload(c) ==
  \/ Lookup(c)
  \/ Increment(c)
  \/ OpenFile(c)
  \/ WriteBytes(c)
  \/ PutObject(c)
  \/ Insert(c)
  \/ Answer(c)

Next ==
  \/ \E c \in Uploads : Upload(c)
  \/ \E c \in Reads : FindRow(c) \/ ReadFile(c) \/ SendFile(c)
  \/ \E c \in Calls : Fail(c)
  \/ CollectRows
  \/ \E h \in Hashes : CollectFile(h) \/ Release(h)
  \/ CollectorRestarts
  \/ Idle

Spec == Init /\ [][Next]_vars

\* The collector catches every error, sleeps, and runs again.
FairSpec ==
  /\ Spec
  /\ WF_vars(CollectRows)
  /\ WF_vars(\E h \in Hashes : CollectFile(h))

-----------------------------------------------------------------------------
(* Properties.                                                             *)

\* Counts stay natural, whatever is released.
TypeOK ==
  /\ backend \in Backends
  /\ rows \subseteq Hashes
  /\ refs \in [Hashes -> Nat]
  /\ disk \in [Hashes -> {"absent", "partial", "whole"}]
  /\ hash \in [Calls -> Hashes]
  /\ pc \in [Calls -> UploadSteps \cup ReadSteps \cup Finished]
  /\ doomed \subseteq Hashes
  /\ releases \in 0 .. MaxReleases

DoneUploads(h) == {c \in Uploads : hash[c] = h /\ pc[c] = "done"}

\* The system as it is deployed: nothing has called decrement_refcount.
NothingReleased == releases = 0

\* An answered upload is counted, on either path and whatever uploads of the
\* same block overlap it, so the row a client relies on is there.  (Calls
\* that failed after their statement may be counted besides.)
AnswersAreCounted ==
  NothingReleased =>
    \A h \in Hashes : DoneUploads(h) # {} =>
      h \in rows /\ refs[h] >= Cardinality(DoneUploads(h))

\* An upload of the block has its file open, or one has failed, perhaps between
\* opening the file and writing it.
MayBeDamaged(h) ==
  \E c \in Uploads : hash[c] = h /\ pc[c] \in {"write", "failed"}

\* The file is written before the row is inserted and never removed by a
\* failing upload: a block with a row has a file, and the file is whole except
\* while another upload that has missed the row writes it again, or after an
\* upload has failed (SettledBlocksAreWhole shows what is then left).
RowHasFile ==
  NothingReleased =>
    \A h \in rows : disk[h] = "whole" \/ (disk[h] = "partial" /\ MayBeDamaged(h))

\* What a call has found in the table stays: a client that was told that the
\* block exists may commit it without an upload, and no download answers that
\* the file is missing, at its first look at it or, over HTTP, at its second.
FoundIsKept ==
  NothingReleased =>
    \A c \in Reads :
      /\ pc[c] \in {"exists", "read", "send"} =>
           hash[c] \in rows /\ disk[hash[c]] # "absent"
      /\ backend = "local" => pc[c] # "missing"

\* "Retrying the same blocks must never write to storage again": an upload
\* that starts after another upload of the block was answered only counts.
RetryNeverWrites ==
  [][\A c, d \in Uploads :
       /\ hash[c] = hash[d]
       /\ pc[c] = "done" /\ pc[d] = "lookup"
       /\ NothingReleased
       => pc'[d] # "open"]_vars

\* A block whose count has dropped to 0 is collected or used again.
ZeroCountIsCollected ==
  \A h \in Hashes : h \in rows /\ refs[h] = 0 ~> ~(h \in rows /\ refs[h] = 0)

\* "Same bytes anywhere = 1 copy stored ... resumable uploads for free": when
\* all calls are over, the one copy of a block that has a row is complete.
SettledBlocksAreWhole ==
  (\A c \in Calls : pc[c] \in Finished) => \A h \in rows : disk[h] = "whole"

\* "[The backends] delegate ... so callers remain unchanged": whichever is
\* active, no download answers that a block is missing which is stored.
StoredIsServed ==
  \A c \in Reads : pc[c] = "missing" => disk[hash[c]] # "whole"
=============================================================================
