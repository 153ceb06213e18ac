--------------------------- MODULE VersionCommit ---------------------------
(***************************************************************************)
(* POST /files/{file_id}/versions: the request handler commit_version and  *)
(* the database transaction commit_file_version, with the statements of    *)
(* other requests that touch the same rows (block uploads, soft deletion). *)
(*                                                                         *)
(* One action is one SQL statement, except where a statement's effect      *)
(* cannot be seen by anyone else before COMMIT (the INSERT of the version  *)
(* row, the UPDATEs of files and file_versions): those are folded into the *)
(* neighbouring statement.  PostgreSQL runs READ COMMITTED: a transaction  *)
(* reads what has been committed when the statement starts, its writes     *)
(* appear to others at COMMIT, and a row lock is held until COMMIT or      *)
(* ROLLBACK.  Version ids are fresh UUIDs, one per request: the request    *)
(* itself stands for the id.                                               *)
(***************************************************************************)
EXTENDS Integers, Sequences, FiniteSets, FiniteSetsExt

CONSTANTS
  Files,       \* rows of the files table
  Hashes,      \* SHA-256 block hashes
  Requests,    \* commit requests, each handled once
  BlockLists,  \* the block_hashes a request may carry
  Nobody,      \* no lock holder, no current version
  MaxUploads   \* bound on the uploads of one hash

ASSUME ListsAssumption == BlockLists \subseteq Seq(Hashes) \ {<<>>}
ASSUME NobodyAssumption == Nobody \notin Requests
ASSUME UploadsAssumption == MaxUploads \in Nat

VARIABLES
  \* committed contents of the tables
  deleted,     \* files.deleted
  current,     \* files.current_version_id
  versions,    \* file_versions
  links,       \* file_version_blocks
  rows,        \* the hashes with a row in blocks
  refs,        \* blocks.ref_count
  \* row locks held by open transactions
  fileLock,    \* FOR UPDATE lock on a row of files
  rowLock,     \* UPDATE lock on a row of blocks
  \* the handlers
  req,         \* the file and the block list of each request
  pc,          \* the statement a request executes next
  idx,         \* position of the loop over block_hashes
  nextVer,     \* next_ver, read under the lock
  \* history variable
  uploads      \* how many uploads of a hash have been counted

tables == <<deleted, current, versions, links, rows, refs>>
locks == <<fileLock, rowLock>>
locals == <<req, pc, idx, nextVer>>
vars == <<tables, locks, locals, uploads>>

Waiting == {"lookup", "authorize", "lock"}          \* holds no lock yet
InTransaction == {"max", "link", "incr", "commit"}  \* holds its file's lock
Finished == {"done", "failed"}

VersionRow == [id : Requests, file : Files, number : Nat]
LinkRow == [version : Requests, index : Nat, hash : Hashes]

FileOf(r) == req[r].file
BlocksOf(r) == req[r].blocks
NextHash(r) == BlocksOf(r)[idx[r]]

Init ==
  /\ deleted = {}
  /\ current = [f \in Files |-> Nobody]
  /\ versions = {}
  /\ links = {}
  /\ rows = {}
  /\ refs = [h \in Hashes |-> 0]
  /\ fileLock = [f \in Files |-> Nobody]
  /\ rowLock = [h \in Hashes |-> Nobody]
  /\ req \in [Requests -> [file : Files, blocks : BlockLists]]
  /\ pc = [r \in Requests |-> "lookup"]
  /\ idx = [r \in Requests |-> 1]
  /\ nextVer = [r \in Requests |-> 0]
  /\ uploads = [h \in Hashes |-> 0]

Goto(r, label) == pc' = [pc EXCEPT ![r] = label]

-----------------------------------------------------------------------------
(* Admission: two reads outside the transaction.                           *)

\* get_file_folder_id: a file that is soft-deleted by now is a 404.
Lookup(r) ==
  /\ pc[r] = "lookup"
  /\ Goto(r, IF FileOf(r) \in deleted THEN "failed" ELSE "authorize")
  /\ UNCHANGED <<tables, locks, req, idx, nextVer, uploads>>

\* get_folder_permission: 'owner' and 'write' go on, the others get a 403.
\* Who holds which permission does not matter to the commit.
Authorize(r) ==
  /\ pc[r] = "authorize"
  /\ \E answer \in {"lock", "failed"} : Goto(r, answer)
  /\ UNCHANGED <<tables, locks, req, idx, nextVer, uploads>>

-----------------------------------------------------------------------------
(* The transaction.                                                        *)

\* Mutant: FOR SHARE, which lets several transactions in.
LockFileShared(r) ==
  /\ pc[r] = "lock"
  /\ fileLock' = [fileLock EXCEPT ![FileOf(r)] = r]
  /\ Goto(r, "max")
  /\ UNCHANGED <<tables, rowLock, req, idx, nextVer, uploads>>

\* SELECT ... FOR UPDATE waits while another transaction holds the row.
LockFile(r) ==
  /\ pc[r] = "lock"
  /\ fileLock[FileOf(r)] = Nobody
  /\ fileLock' = [fileLock EXCEPT ![FileOf(r)] = r]
  /\ Goto(r, "max")
  /\ UNCHANGED <<tables, rowLock, req, idx, nextVer, uploads>>

\* COALESCE(MAX(version_number), 0) over the committed versions of a file.
MaxNumber(f) == Max({v.number : v \in {w \in versions : w.file = f}} \cup {0})

\* Mutant: pool.fetchval for conn.fetchval, so that the version row is inserted
\* outside the transaction and visible at once.
InsertOutside(r) ==
  /\ pc[r] = "max"
  /\ nextVer' = [nextVer EXCEPT ![r] = MaxNumber(FileOf(r)) + 1]
  /\ versions' = versions \cup
       {[id |-> r, file |-> FileOf(r), number |-> MaxNumber(FileOf(r)) + 1]}
  /\ Goto(r, "link")
  /\ UNCHANGED <<deleted, current, links, rows, refs, locks, req, idx, uploads>>

\* Choose next_ver and insert the (still invisible) version row.
ReadMax(r) ==
  /\ pc[r] = "max"
  /\ nextVer' = [nextVer EXCEPT ![r] = MaxNumber(FileOf(r)) + 1]
  /\ Goto(r, "link")
  /\ UNCHANGED <<tables, locks, req, idx, uploads>>

\* Mutant: one turn too many.
TurnTooFar(r, label) ==
  IF idx[r] <= Len(BlocksOf(r))
  THEN idx' = [idx EXCEPT ![r] = @ + 1] /\ pc' = pc
  ELSE idx' = [idx EXCEPT ![r] = 1] /\ Goto(r, label)

\* One turn of a loop over block_hashes; after the last one, go to label.
Turn(r, label) ==
  IF idx[r] < Len(BlocksOf(r))
  THEN idx' = [idx EXCEPT ![r] = @ + 1] /\ pc' = pc
  ELSE idx' = [idx EXCEPT ![r] = 1] /\ Goto(r, label)

\* The block has a row: insert its (still invisible) link.
LinkBlock(r) ==
  /\ pc[r] = "link"
  /\ NextHash(r) \in rows
  /\ Turn(r, "incr")
  /\ UNCHANGED <<tables, locks, req, nextVer, uploads>>

\* UPDATE blocks SET ref_count = ref_count + 1 waits for the row's lock and
\* keeps it until COMMIT.
IncrementRef(r) ==
  /\ pc[r] = "incr"
  /\ rowLock[NextHash(r)] \in {Nobody, r}
  /\ rowLock' = [rowLock EXCEPT ![NextHash(r)] = r]
  /\ Turn(r, "commit")
  /\ UNCHANGED <<tables, fileLock, req, nextVer, uploads>>

ReleaseLocks(r) ==
  /\ fileLock' = [f \in Files |-> IF fileLock[f] = r THEN Nobody ELSE fileLock[f]]
  /\ rowLock' = [h \in Hashes |-> IF rowLock[h] = r THEN Nobody ELSE rowLock[h]]

\* Mutant: a hash that the list has already had is skipped.
NewLinksOnce(r) ==
  {[version |-> r, index |-> i, hash |-> BlocksOf(r)[i]] :
     i \in {j \in DOMAIN BlocksOf(r) :
             \A k \in DOMAIN BlocksOf(r) : BlocksOf(r)[k] = BlocksOf(r)[j] => k >= j}}

\* One link for each position of the list, equal blocks included.
NewLinks(r) ==
  {[version |-> r, index |-> i, hash |-> BlocksOf(r)[i]] : i \in DOMAIN BlocksOf(r)}

\* Mutant: one UPDATE ... WHERE hash = ANY(...), which counts a hash once.
IncrementsOnce(r, h) == IF \E l \in NewLinks(r) : l.hash = h THEN 1 ELSE 0

\* How many increments the executemany sends for a hash: one per occurrence.
Increments(r, h) == Cardinality({l \in NewLinks(r) : l.hash = h})

\* Mutant: UPDATE files ... AND deleted = FALSE skips a file removed meanwhile.
CommitUnlessDeleted(r) ==
  /\ pc[r] = "commit"
  /\ versions' = versions \cup
       {[id |-> r, file |-> FileOf(r), number |-> nextVer[r]]}
  /\ links' = links \cup NewLinks(r)
  /\ current' = [current EXCEPT ![FileOf(r)] =
                   IF FileOf(r) \in deleted THEN @ ELSE r]
  /\ refs' = [h \in Hashes |-> refs[h] + Increments(r, h)]
  /\ ReleaseLocks(r)
  /\ Goto(r, "done")
  /\ UNCHANGED <<deleted, rows, req, idx, nextVer, uploads>>

\* COMMIT: everything the transaction wrote becomes visible at once.
Commit(r) ==
  /\ pc[r] = "commit"
  /\ versions' = versions \cup
       {[id |-> r, file |-> FileOf(r), number |-> nextVer[r]]}
  /\ links' = links \cup NewLinks(r)
  /\ current' = [current EXCEPT ![FileOf(r)] = r]
  /\ refs' = [h \in Hashes |-> refs[h] + Increments(r, h)]
  /\ ReleaseLocks(r)
  /\ Goto(r, "done")
  /\ UNCHANGED <<deleted, rows, req, idx, nextVer, uploads>>

\* Mutant: the error is answered with the transaction still open.
RollbackLeftOpen(r) ==
  /\ Goto(r, "failed")
  /\ UNCHANGED <<tables, locks, req, idx, nextVer, uploads>>

\* ROLLBACK: nothing written becomes visible.
Rollback(r) ==
  /\ ReleaseLocks(r)
  /\ Goto(r, "failed")
  /\ UNCHANGED <<tables, req, idx, nextVer, uploads>>

\* No row for the hash: ValueError leaves the transaction, the reply is a 400.
UnknownBlock(r) ==
  /\ pc[r] = "link"
  /\ NextHash(r) \notin rows
  /\ Rollback(r)

\* Any statement may raise: an unknown device_id (foreign key), the command
\* timeout, a lost connection, the process dying.  The reply is a 500.
StatementFails(r) ==
  /\ pc[r] \notin Finished
  /\ Rollback(r)

-----------------------------------------------------------------------------
(* Waiting for row locks in two transactions at once.                      *)

\* The transaction r waits for, if it waits for a row of blocks at all.
IsBlocked(r) == pc[r] = "incr" /\ rowLock[NextHash(r)] \notin {Nobody, r}
Blocker(r) == rowLock[NextHash(r)]

\* r is on a cycle of the waits-for graph.
InCycle(r) ==
  \E C \in SUBSET Requests :
    /\ r \in C
    /\ \A s \in C : IsBlocked(s)
    /\ {Blocker(s) : s \in C} = C

\* PostgreSQL's deadlock detector rolls one of the transactions back.
DeadlockVictim(r) == InCycle(r) /\ Rollback(r)

-----------------------------------------------------------------------------
(* The other requests on these rows, one committed statement each.         *)

\* insert_block / increment_refcount: the first upload creates the row with
\* ref_count 1, every further one adds 1.  It waits for the row's lock.
UploadBlock(h) ==
  /\ uploads[h] < MaxUploads
  /\ rowLock[h] = Nobody
  /\ rows' = rows \cup {h}
  /\ refs' = [refs EXCEPT ![h] = @ + 1]
  /\ uploads' = [uploads EXCEPT ![h] = @ + 1]
  /\ UNCHANGED <<deleted, current, versions, links, locks, locals>>

\* delete_file: the UPDATE waits for the row's lock, and sets the flag only.
DeleteFile(f) ==
  /\ f \notin deleted
  /\ fileLock[f] = Nobody
  /\ deleted' = deleted \cup {f}
  /\ UNCHANGED <<current, versions, links, rows, refs, locks, locals, uploads>>

\* Every request has been answered: the service waits for new ones.
Idle ==
  /\ \A r \in Requests : pc[r] \in Finished
  /\ UNCHANGED vars

-----------------------------------------------------------------------------

Statement(r) ==
  \/ Authorize(r)
  \/ LockFile(r)
  \/ ReadMax(r)
  \/ LinkBlock(r)
  \/ UnknownBlock(r)
  \/ IncrementRef(r)
  \/ Commit(r)

Next ==
  \/ \E r \in Requests :
       \/ Lookup(r)
       \/ Statement(r)
       \/ StatementFails(r)
       \/ DeadlockVictim(r)
  \/ \E h \in Hashes : UploadBlock(h)
  \/ \E f \in Files : DeleteFile(f)
  \/ Idle

Spec == Init /\ [][Next]_vars

\* An admitted request's coroutine is scheduled, a lock that stays free is
\* granted, and the detector runs (deadlock_timeout).  Nothing makes clients
\* send requests, upload or delete, and nothing makes a statement fail.
FairSpec ==
  /\ Spec
  /\ \A r \in Requests : WF_vars(Statement(r))
  /\ \A r \in Requests : WF_vars(DeadlockVictim(r))

-----------------------------------------------------------------------------
(* Properties.                                                             *)

\* The tables, locks and locals hold what the schema and the handler allow;
\* a loop index stays inside its block list.
TypeOK ==
  /\ deleted \subseteq Files
  /\ current \in [Files -> Requests \cup {Nobody}]
  /\ versions \subseteq VersionRow
  /\ links \subseteq LinkRow
  /\ rows \subseteq Hashes
  /\ refs \in [Hashes -> Nat]
  /\ fileLock \in [Files -> Requests \cup {Nobody}]
  /\ rowLock \in [Hashes -> Requests \cup {Nobody}]
  /\ req \in [Requests -> [file : Files, blocks : BlockLists]]
  /\ pc \in [Requests -> Waiting \cup InTransaction \cup Finished]
  /\ idx \in [Requests -> Nat]
  /\ \A r \in Requests : idx[r] \in DOMAIN BlocksOf(r)
  /\ nextVer \in [Requests -> Nat]
  /\ uploads \in [Hashes -> 0 .. MaxUploads]

VersionsOf(f) == {v \in versions : v.file = f}

\* Concurrent commits never give two versions of a file the same number, and
\* rolled-back commits leave no gap: the numbers are 1, 2, ..., n.  The table
\* has no UNIQUE constraint for it; only the FOR UPDATE lock ensures it.
VersionsNumberedConsecutively ==
  \A f \in Files :
    /\ \A v, w \in VersionsOf(f) : v.number = w.number => v = w
    /\ \A v \in VersionsOf(f) :
         /\ v.number >= 1
         /\ v.number > 1 => \E w \in VersionsOf(f) : w.number = v.number - 1

\* files.current_version_id always names the version with the highest number,
\* also of a file deleted while a commit was under way; it is NULL only
\* while the file has no version.
CurrentIsNewest ==
  \A f \in Files :
    IF VersionsOf(f) = {}
    THEN current[f] = Nobody
    ELSE \E v \in VersionsOf(f) :
           /\ v.id = current[f]
           /\ \A w \in VersionsOf(f) \ {v} : w.number < v.number

LinksTo(h) == {l \in links : l.hash = h}

\* No increment is lost or counted twice, whatever commits overlap, repeat a
\* block or roll back: a block's ref_count is its uploads plus its links.
RefCountConserved ==
  \A h \in Hashes : refs[h] = uploads[h] + Cardinality(LinksTo(h))

\* A commit only ever waits for the blocks of a commit to ANOTHER file, so
\* two commits to one file never deadlock, whatever their block order.
BlockWaitsCrossFiles ==
  \A r \in Requests : IsBlocked(r) =>
    Blocker(r) \in Requests /\ FileOf(Blocker(r)) # FileOf(r)

\* A commit that has been looked up ends, in success or in failure, although
\* commits to two files that share blocks may deadlock.
EveryCommitEnds ==
  \A r \in Requests : pc[r] \notin {"lookup"} \cup Finished ~> pc[r] \in Finished

\* The block list of a version, put together from its link rows.
BlockListOf(r) ==
  [i \in 1 .. Cardinality({l \in links : l.version = r}) |->
     (CHOOSE l \in links : l.version = r /\ l.index = i).hash]

\* The history of a file as its rows tell it.
HistoryOf(f) ==
  [n \in 1 .. Cardinality(VersionsOf(f)) |->
     BlockListOf((CHOOSE v \in VersionsOf(f) : v.number = n).id)]

History == INSTANCE VersionHistory WITH
  history <- [f \in Files |-> HistoryOf(f)],
  removed <- deleted,
  uploaded <- rows

\* The interleaved statements look like atomic commits: each appends one
\* whole version, rewrites none and names only uploaded blocks.
ImplementsHistory == History!Spec
=============================================================================
