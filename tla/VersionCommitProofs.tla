------------------------ MODULE VersionCommitProofs ------------------------
(***************************************************************************)
(* Proofs about the transaction of VersionCommit, for any number of files, *)
(* blocks and concurrent requests: it keeps the history of every file      *)
(* numbered 1, 2, ..., n with files.current_version_id at n; it counts the *)
(* uses of every block exactly; and its statements, interleaved as the row *)
(* locks allow, implement the one-step commits of VersionHistory.          *)
(***************************************************************************)
EXTENDS VersionCommit, FiniteSetTheorems, SequenceTheorems, TLAPS

(***************************************************************************)
(* The inductive invariant.  TypeOK alone is not inductive (next_ver is a  *)
(* number only because MAX is applied to a set that has one), nor is the   *)
(* numbering (the number is chosen several statements before its row is    *)
(* visible): the locks carry both from ReadMax to Commit.                  *)
(***************************************************************************)

\* A transaction holds the lock of its file from LockFile to its end.
FileLocks ==
  \A r \in Requests : pc[r] \in InTransaction => fileLock[FileOf(r)] = r

\* The locks on blocks belong to transactions that are about to commit.
RowLocks ==
  \A h \in Hashes : rowLock[h] # Nobody => pc[rowLock[h]] \in {"incr", "commit"}

HasNumber == {"link", "incr", "commit"}

\* n is the number the next version of f has to get.
IsNextNumber(f, n) ==
  /\ \A v \in VersionsOf(f) : v.number < n
  /\ n = 1 \/ \E v \in VersionsOf(f) : v.number = n - 1

\* The number a transaction has read is still the next one.
NextNumberHeld ==
  \A r \in Requests : pc[r] \in HasNumber =>
    nextVer[r] >= 1 /\ IsNextNumber(FileOf(r), nextVer[r])

IInv ==
  /\ TypeOK
  /\ FileLocks
  /\ RowLocks
  /\ VersionsNumberedConsecutively
  /\ CurrentIsNewest
  /\ NextNumberHeld

-----------------------------------------------------------------------------
(* Lemmas about the operators of the model.                                *)

\* A block list has a first position, and only natural positions.
LEMMA BlockListPositions ==
  ASSUME NEW blocks \in BlockLists
  PROVE  /\ blocks \in Seq(Hashes)
         /\ Len(blocks) \in Nat \ {0}
         /\ DOMAIN blocks = 1 .. Len(blocks)
         /\ \A i \in DOMAIN blocks : blocks[i] \in Hashes
BY ListsAssumption

\* A turn of a loop keeps the index inside the list, and moves the program
\* counter to the label or not at all.
LEMMA TurnStaysInside ==
  ASSUME TypeOK, NEW r \in Requests,
         NEW label \in Waiting \cup InTransaction \cup Finished,
         Turn(r, label), req' = req
  PROVE  /\ idx' \in [Requests -> Nat]
         /\ \A s \in Requests : idx'[s] \in DOMAIN BlocksOf(s)
         /\ pc' = pc \/ pc' = [pc EXCEPT ![r] = label]
<1>1. \A s \in Requests : BlocksOf(s) \in BlockLists
  BY DEF TypeOK, BlocksOf
<1>2. \A s \in Requests : Len(BlocksOf(s)) \in Nat \ {0}
                          /\ DOMAIN BlocksOf(s) = 1 .. Len(BlocksOf(s))
  BY <1>1, BlockListPositions
<1>3. CASE idx[r] < Len(BlocksOf(r))
  BY <1>2, <1>3 DEF Turn, TypeOK
<1>4. CASE ~(idx[r] < Len(BlocksOf(r)))
  BY <1>2, <1>4 DEF Turn, TypeOK, Goto
<1> QED BY <1>3, <1>4

\* The links of a version are finitely many rows of the table.
LEMMA NewLinksFinite ==
  ASSUME TypeOK, NEW r \in Requests
  PROVE  /\ NewLinks(r) \subseteq LinkRow
         /\ IsFiniteSet(NewLinks(r))
         /\ \A l \in NewLinks(r) : l.version = r
<1>1. BlocksOf(r) \in BlockLists
  BY DEF TypeOK, BlocksOf
<1>2. /\ Len(BlocksOf(r)) \in Nat
      /\ DOMAIN BlocksOf(r) = 1 .. Len(BlocksOf(r))
      /\ \A i \in DOMAIN BlocksOf(r) : BlocksOf(r)[i] \in Hashes
  BY <1>1, BlockListPositions
<1> DEFINE row == [i \in 1 .. Len(BlocksOf(r)) |->
                     [version |-> r, index |-> i, hash |-> BlocksOf(r)[i]]]
<1>3. row \in Surjection(1 .. Len(BlocksOf(r)), NewLinks(r))
  BY <1>2 DEF Surjection, NewLinks
<1>4. IsFiniteSet(NewLinks(r))
  BY <1>2, <1>3, FS_Interval, FS_Surjection
<1> QED BY <1>2, <1>4 DEF NewLinks, LinkRow

\* The number of increments of a hash is a number.
LEMMA IncrementsType ==
  ASSUME TypeOK, NEW r \in Requests, NEW h \in Hashes
  PROVE  Increments(r, h) \in Nat
<1>1. IsFiniteSet({l \in NewLinks(r) : l.hash = h})
  BY NewLinksFinite, FS_Subset
<1> QED BY <1>1, FS_CardinalityType DEF Increments

\* MAX is taken over a set that has a maximum, because current_version_id
\* names one; COALESCE makes it 0 for a file without versions.
LEMMA MaxNumberPlusOneIsNext ==
  ASSUME TypeOK, VersionsNumberedConsecutively, CurrentIsNewest, NEW f \in Files
  PROVE  MaxNumber(f) \in Nat /\ IsNextNumber(f, MaxNumber(f) + 1)
<1> DEFINE numbers == {v.number : v \in VersionsOf(f)} \cup {0}
<1>1. MaxNumber(f) = CHOOSE x \in numbers : \A y \in numbers : x >= y
  BY DEF MaxNumber, Max, VersionsOf
<1>2. VersionsOf(f) \subseteq VersionRow
  BY DEF TypeOK, VersionsOf
<1>3. numbers \subseteq Nat
  BY <1>2 DEF VersionRow
<1>4. \E x \in numbers : \A y \in numbers : x >= y
  <2>1. CASE VersionsOf(f) = {}
    <3>1. numbers = {0}
      BY <2>1
    <3> QED BY <3>1
  <2>2. CASE VersionsOf(f) # {}
    <3>1. PICK v \in VersionsOf(f) :
            \A w \in VersionsOf(f) \ {v} : w.number < v.number
      BY <2>2 DEF CurrentIsNewest
    <3>2. \A y \in numbers : v.number >= y
      BY <1>2, <3>1 DEF VersionRow
    <3> QED BY <3>2
  <2> QED BY <2>1, <2>2
<1>5. MaxNumber(f) \in numbers /\ \A y \in numbers : MaxNumber(f) >= y
  BY <1>1, <1>4
<1>6. \A v \in VersionsOf(f) : v.number < MaxNumber(f) + 1
  BY <1>2, <1>3, <1>5 DEF VersionRow
<1>7. MaxNumber(f) = 0 \/ \E v \in VersionsOf(f) : v.number = MaxNumber(f)
  BY <1>5
<1> QED BY <1>3, <1>5, <1>6, <1>7 DEF IsNextNumber

-----------------------------------------------------------------------------
(* The invariant is inductive.                                             *)

LEMMA InitEstablishes == Init => IInv
<1> SUFFICES ASSUME Init PROVE IInv
  OBVIOUS
<1>1. TypeOK
  <2>1. \A r \in Requests : idx[r] \in DOMAIN BlocksOf(r)
    <3> SUFFICES ASSUME NEW r \in Requests PROVE idx[r] \in DOMAIN BlocksOf(r)
      OBVIOUS
    <3>1. BlocksOf(r) \in BlockLists
      BY DEF Init, BlocksOf
    <3> QED BY <3>1, BlockListPositions DEF Init
  <2> QED BY <2>1, UploadsAssumption DEF Init, TypeOK, Waiting
<1>2. FileLocks /\ RowLocks
  BY DEF Init, FileLocks, RowLocks, InTransaction
<1>3. VersionsNumberedConsecutively /\ CurrentIsNewest
  BY DEF Init, VersionsNumberedConsecutively, CurrentIsNewest, VersionsOf
<1>4. NextNumberHeld
  BY DEF Init, NextNumberHeld, HasNumber
<1> QED BY <1>1, <1>2, <1>3, <1>4 DEF IInv

\* What the version table says is untouched by a step that leaves it alone.
LEMMA SameVersions ==
  ASSUME versions' = versions
  PROVE  /\ \A f : VersionsOf(f)' = VersionsOf(f)
         /\ \A f, n : IsNextNumber(f, n)' <=> IsNextNumber(f, n)
         /\ VersionsNumberedConsecutively' <=> VersionsNumberedConsecutively
         /\ current' = current => (CurrentIsNewest' <=> CurrentIsNewest)
BY DEF VersionsOf, IsNextNumber, VersionsNumberedConsecutively, CurrentIsNewest

\* Lookup, Authorize: a step before the transaction holds no lock.
LEMMA AdmissionStep ==
  ASSUME IInv, NEW r \in Requests, Lookup(r) \/ Authorize(r)
  PROVE  IInv'
<1>1. /\ UNCHANGED <<tables, locks, req, idx, nextVer, uploads>>
      /\ pc[r] \in {"lookup", "authorize"}
      /\ \E l \in {"authorize", "lock", "failed"} : pc' = [pc EXCEPT ![r] = l]
  BY DEF Lookup, Authorize, Goto
<1>2. TypeOK'
  BY <1>1 DEF IInv, TypeOK, tables, locks, BlocksOf, Waiting, Finished
<1>3. FileLocks' /\ RowLocks'
  BY <1>1 DEF IInv, TypeOK, FileLocks, RowLocks, InTransaction, FileOf, locks
<1>4. VersionsNumberedConsecutively' /\ CurrentIsNewest'
  BY <1>1, SameVersions DEF IInv, tables
<1>5. NextNumberHeld'
  BY <1>1, SameVersions DEF IInv, TypeOK, NextNumberHeld, HasNumber, FileOf, tables
<1> QED BY <1>2, <1>3, <1>4, <1>5 DEF IInv

\* LockFile: the lock was free, so no transaction on the file was open.
LEMMA LockFileStep ==
  ASSUME IInv, NEW r \in Requests, LockFile(r)
  PROVE  IInv'
<1> USE DEF IInv
<1>1. TypeOK'
  BY DEF LockFile, Goto, TypeOK, tables, BlocksOf, FileOf, InTransaction
<1>2. FileLocks'
  BY NobodyAssumption DEF LockFile, Goto, TypeOK, FileLocks, FileOf, InTransaction
<1>3. RowLocks'
  BY DEF LockFile, Goto, TypeOK, RowLocks
<1>4. VersionsNumberedConsecutively' /\ CurrentIsNewest'
  BY SameVersions DEF LockFile, tables
<1>5. NextNumberHeld'
  BY SameVersions DEF LockFile, Goto, TypeOK, NextNumberHeld, HasNumber, FileOf, tables
<1> QED BY <1>1, <1>2, <1>3, <1>4, <1>5

\* ReadMax: the number read is the next one of the file.
LEMMA ReadMaxStep ==
  ASSUME IInv, NEW r \in Requests, ReadMax(r)
  PROVE  IInv'
<1> USE DEF IInv
<1>1. FileOf(r) \in Files
  BY DEF TypeOK, FileOf
<1>2. MaxNumber(FileOf(r)) \in Nat
      /\ IsNextNumber(FileOf(r), MaxNumber(FileOf(r)) + 1)
  BY <1>1, MaxNumberPlusOneIsNext
<1>3. TypeOK'
  BY <1>2 DEF ReadMax, Goto, TypeOK, tables, locks, BlocksOf, InTransaction
<1>4. FileLocks' /\ RowLocks'
  BY DEF ReadMax, Goto, TypeOK, FileLocks, RowLocks, FileOf, InTransaction, locks
<1>5. VersionsNumberedConsecutively' /\ CurrentIsNewest'
  BY SameVersions DEF ReadMax, tables
<1>6. NextNumberHeld'
  BY <1>2, SameVersions
     DEF ReadMax, Goto, TypeOK, NextNumberHeld, HasNumber, FileOf, tables
<1> QED BY <1>3, <1>4, <1>5, <1>6

\* LinkBlock, IncrementRef: the loops change an index, and a lock of a block.
LEMMA LoopStep ==
  ASSUME IInv, NEW r \in Requests, LinkBlock(r) \/ IncrementRef(r)
  PROVE  IInv'
<1> USE DEF IInv
<1>1. /\ UNCHANGED <<tables, fileLock, req, nextVer, uploads>>
      /\ pc[r] \in {"link", "incr"}
      /\ \E l \in {"incr", "commit"} : Turn(r, l)
  BY DEF LinkBlock, IncrementRef, locks
<1>2. PICK l \in {"incr", "commit"} : Turn(r, l)
  BY <1>1
<1>3. l \in Waiting \cup InTransaction \cup Finished
  BY DEF InTransaction
<1>4. /\ idx' \in [Requests -> Nat]
      /\ \A s \in Requests : idx'[s] \in DOMAIN BlocksOf(s)
      /\ pc' = pc \/ pc' = [pc EXCEPT ![r] = l]
  BY <1>1, <1>2, <1>3, TurnStaysInside
<1>5. NextHash(r) \in Hashes
  <2>1. BlocksOf(r) \in BlockLists /\ idx[r] \in DOMAIN BlocksOf(r)
    BY DEF TypeOK, BlocksOf
  <2> QED BY <2>1, BlockListPositions DEF NextHash
<1>6. rowLock' = rowLock \/ (pc[r] = "incr"
                             /\ rowLock' = [rowLock EXCEPT ![NextHash(r)] = r])
  BY DEF LinkBlock, IncrementRef, locks
<1>7. pc' \in [Requests -> Waiting \cup InTransaction \cup Finished]
  BY <1>3, <1>4 DEF TypeOK
<1>8. TypeOK'
  BY <1>1, <1>4, <1>5, <1>6, <1>7 DEF TypeOK, tables, BlocksOf
<1>9. FileLocks'
  BY <1>1, <1>4 DEF TypeOK, FileLocks, FileOf, InTransaction
<1>10. RowLocks'
  BY <1>1, <1>2, <1>4, <1>5, <1>6 DEF TypeOK, RowLocks
<1>11. VersionsNumberedConsecutively' /\ CurrentIsNewest'
  BY <1>1, SameVersions DEF tables
<1>12. NextNumberHeld'
  BY <1>1, <1>2, <1>4, SameVersions
     DEF TypeOK, NextNumberHeld, HasNumber, FileOf, tables
<1> QED BY <1>8, <1>9, <1>10, <1>11, <1>12

\* The end of a transaction frees what it held and nothing else.
LEMMA LocksAfterRelease ==
  ASSUME IInv, NEW r \in Requests, ReleaseLocks(r), req' = req,
         NEW label \in Finished, pc' = [pc EXCEPT ![r] = label]
  PROVE  /\ fileLock' \in [Files -> Requests \cup {Nobody}]
         /\ rowLock' \in [Hashes -> Requests \cup {Nobody}]
         /\ FileLocks' /\ RowLocks'
<1> USE DEF IInv, ReleaseLocks
<1>1. /\ fileLock' \in [Files -> Requests \cup {Nobody}]
      /\ rowLock' \in [Hashes -> Requests \cup {Nobody}]
  BY DEF TypeOK
<1>2. FileLocks'
  BY DEF TypeOK, FileLocks, FileOf, InTransaction, Finished
<1>3. RowLocks'
  BY DEF TypeOK, RowLocks
<1> QED BY <1>1, <1>2, <1>3

\* UnknownBlock, StatementFails, DeadlockVictim: nothing becomes visible.
LEMMA RollbackStep ==
  ASSUME IInv, NEW r \in Requests, Rollback(r)
  PROVE  IInv'
<1>1. /\ UNCHANGED <<tables, req, idx, nextVer, uploads>>
      /\ ReleaseLocks(r)
      /\ pc' = [pc EXCEPT ![r] = "failed"]
      /\ "failed" \in Finished
  BY DEF Rollback, Goto, Finished
<1>2. /\ fileLock' \in [Files -> Requests \cup {Nobody}]
      /\ rowLock' \in [Hashes -> Requests \cup {Nobody}]
      /\ FileLocks' /\ RowLocks'
  BY <1>1, LocksAfterRelease
<1>3. TypeOK'
  BY <1>1, <1>2 DEF IInv, TypeOK, tables, BlocksOf
<1>4. VersionsNumberedConsecutively' /\ CurrentIsNewest'
  BY <1>1, SameVersions DEF IInv, tables
<1>5. NextNumberHeld'
  BY <1>1, SameVersions DEF IInv, TypeOK, NextNumberHeld, HasNumber, FileOf, tables
<1> QED BY <1>2, <1>3, <1>4, <1>5 DEF IInv

\* Commit: the new version is the newest of its file, and no other
\* transaction has read a number for that file.
LEMMA CommitStep ==
  ASSUME IInv, NEW r \in Requests, Commit(r)
  PROVE  IInv'
<1> USE DEF IInv
<1>f. PICK f \in Files : f = FileOf(r)
  BY DEF TypeOK, FileOf
<1>n. PICK new \in VersionRow : new = [id |-> r, file |-> f, number |-> nextVer[r]]
  BY DEF TypeOK, VersionRow
<1>1. /\ versions' = versions \cup {new}
      /\ links' = links \cup NewLinks(r)
      /\ current' = [current EXCEPT ![f] = r]
      /\ refs' = [h \in Hashes |-> refs[h] + Increments(r, h)]
      /\ ReleaseLocks(r)
      /\ pc' = [pc EXCEPT ![r] = "done"]
      /\ UNCHANGED <<deleted, rows, req, idx, nextVer, uploads>>
      /\ pc[r] = "commit"
      /\ "done" \in Finished
  BY <1>f, <1>n DEF Commit, Goto, Finished
<1>2. new.number = nextVer[r] /\ new.id = r /\ new.file = f /\ new.number \in Nat
  BY <1>n DEF VersionRow
<1>3. new.number >= 1 /\ IsNextNumber(f, new.number)
  BY <1>f, <1>1, <1>2 DEF NextNumberHeld, HasNumber
<1>4. /\ fileLock' \in [Files -> Requests \cup {Nobody}]
      /\ rowLock' \in [Hashes -> Requests \cup {Nobody}]
      /\ FileLocks' /\ RowLocks'
  BY <1>1, LocksAfterRelease
<1>5. TypeOK'
  <2>1. refs' \in [Hashes -> Nat]
    BY <1>1, IncrementsType DEF TypeOK
  <2>2. links' \subseteq LinkRow
    BY <1>1, NewLinksFinite DEF TypeOK
  <2>3. versions' \subseteq VersionRow /\ current' \in [Files -> Requests \cup {Nobody}]
    BY <1>1, <1>2 DEF TypeOK
  <2> QED BY <1>1, <1>4, <2>1, <2>2, <2>3 DEF TypeOK, BlocksOf, Finished
<1>6. VersionsOf(f)' = VersionsOf(f) \cup {new}
  BY <1>1, <1>2 DEF VersionsOf
<1>7. \A g \in Files \ {f} : VersionsOf(g)' = VersionsOf(g)
  BY <1>1, <1>2 DEF VersionsOf
<1>8. \A g \in Files : \A v \in VersionsOf(g) : v.number \in Nat
  BY DEF TypeOK, VersionsOf, VersionRow
<1>9. VersionsNumberedConsecutively'
  <2> SUFFICES ASSUME NEW g \in Files
               PROVE  /\ \A v, w \in VersionsOf(g)' : v.number = w.number => v = w
                      /\ \A v \in VersionsOf(g)' :
                           /\ v.number >= 1
                           /\ v.number > 1 =>
                                \E w \in VersionsOf(g)' : w.number = v.number - 1
    BY DEF VersionsNumberedConsecutively
  <2>1. CASE g # f
    BY <1>7, <2>1 DEF VersionsNumberedConsecutively
  <2>2. CASE g = f
    <3>1. \A v \in VersionsOf(f) : v.number < new.number
      BY <1>3 DEF IsNextNumber
    <3>2. \A v, w \in VersionsOf(f)' : v.number = w.number => v = w
      <4>1. \A v, w \in VersionsOf(f) : v.number = w.number => v = w
        BY DEF VersionsNumberedConsecutively
      <4> QED BY <1>2, <1>6, <1>8, <3>1, <4>1
    <3>3. \A v \in VersionsOf(f) : v.number >= 1
      BY DEF VersionsNumberedConsecutively
    <3>4. \A v \in VersionsOf(f) : v.number > 1 =>
            \E w \in VersionsOf(f)' : w.number = v.number - 1
      BY <1>6 DEF VersionsNumberedConsecutively
    <3>5. new.number >= 1 /\ (new.number > 1 =>
            \E w \in VersionsOf(f)' : w.number = new.number - 1)
      BY <1>2, <1>3, <1>6 DEF IsNextNumber
    <3> QED BY <1>6, <2>2, <3>2, <3>3, <3>4, <3>5
  <2> QED BY <2>1, <2>2
<1>10. CurrentIsNewest'
  <2> SUFFICES ASSUME NEW g \in Files
               PROVE  IF VersionsOf(g)' = {}
                      THEN current'[g] = Nobody
                      ELSE \E v \in VersionsOf(g)' :
                             /\ v.id = current'[g]
                             /\ \A w \in VersionsOf(g)' \ {v} : w.number < v.number
    BY DEF CurrentIsNewest
  <2>1. CASE g # f
    BY <1>1, <1>7, <2>1 DEF CurrentIsNewest, TypeOK
  <2>2. CASE g = f
    <3>1. new \in VersionsOf(f)' /\ new.id = current'[f]
      BY <1>1, <1>2, <1>6 DEF TypeOK
    <3>2. \A w \in VersionsOf(f)' \ {new} : w.number < new.number
      BY <1>3, <1>6 DEF IsNextNumber
    <3> QED BY <2>2, <3>1, <3>2
  <2> QED BY <2>1, <2>2
<1>11. NextNumberHeld'
  <2> SUFFICES ASSUME NEW s \in Requests, pc'[s] \in HasNumber
               PROVE  nextVer'[s] >= 1 /\ IsNextNumber(FileOf(s), nextVer[s])'
    BY <1>1 DEF NextNumberHeld
  <2>1. s # r /\ pc[s] \in HasNumber /\ FileOf(s)' = FileOf(s) /\ FileOf(s) \in Files
    BY <1>1 DEF TypeOK, HasNumber, FileOf
  <2>2. FileOf(s) # f
    BY <1>f, <1>1, <2>1 DEF FileLocks, HasNumber, InTransaction
  <2>3. VersionsOf(FileOf(s))' = VersionsOf(FileOf(s))
    BY <1>7, <2>1, <2>2 DEF VersionsOf
  <2> QED BY <1>1, <2>1, <2>3 DEF NextNumberHeld, IsNextNumber
<1> QED BY <1>4, <1>5, <1>9, <1>10, <1>11

\* UploadBlock, DeleteFile and Idle do not touch versions or handlers.
LEMMA OtherStep ==
  ASSUME IInv,
         (\E h \in Hashes : UploadBlock(h)) \/ (\E f \in Files : DeleteFile(f)) \/ Idle
  PROVE  IInv'
<1> USE DEF IInv
<1>1. UNCHANGED <<current, versions, links, locks, locals>>
  BY DEF UploadBlock, DeleteFile, Idle, vars, tables
<1>2. /\ deleted' \subseteq Files
      /\ rows' \subseteq Hashes
      /\ refs' \in [Hashes -> Nat]
      /\ uploads' \in [Hashes -> 0 .. MaxUploads]
  <2>1. CASE \E h \in Hashes : UploadBlock(h)
    BY <2>1, UploadsAssumption DEF UploadBlock, TypeOK
  <2>2. CASE \E f \in Files : DeleteFile(f)
    BY <2>2 DEF DeleteFile, TypeOK
  <2>3. CASE Idle
    BY <2>3 DEF Idle, vars, tables, TypeOK
  <2> QED BY <2>1, <2>2, <2>3
<1>3. TypeOK'
  BY <1>1, <1>2 DEF TypeOK, locks, locals, BlocksOf
<1>4. FileLocks' /\ RowLocks'
  BY <1>1 DEF FileLocks, RowLocks, FileOf, locks, locals
<1>5. VersionsNumberedConsecutively' /\ CurrentIsNewest'
  BY <1>1, SameVersions
<1>6. NextNumberHeld'
  BY <1>1, SameVersions DEF NextNumberHeld, FileOf, locals
<1> QED BY <1>3, <1>4, <1>5, <1>6

LEMMA StutteringStep ==
  ASSUME IInv, UNCHANGED vars
  PROVE  IInv'
<1> USE DEF IInv, vars, tables, locks, locals
<1>1. TypeOK'
  BY DEF TypeOK, BlocksOf
<1>2. FileLocks' /\ RowLocks' /\ NextNumberHeld'
  BY SameVersions DEF FileLocks, RowLocks, FileOf, NextNumberHeld
<1>3. VersionsNumberedConsecutively' /\ CurrentIsNewest'
  BY SameVersions
<1> QED BY <1>1, <1>2, <1>3

\* The invariant holds in every reachable state.
THEOREM Invariance == Spec => []IInv
<1>1. Init => IInv
  BY InitEstablishes
<1>2. IInv /\ [Next]_vars => IInv'
  <2> SUFFICES ASSUME IInv, [Next]_vars PROVE IInv'
    OBVIOUS
  <2>1. ASSUME NEW r \in Requests, Lookup(r) PROVE IInv'
    BY <2>1, AdmissionStep
  <2>2. ASSUME NEW r \in Requests, Statement(r) PROVE IInv'
    <3>1. CASE Authorize(r)
      BY <3>1, AdmissionStep
    <3>2. CASE LockFile(r)
      BY <3>2, LockFileStep
    <3>3. CASE ReadMax(r)
      BY <3>3, ReadMaxStep
    <3>4. CASE LinkBlock(r) \/ IncrementRef(r)
      BY <3>4, LoopStep
    <3>5. CASE UnknownBlock(r)
      BY <3>5, RollbackStep DEF UnknownBlock
    <3>6. CASE Commit(r)
      BY <3>6, CommitStep
    <3> QED BY <2>2, <3>1, <3>2, <3>3, <3>4, <3>5, <3>6 DEF Statement
  <2>3. ASSUME NEW r \in Requests, StatementFails(r) \/ DeadlockVictim(r) PROVE IInv'
    BY <2>3, RollbackStep DEF StatementFails, DeadlockVictim
  <2>4. CASE UNCHANGED vars
    BY <2>4, StutteringStep
  <2> QED BY <2>1, <2>2, <2>3, <2>4, OtherStep DEF Next
<1> QED BY <1>1, <1>2, PTL DEF Spec

\* Tables, locks and locals always hold values of their types.
THEOREM TypeCorrect == Spec => []TypeOK
<1>1. IInv => TypeOK
  BY DEF IInv
<1> QED BY <1>1, Invariance, PTL

\* Unique, gapless version numbers, for any number of concurrent commits.
THEOREM NumbersConsecutive == Spec => []VersionsNumberedConsecutively
<1>1. IInv => VersionsNumberedConsecutively
  BY DEF IInv
<1> QED BY <1>1, Invariance, PTL

\* files.current_version_id names the newest version.
THEOREM CurrentNewest == Spec => []CurrentIsNewest
<1>1. IInv => CurrentIsNewest
  BY DEF IInv
<1> QED BY <1>1, Invariance, PTL

\* A commit waits for a block only behind a commit to another file.
THEOREM WaitsCrossFiles == Spec => []BlockWaitsCrossFiles
<1>1. IInv => BlockWaitsCrossFiles
  <2> SUFFICES ASSUME IInv, NEW r \in Requests, IsBlocked(r)
               PROVE  Blocker(r) \in Requests /\ FileOf(Blocker(r)) # FileOf(r)
    BY DEF BlockWaitsCrossFiles
  <2>1. NextHash(r) \in Hashes
    <3>1. BlocksOf(r) \in BlockLists /\ idx[r] \in DOMAIN BlocksOf(r)
      BY DEF IInv, TypeOK, BlocksOf
    <3> QED BY <3>1, BlockListPositions DEF NextHash
  <2>2. Blocker(r) \in Requests /\ Blocker(r) # r /\ pc[r] = "incr"
    BY <2>1 DEF IInv, TypeOK, IsBlocked, Blocker
  <2>3. pc[Blocker(r)] \in {"incr", "commit"}
    BY <2>1, <2>2, NobodyAssumption DEF IInv, RowLocks, Blocker
  <2>4. /\ fileLock[FileOf(r)] = r
        /\ fileLock[FileOf(Blocker(r))] = Blocker(r)
    BY <2>2, <2>3 DEF IInv, FileLocks, InTransaction
  <2> QED BY <2>2, <2>4
<1> QED BY <1>1, Invariance, PTL

-----------------------------------------------------------------------------
(***************************************************************************)
(* blocks.ref_count counts exactly the uploads of a block and its uses by  *)
(* versions, whatever commits overlap, repeat a block in their list, or    *)
(* roll back half-way.                                                     *)
(***************************************************************************)

\* The link rows are finitely many and belong to committed versions: a
\* version that commits has none yet, so its links are all counted as new.
LinksOfCommitted ==
  /\ IsFiniteSet(links)
  /\ \A l \in links : pc[l.version] = "done"

RInv == LinksOfCommitted /\ RefCountConserved

\* Adding the links of a version adds their number to the count of a block.
LEMMA CountAfterCommit ==
  ASSUME TypeOK, LinksOfCommitted, NEW r \in Requests, pc[r] # "done",
         NEW h \in Hashes, links' = links \cup NewLinks(r)
  PROVE  /\ Cardinality(LinksTo(h)') = Cardinality(LinksTo(h)) + Increments(r, h)
         /\ Cardinality(LinksTo(h)) \in Nat
         /\ Increments(r, h) \in Nat
<1> DEFINE added == {l \in NewLinks(r) : l.hash = h}
<1>1. IsFiniteSet(LinksTo(h))
  BY FS_Subset DEF LinksOfCommitted, LinksTo
<1>2. IsFiniteSet(added)
  BY NewLinksFinite, FS_Subset
<1>3. LinksTo(h) \cap added = {}
  BY NewLinksFinite DEF LinksOfCommitted, LinksTo
<1>4. LinksTo(h)' = LinksTo(h) \cup added
  BY DEF LinksTo
<1>5. Cardinality(LinksTo(h) \cup added) = Cardinality(LinksTo(h)) + Cardinality(added)
  <2>1. Cardinality(LinksTo(h) \cap added) = 0
    BY <1>3, FS_EmptySet
  <2>2. Cardinality(LinksTo(h)) \in Nat /\ Cardinality(added) \in Nat
    BY <1>1, <1>2, FS_CardinalityType
  <2>3. Cardinality(LinksTo(h) \cup added) =
          Cardinality(LinksTo(h)) + Cardinality(added) - Cardinality(LinksTo(h) \cap added)
    BY <1>1, <1>2, FS_Union
  <2> QED BY <2>1, <2>2, <2>3
<1>6. Cardinality(LinksTo(h)) \in Nat /\ Increments(r, h) \in Nat
  BY <1>1, IncrementsType, FS_CardinalityType
<1> QED BY <1>4, <1>5, <1>6 DEF Increments

\* A step that leaves links and ref_count alone and ends no commit.
LEMMA UncountedStep ==
  ASSUME RInv, TypeOK, UNCHANGED <<links, refs, uploads>>,
         \A r \in Requests : pc[r] = "done" => pc'[r] = "done"
  PROVE  RInv'
<1>1. LinksOfCommitted'
  BY DEF RInv, LinksOfCommitted, TypeOK, LinkRow
<1>2. RefCountConserved'
  BY DEF RInv, RefCountConserved, LinksTo
<1> QED BY <1>1, <1>2 DEF RInv

LEMMA CountedCommit ==
  ASSUME RInv, TypeOK, NEW r \in Requests, Commit(r)
  PROVE  RInv'
<1>1. /\ links' = links \cup NewLinks(r)
      /\ refs' = [h \in Hashes |-> refs[h] + Increments(r, h)]
      /\ pc[r] = "commit" /\ pc' = [pc EXCEPT ![r] = "done"]
      /\ uploads' = uploads
  BY DEF Commit, Goto
<1>2. LinksOfCommitted'
  <2>1. IsFiniteSet(links')
    BY <1>1, NewLinksFinite, FS_Union DEF RInv, LinksOfCommitted
  <2>2. \A l \in links' : pc'[l.version] = "done"
    <3>1. \A l \in NewLinks(r) : pc'[l.version] = "done"
      BY <1>1, NewLinksFinite DEF TypeOK
    <3>2. \A l \in links : pc'[l.version] = "done"
      BY <1>1 DEF RInv, LinksOfCommitted, TypeOK, LinkRow
    <3> QED BY <1>1, <3>1, <3>2
  <2> QED BY <2>1, <2>2 DEF LinksOfCommitted
<1>3. RefCountConserved'
  <2> SUFFICES ASSUME NEW h \in Hashes
               PROVE  refs'[h] = uploads'[h] + Cardinality(LinksTo(h)')
    BY DEF RefCountConserved
  <2>1. /\ Cardinality(LinksTo(h)') = Cardinality(LinksTo(h)) + Increments(r, h)
        /\ Cardinality(LinksTo(h)) \in Nat
        /\ Increments(r, h) \in Nat
    BY <1>1, CountAfterCommit DEF RInv
  <2>2. refs[h] = uploads[h] + Cardinality(LinksTo(h))
    BY DEF RInv, RefCountConserved
  <2>3. uploads[h] \in Nat
    BY UploadsAssumption DEF TypeOK
  <2> QED BY <1>1, <2>1, <2>2, <2>3
<1> QED BY <1>2, <1>3 DEF RInv

LEMMA CountedUpload ==
  ASSUME RInv, TypeOK, NEW h \in Hashes, UploadBlock(h)
  PROVE  RInv'
<1>1. LinksOfCommitted'
  BY DEF RInv, LinksOfCommitted, UploadBlock, locals
<1>2. RefCountConserved'
  <2> SUFFICES ASSUME NEW g \in Hashes
               PROVE  refs'[g] = uploads'[g] + Cardinality(LinksTo(g)')
    BY DEF RefCountConserved
  <2>1. LinksTo(g)' = LinksTo(g)
    BY DEF UploadBlock, LinksTo
  <2>2. Cardinality(LinksTo(g)) \in Nat
    BY FS_Subset, FS_CardinalityType DEF RInv, LinksOfCommitted, LinksTo
  <2>3. refs[g] = uploads[g] + Cardinality(LinksTo(g)) /\ uploads[g] \in Nat
    BY UploadsAssumption DEF RInv, RefCountConserved, TypeOK
  <2> QED BY <2>1, <2>2, <2>3 DEF UploadBlock, TypeOK
<1> QED BY <1>1, <1>2 DEF RInv

\* Links and counts agree in every reachable state.
THEOREM CountsInvariance == Spec => []RInv
<1>1. Init => RInv
  <2> SUFFICES ASSUME Init PROVE RInv
    OBVIOUS
  <2>1. LinksOfCommitted
    BY FS_EmptySet DEF Init, LinksOfCommitted
  <2>2. \A h \in Hashes : Cardinality(LinksTo(h)) = 0
    BY FS_EmptySet DEF Init, LinksTo
  <2> QED BY <2>1, <2>2 DEF Init, RInv, RefCountConserved
<1>2. TypeOK /\ RInv /\ [Next]_vars => RInv'
  <2> SUFFICES ASSUME TypeOK, RInv, [Next]_vars PROVE RInv'
    OBVIOUS
  <2>1. ASSUME NEW r \in Requests, Commit(r) PROVE RInv'
    BY <2>1, CountedCommit
  <2>2. ASSUME NEW r \in Requests,
               Lookup(r) \/ Statement(r) \/ StatementFails(r) \/ DeadlockVictim(r),
               ~Commit(r)
        PROVE  RInv'
    <3>1. UNCHANGED <<links, refs, uploads>>
      BY <2>2 DEF Lookup, Statement, Authorize, LockFile, ReadMax, LinkBlock,
           UnknownBlock, IncrementRef, StatementFails, DeadlockVictim, Rollback, tables
    <3>2. pc[r] # "done" /\ \A q \in Requests \ {r} : pc'[q] = pc[q]
      <4>1. CASE Lookup(r) \/ Authorize(r) \/ LockFile(r) \/ ReadMax(r)
        BY <4>1 DEF Lookup, Authorize, LockFile, ReadMax, Goto, TypeOK
      <4>2. CASE LinkBlock(r) \/ IncrementRef(r)
        BY <4>2 DEF LinkBlock, IncrementRef, Turn, Goto, TypeOK
      <4>3. CASE UnknownBlock(r) \/ StatementFails(r) \/ DeadlockVictim(r)
        <5>1. pc[r] # "done"
          BY <4>3 DEF UnknownBlock, StatementFails, Finished,
                      DeadlockVictim, InCycle, IsBlocked
        <5>2. pc' = [pc EXCEPT ![r] = "failed"]
          BY <4>3 DEF UnknownBlock, StatementFails, DeadlockVictim, Rollback, Goto
        <5> QED BY <5>1, <5>2 DEF TypeOK
      <4> QED BY <2>2, <4>1, <4>2, <4>3 DEF Statement
    <3>3. \A s \in Requests : pc[s] = "done" => pc'[s] = "done"
      BY <3>2 DEF TypeOK
    <3> QED BY <3>1, <3>3, UncountedStep
  <2>3. ASSUME NEW h \in Hashes, UploadBlock(h) PROVE RInv'
    BY <2>3, CountedUpload
  <2>4. CASE (\E f \in Files : DeleteFile(f)) \/ Idle \/ UNCHANGED vars
    <3>1. UNCHANGED <<links, refs, uploads, pc>>
      BY <2>4 DEF DeleteFile, Idle, vars, tables, locals
    <3> QED BY <3>1, UncountedStep
  <2> QED BY <2>1, <2>2, <2>3, <2>4 DEF Next
<1> QED BY <1>1, <1>2, TypeCorrect, PTL DEF Spec

\* ref_count = uploads + links, for any number of concurrent requests.
THEOREM RefCountExact == Spec => []RefCountConserved
<1>1. RInv => RefCountConserved
  BY DEF RInv
<1> QED BY <1>1, CountsInvariance, PTL

-----------------------------------------------------------------------------
(* The refinement of VersionHistory.                                       *)

(***************************************************************************)
(* The invariant behind the refinement mapping.  The mapping reads a       *)
(* history off the tables with Cardinality and CHOOSE, so it needs to know *)
(* that the rows of a version stay what its request asked for, that the    *)
(* numbers of a file fill an interval, and that the blocks checked in the  *)
(* first loop of a transaction are still there when it commits.            *)
(***************************************************************************)

\* A version has the links of the request that made it, no more, no fewer.
CommittedVersions ==
  \A v \in versions :
    /\ pc[v.id] = "done"
    /\ {l \in links : l.version = v.id} = NewLinks(v.id)

\* The numbers of a file's versions are 1 .. n for n versions.
NumbersFill ==
  \A f \in Files :
    /\ IsFiniteSet(VersionsOf(f))
    /\ {v.number : v \in VersionsOf(f)} = 1 .. Cardinality(VersionsOf(f))

\* The blocks a transaction has linked have rows, from the look-up on.
LinkedBlocks ==
  \A r \in Requests :
    /\ pc[r] \in Waiting \cup {"max"} => idx[r] = 1
    /\ pc[r] = "link" => \A i \in 1 .. idx[r] - 1 : BlocksOf(r)[i] \in rows
    /\ pc[r] \in {"incr", "commit"} =>
         \A i \in DOMAIN BlocksOf(r) : BlocksOf(r)[i] \in rows

HInv == CommittedVersions /\ NumbersFill /\ LinkedBlocks

-----------------------------------------------------------------------------
(* Lemmas about the refinement mapping.                                    *)

\* There are n numbers from 1 to n.
LEMMA PositionsCounted ==
  ASSUME NEW n \in Nat
  PROVE  IsFiniteSet(1 .. n) /\ Cardinality(1 .. n) = n
<1>1. IsFiniteSet(1 .. n) /\ Cardinality(1 .. n) = IF 1 > n THEN 0 ELSE n - 1 + 1
  BY FS_Interval
<1> QED BY <1>1

\* One link for each position of the block list.
LEMMA NewLinksCounted ==
  ASSUME TypeOK, NEW r \in Requests
  PROVE  Cardinality(NewLinks(r)) = Len(BlocksOf(r))
<1>1. /\ Len(BlocksOf(r)) \in Nat
      /\ DOMAIN BlocksOf(r) = 1 .. Len(BlocksOf(r))
  BY BlockListPositions DEF TypeOK, BlocksOf
<1> DEFINE row == [i \in 1 .. Len(BlocksOf(r)) |->
                     [version |-> r, index |-> i, hash |-> BlocksOf(r)[i]]]
<1>2. row \in Surjection(1 .. Len(BlocksOf(r)), NewLinks(r))
  BY <1>1 DEF Surjection, NewLinks
<1>3. row \in Injection(1 .. Len(BlocksOf(r)), NewLinks(r))
  <2>1. \A i, j \in DOMAIN row : row[i] = row[j] => i = j
    OBVIOUS
  <2> QED BY <1>2, <2>1 DEF Surjection, Injection, IsInjective
<1>4. /\ IsFiniteSet(1 .. Len(BlocksOf(r)))
      /\ Cardinality(1 .. Len(BlocksOf(r))) = Len(BlocksOf(r))
  BY <1>1, PositionsCounted
<1>5. Cardinality(NewLinks(r)) = Cardinality(1 .. Len(BlocksOf(r)))
  BY <1>2, <1>3, <1>4, FS_Surjection
<1> QED BY <1>4, <1>5

\* Put together from its links, a version is the list its request carried.
LEMMA BlockListIsRequested ==
  ASSUME TypeOK, NEW r \in Requests, {l \in links : l.version = r} = NewLinks(r)
  PROVE  BlockListOf(r) = BlocksOf(r)
<1>1. /\ BlocksOf(r) \in Seq(Hashes)
      /\ Len(BlocksOf(r)) \in Nat
      /\ DOMAIN BlocksOf(r) = 1 .. Len(BlocksOf(r))
  BY BlockListPositions DEF TypeOK, BlocksOf
<1>2. BlockListOf(r) = [i \in 1 .. Len(BlocksOf(r)) |->
                          (CHOOSE l \in links : l.version = r /\ l.index = i).hash]
  BY NewLinksCounted DEF BlockListOf
<1>3. ASSUME NEW i \in 1 .. Len(BlocksOf(r))
      PROVE  (CHOOSE l \in links : l.version = r /\ l.index = i).hash = BlocksOf(r)[i]
  <2>1. \E l \in links : l.version = r /\ l.index = i
    <3>1. [version |-> r, index |-> i, hash |-> BlocksOf(r)[i]] \in NewLinks(r)
      BY <1>1 DEF NewLinks
    <3> QED BY <3>1
  <2>2. \A l \in links : l.version = r /\ l.index = i => l.hash = BlocksOf(r)[i]
    BY DEF NewLinks
  <2> QED BY <2>1, <2>2
<1>4. BlocksOf(r) = [i \in 1 .. Len(BlocksOf(r)) |-> BlocksOf(r)[i]]
  BY <1>1
<1> QED BY <1>2, <1>3, <1>4

\* The mapped history has, at n, the list of the version numbered n.
HistoryReads ==
  \A f \in Files :
    /\ HistoryOf(f) \in Seq(BlockLists)
    /\ Len(HistoryOf(f)) = Cardinality(VersionsOf(f))
    /\ \A v \in VersionsOf(f) :
         /\ v.number \in 1 .. Cardinality(VersionsOf(f))
         /\ HistoryOf(f)[v.number] = BlocksOf(v.id)

\* The tables determine the mapped history.
LEMMA HistoryAt ==
  ASSUME TypeOK, VersionsNumberedConsecutively, HInv
  PROVE  HistoryReads
<1> SUFFICES ASSUME NEW f \in Files
             PROVE  /\ HistoryOf(f) \in Seq(BlockLists)
                    /\ Len(HistoryOf(f)) = Cardinality(VersionsOf(f))
                    /\ \A v \in VersionsOf(f) :
                         /\ v.number \in 1 .. Cardinality(VersionsOf(f))
                         /\ HistoryOf(f)[v.number] = BlocksOf(v.id)
  BY DEF HistoryReads
<1> DEFINE n == Cardinality(VersionsOf(f))
           At(i) == CHOOSE v \in VersionsOf(f) : v.number = i
<1>1. n \in Nat /\ {v.number : v \in VersionsOf(f)} = 1 .. n
  BY FS_CardinalityType DEF HInv, NumbersFill
<1>2. \A i \in 1 .. n : At(i) \in VersionsOf(f) /\ At(i).number = i
  BY <1>1
<1>3. \A v \in VersionsOf(f) : v.number \in 1 .. n /\ At(v.number) = v
  BY <1>1, <1>2 DEF VersionsNumberedConsecutively
<1>4. \A v \in VersionsOf(f) :
        v.id \in Requests /\ BlockListOf(v.id) = BlocksOf(v.id) /\ BlocksOf(v.id) \in BlockLists
  BY BlockListIsRequested
     DEF HInv, CommittedVersions, VersionsOf, TypeOK, VersionRow, BlocksOf
<1>5. HistoryOf(f) = [i \in 1 .. n |-> BlockListOf(At(i).id)]
  BY DEF HistoryOf
<1>6. HistoryOf(f) \in [1 .. n -> BlockLists]
  BY <1>2, <1>4, <1>5
<1>7. HistoryOf(f) \in Seq(BlockLists) /\ Len(HistoryOf(f)) = n
  BY <1>1, <1>6
<1>8. \A v \in VersionsOf(f) : HistoryOf(f)[v.number] = BlocksOf(v.id)
  BY <1>3, <1>4, <1>5
<1> QED BY <1>1, <1>3, <1>7, <1>8

\* They do so after every step, too.
LEMMA HistoryAtNext ==
  (TypeOK /\ VersionsNumberedConsecutively /\ HInv => HistoryReads)'
<1>1. TypeOK /\ VersionsNumberedConsecutively /\ HInv => HistoryReads
  BY HistoryAt
<1> QED BY <1>1, PTL

\* Nothing that the mapping reads is touched: nothing of the history changes.
LEMMA SameHistory ==
  ASSUME UNCHANGED <<versions, links>>
  PROVE  \A f \in Files : HistoryOf(f)' = HistoryOf(f)
BY DEF HistoryOf, BlockListOf, VersionsOf

-----------------------------------------------------------------------------
(* The invariant is inductive, relative to IInv and RInv.                  *)

LEMMA InitHistory == Init => HInv
<1> SUFFICES ASSUME Init PROVE HInv
  OBVIOUS
<1>1. CommittedVersions
  BY DEF Init, CommittedVersions
<1>2. NumbersFill
  <2>1. \A f \in Files : VersionsOf(f) = {}
    BY DEF Init, VersionsOf
  <2>2. IsFiniteSet({}) /\ Cardinality({}) = 0
    BY FS_EmptySet
  <2> QED BY <2>1, <2>2 DEF NumbersFill
<1>3. LinkedBlocks
  BY DEF Init, LinkedBlocks
<1> QED BY <1>1, <1>2, <1>3 DEF HInv

\* A step that commits nothing leaves every version as it is.
LEMMA VersionsStay ==
  ASSUME TypeOK, CommittedVersions, NumbersFill, UNCHANGED <<versions, links, req>>,
         \A r \in Requests : pc[r] = "done" => pc'[r] = "done"
  PROVE  CommittedVersions' /\ NumbersFill'
<1>1. \A r : NewLinks(r)' = NewLinks(r)
  BY DEF NewLinks, BlocksOf
<1>2. CommittedVersions'
  BY <1>1 DEF CommittedVersions, TypeOK, VersionRow
<1>3. NumbersFill'
  BY DEF NumbersFill, VersionsOf
<1> QED BY <1>2, <1>3

\* The loops of a transaction: what the first one has found is still there
\* when the second one has ended.
LEMMA LinkedByLoops ==
  ASSUME TypeOK, LinkedBlocks, NEW r \in Requests, LinkBlock(r) \/ IncrementRef(r)
  PROVE  LinkedBlocks'
<1>1. /\ UNCHANGED <<rows, req>>
      /\ \A s : BlocksOf(s)' = BlocksOf(s)
  BY DEF LinkBlock, IncrementRef, tables, BlocksOf
<1>2. /\ Len(BlocksOf(r)) \in Nat
      /\ DOMAIN BlocksOf(r) = 1 .. Len(BlocksOf(r))
      /\ idx[r] \in 1 .. Len(BlocksOf(r))
  BY BlockListPositions DEF TypeOK, BlocksOf
<1>3. CASE LinkBlock(r)
  <2>1. \A i \in 1 .. idx[r] : BlocksOf(r)[i] \in rows
    BY <1>2, <1>3 DEF LinkBlock, NextHash, LinkedBlocks
  <2>2. CASE idx[r] < Len(BlocksOf(r))
    <3>1. idx' = [idx EXCEPT ![r] = idx[r] + 1] /\ pc' = pc /\ pc[r] = "link"
      BY <1>3, <2>2 DEF LinkBlock, Turn
    <3> QED BY <1>1, <1>2, <2>1, <3>1 DEF LinkedBlocks, TypeOK, Waiting
  <2>3. CASE ~(idx[r] < Len(BlocksOf(r)))
    <3>1. idx' = [idx EXCEPT ![r] = 1] /\ pc' = [pc EXCEPT ![r] = "incr"]
      BY <1>3, <2>3 DEF LinkBlock, Turn, Goto
    <3> QED BY <1>1, <1>2, <2>1, <2>3, <3>1 DEF LinkedBlocks, TypeOK, Waiting
  <2> QED BY <2>2, <2>3
<1>4. CASE IncrementRef(r)
  <2>1. /\ pc[r] = "incr"
        /\ pc' = pc \/ pc' = [pc EXCEPT ![r] = "commit"]
        /\ \A s \in Requests \ {r} : idx'[s] = idx[s]
    BY <1>4 DEF IncrementRef, Turn, Goto, TypeOK
  <2> QED BY <1>1, <2>1 DEF LinkedBlocks, TypeOK, Waiting
<1> QED BY <1>3, <1>4

\* The other steps of a request start no loop in the middle.
LEMMA LinkedByOthers ==
  ASSUME TypeOK, LinkedBlocks, NEW r \in Requests, UNCHANGED <<rows, req, idx>>,
         \/ /\ pc[r] \in Waiting
            /\ \E l \in Waiting \cup {"max"} : pc' = [pc EXCEPT ![r] = l]
         \/ pc[r] = "max" /\ pc' = [pc EXCEPT ![r] = "link"]
         \/ \E l \in Finished : pc' = [pc EXCEPT ![r] = l]
  PROVE  LinkedBlocks'
<1>1. \A s : BlocksOf(s)' = BlocksOf(s)
  BY DEF BlocksOf
<1> QED BY <1>1 DEF LinkedBlocks, TypeOK, Waiting, Finished

\* The version a COMMIT adds is the next one of its file, and has its links.
LEMMA CommittedAfterCommit ==
  ASSUME IInv, RInv, HInv, NEW r \in Requests, Commit(r)
  PROVE  /\ CommittedVersions' /\ NumbersFill'
         /\ \E new \in VersionRow :
              /\ new.id = r
              /\ new.file = FileOf(r)
              /\ new.number = Cardinality(VersionsOf(FileOf(r))) + 1
              /\ VersionsOf(FileOf(r))' = VersionsOf(FileOf(r)) \cup {new}
         /\ Cardinality(VersionsOf(FileOf(r)))' = Cardinality(VersionsOf(FileOf(r))) + 1
         /\ \A g \in Files \ {FileOf(r)} : VersionsOf(g)' = VersionsOf(g)
<1>t. TypeOK
  BY DEF IInv
<1>f. PICK f \in Files : f = FileOf(r)
  BY <1>t DEF TypeOK, FileOf
<1>n. PICK new \in VersionRow : new = [id |-> r, file |-> f, number |-> nextVer[r]]
  BY <1>t DEF TypeOK, VersionRow
<1>1. /\ versions' = versions \cup {new}
      /\ links' = links \cup NewLinks(r)
      /\ pc[r] = "commit" /\ pc' = [pc EXCEPT ![r] = "done"]
      /\ req' = req
  BY <1>f, <1>n DEF Commit, Goto
<1>2. new.id = r /\ new.file = f /\ new.number = nextVer[r]
  BY <1>n
<1>3. /\ VersionsOf(f)' = VersionsOf(f) \cup {new}
      /\ \A g \in Files \ {f} : VersionsOf(g)' = VersionsOf(g)
  BY <1>1, <1>2 DEF VersionsOf
<1>4. new.number >= 1 /\ IsNextNumber(f, new.number)
  BY <1>f, <1>1, <1>2 DEF IInv, NextNumberHeld, HasNumber
<1> DEFINE n == Cardinality(VersionsOf(f))
<1>5. /\ IsFiniteSet(VersionsOf(f)) /\ n \in Nat
      /\ {v.number : v \in VersionsOf(f)} = 1 .. n
  BY FS_CardinalityType DEF HInv, NumbersFill
<1>6. new.number = n + 1
  <2>1. new.number \in Nat
    BY DEF VersionRow
  <2>2. \A i \in 1 .. n : i < new.number
    BY <1>4, <1>5 DEF IsNextNumber
  <2>3. new.number = 1 \/ new.number - 1 \in 1 .. n
    BY <1>4, <1>5 DEF IsNextNumber
  <2> QED BY <1>5, <2>1, <2>2, <2>3
<1>7. new \notin VersionsOf(f)
  BY <1>5, <1>6
<1>8. IsFiniteSet(VersionsOf(f)') /\ Cardinality(VersionsOf(f)') = n + 1
  BY <1>3, <1>5, <1>7, FS_AddElement
<1>9. {v.number : v \in VersionsOf(f)'} = 1 .. (n + 1)
  <2>1. {v.number : v \in VersionsOf(f)'} = (1 .. n) \cup {n + 1}
    BY <1>3, <1>5, <1>6
  <2> QED BY <1>5, <2>1
<1>10. NumbersFill'
  <2> SUFFICES ASSUME NEW g \in Files
               PROVE  /\ IsFiniteSet(VersionsOf(g)')
                      /\ {v.number : v \in VersionsOf(g)'} = 1 .. Cardinality(VersionsOf(g)')
    BY DEF NumbersFill
  <2>1. CASE g = f
    BY <1>8, <1>9, <2>1
  <2>2. CASE g # f
    BY <1>3, <2>2 DEF HInv, NumbersFill
  <2> QED BY <2>1, <2>2
<1>11. CommittedVersions'
  <2>1. \A s : NewLinks(s)' = NewLinks(s)
    BY <1>1 DEF NewLinks, BlocksOf
  <2>2. \A l \in links : l.version # r
    BY <1>1 DEF RInv, LinksOfCommitted
  <2>3. \A l \in NewLinks(r) : l.version = r
    BY DEF NewLinks
  <2>4. \A v \in versions : v.id \in Requests /\ v.id # r
    BY <1>t, <1>1 DEF HInv, CommittedVersions, TypeOK, VersionRow
  <2>5. \A v \in versions : pc'[v.id] = "done" /\ {l \in links' : l.version = v.id} = NewLinks(v.id)
    BY <1>t, <1>1, <2>3, <2>4 DEF HInv, CommittedVersions, TypeOK
  <2>6. pc'[r] = "done" /\ {l \in links' : l.version = r} = NewLinks(r)
    BY <1>t, <1>1, <2>2, <2>3 DEF TypeOK
  <2> QED BY <1>1, <1>2, <2>1, <2>5, <2>6 DEF CommittedVersions
<1>12. VersionsOf(FileOf(r))' = VersionsOf(f)'
  BY <1>f, <1>1 DEF FileOf, VersionsOf
<1> QED BY <1>f, <1>2, <1>3, <1>6, <1>8, <1>10, <1>11, <1>12

\* Every step keeps the invariant.
LEMMA HistoryStep ==
  ASSUME IInv, RInv, HInv, [Next]_vars
  PROVE  HInv'
<1> USE DEF HInv
<1>t. TypeOK
  BY DEF IInv
<1>1. ASSUME NEW r \in Requests, Commit(r) PROVE HInv'
  <2>1. /\ UNCHANGED <<rows, req, idx>>
        /\ pc' = [pc EXCEPT ![r] = "done"]
    BY <1>1 DEF Commit, Goto
  <2>2. LinkedBlocks'
    BY <1>t, <2>1, LinkedByOthers DEF Finished
  <2> QED BY <1>1, <2>2, CommittedAfterCommit
<1>2. ASSUME NEW r \in Requests, LinkBlock(r) \/ IncrementRef(r) PROVE HInv'
  <2>1. UNCHANGED <<versions, links, req>> /\ pc[r] # "done"
    BY <1>2 DEF LinkBlock, IncrementRef, tables
  <2>2. \A s \in Requests : pc[s] = "done" => pc'[s] = "done"
    BY <1>t, <1>2, <2>1 DEF LinkBlock, IncrementRef, Turn, Goto, TypeOK
  <2> QED BY <1>t, <1>2, <2>1, <2>2, VersionsStay, LinkedByLoops
<1>3. ASSUME NEW r \in Requests,
             \/ Lookup(r) \/ Authorize(r) \/ LockFile(r) \/ ReadMax(r)
             \/ UnknownBlock(r) \/ StatementFails(r) \/ DeadlockVictim(r)
      PROVE  HInv'
  <2>1. UNCHANGED <<versions, links, rows, req, idx>> /\ pc[r] # "done"
    BY <1>3 DEF Lookup, Authorize, LockFile, ReadMax, UnknownBlock, StatementFails,
         DeadlockVictim, Rollback, tables, Finished, InCycle, IsBlocked
  <2>2. \/ /\ pc[r] \in Waiting
           /\ \E l \in Waiting \cup {"max"} : pc' = [pc EXCEPT ![r] = l]
        \/ pc[r] = "max" /\ pc' = [pc EXCEPT ![r] = "link"]
        \/ \E l \in Finished : pc' = [pc EXCEPT ![r] = l]
    BY <1>3 DEF Lookup, Authorize, LockFile, ReadMax, UnknownBlock, StatementFails,
         DeadlockVictim, Rollback, Goto, Waiting, Finished
  <2>3. \A s \in Requests : pc[s] = "done" => pc'[s] = "done"
    BY <1>t, <2>1, <2>2 DEF TypeOK
  <2> QED BY <1>t, <2>1, <2>2, <2>3, VersionsStay, LinkedByOthers
<1>4. CASE \/ \E h \in Hashes : UploadBlock(h)
           \/ \E f \in Files : DeleteFile(f)
           \/ Idle
           \/ UNCHANGED vars
  <2>1. UNCHANGED <<versions, links, req, pc, idx>> /\ rows \subseteq rows'
    BY <1>4 DEF UploadBlock, DeleteFile, Idle, vars, tables, locals
  <2>2. LinkedBlocks'
    BY <2>1 DEF LinkedBlocks, BlocksOf
  <2> QED BY <1>t, <2>1, <2>2, VersionsStay
<1> QED BY <1>1, <1>2, <1>3, <1>4 DEF Next, Statement

-----------------------------------------------------------------------------
(* The refinement, step by step.                                           *)

\* COMMIT is CommitVersion: one list appended, and all its blocks uploaded.
LEMMA CommitRefines ==
  ASSUME IInv, RInv, HInv, NEW r \in Requests, Commit(r)
  PROVE  History!CommitVersion(FileOf(r), BlocksOf(r))
<1>t. TypeOK /\ VersionsNumberedConsecutively
  BY DEF IInv
<1>f. PICK f \in Files : f = FileOf(r)
  BY <1>t DEF TypeOK, FileOf
<1>b. PICK blocks \in BlockLists : blocks = BlocksOf(r)
  BY <1>t DEF TypeOK, BlocksOf
<1>1. TypeOK' /\ VersionsNumberedConsecutively' /\ HInv'
  BY CommitStep, HistoryStep DEF Next, Statement, IInv
<1>2. UNCHANGED <<deleted, rows, req>> /\ pc[r] = "commit"
  BY DEF Commit
<1>3. \A s : BlocksOf(s)' = BlocksOf(s)
  BY <1>2 DEF BlocksOf
<1>4. PICK new \in VersionRow :
        /\ new.id = r
        /\ new.number = Cardinality(VersionsOf(f)) + 1
        /\ VersionsOf(f)' = VersionsOf(f) \cup {new}
        /\ Cardinality(VersionsOf(f)') = Cardinality(VersionsOf(f)) + 1
        /\ \A g \in Files \ {f} : VersionsOf(g)' = VersionsOf(g)
  <2>1. VersionsOf(FileOf(r))' = VersionsOf(f)'
    BY <1>f, <1>2 DEF FileOf, VersionsOf
  <2> QED BY <1>f, <2>1, CommittedAfterCommit
<1>5. HistoryReads /\ HistoryReads'
  BY <1>t, <1>1, HistoryAt, HistoryAtNext
<1>6. ASSUME NEW g \in Files, g # f
      PROVE  HistoryOf(g)' = HistoryOf(g)
  <2>1. /\ VersionsOf(g)' = VersionsOf(g)
        /\ {v.number : v \in VersionsOf(g)} = 1 .. Cardinality(VersionsOf(g))
    BY <1>4, <1>6 DEF HInv, NumbersFill
  <2>2. /\ HistoryOf(g) \in Seq(BlockLists) /\ HistoryOf(g)' \in Seq(BlockLists)
        /\ Len(HistoryOf(g)) = Len(HistoryOf(g)')
        /\ Len(HistoryOf(g)) = Cardinality(VersionsOf(g))
    BY <1>5, <2>1 DEF HistoryReads
  <2>3. \A v \in VersionsOf(g) : HistoryOf(g)[v.number] = HistoryOf(g)'[v.number]
    BY <1>3, <1>5, <2>1 DEF HistoryReads
  <2>4. \A i \in 1 .. Len(HistoryOf(g)) : HistoryOf(g)[i] = HistoryOf(g)'[i]
    BY <2>1, <2>2, <2>3
  <2> QED BY <2>2, <2>4, SeqEqual
<1>7. HistoryOf(f)' = Append(HistoryOf(f), blocks)
  <2> DEFINE n == Cardinality(VersionsOf(f))
  <2>1. /\ HistoryOf(f) \in Seq(BlockLists) /\ HistoryOf(f)' \in Seq(BlockLists)
        /\ Len(HistoryOf(f)) = n
        /\ Len(HistoryOf(f)') = n + 1
    BY <1>4, <1>5 DEF HistoryReads
  <2>2. n \in Nat /\ {v.number : v \in VersionsOf(f)} = 1 .. n
    BY FS_CardinalityType DEF HInv, NumbersFill
  <2>3. \A v \in VersionsOf(f) : HistoryOf(f)'[v.number] = HistoryOf(f)[v.number]
    BY <1>3, <1>4, <1>5 DEF HistoryReads
  <2>4. HistoryOf(f)'[n + 1] = blocks
    BY <1>b, <1>3, <1>4, <1>5 DEF HistoryReads
  <2>5. /\ Append(HistoryOf(f), blocks) \in Seq(BlockLists)
        /\ Len(Append(HistoryOf(f), blocks)) = n + 1
        /\ \A i \in 1 .. n : Append(HistoryOf(f), blocks)[i] = HistoryOf(f)[i]
        /\ Append(HistoryOf(f), blocks)[n + 1] = blocks
    BY <2>1, <2>2, AppendProperties
  <2>6. \A i \in 1 .. n + 1 : HistoryOf(f)'[i] = Append(HistoryOf(f), blocks)[i]
    BY <2>1, <2>2, <2>3, <2>4, <2>5
  <2> QED BY <2>1, <2>2, <2>5, <2>6, SeqEqual
<1>8. \A i \in DOMAIN blocks : blocks[i] \in rows
  BY <1>b, <1>2 DEF HInv, LinkedBlocks
<1> QED BY <1>f, <1>b, <1>2, <1>6, <1>7, <1>8 DEF History!CommitVersion

\* All the other statements are uploads, removals, or invisible.
LEMMA StepRefines ==
  ASSUME IInv, RInv, HInv, [Next]_vars
  PROVE  [History!Next]_(History!vars)
<1>1. ASSUME NEW r \in Requests, Commit(r) PROVE History!Next
  <2>1. FileOf(r) \in Files /\ BlocksOf(r) \in BlockLists
    BY DEF IInv, TypeOK, FileOf, BlocksOf
  <2> QED BY <1>1, <2>1, CommitRefines DEF History!Next
<1>2. ASSUME NEW h \in Hashes, UploadBlock(h) PROVE History!Next
  <2>1. /\ rows' = rows \cup {h} /\ deleted' = deleted
        /\ \A f \in Files : HistoryOf(f)' = HistoryOf(f)
    BY <1>2, SameHistory DEF UploadBlock
  <2>2. History!UploadBlock(h)
    BY <2>1 DEF History!UploadBlock
  <2> QED BY <2>2 DEF History!Next
<1>3. ASSUME NEW f \in Files, DeleteFile(f) PROVE History!Next
  <2>1. /\ f \notin deleted /\ deleted' = deleted \cup {f} /\ rows' = rows
        /\ \A g \in Files : HistoryOf(g)' = HistoryOf(g)
    BY <1>3, SameHistory DEF DeleteFile
  <2>2. History!RemoveFile(f)
    BY <2>1 DEF History!RemoveFile
  <2> QED BY <2>2 DEF History!Next
<1>4. CASE \/ \E r \in Requests :
                \/ Lookup(r) \/ Authorize(r) \/ LockFile(r) \/ ReadMax(r)
                \/ LinkBlock(r) \/ IncrementRef(r)
                \/ UnknownBlock(r) \/ StatementFails(r) \/ DeadlockVictim(r)
           \/ Idle
           \/ UNCHANGED vars
  <2>1. UNCHANGED <<deleted, rows, versions, links>>
    BY <1>4 DEF Lookup, Authorize, LockFile, ReadMax, LinkBlock, IncrementRef, UnknownBlock,
         StatementFails, DeadlockVictim, Rollback, Idle, vars, tables
  <2>2. \A f \in Files : HistoryOf(f)' = HistoryOf(f)
    BY <2>1, SameHistory
  <2> QED BY <2>1, <2>2 DEF History!vars
<1> QED BY <1>1, <1>2, <1>3, <1>4 DEF Next, Statement

\* The invariant behind the mapping holds in every reachable state.
THEOREM HistoryInvariance == Spec => []HInv
<1>1. Init => HInv
  BY InitHistory
<1>2. IInv /\ RInv /\ HInv /\ [Next]_vars => HInv'
  BY HistoryStep
<1> QED BY <1>1, <1>2, Invariance, CountsInvariance, PTL DEF Spec

\* The interleaved statements of any number of commits, uploads and removals
\* look like atomic commits: each appends one whole version to one file,
\* rewrites none and names only uploaded blocks.
THEOREM Refinement == Spec => ImplementsHistory
<1>1. Init => History!Init
  <2> SUFFICES ASSUME Init PROVE History!Init
    OBVIOUS
  <2>1. \A f \in Files : VersionsOf(f) = {}
    BY DEF Init, VersionsOf
  <2>2. \A f \in Files : HistoryOf(f) = <<>>
    <3>1. Cardinality({}) = 0
      BY FS_EmptySet
    <3> QED BY <2>1, <3>1 DEF HistoryOf
  <2> QED BY <2>2 DEF Init, History!Init
<1>2. IInv /\ RInv /\ HInv /\ [Next]_vars => [History!Next]_(History!vars)
  BY StepRefines
<1> QED
  BY <1>1, <1>2, Invariance, CountsInvariance, HistoryInvariance, PTL
     DEF Spec, ImplementsHistory, History!Spec
=============================================================================
