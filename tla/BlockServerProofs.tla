------------------------- MODULE BlockServerProofs -------------------------
(***************************************************************************)
(* Proofs that the Block Server, as it is deployed, counts every upload it *)
(* answers and keeps every block that has a row, whatever uploads of a     *)
(* block overlap and wherever they fail; for any blocks and calls, on      *)
(* either backend.                                                         *)
(***************************************************************************)
EXTENDS BlockServer, FiniteSetTheorems, TLAPS

(***************************************************************************)
(* The inductive invariant.  An upload may be counted for good only if its *)
(* row cannot go away again.  Nothing in an upload says so: it holds since *)
(* the collector has nothing to collect as long as every row counts at     *)
(* least 1, and every row does as long as nothing is released.             *)
(***************************************************************************)

\* The collector has found nothing, and will not.
NothingToCollect ==
  /\ doomed = {}
  /\ \A h \in rows : refs[h] >= 1

\* Whoever is about to insert or to count a row has left, or seen, a file.
FilesBeforeRows ==
  /\ \A h \in rows : disk[h] # "absent"
  /\ \A c \in Calls : pc[c] \in {"write", "insert"} => disk[hash[c]] # "absent"

\* Whoever has truncated a file is still at it, or has failed.
DamageHasCause == \A h \in Hashes : disk[h] = "partial" => MayBeDamaged(h)

\* An upload takes none of the steps of a download.
UploadPaths == \A c \in Uploads : pc[c] \in UploadSteps \cup {"done", "failed"}

\* What a call has found in the table is still there.
FoundRows ==
  \A c \in Calls : pc[c] \in {"increment", "exists", "read", "send"} => hash[c] \in rows

\* No download has missed a file on the local backend.
NoneMissing ==
  backend = "local" => \A c \in Reads : pc[c] # "missing"

\* The uploads of a block whose statement has been executed and which have
\* not failed since.
CountedUploads(h) ==
  {c \in Uploads : hash[c] = h /\ pc[c] \in {"answer", "done"}}

\* They are finitely many, and the row counts each of them.
UploadsCounted ==
  \A h \in Hashes :
    /\ IsFiniteSet(CountedUploads(h))
    /\ refs[h] >= Cardinality(CountedUploads(h))
    /\ CountedUploads(h) # {} => h \in rows

Deployed ==
  /\ UploadPaths
  /\ NothingToCollect
  /\ FilesBeforeRows
  /\ DamageHasCause
  /\ FoundRows
  /\ NoneMissing
  /\ UploadsCounted

IInv == TypeOK /\ (NothingReleased => Deployed)

-----------------------------------------------------------------------------
(* Types.                                                                  *)

\* Counts stay natural numbers, and every variable keeps its type.
LEMMA InitTyped == Init => TypeOK
BY ReleasesAssumption DEF Init, TypeOK, Calls, UploadSteps, ReadSteps

LEMMA StepTyped ==
  ASSUME TypeOK, [Next]_vars
  PROVE  TypeOK'
<1> USE DEF TypeOK, db, calls, collector, Goto
<1>1. ASSUME NEW c \in Uploads, Upload(c) PROVE TypeOK'
  <2> c \in Calls
    BY DEF Calls
  <2>1. CASE Lookup(c)
    BY <2>1 DEF Lookup, UploadSteps
  <2>2. CASE Increment(c)
    BY <2>2 DEF Increment, UploadSteps
  <2>3. CASE OpenFile(c)
    BY <2>3 DEF OpenFile, UploadSteps
  <2>4. CASE WriteBytes(c)
    BY <2>4 DEF WriteBytes, UploadSteps
  <2>5. CASE PutObject(c)
    BY <2>5 DEF PutObject, UploadSteps
  <2>6. CASE Insert(c)
    BY <2>6 DEF Insert, UploadSteps
  <2>7. CASE Answer(c)
    BY <2>7 DEF Answer, Finished
  <2> QED BY <1>1, <2>1, <2>2, <2>3, <2>4, <2>5, <2>6, <2>7 DEF Upload
<1>2. ASSUME NEW c \in Reads, FindRow(c) \/ ReadFile(c) \/ SendFile(c) PROVE TypeOK'
  <2> c \in Calls
    BY DEF Calls
  <2>1. CASE FindRow(c)
    BY <2>1 DEF FindRow, ReadSteps, Finished
  <2>2. disk[hash[c]] \in {"absent", "partial", "whole"}
    OBVIOUS
  <2>3. Outcome(disk[hash[c]]) \in Finished
    BY <2>2 DEF Outcome, Finished
  <2>4. CASE ReadFile(c)
    BY <2>3, <2>4 DEF ReadFile, ReadSteps
  <2>5. CASE SendFile(c)
    BY <2>3, <2>5 DEF SendFile, Finished
  <2> QED BY <1>2, <2>1, <2>4, <2>5
<1>3. ASSUME NEW c \in Calls, Fail(c) PROVE TypeOK'
  BY <1>3 DEF Fail, Finished
<1>4. CASE CollectRows
  BY <1>4 DEF CollectRows
<1>5. ASSUME NEW h \in Hashes, CollectFile(h) PROVE TypeOK'
  BY <1>5 DEF CollectFile
<1>6. ASSUME NEW h \in Hashes, Release(h) PROVE TypeOK'
  BY <1>6, ReleasesAssumption DEF Release
<1>7. CASE CollectorRestarts
  BY <1>7 DEF CollectorRestarts
<1>8. CASE UNCHANGED vars
  BY <1>8 DEF vars
<1> QED BY <1>1, <1>2, <1>3, <1>4, <1>5, <1>6, <1>7, <1>8 DEF Next, Idle

-----------------------------------------------------------------------------
(* The deployed system.                                                    *)

\* Before the first call there is nothing to count.
LEMMA InitDeployed == Init => Deployed
<1> SUFFICES ASSUME Init PROVE Deployed
  OBVIOUS
<1>1. /\ rows = {}
      /\ doomed = {}
      /\ refs = [h \in Hashes |-> 0]
      /\ \A c \in Calls : pc[c] \in {"lookup", "find"}
  BY DEF Init
<1>2. \A h \in Hashes : CountedUploads(h) = {}
  BY <1>1 DEF CountedUploads, Calls
<1>3. UploadsCounted
  BY <1>1, <1>2, FS_EmptySet DEF UploadsCounted
<1>4. NoneMissing
  BY <1>1 DEF NoneMissing, Calls
<1>5. UploadPaths /\ DamageHasCause
  BY DEF Init, UploadPaths, DamageHasCause, UploadSteps, Calls
<1> QED
  BY <1>1, <1>3, <1>4, <1>5
     DEF Deployed, NothingToCollect, FilesBeforeRows, FoundRows

\* The counted uploads of a block grow by the one call that is counted.
LEMMA CountedAfterStatement ==
  ASSUME TypeOK, UploadsCounted, NEW c \in Uploads, hash' = hash,
         pc[c] \in {"increment", "insert"}, pc' = [pc EXCEPT ![c] = "answer"],
         rows' = rows \cup {hash[c]},
         \/ refs' = [refs EXCEPT ![hash[c]] = refs[hash[c]] + 1]
         \/ CountedUploads(hash[c]) = {} /\ refs' = [refs EXCEPT ![hash[c]] = 1]
  PROVE  UploadsCounted'
<1>1. c \in Calls /\ hash[c] \in Hashes
  BY DEF TypeOK, Calls
<1>2. /\ CountedUploads(hash[c])' = CountedUploads(hash[c]) \cup {c}
      /\ c \notin CountedUploads(hash[c])
  BY <1>1 DEF CountedUploads, TypeOK, Calls
<1>3. \A h \in Hashes \ {hash[c]} : CountedUploads(h)' = CountedUploads(h)
  BY <1>1 DEF CountedUploads, TypeOK, Calls
<1> SUFFICES ASSUME NEW h \in Hashes
             PROVE  /\ IsFiniteSet(CountedUploads(h)')
                    /\ refs'[h] >= Cardinality(CountedUploads(h)')
                    /\ CountedUploads(h)' # {} => h \in rows'
  BY DEF UploadsCounted
<1>4. CASE h # hash[c]
  BY <1>1, <1>3, <1>4 DEF UploadsCounted, TypeOK
<1>5. CASE h = hash[c]
  <2>1. IsFiniteSet(CountedUploads(h)) /\ refs[h] >= Cardinality(CountedUploads(h))
    BY DEF UploadsCounted
  <2>2. /\ IsFiniteSet(CountedUploads(h) \cup {c})
        /\ Cardinality(CountedUploads(h) \cup {c}) = Cardinality(CountedUploads(h)) + 1
        /\ Cardinality(CountedUploads(h)) \in Nat
    BY <1>2, <1>5, <2>1, FS_AddElement, FS_CardinalityType
  <2>3. refs'[h] >= Cardinality(CountedUploads(h)) + 1
    <3>1. CASE refs' = [refs EXCEPT ![hash[c]] = refs[hash[c]] + 1]
      BY <1>5, <2>1, <2>2, <3>1 DEF TypeOK
    <3>2. CASE CountedUploads(hash[c]) = {} /\ refs' = [refs EXCEPT ![hash[c]] = 1]
      BY <1>5, <2>2, <3>2, FS_EmptySet DEF TypeOK
    <3> QED BY <3>1, <3>2
  <2> QED BY <1>2, <1>5, <2>2, <2>3
<1> QED BY <1>4, <1>5

\* A step that counts no call and loses none that it does not fail.
LEMMA CountedAfterOther ==
  ASSUME TypeOK, UploadsCounted, UNCHANGED <<hash, rows, refs>>,
         \A d \in Uploads : pc'[d] \in {"answer", "done"} => pc[d] \in {"answer", "done"}
  PROVE  UploadsCounted'
<1> SUFFICES ASSUME NEW h \in Hashes
             PROVE  /\ IsFiniteSet(CountedUploads(h)')
                    /\ refs[h] >= Cardinality(CountedUploads(h)')
                    /\ CountedUploads(h)' # {} => h \in rows
  BY DEF UploadsCounted
<1>1. CountedUploads(h)' \subseteq CountedUploads(h)
  BY DEF CountedUploads
<1>2. /\ IsFiniteSet(CountedUploads(h))
      /\ refs[h] >= Cardinality(CountedUploads(h))
      /\ CountedUploads(h) # {} => h \in rows
  BY DEF UploadsCounted
<1>3. /\ IsFiniteSet(CountedUploads(h)')
      /\ Cardinality(CountedUploads(h)') <= Cardinality(CountedUploads(h))
  BY <1>1, <1>2, FS_Subset
<1>4. Cardinality(CountedUploads(h)) \in Nat /\ Cardinality(CountedUploads(h)') \in Nat
  BY <1>2, <1>3, FS_CardinalityType
<1> QED BY <1>1, <1>2, <1>3, <1>4 DEF TypeOK

\* The statements that count an upload: the row is there, or comes with it.
LEMMA StatementStep ==
  ASSUME TypeOK, NothingReleased, Deployed, NEW c \in Uploads,
         Increment(c) \/ Insert(c)
  PROVE  Deployed'
<1> USE DEF Deployed
<1>1. /\ c \in Calls
      /\ hash[c] \in Hashes
      /\ UNCHANGED <<backend, disk, hash, doomed>>
      /\ pc[c] \in {"increment", "insert"}
      /\ pc' = [pc EXCEPT ![c] = "answer"]
  BY DEF Increment, Insert, Goto, Calls, TypeOK, collector
<1>2. rows' = rows \cup {hash[c]}
  BY <1>1 DEF Increment, Insert, FoundRows
<1>3. \/ refs' = [refs EXCEPT ![hash[c]] = refs[hash[c]] + 1]
      \/ hash[c] \notin rows /\ refs' = [refs EXCEPT ![hash[c]] = 1]
  BY <1>1 DEF Increment, Insert, FoundRows
<1>4. \/ refs' = [refs EXCEPT ![hash[c]] = refs[hash[c]] + 1]
      \/ CountedUploads(hash[c]) = {} /\ refs' = [refs EXCEPT ![hash[c]] = 1]
  BY <1>1, <1>3 DEF UploadsCounted
<1>5. UploadsCounted'
  <2>1. UploadsCounted /\ hash' = hash
    BY <1>1
  <2> QED BY <1>1, <1>2, <1>4, <2>1, CountedAfterStatement
<1>6. NothingToCollect'
  BY <1>1, <1>2, <1>3 DEF NothingToCollect, TypeOK
<1>7. FilesBeforeRows'
  BY <1>1, <1>2 DEF FilesBeforeRows, FoundRows, TypeOK
<1>8. FoundRows' /\ NoneMissing'
  BY <1>1, <1>2 DEF FoundRows, NoneMissing, TypeOK, Calls
<1>9. UploadPaths'
  BY <1>1 DEF UploadPaths, UploadSteps, TypeOK
<1>10. DamageHasCause'
  BY <1>1 DEF DamageHasCause, MayBeDamaged, TypeOK, Calls
<1> QED BY <1>10, <1>5, <1>6, <1>7, <1>8, <1>9

\* The steps of an upload around its statement: no file is taken away.
LEMMA UploadStep ==
  ASSUME TypeOK, NothingReleased, Deployed, NEW c \in Uploads,
         Lookup(c) \/ OpenFile(c) \/ WriteBytes(c) \/ PutObject(c) \/ Answer(c)
  PROVE  Deployed'
<1> USE DEF Deployed
<1>1. /\ c \in Calls
      /\ hash[c] \in Hashes
      /\ UNCHANGED <<backend, rows, refs, hash, doomed>>
      /\ pc[c] \in {"lookup", "open", "write", "answer"}
      /\ \E next \in {"increment", "open", "write", "insert", "done"} :
           /\ pc' = [pc EXCEPT ![c] = next]
           /\ next = "increment" => hash[c] \in rows
           /\ next = "done" => pc[c] = "answer"
           /\ \/ next \notin {"write", "insert"} /\ disk' = disk
              \/ next = "write" /\ disk' = [disk EXCEPT ![hash[c]] = "partial"]
              \/ disk' = [disk EXCEPT ![hash[c]] = "whole"]
           /\ pc[c] = "write" => disk' = [disk EXCEPT ![hash[c]] = "whole"]
  BY DEF Lookup, OpenFile, WriteBytes, PutObject, Answer, Goto, Calls, TypeOK, db, collector
<1>2. UploadsCounted'
  BY <1>1, CountedAfterOther DEF TypeOK, Calls
<1>3. NothingToCollect'
  BY <1>1 DEF NothingToCollect
<1>4. FilesBeforeRows'
  BY <1>1 DEF FilesBeforeRows, TypeOK
<1>5. FoundRows' /\ NoneMissing'
  BY <1>1 DEF FoundRows, NoneMissing, TypeOK, Calls
<1>6. UploadPaths'
  BY <1>1 DEF UploadPaths, UploadSteps, TypeOK
<1>7. DamageHasCause'
  <2> SUFFICES ASSUME NEW h \in Hashes, disk'[h] = "partial" PROVE MayBeDamaged(h)'
    BY DEF DamageHasCause
  <2>1. CASE h = hash[c] /\ pc'[c] = "write"
    BY <1>1, <2>1 DEF MayBeDamaged
  <2>2. CASE ~(h = hash[c] /\ pc'[c] = "write")
    <3>1. disk[h] = "partial" /\ ~(h = hash[c] /\ pc[c] = "write")
      BY <1>1, <2>2 DEF TypeOK
    <3>2. PICK d \in Uploads : hash[d] = h /\ pc[d] \in {"write", "failed"}
      BY <3>1 DEF DamageHasCause, MayBeDamaged
    <3>3. d # c
      BY <1>1, <3>1, <3>2
    <3>4. pc'[d] = pc[d] /\ hash'[d] = h
      BY <1>1, <3>2, <3>3 DEF TypeOK, Calls
    <3> QED BY <3>2, <3>4 DEF MayBeDamaged
  <2> QED BY <2>1, <2>2
<1> QED BY <1>2, <1>3, <1>4, <1>5, <1>6, <1>7

\* A download that has found the row finds the file.
LEMMA ReadStep ==
  ASSUME TypeOK, NothingReleased, Deployed, NEW c \in Reads,
         FindRow(c) \/ ReadFile(c) \/ SendFile(c)
  PROVE  Deployed'
<1> USE DEF Deployed
<1>1. /\ c \in Calls
      /\ hash[c] \in Hashes
      /\ UNCHANGED <<backend, rows, refs, disk, hash, doomed>>
  BY DEF FindRow, ReadFile, SendFile, Calls, TypeOK, db, collector
<1>2. pc[c] # "find" => disk[hash[c]] \in {"partial", "whole"}
  BY <1>1 DEF FindRow, ReadFile, SendFile, FilesBeforeRows, FoundRows, TypeOK
<1>3. pc[c] # "find" => Outcome(disk[hash[c]]) \in {"damaged", "done"}
  BY <1>2 DEF Outcome
<1>4. PICK next \in ReadSteps \cup Finished :
        /\ pc' = [pc EXCEPT ![c] = next]
        /\ next \in {"exists", "read", "send"} => hash[c] \in rows
        /\ next = "missing" => backend # "local"
        /\ next # "find"
  <2>1. CASE FindRow(c)
    BY <2>1 DEF FindRow, Goto, ReadSteps, Finished
  <2>2. CASE ReadFile(c)
    BY <1>1, <1>3, <2>2 DEF ReadFile, Goto, ReadSteps, Finished, FoundRows
  <2>3. CASE SendFile(c)
    BY <1>3, <2>3 DEF SendFile, Goto, ReadSteps, Finished
  <2> QED BY <2>1, <2>2, <2>3
<1>5. c \notin Uploads
  BY DEF FindRow, ReadFile, SendFile, UploadPaths, UploadSteps
<1>6. UploadsCounted'
  BY <1>1, <1>4, <1>5, CountedAfterOther DEF TypeOK
<1>7. NothingToCollect' /\ FilesBeforeRows'
  BY <1>1, <1>4 DEF NothingToCollect, FilesBeforeRows, TypeOK, ReadSteps, Finished
<1>8. FoundRows' /\ NoneMissing'
  BY <1>1, <1>4 DEF FoundRows, NoneMissing, TypeOK, Calls, ReadSteps, Finished
<1>9. UploadPaths'
  BY <1>4, <1>5 DEF UploadPaths, TypeOK
<1>10. DamageHasCause'
  BY <1>1, <1>4, <1>5 DEF DamageHasCause, MayBeDamaged, TypeOK
<1> QED BY <1>10, <1>6, <1>7, <1>8, <1>9

\* A call that fails leaves what it has done, and is no longer counted on.
LEMMA FailStep ==
  ASSUME TypeOK, NothingReleased, Deployed, NEW c \in Calls, Fail(c)
  PROVE  Deployed'
<1> USE DEF Deployed
<1>1. /\ UNCHANGED <<backend, rows, refs, disk, hash, doomed>>
      /\ pc' = [pc EXCEPT ![c] = "failed"]
  BY DEF Fail, Goto, db, collector
<1>2. UploadsCounted'
  BY <1>1, CountedAfterOther DEF TypeOK, Calls
<1>3. NothingToCollect' /\ FilesBeforeRows'
  BY <1>1 DEF NothingToCollect, FilesBeforeRows, TypeOK
<1>4. FoundRows' /\ NoneMissing' /\ UploadPaths'
  BY <1>1 DEF FoundRows, NoneMissing, UploadPaths, TypeOK, Calls
<1>5. DamageHasCause'
  BY <1>1 DEF DamageHasCause, MayBeDamaged, TypeOK, Calls
<1> QED BY <1>2, <1>3, <1>4, <1>5

\* The invariant of the deployed system, once nothing stays released.
LEMMA InvariantStep ==
  ASSUME IInv, [Next]_vars
  PROVE  IInv'
<1>1. TypeOK /\ TypeOK'
  BY StepTyped DEF IInv
<1> SUFFICES ASSUME NothingReleased' PROVE Deployed'
  BY <1>1 DEF IInv
<1>2. NothingReleased
  BY <1>1 DEF Next, Upload, Lookup, Increment, OpenFile, WriteBytes, PutObject,
       Insert, Answer, FindRow, ReadFile, SendFile, Fail, CollectRows, CollectFile,
       Release, CollectorRestarts, Idle, vars, collector, NothingReleased, TypeOK
<1>3. Deployed
  BY <1>2 DEF IInv
<1>4. ASSUME NEW c \in Uploads, Upload(c) PROVE Deployed'
  BY <1>1, <1>2, <1>3, <1>4, StatementStep, UploadStep DEF Upload
<1>5. ASSUME NEW c \in Reads, FindRow(c) \/ ReadFile(c) \/ SendFile(c) PROVE Deployed'
  BY <1>1, <1>2, <1>3, <1>5, ReadStep
<1>6. ASSUME NEW c \in Calls, Fail(c) PROVE Deployed'
  BY <1>1, <1>2, <1>3, <1>6, FailStep
<1>7. ~CollectRows
  <2>1. {h \in rows : refs[h] = 0} = {}
    BY <1>1, <1>3 DEF Deployed, NothingToCollect, TypeOK
  <2> QED BY <2>1 DEF CollectRows
<1>8. \A h \in Hashes : ~CollectFile(h) /\ ~Release(h)
  BY <1>1, <1>2, <1>3
     DEF CollectFile, Release, Deployed, NothingToCollect, NothingReleased, TypeOK
<1>9. ~CollectorRestarts
  BY <1>3 DEF CollectorRestarts, Deployed, NothingToCollect
<1>10. CASE UNCHANGED vars
  BY <1>3, <1>10
     DEF Deployed, NothingToCollect, FilesBeforeRows, DamageHasCause, MayBeDamaged,
         FoundRows, NoneMissing, UploadPaths, UploadsCounted, CountedUploads, vars, db, calls, collector
<1> QED BY <1>4, <1>5, <1>6, <1>7, <1>8, <1>9, <1>10 DEF Next, Idle

-----------------------------------------------------------------------------
(* Theorems.                                                               *)

\* The inductive invariant holds in every reachable state.
THEOREM Invariance == Spec => []IInv
<1>1. Init => IInv
  BY InitTyped, InitDeployed DEF IInv
<1>2. IInv /\ [Next]_vars => IInv'
  BY InvariantStep
<1> QED BY <1>1, <1>2, PTL DEF Spec

\* Tables, files and calls are well typed; in particular, counts stay
\* natural numbers whatever is released.
THEOREM TypeCorrect == Spec => []TypeOK
<1>1. IInv => TypeOK
  BY DEF IInv
<1> QED BY <1>1, Invariance, PTL

\* Every upload that the Block Server has answered is counted by the row of
\* its block, on both paths of the handler and however uploads overlap.
THEOREM AnsweredIsCounted == Spec => []AnswersAreCounted
<1>1. IInv => AnswersAreCounted
  <2> SUFFICES ASSUME IInv, NothingReleased, NEW h \in Hashes, DoneUploads(h) # {}
               PROVE  h \in rows /\ refs[h] >= Cardinality(DoneUploads(h))
    BY DEF AnswersAreCounted
  <2>1. DoneUploads(h) \subseteq CountedUploads(h)
    BY DEF DoneUploads, CountedUploads
  <2>2. /\ IsFiniteSet(CountedUploads(h))
        /\ refs[h] >= Cardinality(CountedUploads(h))
        /\ h \in rows
    BY <2>1 DEF IInv, Deployed, UploadsCounted
  <2>3. Cardinality(DoneUploads(h)) <= Cardinality(CountedUploads(h))
        /\ IsFiniteSet(DoneUploads(h))
    BY <2>1, <2>2, FS_Subset
  <2>4. refs[h] \in Nat /\ Cardinality(DoneUploads(h)) \in Nat
        /\ Cardinality(CountedUploads(h)) \in Nat
    BY <2>2, <2>3, FS_CardinalityType DEF IInv, TypeOK
  <2> QED BY <2>2, <2>3, <2>4
<1> QED BY <1>1, Invariance, PTL

\* A block with a row has a file, wherever uploads of it have failed, and the
\* file is whole unless an upload is writing it or has failed.
THEOREM RowKeepsFile == Spec => []RowHasFile
<1>1. IInv => RowHasFile
  <2> SUFFICES ASSUME IInv, NothingReleased, NEW h \in rows
               PROVE  disk[h] = "whole" \/ (disk[h] = "partial" /\ MayBeDamaged(h))
    BY DEF RowHasFile
  <2>1. h \in Hashes /\ disk[h] \in {"partial", "whole"}
    BY DEF IInv, TypeOK, Deployed, FilesBeforeRows
  <2> QED BY <2>1 DEF IInv, Deployed, DamageHasCause
<1> QED BY <1>1, Invariance, PTL

\* What a download or an existence check has found stays, and no download
\* from the local backend misses its file.
THEOREM FoundStays == Spec => []FoundIsKept
<1>1. IInv => FoundIsKept
  BY DEF IInv, Deployed, FilesBeforeRows, FoundRows, NoneMissing, FoundIsKept,
         TypeOK, Calls
<1> QED BY <1>1, Invariance, PTL

\* An upload that starts after another of its block was answered never opens
\* the file of the block: retries only count.
THEOREM RetriesOnlyCount == Spec => RetryNeverWrites
<1>1. IInv /\ [Next]_vars =>
        [\A c, d \in Uploads :
           /\ hash[c] = hash[d]
           /\ pc[c] = "done" /\ pc[d] = "lookup"
           /\ NothingReleased
           => pc'[d] # "open"]_vars
  <2> SUFFICES ASSUME IInv, [Next]_vars, NEW c \in Uploads, NEW d \in Uploads,
                      hash[c] = hash[d], pc[c] = "done", pc[d] = "lookup",
                      NothingReleased
               PROVE  pc'[d] # "open"
    OBVIOUS
  <2>1. hash[d] \in rows
    <3>1. c \in CountedUploads(hash[d]) /\ hash[d] \in Hashes
      BY DEF CountedUploads, IInv, TypeOK, Calls
    <3> QED BY <3>1 DEF IInv, Deployed, UploadsCounted
  <2>2. pc \in [Calls -> UploadSteps \cup ReadSteps \cup Finished] /\ d \in Calls
    BY DEF IInv, TypeOK, Calls
  <2>3. CASE Lookup(d)
    BY <2>1, <2>2, <2>3 DEF Lookup, Goto
  <2>4. CASE Fail(d)
    BY <2>2, <2>4 DEF Fail, Goto
  <2>5. CASE ~Lookup(d) /\ ~Fail(d)
    <3>1. pc'[d] = pc[d]
      BY <2>2, <2>5
         DEF Next, Upload, Lookup, Increment, OpenFile, WriteBytes, PutObject, Insert,
             Answer, FindRow, ReadFile, SendFile, Fail, CollectRows, CollectFile, Release,
             CollectorRestarts, Idle, vars, calls, Goto, Calls
    <3> QED BY <3>1
  <2> QED BY <2>3, <2>4, <2>5
<1> QED BY <1>1, Invariance, PTL DEF Spec, RetryNeverWrites
=============================================================================
