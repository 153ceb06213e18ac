--------------------------- MODULE DeltaSyncProofs ---------------------------
(***************************************************************************)
(* Proofs that the answer of GetMissingBlocks completes a version of the   *)
(* file, that the cursor is never written behind the answer, and that only *)
(* overlapping calls of one device can move it back; for any devices,      *)
(* files and calls, and any commits and removals between their statements. *)
(***************************************************************************)
EXTENDS DeltaSync, SequenceTheorems, TLAPS

(***************************************************************************)
(* The inductive invariant.  The answer and the cursor come from different *)
(* moments.  Both are right because histories only grow (so a version read *)
(* earlier is what it was), and because two calls that are under way at    *)
(* once know of each other.                                                *)
(***************************************************************************)

\* Calls of one device about one file that are under way at once are marked.
OverlapsMarked ==
  \A c, d \in Calls :
    /\ c # d
    /\ pc[c] \in Active /\ pc[d] \in Active
    /\ call[c].device = call[d].device /\ call[c].file = call[d].file
    => c \in overlapped

\* Without an overlap, nobody has moved the cursor past what a call has seen.
CursorNotPassed ==
  \A c \in Calls \ overlapped :
    pc[c] = "cursor" => cursor[<<call[c].device, call[c].file>>] <= seen[c]

IInv ==
  /\ SyncTypeOK
  /\ AnswerCompletesVersion
  /\ CursorNotBehindAnswer
  /\ OverlapsMarked
  /\ CursorNotPassed

-----------------------------------------------------------------------------
(* Lemmas about histories.                                                 *)

\* A file's history is a list of block lists, and its length a number.
LEMMA HistoryTyped ==
  ASSUME TypeOK, NEW f \in Files
  PROVE  /\ history[f] \in Seq(BlockLists)
         /\ CurrentVersion(f) \in Nat
         /\ DOMAIN history[f] = 1 .. CurrentVersion(f)
         /\ \A n \in 0 .. CurrentVersion(f) : BlocksOf(f, n) \subseteq Hashes
<1>1. history[f] \in Seq(BlockLists) /\ CurrentVersion(f) \in Nat
      /\ DOMAIN history[f] = 1 .. CurrentVersion(f)
  BY DEF TypeOK, CurrentVersion
<1>2. ASSUME NEW n \in 0 .. CurrentVersion(f) PROVE BlocksOf(f, n) \subseteq Hashes
  <2>1. CASE n = 0
    BY <2>1 DEF BlocksOf
  <2>2. CASE n # 0
    <3>1. history[f][n] \in Seq(Hashes)
      BY <1>1, <2>2, ListsAssumption
    <3> QED BY <2>2, <3>1 DEF BlocksOf
  <2> QED BY <2>1, <2>2
<1> QED BY <1>1, <1>2

\* Appending leaves the older versions of a file as they were.
LEMMA AppendedHistory ==
  ASSUME TypeOK, NEW f \in Files, NEW blocks \in BlockLists,
         history' = [history EXCEPT ![f] = Append(history[f], blocks)],
         NEW g \in Files
  PROVE  /\ history'[g] \in Seq(BlockLists)
         /\ CurrentVersion(g) <= CurrentVersion(g)'
         /\ \A n \in 1 .. CurrentVersion(g) : history'[g][n] = history[g][n]
<1>1. history[g] \in Seq(BlockLists) /\ CurrentVersion(g) \in Nat
  BY HistoryTyped
<1>2. CASE g # f
  BY <1>1, <1>2 DEF TypeOK, CurrentVersion
<1>3. CASE g = f
  <2>1. history'[g] = Append(history[g], blocks)
    BY <1>3 DEF TypeOK
  <2> QED BY <1>1, <2>1, AppendProperties DEF CurrentVersion
<1> QED BY <1>2, <1>3

\* Histories only grow: no version, once there, ever changes.
LEMMA HistoryGrows ==
  ASSUME TypeOK, HistoryStep
  PROVE  /\ TypeOK'
         /\ \A f \in Files : CurrentVersion(f) <= CurrentVersion(f)'
         /\ \A f \in Files : \A n \in 0 .. CurrentVersion(f) : BlocksOf(f, n)' = BlocksOf(f, n)
<1>1. CASE \E f \in Files, blocks \in BlockLists : CommitVersion(f, blocks)
  <2>1. PICK f \in Files, blocks \in BlockLists : CommitVersion(f, blocks)
    BY <1>1
  <2>2. /\ history' = [history EXCEPT ![f] = Append(history[f], blocks)]
        /\ UNCHANGED <<removed, uploaded>>
    BY <2>1 DEF CommitVersion
  <2>3. \A g \in Files :
          /\ history'[g] \in Seq(BlockLists)
          /\ CurrentVersion(g) <= CurrentVersion(g)'
          /\ \A n \in 1 .. CurrentVersion(g) : history'[g][n] = history[g][n]
    BY <2>2, AppendedHistory
  <2>4. TypeOK'
    BY <2>2, <2>3 DEF TypeOK
  <2>5. ASSUME NEW g \in Files, NEW n \in 0 .. CurrentVersion(g)
        PROVE  BlocksOf(g, n)' = BlocksOf(g, n)
    <3>1. n = 0 \/ n \in 1 .. CurrentVersion(g)
      BY HistoryTyped
    <3> QED BY <2>3, <3>1 DEF BlocksOf
  <2> QED BY <2>3, <2>4, <2>5
<1>2. CASE (\E h \in Hashes : UploadBlock(h)) \/ (\E f \in Files : RemoveFile(f))
  <2>1. history' = history /\ removed' \subseteq Files /\ uploaded' \subseteq Hashes
    BY <1>2 DEF UploadBlock, RemoveFile, TypeOK
  <2>2. TypeOK'
    BY <2>1 DEF TypeOK
  <2>3. \A f \in Files : CurrentVersion(f)' = CurrentVersion(f) /\ CurrentVersion(f) \in Nat
    BY <2>1, HistoryTyped DEF CurrentVersion
  <2>4. \A f, n : BlocksOf(f, n)' = BlocksOf(f, n)
    BY <2>1 DEF BlocksOf
  <2> QED BY <2>2, <2>3, <2>4
<1> QED BY <1>1, <1>2 DEF HistoryStep

\* A statement of a call leaves every history as it was.
LEMMA HistoryStays ==
  ASSUME TypeOK, UNCHANGED vars
  PROVE  /\ TypeOK'
         /\ \A f : CurrentVersion(f)' = CurrentVersion(f)
         /\ \A f, n : BlocksOf(f, n)' = BlocksOf(f, n)
BY DEF TypeOK, vars, CurrentVersion, BlocksOf

\* What a statement sees of a file is its current version, or nothing.
LEMMA VisibleTyped ==
  ASSUME TypeOK, NEW f \in Files
  PROVE  /\ Visible(f) \in 0 .. CurrentVersion(f)
         /\ f \notin removed => Visible(f) = CurrentVersion(f)
BY HistoryTyped DEF Visible

-----------------------------------------------------------------------------
(* The invariant holds at first, and no step breaks it.                    *)

\* No call has begun, and no cursor has been written.
LEMMA InvariantInit == SyncInit => IInv
<1> SUFFICES ASSUME SyncInit PROVE IInv
  OBVIOUS
<1> USE DEF SyncInit, Init, NoCall
<1>1. TypeOK
  <2>1. \A f \in Files : history[f] \in Seq(BlockLists)
    BY EmptySeq
  <2> QED BY <2>1 DEF TypeOK
<1>2. \A f \in Files : CurrentVersion(f) = 0
  BY DEF CurrentVersion
<1>3. call \in [Calls -> [device : Devices, file : Files, known : Files, from : Nat]]
      /\ \A c \in Calls : call[c].from = 0 /\ {call[c].file, call[c].known} \subseteq Files
  OBVIOUS
<1>4. \A d \in Devices, f \in Files : cursor[<<d, f>>] <= CurrentVersion(f)
  <2> TAKE d \in Devices, f \in Files
  <2>1. <<d, f>> \in Devices \X Files
    OBVIOUS
  <2>2. cursor[<<d, f>>] = 0
    BY <2>1
  <2> QED BY <1>2, <2>2
<1>5. \A c \in Calls :
        /\ call[c].from <= CurrentVersion(call[c].known)
        /\ {seen[c], asked[c], basis[c]} \subseteq 0 .. CurrentVersion(call[c].file)
  BY <1>2, <1>3
<1>6. SyncTypeOK
  BY <1>1, <1>3, <1>4, <1>5 DEF SyncTypeOK
<1> QED
  BY <1>6 DEF IInv, AnswerCompletesVersion, CursorNotBehindAnswer, OverlapsMarked,
              CursorNotPassed, Active

\* Commits, uploads and removals leave the calls alone: the versions that
\* they have read are still there, and are what they were.
LEMMA HistoryStepKeeps == IInv /\ HistoryStep => IInv'
<1> SUFFICES ASSUME IInv, HistoryStep PROVE IInv'
  OBVIOUS
<1>1. SyncTypeOK /\ TypeOK
  BY DEF IInv, SyncTypeOK
<1>2. UNCHANGED syncVars
  BY DEF HistoryStep
<1> USE <1>2 DEF syncVars, locals, observed
<1>3. /\ TypeOK'
      /\ \A f \in Files : CurrentVersion(f) <= CurrentVersion(f)'
      /\ \A f \in Files : \A n \in 0 .. CurrentVersion(f) : BlocksOf(f, n)' = BlocksOf(f, n)
  BY <1>1, HistoryGrows
<1>4. /\ \A f \in Files : CurrentVersion(f) \in Nat /\ CurrentVersion(f)' \in Nat
      /\ \A c \in Calls : call[c].file \in Files /\ call[c].known \in Files
  <2>1. \A f \in Files : CurrentVersion(f) \in Nat
    BY <1>1, HistoryTyped
  <2>2. \A f \in Files : CurrentVersion(f)' \in Nat
    BY <1>3 DEF TypeOK, CurrentVersion
  <2> QED BY <1>1, <2>1, <2>2 DEF SyncTypeOK
<1>5. SyncTypeOK'
  <2>1. \A d \in Devices, f \in Files : cursor'[<<d, f>>] <= CurrentVersion(f)'
    <3> TAKE d \in Devices, f \in Files
    <3>1. cursor[<<d, f>>] \in Nat /\ cursor[<<d, f>>] <= CurrentVersion(f)
      <4>1. <<d, f>> \in Devices \X Files
        OBVIOUS
      <4> QED BY <1>1, <4>1 DEF SyncTypeOK
    <3>2. cursor'[<<d, f>>] = cursor[<<d, f>>]
      OBVIOUS
    <3> QED BY <1>3, <1>4, <3>1, <3>2
  <2>2. ASSUME NEW c \in Calls
        PROVE  /\ call'[c].from <= CurrentVersion(call[c].known)'
               /\ {seen'[c], asked'[c], basis'[c]} \subseteq 0 .. CurrentVersion(call[c].file)'
    BY <1>1, <1>3, <1>4 DEF SyncTypeOK
  <2> QED BY <1>1, <1>3, <2>1, <2>2 DEF SyncTypeOK
<1>6. AnswerCompletesVersion'
  <2>1. ASSUME NEW c \in Calls
        PROVE  /\ BlocksOf(call[c].known, call[c].from)' = BlocksOf(call[c].known, call[c].from)
               /\ BlocksOf(call[c].file, basis[c])' = BlocksOf(call[c].file, basis[c])
    BY <1>1, <1>3, <1>4 DEF SyncTypeOK
  <2> QED BY <2>1 DEF IInv, AnswerCompletesVersion
<1>7. CursorNotBehindAnswer' /\ OverlapsMarked' /\ CursorNotPassed'
  BY DEF IInv, CursorNotBehindAnswer, OverlapsMarked, CursorNotPassed
<1> QED BY <1>5, <1>6, <1>7 DEF IInv

\* What the type invariant says of one call.
LEMMA CallTyped ==
  ASSUME SyncTypeOK, NEW c \in Calls
  PROVE  /\ call[c] \in [device : Devices, file : Files, known : Files, from : Nat]
         /\ call[c].file \in Files
         /\ <<call[c].device, call[c].file>> \in Devices \X Files
         /\ CurrentVersion(call[c].file) \in Nat
         /\ call[c].known \in Files
         /\ CurrentVersion(call[c].known) \in Nat
         /\ call[c].from \in 0 .. CurrentVersion(call[c].known)
         /\ seen[c] \in 0 .. CurrentVersion(call[c].file)
         /\ asked[c] \in 0 .. CurrentVersion(call[c].file)
         /\ basis[c] \in 0 .. CurrentVersion(call[c].file)
         /\ cursor[<<call[c].device, call[c].file>>] \in 0 .. CurrentVersion(call[c].file)
<1>1. call[c] \in [device : Devices, file : Files, known : Files, from : Nat]
  BY DEF SyncTypeOK
<1>2. <<call[c].device, call[c].file>> \in Devices \X Files
  BY <1>1
<1>3. CurrentVersion(call[c].file) \in Nat /\ CurrentVersion(call[c].known) \in Nat
  BY <1>1, HistoryTyped DEF SyncTypeOK
<1>4. cursor[<<call[c].device, call[c].file>>] \in 0 .. CurrentVersion(call[c].file)
  <2>1. cursor[<<call[c].device, call[c].file>>] \in Nat
    BY <1>2 DEF SyncTypeOK
  <2>2. cursor[<<call[c].device, call[c].file>>] <= CurrentVersion(call[c].file)
    BY <1>1 DEF SyncTypeOK
  <2> QED BY <1>3, <2>1, <2>2
<1> QED BY <1>1, <1>2, <1>3, <1>4 DEF SyncTypeOK

\* An admitted call names a version that exists, and it and the calls that are
\* under way for its device and file are marked.
LEMMA AdmitKeeps == ASSUME IInv, NEW c \in Calls, Admit(c) PROVE IInv'
<1>1. SyncTypeOK /\ TypeOK
  BY DEF IInv, SyncTypeOK
<1>2. PICK g \in Files : \E n \in 0 .. CurrentVersion(g) :
        call' = [call EXCEPT ![c].known = g, ![c].from = n]
  BY DEF Admit
<1>3. PICK n \in 0 .. CurrentVersion(g) :
         call' = [call EXCEPT ![c].known = g, ![c].from = n]
  BY <1>2
<1>4. /\ pc' = [pc EXCEPT ![c] = "missing"]
      /\ asked' = [asked EXCEPT ![c] = CurrentVersion(call[c].file)]
      /\ overlapped' = overlapped \cup ActiveCalls(call[c].device, call[c].file) \cup
           (IF ActiveCalls(call[c].device, call[c].file) = {} THEN {} ELSE {c})
      /\ UNCHANGED <<vars, cursor, missing, seen, basis, removedFirst>>
  BY DEF Admit, Goto
<1>5. /\ TypeOK'
      /\ \A f : CurrentVersion(f)' = CurrentVersion(f)
      /\ \A f, m : BlocksOf(f, m)' = BlocksOf(f, m)
  BY <1>1, <1>4, HistoryStays
<1>6. n \in Nat /\ CurrentVersion(call[c].file) \in Nat
  <2>1. CurrentVersion(call[c].file) \in Nat
    BY <1>1, CallTyped
  <2> QED BY <2>1
<1>7. \A x \in Calls : /\ call'[x].device = call[x].device
                       /\ call'[x].file = call[x].file
                       /\ x # c => call'[x] = call[x] /\ pc'[x] = pc[x] /\ asked'[x] = asked[x]
  BY <1>1, <1>3, <1>4 DEF SyncTypeOK
<1>8. pc'[c] = "missing" /\ call'[c].known = g /\ call'[c].from = n
      /\ asked'[c] = CurrentVersion(call[c].file)
  BY <1>1, <1>3, <1>4 DEF SyncTypeOK
<1>9. SyncTypeOK'
  <2>1. call' \in [Calls -> [device : Devices, file : Files, known : Files, from : Nat]]
    BY <1>1, <1>3, <1>6 DEF SyncTypeOK
  <2>2. asked' \in [Calls -> Nat] /\ pc' \in [Calls -> Active \cup Finished \cup {"idle"}]
    BY <1>1, <1>4, <1>6 DEF SyncTypeOK, Active
  <2>3. overlapped' \subseteq Calls
    BY <1>1, <1>4 DEF SyncTypeOK, ActiveCalls
  <2>4. ASSUME NEW x \in Calls
        PROVE  /\ call'[x].from <= CurrentVersion(call[x].known)'
               /\ {seen'[x], asked'[x], basis'[x]} \subseteq 0 .. CurrentVersion(call[x].file)'
    <3>1. /\ call[x].from <= CurrentVersion(call[x].known)
          /\ {seen[x], asked[x], basis[x]} \subseteq 0 .. CurrentVersion(call[x].file)
      BY <1>1 DEF SyncTypeOK
    <3>2. /\ call'[x].from <= CurrentVersion(call'[x].known)
          /\ {seen'[x], asked'[x], basis'[x]} \subseteq 0 .. CurrentVersion(call[x].file)
      BY <1>4, <1>6, <1>7, <1>8, <3>1
    <3>3. /\ CurrentVersion(call[x].known)' = CurrentVersion(call'[x].known)
          /\ CurrentVersion(call[x].file)' = CurrentVersion(call[x].file)
      BY <1>4, <1>7 DEF CurrentVersion, vars
    <3> QED BY <3>2, <3>3
  <2>5. \A d \in Devices, f \in Files : cursor'[<<d, f>>] <= CurrentVersion(f)'
    BY <1>1, <1>4, <1>5 DEF SyncTypeOK
  <2> QED BY <1>1, <1>4, <1>5, <2>1, <2>2, <2>3, <2>4, <2>5 DEF SyncTypeOK
<1>10. AnswerCompletesVersion'
  BY <1>4, <1>5, <1>7, <1>8 DEF IInv, AnswerCompletesVersion
<1>11. CursorNotBehindAnswer'
  BY <1>4, <1>7, <1>8 DEF IInv, CursorNotBehindAnswer
<1>12. OverlapsMarked'
  <2> SUFFICES ASSUME NEW x \in Calls, NEW y \in Calls, x # y,
                      pc'[x] \in Active, pc'[y] \in Active,
                      call'[x].device = call'[y].device, call'[x].file = call'[y].file
               PROVE  x \in overlapped'
    BY DEF OverlapsMarked, Active
  <2>1. CASE x # c /\ y # c
    BY <1>4, <1>7, <2>1 DEF IInv, OverlapsMarked
  <2>2. CASE x = c
    <3>1. y \in ActiveCalls(call[c].device, call[c].file)
      BY <1>7, <2>2 DEF ActiveCalls
    <3> QED BY <1>4, <2>2, <3>1
  <2>3. CASE y = c
    <3>1. x \in ActiveCalls(call[c].device, call[c].file)
      BY <1>7, <2>3 DEF ActiveCalls
    <3> QED BY <1>4, <3>1
  <2> QED BY <2>1, <2>2, <2>3
<1>13. CursorNotPassed'
  BY <1>4, <1>7, <1>8 DEF IInv, CursorNotPassed
<1> QED BY <1>9, <1>10, <1>11, <1>12, <1>13 DEF IInv

\* The difference is taken against a version at least as new as the one that
\* was current when the call was admitted, unless the file is gone.
LEMMA ReadMissingKeeps == ASSUME IInv, NEW c \in Calls, ReadMissing(c) PROVE IInv'
<1> DEFINE f == call[c].file
           told == BlocksOf(f, Visible(f)) \ BlocksOf(call[c].known, call[c].from)
<1>1. SyncTypeOK /\ TypeOK /\ f \in Files
  BY CallTyped DEF IInv, SyncTypeOK
<1>2. /\ pc' = [pc EXCEPT ![c] = "current"]
      /\ missing' = [missing EXCEPT ![c] = told]
      /\ basis' = [basis EXCEPT ![c] = Visible(f)]
      /\ removedFirst' = [removedFirst EXCEPT ![c] = f \in removed]
      /\ UNCHANGED <<vars, cursor, call, seen, asked, overlapped>>
      /\ pc[c] = "missing"
  BY DEF ReadMissing, Goto
<1>3. /\ TypeOK'
      /\ \A g : CurrentVersion(g)' = CurrentVersion(g)
      /\ \A g, m : BlocksOf(g, m)' = BlocksOf(g, m)
  BY <1>1, <1>2, HistoryStays
<1>4. /\ Visible(f) \in 0 .. CurrentVersion(f)
      /\ CurrentVersion(f) \in Nat
      /\ f \notin removed => Visible(f) = CurrentVersion(f)
      /\ told \subseteq Hashes
  BY <1>1, VisibleTyped, HistoryTyped
<1>5. /\ pc'[c] = "current" /\ missing'[c] = told /\ basis'[c] = Visible(f)
      /\ removedFirst'[c] = (f \in removed)
  BY <1>1, <1>2 DEF SyncTypeOK
<1>6. \A x \in Calls : x # c =>
        /\ pc'[x] = pc[x] /\ missing'[x] = missing[x] /\ basis'[x] = basis[x]
        /\ removedFirst'[x] = removedFirst[x]
  BY <1>1, <1>2 DEF SyncTypeOK
<1>7. SyncTypeOK'
  <2>1. pc' \in [Calls -> Active \cup Finished \cup {"idle"}]
    BY <1>1, <1>2 DEF SyncTypeOK, Active
  <2>2. missing' \in [Calls -> SUBSET Hashes]
    <3> HIDE DEF told
    <3> QED BY <1>1, <1>2, <1>4 DEF SyncTypeOK
  <2>3. basis' \in [Calls -> Nat]
    <3>1. Visible(f) \in Nat
      BY <1>4
    <3> HIDE DEF f
    <3> QED BY <1>1, <1>2, <3>1 DEF SyncTypeOK
  <2>4. removedFirst' \in [Calls -> BOOLEAN]
    BY <1>1, <1>2 DEF SyncTypeOK
  <2>5. ASSUME NEW x \in Calls
        PROVE  /\ call'[x].from <= CurrentVersion(call[x].known)'
               /\ {seen'[x], asked'[x], basis'[x]} \subseteq 0 .. CurrentVersion(call[x].file)'
    <3>1. /\ call[x].from <= CurrentVersion(call[x].known)
          /\ {seen[x], asked[x], basis[x]} \subseteq 0 .. CurrentVersion(call[x].file)
      BY <1>1 DEF SyncTypeOK
    <3>2. /\ call'[x].from <= CurrentVersion(call[x].known)
          /\ {seen'[x], asked'[x], basis'[x]} \subseteq 0 .. CurrentVersion(call[x].file)
      BY <1>2, <1>4, <1>5, <1>6, <3>1
    <3>3. /\ CurrentVersion(call[x].known)' = CurrentVersion(call[x].known)
          /\ CurrentVersion(call[x].file)' = CurrentVersion(call[x].file)
      BY <1>2 DEF CurrentVersion, vars
    <3> QED BY <3>2, <3>3
  <2>6. \A d \in Devices, g \in Files : cursor'[<<d, g>>] <= CurrentVersion(g)'
    BY <1>1, <1>2, <1>3 DEF SyncTypeOK
  <2> QED BY <1>1, <1>2, <1>3, <2>1, <2>2, <2>3, <2>4, <2>5, <2>6 DEF SyncTypeOK
<1>8. AnswerCompletesVersion'
  <2> SUFFICES ASSUME NEW x \in Calls, pc'[x] \in {"current", "cursor", "answer", "done"}
               PROVE  /\ missing'[x] \cap BlocksOf(call[x].known, call[x].from) = {}
                      /\ ~removedFirst'[x] =>
                           /\ basis'[x] >= asked[x]
                           /\ BlocksOf(call[x].file, basis'[x]) \subseteq
                                BlocksOf(call[x].known, call[x].from) \cup missing'[x]
    <3>1. ASSUME NEW x \in Calls
          PROVE  /\ BlocksOf(call[x].known, call[x].from)' = BlocksOf(call[x].known, call[x].from)
                 /\ BlocksOf(call[x].file, basis[x])' = BlocksOf(call[x].file, basis'[x])
      BY <1>2 DEF BlocksOf, vars
    <3> QED BY <1>2, <3>1 DEF AnswerCompletesVersion
  <2>1. CASE x = c
    <3>1. asked[c] \in 0 .. CurrentVersion(f)
      BY <1>1, CallTyped
    <3>2. f \notin removed => Visible(f) >= asked[c]
      BY <1>4, <3>1
    <3>3. ~removedFirst'[c] => f \notin removed
      BY <1>5
    <3> QED BY <1>5, <2>1, <3>2, <3>3
  <2>2. CASE x # c
    BY <1>6, <2>2 DEF IInv, AnswerCompletesVersion
  <2> QED BY <2>1, <2>2
<1>9. CursorNotBehindAnswer' /\ CursorNotPassed' /\ OverlapsMarked'
  BY <1>2, <1>5, <1>6 DEF IInv, CursorNotBehindAnswer, CursorNotPassed, OverlapsMarked, Active
<1> QED BY <1>7, <1>8, <1>9 DEF IInv

\* The version for the cursor is read after the answer, and no cursor is ever
\* ahead of the file.
LEMMA ReadCurrentKeeps == ASSUME IInv, NEW c \in Calls, ReadCurrent(c) PROVE IInv'
<1> DEFINE f == call[c].file
<1>1. SyncTypeOK /\ TypeOK /\ f \in Files
  BY CallTyped DEF IInv, SyncTypeOK
<1>2. /\ pc[c] = "current"
      /\ seen' = [seen EXCEPT ![c] = Visible(f)]
      /\ pc' = [pc EXCEPT ![c] = IF seen'[c] = 0 THEN "answer" ELSE "cursor"]
      /\ UNCHANGED <<vars, cursor, call, missing, observed>>
  BY DEF ReadCurrent, Goto
<1>3. /\ TypeOK'
      /\ \A g : CurrentVersion(g)' = CurrentVersion(g)
      /\ \A g, m : BlocksOf(g, m)' = BlocksOf(g, m)
  BY <1>1, <1>2, HistoryStays
<1>4. Visible(f) \in 0 .. CurrentVersion(f) /\ CurrentVersion(f) \in Nat
  BY <1>1, VisibleTyped, HistoryTyped
<1>5. seen'[c] = Visible(f) /\ pc'[c] = (IF Visible(f) = 0 THEN "answer" ELSE "cursor")
  BY <1>1, <1>2 DEF SyncTypeOK
<1>6. \A x \in Calls : x # c => pc'[x] = pc[x] /\ seen'[x] = seen[x]
  BY <1>1, <1>2 DEF SyncTypeOK
<1>7. Visible(f) # 0 => Visible(f) = CurrentVersion(f)
  BY DEF Visible
<1>8. SyncTypeOK'
  <2>1. pc' \in [Calls -> Active \cup Finished \cup {"idle"}]
    BY <1>1, <1>2 DEF SyncTypeOK, Active
  <2>2. seen' \in [Calls -> Nat]
    <3>1. Visible(f) \in Nat
      BY <1>4
    <3> HIDE DEF f
    <3> QED BY <1>1, <1>2, <3>1 DEF SyncTypeOK
  <2>3. ASSUME NEW x \in Calls
        PROVE  /\ call'[x].from <= CurrentVersion(call[x].known)'
               /\ {seen'[x], asked'[x], basis'[x]} \subseteq 0 .. CurrentVersion(call[x].file)'
    <3>1. /\ call[x].from <= CurrentVersion(call[x].known)
          /\ {seen[x], asked[x], basis[x]} \subseteq 0 .. CurrentVersion(call[x].file)
      BY <1>1 DEF SyncTypeOK
    <3>2. /\ call'[x].from <= CurrentVersion(call[x].known)
          /\ {seen'[x], asked'[x], basis'[x]} \subseteq 0 .. CurrentVersion(call[x].file)
      BY <1>2, <1>4, <1>5, <1>6, <3>1 DEF observed
    <3>3. /\ CurrentVersion(call[x].known)' = CurrentVersion(call[x].known)
          /\ CurrentVersion(call[x].file)' = CurrentVersion(call[x].file)
      BY <1>2 DEF CurrentVersion, vars
    <3> QED BY <3>2, <3>3
  <2>4. \A d \in Devices, g \in Files : cursor'[<<d, g>>] <= CurrentVersion(g)'
    BY <1>1, <1>2, <1>3 DEF SyncTypeOK
  <2> QED BY <1>1, <1>2, <1>3, <2>1, <2>2, <2>3, <2>4 DEF SyncTypeOK, observed
<1>9. AnswerCompletesVersion'
  <2>1. ASSUME NEW x \in Calls
        PROVE  /\ BlocksOf(call[x].known, call[x].from)' = BlocksOf(call[x].known, call[x].from)
               /\ BlocksOf(call[x].file, basis[x])' = BlocksOf(call[x].file, basis[x])
    BY <1>2 DEF BlocksOf, vars, observed
  <2>2. \A x \in Calls : pc'[x] \in {"current", "cursor", "answer", "done"} =>
                           pc[x] \in {"current", "cursor", "answer", "done"}
    BY <1>2, <1>6
  <2> QED BY <1>2, <2>1, <2>2 DEF IInv, AnswerCompletesVersion, observed
<1>10. CursorNotBehindAnswer'
  <2>1. basis[c] \in 0 .. CurrentVersion(f)
    BY <1>1, CallTyped
  <2>2. seen'[c] # 0 => seen'[c] >= basis[c]
    BY <1>4, <1>5, <1>7, <2>1
  <2> QED BY <1>2, <1>6, <2>2 DEF IInv, CursorNotBehindAnswer, observed
<1>11. CursorNotPassed'
  <2>1. cursor[<<call[c].device, f>>] \in 0 .. CurrentVersion(f)
    BY <1>1, CallTyped
  <2>2. pc'[c] = "cursor" => cursor[<<call[c].device, f>>] <= seen'[c]
    BY <1>4, <1>5, <1>7, <2>1
  <2> QED BY <1>2, <1>6, <2>2 DEF IInv, CursorNotPassed, observed
<1>12. OverlapsMarked'
  <2>1. \A x \in Calls : pc'[x] \in Active => pc[x] \in Active
    BY <1>2, <1>6 DEF Active
  <2> QED BY <1>2, <2>1 DEF IInv, OverlapsMarked, observed
<1> QED BY <1>8, <1>9, <1>10, <1>11, <1>12 DEF IInv

\* The cursor goes to a version that exists.  Another call that is about to
\* write the same cursor is under way too, so both are marked.
LEMMA UpsertCursorKeeps == ASSUME IInv, NEW c \in Calls, UpsertCursor(c) PROVE IInv'
<1> DEFINE df == <<call[c].device, call[c].file>>
<1>1. SyncTypeOK /\ TypeOK /\ df \in Devices \X Files
  BY CallTyped DEF IInv, SyncTypeOK
<1>2. /\ pc[c] = "cursor"
      /\ cursor' = [cursor EXCEPT ![df] = seen[c]]
      /\ pc' = [pc EXCEPT ![c] = "answer"]
      /\ UNCHANGED <<vars, call, missing, seen, observed>>
  BY DEF UpsertCursor, Goto
<1>3. /\ TypeOK'
      /\ \A g : CurrentVersion(g)' = CurrentVersion(g)
      /\ \A g, m : BlocksOf(g, m)' = BlocksOf(g, m)
  BY <1>1, <1>2, HistoryStays
<1>4. seen[c] \in 0 .. CurrentVersion(call[c].file) /\ CurrentVersion(call[c].file) \in Nat
  BY <1>1, CallTyped
<1>5. /\ pc'[c] = "answer"
      /\ \A x \in Calls : x # c => pc'[x] = pc[x]
      /\ cursor'[df] = seen[c]
      /\ \A e \in Devices \X Files : e # df => cursor'[e] = cursor[e]
  BY <1>1, <1>2 DEF SyncTypeOK
<1>6. SyncTypeOK'
  <2>1. pc' \in [Calls -> Active \cup Finished \cup {"idle"}]
    BY <1>1, <1>2 DEF SyncTypeOK, Active
  <2>2. cursor' \in [Devices \X Files -> Nat]
    <3>1. seen[c] \in Nat
      BY <1>1 DEF SyncTypeOK
    <3> HIDE DEF df
    <3> QED BY <1>1, <1>2, <3>1 DEF SyncTypeOK
  <2>3. ASSUME NEW d \in Devices, NEW g \in Files
        PROVE  cursor'[<<d, g>>] <= CurrentVersion(g)'
    <3>1. <<d, g>> \in Devices \X Files
      OBVIOUS
    <3>2. CASE <<d, g>> = df
      <4>1. g = call[c].file
        BY <3>2
      <4> QED BY <1>3, <1>4, <1>5, <3>2, <4>1
    <3>3. CASE <<d, g>> # df
      <4>1. cursor'[<<d, g>>] = cursor[<<d, g>>]
        BY <1>5, <3>1, <3>3
      <4>2. cursor[<<d, g>>] <= CurrentVersion(g)
        BY <1>1 DEF SyncTypeOK
      <4> QED BY <1>3, <4>1, <4>2
    <3> QED BY <3>2, <3>3
  <2>4. \A x \in Calls :
          /\ call'[x].from <= CurrentVersion(call[x].known)'
          /\ {seen'[x], asked'[x], basis'[x]} \subseteq 0 .. CurrentVersion(call[x].file)'
    BY <1>1, <1>2, <1>3 DEF SyncTypeOK, observed
  <2> QED BY <1>1, <1>2, <1>3, <2>1, <2>2, <2>3, <2>4 DEF SyncTypeOK, observed
<1>7. AnswerCompletesVersion' /\ CursorNotBehindAnswer'
  <2>1. ASSUME NEW x \in Calls
        PROVE  /\ BlocksOf(call[x].known, call[x].from)' = BlocksOf(call[x].known, call[x].from)
               /\ BlocksOf(call[x].file, basis[x])' = BlocksOf(call[x].file, basis[x])
    BY <1>2 DEF BlocksOf, vars, observed
  <2>2. \A x \in Calls : pc'[x] \in {"current", "cursor", "answer", "done"} =>
                           pc[x] \in {"current", "cursor", "answer", "done"}
    BY <1>2, <1>5
  <2>3. \A x \in Calls : pc'[x] \in {"cursor", "answer", "done"} =>
                           pc[x] \in {"cursor", "answer", "done"}
    BY <1>2, <1>5
  <2>4. AnswerCompletesVersion'
    BY <1>2, <2>1, <2>2 DEF IInv, AnswerCompletesVersion, observed
  <2>5. CursorNotBehindAnswer'
    BY <1>2, <2>3 DEF IInv, CursorNotBehindAnswer, observed
  <2> QED BY <2>4, <2>5
<1>8. OverlapsMarked'
  <2>1. \A x \in Calls : pc'[x] \in Active => pc[x] \in Active
    BY <1>2, <1>5 DEF Active
  <2> QED BY <1>2, <2>1 DEF IInv, OverlapsMarked, observed
<1>9. CursorNotPassed'
  <2> SUFFICES ASSUME NEW x \in Calls, x \notin overlapped, pc'[x] = "cursor"
               PROVE  cursor'[<<call[x].device, call[x].file>>] <= seen[x]
    BY <1>2 DEF CursorNotPassed, observed
  <2>1. x # c /\ pc[x] = "cursor"
    BY <1>5
  <2>2. <<call[x].device, call[x].file>> # df
    BY <1>2, <2>1 DEF IInv, OverlapsMarked, Active
  <2>3. <<call[x].device, call[x].file>> \in Devices \X Files
    BY <1>1, CallTyped
  <2>4. cursor[<<call[x].device, call[x].file>>] <= seen[x]
    BY <2>1 DEF IInv, CursorNotPassed
  <2> QED BY <1>5, <2>2, <2>3, <2>4
<1> QED BY <1>6, <1>7, <1>8, <1>9 DEF IInv

\* A call that only ends, with an answer or without, has changed nothing.
LEMMA EndingKeeps ==
  ASSUME IInv, NEW c \in Calls, Refuse(c) \/ Answer(c) \/ Fail(c)
  PROVE  IInv'
<1>1. SyncTypeOK /\ TypeOK
  BY DEF IInv, SyncTypeOK
<1>2. UNCHANGED <<vars, cursor, call, missing, seen, observed>>
  BY DEF Refuse, Answer, Fail
<1>3. \/ pc[c] = "answer" /\ pc' = [pc EXCEPT ![c] = "done"]
      \/ pc' = [pc EXCEPT ![c] = "failed"]
  BY DEF Refuse, Answer, Fail, Goto
<1>4. /\ \A x \in Calls : pc'[x] = pc[x] \/ pc'[x] = "failed"
                           \/ (pc[x] = "answer" /\ pc'[x] = "done")
      /\ pc' \in [Calls -> Active \cup Finished \cup {"idle"}]
  <2>1. pc \in [Calls -> Active \cup Finished \cup {"idle"}]
    BY <1>1 DEF SyncTypeOK
  <2>2. pc' \in [Calls -> Active \cup Finished \cup {"idle"}]
    <3>1. {"done", "failed"} \subseteq Active \cup Finished \cup {"idle"}
      BY DEF Finished
    <3> QED BY <1>3, <2>1, <3>1
  <2>3. ASSUME NEW x \in Calls
        PROVE  pc'[x] = pc[x] \/ pc'[x] = "failed" \/ (pc[x] = "answer" /\ pc'[x] = "done")
    <3>1. CASE x # c
      BY <1>3, <2>1, <3>1
    <3>2. CASE x = c
      BY <1>3, <2>1, <3>2
    <3> QED BY <3>1, <3>2
  <2> QED BY <2>2, <2>3
<1>5. /\ TypeOK'
      /\ \A g : CurrentVersion(g)' = CurrentVersion(g)
  BY <1>1, <1>2, HistoryStays
<1>6. SyncTypeOK'
  BY <1>1, <1>2, <1>4, <1>5 DEF SyncTypeOK, observed
<1>7. AnswerCompletesVersion'
  <2>1. ASSUME NEW x \in Calls
        PROVE  /\ BlocksOf(call[x].known, call[x].from)' = BlocksOf(call[x].known, call[x].from)
               /\ BlocksOf(call[x].file, basis[x])' = BlocksOf(call[x].file, basis[x])
    BY <1>2 DEF BlocksOf, vars, observed
  <2>2. \A x \in Calls : pc'[x] \in {"current", "cursor", "answer", "done"} =>
                           pc[x] \in {"current", "cursor", "answer", "done"}
    BY <1>4
  <2> QED BY <1>2, <2>1, <2>2 DEF IInv, AnswerCompletesVersion, observed
<1>8. CursorNotBehindAnswer' /\ CursorNotPassed' /\ OverlapsMarked'
  BY <1>2, <1>4 DEF IInv, CursorNotBehindAnswer, CursorNotPassed, OverlapsMarked,
                    Active, observed
<1> QED BY <1>6, <1>7, <1>8 DEF IInv

\* Every step keeps the invariant.
LEMMA InvariantStep == IInv /\ [SyncNext]_allVars => IInv'
<1> SUFFICES ASSUME IInv, [SyncNext]_allVars PROVE IInv'
  OBVIOUS
<1>1. CASE HistoryStep
  BY <1>1, HistoryStepKeeps
<1>2. ASSUME NEW c \in Calls, Admit(c) PROVE IInv'
  BY <1>2, AdmitKeeps
<1>3. ASSUME NEW c \in Calls, ReadMissing(c) PROVE IInv'
  BY <1>3, ReadMissingKeeps
<1>4. ASSUME NEW c \in Calls, ReadCurrent(c) PROVE IInv'
  BY <1>4, ReadCurrentKeeps
<1>5. ASSUME NEW c \in Calls, UpsertCursor(c) PROVE IInv'
  BY <1>5, UpsertCursorKeeps
<1>6. ASSUME NEW c \in Calls, Refuse(c) \/ Answer(c) \/ Fail(c) PROVE IInv'
  BY <1>6, EndingKeeps
<1>7. CASE UNCHANGED allVars
  <2>1. UNCHANGED <<vars, syncVars>>
    BY <1>7 DEF allVars
  <2>2. SyncTypeOK'
    BY <2>1 DEF IInv, SyncTypeOK, TypeOK, CurrentVersion, vars, syncVars, locals, observed
  <2>3. AnswerCompletesVersion'
    BY <2>1 DEF IInv, AnswerCompletesVersion, BlocksOf, vars, syncVars, locals, observed
  <2>4. CursorNotBehindAnswer' /\ OverlapsMarked' /\ CursorNotPassed'
    BY <2>1 DEF IInv, CursorNotBehindAnswer, OverlapsMarked, CursorNotPassed,
                syncVars, locals, observed
  <2> QED BY <2>2, <2>3, <2>4 DEF IInv
<1> QED BY <1>1, <1>2, <1>3, <1>4, <1>5, <1>6, <1>7 DEF SyncNext, Idle

-----------------------------------------------------------------------------
(* The theorems.                                                           *)

\* In every reachable state, the inductive invariant holds.
THEOREM Invariance == SyncSpec => []IInv
BY InvariantInit, InvariantStep, PTL DEF SyncSpec

\* No cursor, and no call, ever names a version that does not exist.
THEOREM TypeCorrect == SyncSpec => []SyncTypeOK
<1>1. IInv => SyncTypeOK
  BY DEF IInv
<1> QED BY <1>1, Invariance, PTL

\* What the device named and what get_missing_blocks told it make up a version
\* that was current during the call, whatever is committed meanwhile.
THEOREM AnswerCompletes == SyncSpec => []AnswerCompletesVersion
<1>1. IInv => AnswerCompletesVersion
  BY DEF IInv
<1> QED BY <1>1, Invariance, PTL

\* The cursor that upsert_device_cursor is given is not behind that version.
THEOREM CursorAfterAnswer == SyncSpec => []CursorNotBehindAnswer
<1>1. IInv => CursorNotBehindAnswer
  BY DEF IInv
<1> QED BY <1>1, Invariance, PTL

\* Where a call that has met no other of its device is about to write the
\* cursor, no step moves that cursor back.
LEMMA CursorStep ==
  ASSUME IInv, SyncNext, NEW c \in Calls \ overlapped, pc[c] = "cursor"
  PROVE  cursor'[<<call[c].device, call[c].file>>] >= cursor[<<call[c].device, call[c].file>>]
<1> DEFINE df == <<call[c].device, call[c].file>>
<1>1. /\ SyncTypeOK
      /\ df \in Devices \X Files
      /\ cursor[df] \in Nat
      /\ seen[c] \in Nat
  <2>1. SyncTypeOK /\ df \in Devices \X Files
    BY CallTyped DEF IInv
  <2> QED BY <2>1 DEF SyncTypeOK
<1>2. cursor[df] <= seen[c]
  BY DEF IInv, CursorNotPassed
<1>3. CASE UpsertCursor(c)
  <2>1. cursor'[df] = seen[c]
    BY <1>1, <1>3 DEF UpsertCursor, SyncTypeOK
  <2> QED BY <1>1, <1>2, <2>1
<1>4. ASSUME NEW d \in Calls, d # c, UpsertCursor(d) PROVE cursor'[df] >= cursor[df]
  <2>1. <<call[d].device, call[d].file>> # df
    BY <1>4 DEF IInv, OverlapsMarked, UpsertCursor, Active
  <2>2. cursor'[df] = cursor[df]
    BY <1>1, <1>4, <2>1 DEF UpsertCursor, SyncTypeOK
  <2> QED BY <1>1, <2>2
<1>5. CASE UNCHANGED cursor
  BY <1>1, <1>5
<1> QED
  BY <1>3, <1>4, <1>5 DEF SyncNext, HistoryStep, Idle, Admit, Refuse, ReadMissing,
       ReadCurrent, Answer, Fail, syncVars, allVars

\* Calls that a device makes one after the other never move its cursor back.
THEOREM CursorForward == SyncSpec => CursorGoesBackOnlyByOverlap
<1>1. IInv /\ [SyncNext]_allVars =>
        [\A c \in Calls \ overlapped : pc[c] = "cursor" =>
           LET df == <<call[c].device, call[c].file>>
           IN  cursor'[df] >= cursor[df]]_allVars
  BY CursorStep
<1> QED BY <1>1, Invariance, PTL DEF SyncSpec, CursorGoesBackOnlyByOverlap
=============================================================================
