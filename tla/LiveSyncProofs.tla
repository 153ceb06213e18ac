--------------------------- MODULE LiveSyncProofs ---------------------------
(***************************************************************************)
(* Proofs that no event runs ahead of the version it announces, and that a *)
(* device which has done what it was told to is current, for any devices,  *)
(* files, commits, lost answers, broken connections and restarts.          *)
(***************************************************************************)
EXTENDS LiveSync, NotifierProofs, WellFoundedInduction

(***************************************************************************)
(* The inductive invariant, on top of that of Notifier, whose steps these  *)
(* are.  What a device is told it finds, since a version is numbered       *)
(* before its event is published.  What a device has not been told it need *)
(* not know, since a version that it lacks is still on one of the ways to  *)
(* it: to be published, queued, about to be pushed, to be asked for, or in *)
(* the answer that is coming.                                              *)
(***************************************************************************)

LiveTypeOK ==
  /\ version \in [Files -> Nat]
  /\ number \in [Commits -> Nat]
  /\ due \subseteq Pairs
  /\ answers \subseteq Sockets \X Files \X Nat
  /\ copy \in [Pairs -> Nat]
  /\ missed \subseteq Pairs
  /\ told \in [Pairs -> Nat]

\* No commit and no push stands for a version that does not exist.
VersionsExist ==
  /\ \A p \in Commits : number[p] <= version[file[p]]
  /\ \A ws \in Sockets, f \in Files : told[<<ws, f>>] <= version[f]

\* A device has one answer of a file on its way at most, and it is at least
\* as new as the pushes the device had handled when it asked.
AnswersFresh ==
  /\ \A a, b \in answers : a[1] = b[1] /\ a[2] = b[2] => a = b
  /\ \A a \in answers : told[<<a[1], a[2]>>] <= a[3]

\* A subscribed device that has nothing to ask for, and is to be told nothing.
Done(ws, f) ==
  /\ <<f, ws>> \in acked
  /\ <<ws, f>> \notin due \cup missed
  /\ ~Announced(f, ws)

\* A device has the current version, or it is in the answer that is coming.
IsCurrent(ws, f) ==
  /\ \A a \in answers : a[1] = ws /\ a[2] = f => a[3] = version[f]
  /\ ~Asking(ws, f) => copy[<<ws, f>>] = version[f]

\* A look at the current version is enough, until there is something to tell.
LookSuffices == \A ws \in Sockets, f \in Files : Done(ws, f) => IsCurrent(ws, f)

LiveInv ==
  /\ IInv
  /\ LiveTypeOK
  /\ VersionsExist
  /\ AnswersFresh
  /\ PushLeadsToVersion
  /\ LookSuffices

-----------------------------------------------------------------------------
(* The numbers of versions.                                                *)

\* A set of numbers up to v has a largest one.
LEMMA LargestExists ==
  ASSUME NEW v \in Nat, NEW S \in SUBSET (0 .. v), S # {}
  PROVE  /\ Largest(S) \in S
         /\ \A m \in S : m <= Largest(S)
<1> DEFINE T == {v - n : n \in S}
           R == {ss \in Nat \X Nat : ss[1] < ss[2]}
<1>1. IsWellFoundedOn(R, Nat)
  BY NatLessThanWellFounded DEF OpToRel
<1>2. T \subseteq Nat /\ T # {}
  <2>1. \A n \in S : n \in Int /\ v - n \in Nat
    OBVIOUS
  <2> QED BY <2>1
<1>3. PICK x \in T : \A y \in T : ~(<<y, x>> \in R)
  <2> HIDE DEF T, R
  <2> QED BY <1>1, <1>2, WFMin
<1>4. PICK n \in S : x = v - n
  BY <1>3
<1>5. \A m \in S : m <= n
  <2> TAKE m \in S
  <2>1. m \in Int /\ n \in Int /\ v - m \in Nat /\ v - n \in Nat
    OBVIOUS
  <2>2. ~(<<v - m, v - n>> \in R)
    BY <1>3, <1>4
  <2>3. ~(v - m < v - n)
    BY <2>1, <2>2
  <2> QED BY <2>1, <2>3
<1> QED BY <1>4, <1>5 DEF Largest

\* What a device asks for is at least as new as all that it was told.
LEMMA ToldByHeard ==
  ASSUME TypeOK, LiveTypeOK, VersionsExist, NEW ws \in Sockets, NEW f \in Files,
         NEW n, n = Largest({number[p] : p \in Heard(ws, f)} \cup {told[<<ws, f>>]})
  PROVE  n \in 0 .. version[f]
<1> DEFINE S == {number[p] : p \in Heard(ws, f)} \cup {told[<<ws, f>>]}
<1>1. version[f] \in Nat
  BY DEF LiveTypeOK
<1>2. told[<<ws, f>>] \in 0 .. version[f]
  <2>1. <<ws, f>> \in Pairs
    BY DEF Pairs
  <2>2. told[<<ws, f>>] \in Nat
    BY <2>1 DEF LiveTypeOK
  <2> QED BY <1>1, <2>2 DEF VersionsExist
<1>3. ASSUME NEW p \in Heard(ws, f) PROVE number[p] \in 0 .. version[f]
  <2>1. PICK j \in DOMAIN received[ws] : p = received[ws][j] /\ file[p] = f
    BY DEF Heard
  <2>2. p \in Commits
    <3>1. received[ws] \in Seq(Commits)
      BY DEF TypeOK
    <3> QED BY <2>1, <3>1
  <2>3. number[p] \in Nat /\ number[p] <= version[f]
    BY <2>1, <2>2 DEF LiveTypeOK, VersionsExist
  <2> QED BY <1>1, <2>3
<1>4. S \in SUBSET (0 .. version[f]) /\ S # {}
  BY <1>2, <1>3
<1>5. Largest(S) \in S
  <2> HIDE DEF S
  <2> QED BY <1>1, <1>4, LargestExists
<1> QED BY <1>4, <1>5

\* Nothing is known, told or asked for at first.
LEMMA LiveInitEstablishes == LiveInit => LiveInv
<1> SUFFICES ASSUME LiveInit PROVE LiveInv
  OBVIOUS
<1>1. IInv
  BY InitEstablished DEF LiveInit
<1>2. LiveTypeOK
  BY DEF LiveInit, LiveTypeOK, None
<1>3. \A ws \in Sockets, f \in Files : <<ws, f>> \in Pairs
  BY DEF Pairs
<1>4. VersionsExist /\ PushLeadsToVersion
  <2>1. \A ws \in Sockets, f \in Files : told[<<ws, f>>] = 0 /\ copy[<<ws, f>>] = 0
    BY <1>3 DEF LiveInit, None
  <2>2. \A p \in Commits : number[p] = 0 /\ version[file[p]] = 0
    BY DEF LiveInit, Init
  <2> QED BY <2>1, <2>2 DEF LiveInit, VersionsExist, PushLeadsToVersion
<1>5. AnswersFresh /\ LookSuffices
  BY DEF LiveInit, Init, AnswersFresh, LookSuffices, Done
<1> QED BY <1>1, <1>2, <1>4, <1>5 DEF LiveInv

\* Every step is a step of Notifier, or one that Notifier does not see.
LEMMA StepOfNotifier == LiveNext => [Next]_vars
BY DEF LiveNext, Store, Announce, ChannelBreaks, AckThenSync, Deliver, IsToAsk, Read, Arrive,
       AskAgain, Elsewhere, Quiet, Next, Forward, Handle

-----------------------------------------------------------------------------
(* The types.                                                              *)

\* Only its own commit gives a file a new version and itself a number.
LEMMA StoreOutcome ==
  ASSUME TypeOK, LiveTypeOK, NEW p \in Commits, Store(p)
  PROVE  /\ version' \in [Files -> Nat]
         /\ number' \in [Commits -> Nat]
         /\ version[file[p]] \in Nat
         /\ version'[file[p]] = version[file[p]] + 1
         /\ \A f \in Files \ {file[p]} : version'[f] = version[f]
         /\ number'[p] = version[file[p]] + 1
         /\ \A q \in Commits \ {p} : number'[q] = number[q]
         /\ pc' = [pc EXCEPT ![p] = "publish"] /\ pc'[p] = "publish"
         /\ UNCHANGED <<file, redisVars, listenerVars, socketVars, observed, deviceVars>>
<1>1. /\ version' = [version EXCEPT ![file[p]] = version[file[p]] + 1]
      /\ number' = [number EXCEPT ![p] = version[file[p]] + 1]
      /\ pc' = [pc EXCEPT ![p] = "publish"]
      /\ UNCHANGED <<file, redisVars, listenerVars, socketVars, observed, deviceVars>>
  BY DEF Store, NewVersion, CommitReturns
<1>2. file[p] \in Files /\ version[file[p]] \in Nat /\ version[file[p]] + 1 \in Nat
  BY DEF TypeOK, LiveTypeOK
<1>3. version' \in [Files -> Nat] /\ number' \in [Commits -> Nat]
  BY <1>1, <1>2 DEF LiveTypeOK
<1> QED BY <1>1, <1>2, <1>3 DEF TypeOK, LiveTypeOK

\* What a look of a device does.
LEMMA ReadOutcome ==
  ASSUME TypeOK, LiveTypeOK, VersionsExist, NEW ws \in Sockets, NEW f \in Files, Read(ws, f)
  PROVE  /\ told' \in [Pairs -> Nat]
         /\ told'[<<ws, f>>] <= version[f]
         /\ version[f] \in Nat
         /\ \A sf \in Pairs \ {<<ws, f>>} : told'[sf] = told[sf]
         /\ answers' = answers \cup {<<ws, f, version[f]>>}
         /\ ~Asking(ws, f)
         /\ due' = due \ {<<ws, f>>}
         /\ missed' = missed \ {<<ws, f>>}
         /\ UNCHANGED <<vars, version, number, copy>>
<1> DEFINE n == Largest({number[p] : p \in Heard(ws, f)} \cup {told[<<ws, f>>]})
<1>1. /\ told' = [told EXCEPT ![<<ws, f>>] = n]
      /\ answers' = answers \cup {<<ws, f, version[f]>>}
      /\ ~Asking(ws, f)
      /\ due' = due \ {<<ws, f>>}
      /\ missed' = missed \ {<<ws, f>>}
      /\ UNCHANGED <<vars, version, number, copy>>
  BY DEF Read
<1>2. n \in 0 .. version[f] /\ version[f] \in Nat
  <2>1. n \in 0 .. version[f]
    BY ToldByHeard
  <2> QED BY <2>1 DEF LiveTypeOK
<1>3. <<ws, f>> \in Pairs
  BY DEF Pairs
<1> HIDE DEF n
<1>4. n \in Nat
  BY <1>2
<1>5. /\ told' \in [Pairs -> Nat]
      /\ told'[<<ws, f>>] = n
      /\ \A sf \in Pairs \ {<<ws, f>>} : told'[sf] = told[sf]
  BY <1>1, <1>3, <1>4 DEF LiveTypeOK
<1>6. told'[<<ws, f>>] <= version[f]
  BY <1>2, <1>5
<1> QED BY <1>1, <1>2, <1>5, <1>6

\* What the arrival of an answer does.
LEMMA ArriveOutcome ==
  ASSUME LiveTypeOK, NEW ws \in Sockets, NEW f \in Files, Arrive(ws, f)
  PROVE  \E a \in answers :
           /\ a[1] = ws /\ a[2] = f /\ a[3] \in Nat
           /\ copy' \in [Pairs -> Nat]
           /\ copy'[<<ws, f>>] = a[3]
           /\ \A sf \in Pairs \ {<<ws, f>>} : copy'[sf] = copy[sf]
           /\ answers' = answers \ {a}
           /\ UNCHANGED <<vars, version, number, due, missed, told>>
<1>1. PICK a \in answers : /\ a[1] = ws /\ a[2] = f
                           /\ copy' = [copy EXCEPT ![<<ws, f>>] = a[3]]
                           /\ answers' = answers \ {a}
  BY DEF Arrive
<1>2. a[3] \in Nat
  BY DEF LiveTypeOK
<1>3. <<ws, f>> \in Pairs
  BY DEF Pairs
<1>4. /\ copy' \in [Pairs -> Nat]
      /\ copy'[<<ws, f>>] = a[3]
      /\ \A sf \in Pairs \ {<<ws, f>>} : copy'[sf] = copy[sf]
  BY <1>1, <1>2, <1>3 DEF LiveTypeOK
<1>5. UNCHANGED <<vars, version, number, due, missed, told>>
  BY DEF Arrive
<1> QED BY <1>1, <1>2, <1>4, <1>5

\* Every step leaves the variables of devices well typed.
LEMMA LiveStepTyped ==
  ASSUME IInv, LiveTypeOK, VersionsExist, LiveNext
  PROVE  LiveTypeOK'
<1>1. TypeOK /\ TypeOK'
  BY StepOfNotifier, InvariantStep DEF IInv
<1>2. ASSUME NEW p \in Commits, Store(p) PROVE LiveTypeOK'
  BY <1>1, <1>2, StoreOutcome DEF LiveTypeOK, deviceVars
<1>3. ASSUME NEW P \in SUBSET Commits, Lose(P) PROVE LiveTypeOK'
  <2>1. missed' \subseteq Pairs
    BY <1>1, <1>3 DEF Lose, LiveTypeOK, TypeOK, Pairs
  <2> QED BY <1>3, <2>1 DEF Lose, LiveTypeOK
<1>4. ASSUME NEW p \in Commits, Announce(p) PROVE LiveTypeOK'
  BY <1>3, <1>4 DEF Announce
<1>5. CASE ChannelBreaks
  <2>1. {channel[i] : i \in DOMAIN channel} \in SUBSET Commits
    BY <1>1 DEF TypeOK
  <2> QED BY <1>3, <1>5, <2>1 DEF ChannelBreaks
<1>6. ASSUME NEW ws \in Sockets, AckThenSync(ws) PROVE LiveTypeOK'
  <2>1. due' \subseteq Pairs
    BY <1>1, <1>6 DEF AckThenSync, IsToAsk, LiveTypeOK, TypeOK, Pairs
  <2> QED BY <1>6, <2>1 DEF AckThenSync, IsToAsk, LiveTypeOK
<1>7. ASSUME NEW ws \in Sockets, Deliver(ws) PROVE LiveTypeOK'
  <2>1. \A s \in pushes : <<ws, file[s[2]]>> \in Pairs
    BY <1>1 DEF TypeOK, Pairs
  <2>2. due' \subseteq Pairs
    BY <1>7, <2>1 DEF Deliver, IsToAsk, LiveTypeOK
  <2> QED BY <1>7, <2>2 DEF Deliver, IsToAsk, LiveTypeOK
<1>8. ASSUME NEW ws \in Sockets, NEW f \in Files, Read(ws, f) PROVE LiveTypeOK'
  <2>1. /\ told' \in [Pairs -> Nat] /\ version[f] \in Nat
        /\ answers' = answers \cup {<<ws, f, version[f]>>}
        /\ due' \subseteq due /\ missed' \subseteq missed
        /\ UNCHANGED <<version, number, copy>>
    BY <1>1, <1>8, ReadOutcome
  <2>2. answers' \subseteq Sockets \X Files \X Nat
    BY <2>1 DEF LiveTypeOK
  <2> QED BY <2>1, <2>2 DEF LiveTypeOK
<1>9. ASSUME NEW ws \in Sockets, NEW f \in Files, Arrive(ws, f) PROVE LiveTypeOK'
  <2>1. /\ copy' \in [Pairs -> Nat]
        /\ answers' \subseteq answers
        /\ UNCHANGED <<version, number, due, missed, told>>
    BY <1>9, ArriveOutcome
  <2> QED BY <2>1 DEF LiveTypeOK
<1>10. ASSUME NEW ws \in Sockets, NEW f \in Files, AskAgain(ws, f) PROVE LiveTypeOK'
  BY <1>10 DEF AskAgain, LiveTypeOK, Pairs
<1>11. CASE Elsewhere \/ Quiet
  BY <1>11 DEF Elsewhere, Quiet, LiveTypeOK, liveVars, deviceVars
<1> QED BY <1>2, <1>4, <1>5, <1>6, <1>7, <1>8, <1>9, <1>10, <1>11 DEF LiveNext

-----------------------------------------------------------------------------
(* What a device is told, it finds.                                        *)

\* A commit is a commit of one file for good.
LEMMA FileStays == [Next]_vars => file' = file
BY DEF Next, CommitReturns, Publish, PublishFails, NeverPublished, RedisDrops, RedisRecovers,
       Listen, ListenerStops, Forward, Take, Push, SendEnds, Receive, Connect, Handle,
       Subscribe, Unsubscribe, Ack, EndHandler, HandlerRaises, Disconnect, Restart, Idle,
       commitVars, vars

\* Everything that devices are told of.
Telling == VersionsExist /\ AnswersFresh /\ PushLeadsToVersion

\* Steps that only add to what is to be asked for.
LEMMA TellingUntouched ==
  ASSUME Telling, UNCHANGED <<version, number, file, answers, copy, told>>, due \subseteq due'
  PROVE  Telling'
BY DEF Telling, VersionsExist, AnswersFresh, PushLeadsToVersion

\* A new version is newer than all that anybody has been told.
LEMMA TellingStore ==
  ASSUME TypeOK, LiveTypeOK, Telling, NEW p \in Commits, Store(p)
  PROVE  Telling'
<1>1. /\ version[file[p]] \in Nat
      /\ version'[file[p]] = version[file[p]] + 1
      /\ \A f \in Files \ {file[p]} : version'[f] = version[f]
      /\ number'[p] = version[file[p]] + 1
      /\ \A q \in Commits \ {p} : number'[q] = number[q]
      /\ UNCHANGED <<file, due, answers, copy, told>>
  BY StoreOutcome DEF deviceVars
<1>2. ASSUME NEW f \in Files PROVE version[f] \in Nat /\ version[f] <= version'[f]
  BY <1>1 DEF LiveTypeOK
<1>3. ASSUME NEW q \in Commits PROVE number'[q] <= version'[file[q]]
  <2>1. CASE q = p
    BY <1>1, <2>1
  <2>2. CASE q # p
    <3>1. file[q] \in Files /\ number[q] \in Nat /\ number[q] <= version[file[q]]
      BY DEF TypeOK, LiveTypeOK, Telling, VersionsExist
    <3>2. version[file[q]] \in Nat /\ version[file[q]] <= version'[file[q]]
          /\ version'[file[q]] \in Nat
      BY <1>2, <3>1, StoreOutcome
    <3> QED BY <1>1, <2>2, <3>1, <3>2
  <2> QED BY <2>1, <2>2
<1>4. ASSUME NEW ws \in Sockets, NEW f \in Files PROVE told[<<ws, f>>] <= version'[f]
  <2>1. <<ws, f>> \in Pairs
    BY DEF Pairs
  <2>2. told[<<ws, f>>] \in Nat /\ version'[f] \in Nat
    BY <2>1, StoreOutcome DEF LiveTypeOK
  <2>3. told[<<ws, f>>] <= version[f]
    BY DEF Telling, VersionsExist
  <2> QED BY <1>2, <2>2, <2>3
<1>5. VersionsExist'
  BY <1>1, <1>3, <1>4 DEF VersionsExist
<1> QED BY <1>1, <1>5 DEF Telling, AnswersFresh, PushLeadsToVersion

\* The answer to a look carries the current version, and no other answer of
\* the file is on its way to this device.
LEMMA TellingRead ==
  ASSUME TypeOK, LiveTypeOK, Telling, NEW ws \in Sockets, NEW f \in Files, Read(ws, f)
  PROVE  Telling'
<1>1. /\ told'[<<ws, f>>] <= version[f]
      /\ \A sf \in Pairs \ {<<ws, f>>} : told'[sf] = told[sf]
      /\ answers' = answers \cup {<<ws, f, version[f]>>}
      /\ due' = due \ {<<ws, f>>}
      /\ UNCHANGED <<vars, version, number, copy>>
  BY ReadOutcome DEF Telling
<1>2. \A a \in answers : ~(a[1] = ws /\ a[2] = f)
  <2>1. ~Asking(ws, f)
    BY ReadOutcome DEF Telling
  <2> QED BY <2>1 DEF Asking
<1>3. file' = file
  BY <1>1 DEF vars, commitVars
<1>4. \A vs \in Sockets, g \in Files : <<vs, g>> \in Pairs
  BY DEF Pairs
<1>5. ASSUME NEW a \in answers'
      PROVE  a \in answers \/ a = <<ws, f, version[f]>>
  BY <1>1
<1>6. VersionsExist'
  BY <1>1, <1>3, <1>4 DEF Telling, VersionsExist
<1>7. AnswersFresh'
  <2>1. \A a \in answers : a[1] \in Sockets /\ a[2] \in Files /\ <<a[1], a[2]>> \in Pairs
    BY DEF LiveTypeOK, Pairs
  <2>2. ASSUME NEW a \in answers' PROVE told'[<<a[1], a[2]>>] <= a[3]
    <3>1. CASE a \in answers
      <4>1. <<a[1], a[2]>> # <<ws, f>>
        BY <1>2, <3>1
      <4> QED BY <1>1, <2>1, <3>1, <4>1 DEF Telling, AnswersFresh
    <3>2. CASE a = <<ws, f, version[f]>>
      BY <1>1, <3>2
    <3> QED BY <1>5, <3>1, <3>2
  <2>3. ASSUME NEW a \in answers', NEW b \in answers', a[1] = b[1], a[2] = b[2] PROVE a = b
    BY <1>2, <1>5, <2>3 DEF Telling, AnswersFresh
  <2> QED BY <2>2, <2>3 DEF AnswersFresh
<1>8. PushLeadsToVersion'
  <2> SUFFICES ASSUME NEW vs \in Sockets, NEW g \in Files
               PROVE  \/ \E a \in answers' : a[1] = vs /\ a[2] = g /\ a[3] >= told'[<<vs, g>>]
                      \/ copy'[<<vs, g>>] >= told'[<<vs, g>>]
                      \/ <<vs, g>> \in due'
    BY DEF PushLeadsToVersion
  <2>1. CASE vs = ws /\ g = f
    <3>1. <<ws, f, version[f]>> \in answers'
      BY <1>1
    <3>2. version[f] >= told'[<<ws, f>>]
      <4>1. version[f] \in Nat /\ told'[<<ws, f>>] \in Nat
        BY <1>4, ReadOutcome DEF Telling
      <4> QED BY <1>1, <4>1
    <3> QED BY <2>1, <3>1, <3>2
  <2>2. CASE <<vs, g>> # <<ws, f>>
    BY <1>1, <1>4, <2>2 DEF Telling, PushLeadsToVersion
  <2> QED BY <2>1, <2>2
<1> QED BY <1>6, <1>7, <1>8 DEF Telling

\* What arrives is at least as new as what the device was told when it asked;
\* what does not arrive is asked for again.
LEMMA TellingAnswers ==
  ASSUME TypeOK, LiveTypeOK, Telling, NEW ws \in Sockets, NEW f \in Files,
         Arrive(ws, f) \/ AskAgain(ws, f)
  PROVE  Telling'
<1>1. \A vs \in Sockets, g \in Files : <<vs, g>> \in Pairs
  BY DEF Pairs
<1>2. CASE Arrive(ws, f)
  <2>1. PICK a \in answers :
          /\ a[1] = ws /\ a[2] = f /\ a[3] \in Nat
          /\ copy'[<<ws, f>>] = a[3]
          /\ \A sf \in Pairs \ {<<ws, f>>} : copy'[sf] = copy[sf]
          /\ answers' = answers \ {a}
          /\ UNCHANGED <<vars, version, number, due, missed, told>>
    BY <1>2, ArriveOutcome
  <2>2. file' = file
    BY <2>1 DEF vars, commitVars
  <2>3. VersionsExist' /\ AnswersFresh'
    BY <2>1, <2>2 DEF Telling, VersionsExist, AnswersFresh
  <2>4. copy'[<<ws, f>>] >= told[<<ws, f>>]
    <3>1. told[<<ws, f>>] \in Nat /\ told[<<ws, f>>] <= a[3]
      BY <1>1, <2>1 DEF LiveTypeOK, Telling, AnswersFresh
    <3> QED BY <2>1, <3>1
  <2>5. ASSUME NEW vs \in Sockets, NEW g \in Files, <<vs, g>> # <<ws, f>>
        PROVE  \/ \E b \in answers' : b[1] = vs /\ b[2] = g /\ b[3] >= told[<<vs, g>>]
               \/ copy'[<<vs, g>>] >= told[<<vs, g>>]
               \/ <<vs, g>> \in due
    BY <1>1, <2>1, <2>5 DEF Telling, PushLeadsToVersion
  <2>6. PushLeadsToVersion'
    BY <2>1, <2>4, <2>5 DEF PushLeadsToVersion
  <2> QED BY <2>3, <2>6 DEF Telling
<1>3. CASE AskAgain(ws, f)
  <2>1. /\ answers' = {a \in answers : ~(a[1] = ws /\ a[2] = f)}
        /\ due' = due \cup {<<ws, f>>}
        /\ UNCHANGED <<vars, version, number, copy, missed, told>>
    BY <1>3 DEF AskAgain
  <2>2. file' = file
    BY <2>1 DEF vars, commitVars
  <2>3. VersionsExist' /\ AnswersFresh'
    BY <2>1, <2>2 DEF Telling, VersionsExist, AnswersFresh
  <2>4. PushLeadsToVersion'
    BY <2>1 DEF Telling, PushLeadsToVersion
  <2> QED BY <2>3, <2>4 DEF Telling
<1> QED BY <1>2, <1>3

\* Every step keeps it.
LEMMA TellingStep ==
  ASSUME TypeOK, LiveTypeOK, Telling, LiveNext
  PROVE  Telling'
<1>1. file' = file
  BY StepOfNotifier, FileStays
<1>2. ASSUME NEW p \in Commits, Store(p) PROVE Telling'
  BY <1>2, TellingStore
<1>3. ASSUME NEW ws \in Sockets, NEW f \in Files, Read(ws, f) PROVE Telling'
  BY <1>3, TellingRead
<1>4. ASSUME NEW ws \in Sockets, NEW f \in Files, Arrive(ws, f) \/ AskAgain(ws, f) PROVE Telling'
  BY <1>4, TellingAnswers
<1>5. CASE (\E p \in Commits : Announce(p)) \/ ChannelBreaks \/ Elsewhere \/ Quiet
  <2>1. UNCHANGED <<version, number, answers, copy, told, due>>
    BY <1>5 DEF Announce, ChannelBreaks, Lose, Elsewhere, Quiet, liveVars, deviceVars
  <2> QED BY <1>1, <2>1, TellingUntouched
<1>6. ASSUME NEW ws \in Sockets, AckThenSync(ws) \/ Deliver(ws) PROVE Telling'
  <2>1. UNCHANGED <<version, number, answers, copy, told>> /\ due \subseteq due'
    BY <1>6 DEF AckThenSync, Deliver, IsToAsk
  <2> QED BY <1>1, <2>1, TellingUntouched
<1> QED BY <1>2, <1>3, <1>4, <1>5, <1>6 DEF LiveNext

-----------------------------------------------------------------------------
(* What a device is not told, it need not know.                            *)

\* Steps that give nobody less to do.
LEMMA LookStillSuffices ==
  ASSUME LookSuffices, UNCHANGED <<answers, copy, version>>,
         \A ws \in Sockets, f \in Files : Done(ws, f)' => Done(ws, f)
  PROVE  LookSuffices'
BY DEF LookSuffices, IsCurrent, Asking

\* An event on its way stays on its way, is pushed, or is lost.
LEMMA AnnouncedStays ==
  ASSUME TypeOK, NEW f \in Files, NEW ws \in Sockets, Announced(f, ws),
         UNCHANGED <<file, pc, channel, pushes>>
  PROVE  Announced(f, ws)'
BY DEF Announced

\* A published event is queued for the listener, or missed.
LEMMA LookAfterAnnounce ==
  ASSUME TypeOK, LookSuffices, NEW p \in Commits, Announce(p)
  PROVE  LookSuffices'
<1>1. /\ UNCHANGED <<file, pushes, acked, version, answers, copy, due>>
      /\ pc' = [pc EXCEPT ![p] = "done"]
      /\ missed \subseteq missed'
  BY DEF Announce, Publish, PublishFails, NeverPublished, Lose, commitVars, redisVars,
         listenerVars, socketVars, observed
<1>2. \A q \in Commits \ {p} : pc'[q] = pc[q]
  BY <1>1 DEF TypeOK
<1>3. \/ channel' = Append(channel, p)
      \/ channel' = channel /\ \A ws \in Sockets : <<ws, file[p]>> \in missed'
  BY DEF Announce, Publish, PublishFails, NeverPublished, Lose, redisVars
<1>4. ASSUME NEW i \in DOMAIN channel PROVE i \in DOMAIN channel' /\ channel'[i] = channel[i]
  <2>1. channel \in Seq(Commits)
    BY DEF TypeOK
  <2>2. CASE channel' = Append(channel, p)
    BY <1>4, <2>1, <2>2
  <2>3. CASE channel' = channel
    BY <1>4, <2>3
  <2> QED BY <1>3, <2>2, <2>3
<1>5. ASSUME NEW ws \in Sockets, NEW f \in Files, Done(ws, f)' PROVE Done(ws, f)
  <2>1. ~Announced(f, ws)'
    BY <1>5 DEF Done
  <2>2. ASSUME NEW q \in Commits, file[q] = f, pc[q] = "publish" PROVE FALSE
    <3>1. CASE q # p
      BY <1>1, <1>2, <2>1, <2>2, <3>1 DEF Announced
    <3>2. CASE q = p
      <4>1. channel' = Append(channel, p)
        BY <1>3, <1>5, <2>2, <3>2 DEF Done
      <4>2. Len(channel) + 1 \in DOMAIN channel' /\ channel'[Len(channel) + 1] = p
        BY <4>1 DEF TypeOK
      <4> QED BY <1>1, <2>1, <2>2, <3>2, <4>2 DEF Announced
    <3> QED BY <3>1, <3>2
  <2>3. \A i \in DOMAIN channel : file[channel[i]] # f
    BY <1>1, <1>4, <2>1 DEF Announced
  <2>4. ~Announced(f, ws)
    BY <1>1, <2>1, <2>2, <2>3 DEF Announced
  <2> QED BY <1>1, <1>5, <2>4 DEF Done
<1> QED BY <1>1, <1>5, LookStillSuffices

\* A broken connection takes queued events with it: they are missed.
LEMMA LookAfterBreak ==
  ASSUME TypeOK, LookSuffices, ChannelBreaks
  PROVE  LookSuffices'
<1>1. /\ UNCHANGED <<file, pc, pushes, acked, version, answers, copy, due>>
      /\ missed \subseteq missed'
      /\ \A ws \in Sockets : \A i \in DOMAIN channel : <<ws, file[channel[i]]>> \in missed'
  BY DEF ChannelBreaks, RedisDrops, Lose, commitVars
<1>2. ASSUME NEW ws \in Sockets, NEW f \in Files, Done(ws, f)' PROVE Done(ws, f)
  <2>1. \A i \in DOMAIN channel : file[channel[i]] # f
    BY <1>1, <1>2 DEF Done
  <2>2. ~Announced(f, ws)
    BY <1>1, <1>2, <2>1 DEF Done, Announced
  <2> QED BY <1>1, <1>2, <2>2 DEF Done
<1> QED BY <1>1, <1>2, LookStillSuffices

\* Whoever is told of a subscription looks.
LEMMA LookAfterAck ==
  ASSUME TypeOK, LookSuffices, NEW vs \in Sockets, AckThenSync(vs)
  PROVE  LookSuffices'
<1>1. /\ UNCHANGED <<file, pc, channel, pushes, version, answers, copy, missed>>
      /\ due' = due \cup {<<vs, s[1]>> : s \in acked' \ acked}
      /\ acked' \subseteq acked \cup {s \in registry : s[2] = vs}
  BY DEF AckThenSync, IsToAsk, Ack, commitVars, redisVars, listenerVars
<1>2. ASSUME NEW ws \in Sockets, NEW f \in Files, Done(ws, f)' PROVE Done(ws, f)
  <2>1. <<f, ws>> \in acked'
    BY <1>2 DEF Done
  <2>2. <<f, ws>> \in acked
    <3> SUFFICES ASSUME <<f, ws>> \notin acked PROVE FALSE
      OBVIOUS
    <3>1. ws = vs
      BY <1>1, <2>1
    <3>2. <<ws, f>> \in due'
      BY <1>1, <2>1, <3>1
    <3> QED BY <1>2, <3>2 DEF Done
  <2>3. ~Announced(f, ws)
    BY <1>1, <1>2, AnnouncedStays DEF Done
  <2> QED BY <1>1, <1>2, <2>2, <2>3 DEF Done
<1> QED BY <1>1, <1>2, LookStillSuffices

\* A subscribed device is connected: the push reaches it, and it asks.
LEMMA LookAfterDelivery ==
  ASSUME TypeOK, AckedIsConnected, LookSuffices, NEW vs \in Sockets, Deliver(vs)
  PROVE  LookSuffices'
<1>1. PICK p \in Commits : SendEnds(vs, p) /\ pushes' = pushes \ {<<vs, p>>}
  BY DEF Deliver, IsToAsk, Push
<1>2. /\ UNCHANGED <<file, pc, channel, acked, phase, version, answers, copy, missed>>
      /\ due \subseteq due'
      /\ vs \in Open => <<vs, file[p]>> \in due'
  <2>1. <<vs, p>> \in pushes \ pushes'
    BY <1>1 DEF SendEnds
  <2>2. vs \in Open => due' = due \cup {<<vs, file[s[2]]>> : s \in pushes \ pushes'}
    BY DEF Deliver, IsToAsk
  <2>3. vs \in Open => <<vs, file[<<vs, p>>[2]]>> \in due'
    BY <2>1, <2>2
  <2>4. due \subseteq due'
    BY DEF Deliver, IsToAsk
  <2>5. UNCHANGED <<file, pc, channel, acked, phase, version, answers, copy, missed>>
    BY <1>1 DEF Deliver, IsToAsk, SendEnds, commitVars, redisVars, socketVars
  <2> QED BY <2>3, <2>4, <2>5
<1>3. ASSUME NEW ws \in Sockets, NEW f \in Files, Done(ws, f)' PROVE Done(ws, f)
  <2>1. ASSUME NEW q \in Commits, file[q] = f, <<ws, q>> \in pushes PROVE FALSE
    <3>1. <<ws, q>> \notin pushes'
      BY <1>2, <1>3, <2>1 DEF Done, Announced
    <3>2. ws = vs /\ q = p
      BY <1>1, <2>1, <3>1
    <3>3. ws \in Open
      <4>1. <<f, ws>> \in acked
        BY <1>2, <1>3 DEF Done
      <4> QED BY <4>1 DEF AckedIsConnected, Open
    <3> QED BY <1>2, <1>3, <2>1, <3>2, <3>3 DEF Done
  <2>2. ~Announced(f, ws)
    BY <1>2, <1>3, <2>1 DEF Done, Announced
  <2> QED BY <1>2, <1>3, <2>2 DEF Done
<1> QED BY <1>2, <1>3, LookStillSuffices

\* The event that the listener takes is pushed to every subscribed device.
LEMMA LookAfterTake ==
  ASSUME TypeOK, AckedIsRegistered, LookSuffices, Take, UNCHANGED liveVars
  PROVE  LookSuffices'
<1>1. /\ UNCHANGED <<file, pc, acked, version, answers, copy, due, missed>>
      /\ pushes = {}
      /\ channel # <<>> /\ channel \in Seq(Commits)
      /\ pushes' = PushesOf(Head(channel))
      /\ channel' = Tail(channel)
  BY DEF Take, TypeOK, commitVars, observed, liveVars, deviceVars
<1>2. ASSUME NEW ws \in Sockets, NEW f \in Files, Done(ws, f)' PROVE Done(ws, f)
  <2>1. <<f, ws>> \in registry
    BY <1>1, <1>2 DEF Done, AckedIsRegistered
  <2>2. ASSUME NEW i \in DOMAIN channel, file[channel[i]] = f PROVE FALSE
    <3>1. CASE i = 1
      <4>1. Head(channel) \in Commits /\ file[Head(channel)] = f
        BY <1>1, <2>2, <3>1
      <4>2. <<ws, Head(channel)>> \in pushes'
        BY <1>1, <2>1, <4>1 DEF PushesOf
      <4> QED BY <1>1, <1>2, <4>1, <4>2 DEF Done, Announced
    <3>2. CASE i # 1
      <4>1. i - 1 \in DOMAIN channel' /\ channel'[i - 1] = channel[i]
        BY <1>1, <3>2
      <4> QED BY <1>1, <1>2, <2>2, <4>1 DEF Done, Announced
    <3> QED BY <3>1, <3>2
  <2>3. ~Announced(f, ws)
    BY <1>1, <1>2, <2>2 DEF Done, Announced
  <2> QED BY <1>1, <1>2, <2>3 DEF Done
<1> QED BY <1>1, <1>2, LookStillSuffices

\* The other steps of the service only take subscriptions away.
LEMMA LookAfterOthers ==
  ASSUME TypeOK, AckedIsRegistered, LookSuffices, Elsewhere \/ Quiet
  PROVE  LookSuffices'
<1>1. UNCHANGED <<version, answers, copy, due, missed>>
  BY DEF Elsewhere, Quiet, liveVars, deviceVars
<1>2. CASE Take
  BY <1>2, LookAfterTake DEF Elsewhere, Quiet
<1>3. CASE acked' = {}
  BY <1>1, <1>3, LookStillSuffices DEF Done
<1>4. CASE UNCHANGED <<file, pc, channel, pushes>> /\ acked' \subseteq acked
  <2>1. ASSUME NEW ws \in Sockets, NEW f \in Files, Done(ws, f)' PROVE Done(ws, f)
    <3>1. ~Announced(f, ws)
      BY <1>4, <2>1, AnnouncedStays DEF Done
    <3> QED BY <1>1, <1>4, <2>1, <3>1 DEF Done
  <2> QED BY <1>1, <2>1, LookStillSuffices
<1>5. \/ Take
      \/ acked' = {}
      \/ UNCHANGED <<file, pc, channel, pushes>> /\ acked' \subseteq acked
  BY DEF Elsewhere, Quiet, Idle, RedisRecovers, Listen, ListenerStops, Restart, Receive, GivesUp,
         Subscribe, Unsubscribe, Connect, EndHandler, HandlerRaises, Disconnect, CleanUp,
         vars, commitVars, redisVars, listenerVars, observed
<1> QED BY <1>2, <1>3, <1>4, <1>5

\* A new version is to be published.
LEMMA LookAfterStore ==
  ASSUME TypeOK, LiveTypeOK, LookSuffices, NEW p \in Commits, Store(p)
  PROVE  LookSuffices'
<1>1. /\ \A f \in Files \ {file[p]} : version'[f] = version[f]
      /\ pc' = [pc EXCEPT ![p] = "publish"] /\ pc'[p] = "publish"
      /\ UNCHANGED <<file, channel, pushes, acked, due, missed, answers, copy>>
  BY StoreOutcome DEF redisVars, listenerVars, observed, deviceVars
<1>2. \A q \in Commits : pc[q] = "publish" => pc'[q] = "publish"
  BY <1>1 DEF TypeOK
<1>3. ASSUME NEW ws \in Sockets, NEW f \in Files, Done(ws, f)' PROVE IsCurrent(ws, f)'
  <2>1. f # file[p]
    BY <1>1, <1>3 DEF Done, Announced
  <2>2. ~Announced(f, ws)
    BY <1>1, <1>2, <1>3 DEF Done, Announced
  <2>3. IsCurrent(ws, f)
    BY <1>1, <1>3, <2>2 DEF Done, LookSuffices
  <2> QED BY <1>1, <2>1, <2>3 DEF IsCurrent, Asking
<1> QED BY <1>3 DEF LookSuffices

\* A look brings the current version, and concerns no other device or file.
LEMMA LookAfterRead ==
  ASSUME TypeOK, LiveTypeOK, VersionsExist, LookSuffices,
         NEW vs \in Sockets, NEW g \in Files, Read(vs, g)
  PROVE  LookSuffices'
<1>1. /\ answers' = answers \cup {<<vs, g, version[g]>>}
      /\ ~Asking(vs, g)
      /\ due' = due \ {<<vs, g>>}
      /\ missed' = missed \ {<<vs, g>>}
      /\ UNCHANGED <<vars, version, copy>>
  BY ReadOutcome
<1>2. UNCHANGED <<file, pc, channel, pushes, acked>>
  BY <1>1 DEF vars, commitVars, redisVars, listenerVars, observed
<1>3. \A a \in answers : ~(a[1] = vs /\ a[2] = g)
  BY <1>1 DEF Asking
<1>4. ASSUME NEW ws \in Sockets, NEW f \in Files, Done(ws, f)' PROVE IsCurrent(ws, f)'
  <2>1. CASE ws = vs /\ f = g
    <3>1. \A a \in answers' : a[1] = ws /\ a[2] = f => a[3] = version[f]
      BY <1>1, <1>3, <2>1
    <3>2. <<ws, f, version[f]>> \in answers'
      BY <1>1, <2>1
    <3>3. Asking(ws, f)'
      BY <3>2 DEF Asking
    <3> QED BY <1>1, <3>1, <3>3 DEF IsCurrent
  <2>2. CASE ~(ws = vs /\ f = g)
    <3>1. ~Announced(f, ws)
      BY <1>2, <1>4, AnnouncedStays DEF Done
    <3>2. IsCurrent(ws, f)
      BY <1>1, <1>2, <1>4, <2>2, <3>1 DEF Done, LookSuffices
    <3>3. \A a \in answers' : a[1] = ws /\ a[2] = f => a \in answers
      BY <1>1, <2>2
    <3>4. Asking(ws, f) => Asking(ws, f)'
      BY <1>1 DEF Asking
    <3> QED BY <1>1, <3>2, <3>3, <3>4 DEF IsCurrent
  <2> QED BY <2>1, <2>2
<1> QED BY <1>4 DEF LookSuffices

\* The answer that arrives is the one that a device waits for.
LEMMA LookAfterAnswer ==
  ASSUME TypeOK, LiveTypeOK, LookSuffices, NEW vs \in Sockets, NEW g \in Files,
         Arrive(vs, g) \/ AskAgain(vs, g)
  PROVE  LookSuffices'
<1>1. \A ws \in Sockets, f \in Files : <<ws, f>> \in Pairs
  BY DEF Pairs
<1>2. UNCHANGED <<vars, version, missed>>
  BY DEF Arrive, AskAgain
<1>3. UNCHANGED <<file, pc, channel, pushes, acked>>
  BY <1>2 DEF vars, commitVars, redisVars, listenerVars, observed
<1>4. ASSUME NEW ws \in Sockets, NEW f \in Files, Done(ws, f)' PROVE ~Announced(f, ws)
  BY <1>3, <1>4, AnnouncedStays DEF Done
<1>5. CASE Arrive(vs, g)
  <2>1. PICK a \in answers :
          /\ a[1] = vs /\ a[2] = g
          /\ copy'[<<vs, g>>] = a[3]
          /\ \A sf \in Pairs \ {<<vs, g>>} : copy'[sf] = copy[sf]
          /\ answers' = answers \ {a}
          /\ UNCHANGED due
    BY <1>5, ArriveOutcome
  <2>2. ASSUME NEW ws \in Sockets, NEW f \in Files, Done(ws, f)' PROVE IsCurrent(ws, f)'
    <3>1. IsCurrent(ws, f)
      BY <1>2, <1>3, <1>4, <2>1, <2>2 DEF Done, LookSuffices
    <3>2. CASE ws = vs /\ f = g
      BY <1>2, <2>1, <3>1, <3>2 DEF IsCurrent
    <3>3. CASE ~(ws = vs /\ f = g)
      <4>1. copy'[<<ws, f>>] = copy[<<ws, f>>]
        BY <1>1, <2>1, <3>3
      <4>2. Asking(ws, f) => Asking(ws, f)'
        BY <2>1, <3>3 DEF Asking
      <4> QED BY <1>2, <2>1, <3>1, <4>1, <4>2 DEF IsCurrent
    <3> QED BY <3>2, <3>3
  <2> QED BY <2>2 DEF LookSuffices
<1>6. CASE AskAgain(vs, g)
  <2>1. /\ answers' = {a \in answers : ~(a[1] = vs /\ a[2] = g)}
        /\ due' = due \cup {<<vs, g>>}
        /\ UNCHANGED copy
    BY <1>6 DEF AskAgain
  <2>2. ASSUME NEW ws \in Sockets, NEW f \in Files, Done(ws, f)' PROVE IsCurrent(ws, f)'
    <3>1. ~(ws = vs /\ f = g)
      BY <2>1, <2>2 DEF Done
    <3>2. IsCurrent(ws, f)
      BY <1>2, <1>3, <1>4, <2>1, <2>2 DEF Done, LookSuffices
    <3>3. Asking(ws, f) => Asking(ws, f)'
      BY <2>1, <3>1 DEF Asking
    <3> QED BY <1>2, <2>1, <3>2, <3>3 DEF IsCurrent
  <2> QED BY <2>2 DEF LookSuffices
<1> QED BY <1>5, <1>6

-----------------------------------------------------------------------------
(* The invariant.                                                          *)

\* Every step keeps the invariant.
LEMMA LiveInvStep ==
  ASSUME LiveInv, [LiveNext]_allVars
  PROVE  LiveInv'
<1>1. CASE LiveNext
  <2>1. IInv /\ TypeOK /\ AckedIsRegistered /\ AckedIsConnected /\ LiveTypeOK /\ Telling
        /\ VersionsExist /\ LookSuffices
    BY DEF LiveInv, IInv, RegistryInv, Telling
  <2>2. IInv' /\ LiveTypeOK' /\ Telling'
    BY <1>1, <2>1, StepOfNotifier, InvariantStep, LiveStepTyped, TellingStep
  <2>3. LookSuffices'
    BY <1>1, <2>1, LookAfterStore, LookAfterAnnounce, LookAfterBreak, LookAfterAck,
       LookAfterDelivery, LookAfterRead, LookAfterAnswer, LookAfterOthers DEF LiveNext
  <2> QED BY <2>2, <2>3 DEF LiveInv, Telling
<1>2. CASE UNCHANGED allVars
  <2>1. UNCHANGED vars /\ UNCHANGED <<version, number, due, answers, copy, missed, told>>
    BY <1>2 DEF allVars, liveVars, deviceVars
  <2>2. UNCHANGED <<file, pc, channel, pushes, acked>>
    BY <2>1 DEF vars, commitVars, redisVars, listenerVars, observed
  <2>3. IInv'
    BY <2>1, InvariantStep DEF LiveInv
  <2>4. LiveTypeOK'
    BY <2>1 DEF LiveInv, LiveTypeOK
  <2>5. Telling'
    BY <2>1, <2>2, TellingUntouched DEF LiveInv, Telling
  <2>6. LookSuffices'
    <3>1. ASSUME NEW ws \in Sockets, NEW f \in Files, Done(ws, f)' PROVE Done(ws, f)
      <4>1. ~Announced(f, ws)
        BY <2>2, <3>1, AnnouncedStays DEF Done, LiveInv, IInv
      <4> QED BY <2>1, <2>2, <3>1, <4>1 DEF Done
    <3> QED BY <2>1, <3>1, LookStillSuffices DEF LiveInv
  <2> QED BY <2>3, <2>4, <2>5, <2>6 DEF LiveInv, Telling
<1> QED BY <1>1, <1>2

\* Commits, notifications and delta sync together keep the invariant.
THEOREM LiveInvariance == LiveSpec => []LiveInv
<1>1. LiveInv /\ [LiveNext]_allVars => LiveInv'
  BY LiveInvStep
<1> QED BY <1>1, LiveInitEstablishes, PTL DEF LiveSpec

\* A device that acts on a push finds at least the version that it was pushed
\* for: commit_version publishes only after its transaction.
THEOREM PushedVersionsExist == LiveSpec => []PushLeadsToVersion
<1>1. LiveInv => PushLeadsToVersion
  BY DEF LiveInv
<1> QED BY <1>1, LiveInvariance, PTL

\* A subscribed device that has done all it was told to has the current
\* version, unless an event was lost since it last looked.
THEOREM QuietDevicesCurrent == LiveSpec => []QuietDeviceIsCurrent
<1>1. LiveInv => QuietDeviceIsCurrent
  BY DEF LiveInv, LookSuffices, Done, IsCurrent, QuietDeviceIsCurrent
<1> QED BY <1>1, LiveInvariance, PTL
=============================================================================
