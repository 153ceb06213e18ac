--------------------------- MODULE NotifierProofs ---------------------------
(***************************************************************************)
(* Proofs about the notifications of an instance, for any clients, files   *)
(* and commits, and any number of messages, broken connections and         *)
(* restarts: the registry holds no dead socket and misses no acknowledged  *)
(* subscription, no event that a client counts on falls between the queue  *)
(* and the pushes, and every client sees events in the order of their      *)
(* publication.                                                            *)
(***************************************************************************)
EXTENDS Notifier, SequenceTheorems, TLAPS

(***************************************************************************)
(* The inductive invariant of the registry and of what clients count on.   *)
(* AckedIsRegistered is not inductive: whoever takes an entry out of the   *)
(* registry must know that the client no longer counts on it, and that is  *)
(* settled when its message arrives, or when it goes away, several steps   *)
(* before the entry is removed.                                            *)
(***************************************************************************)

\* Only connected clients have subscriptions that they count on.
AckedIsConnected == \A s \in acked : phase[s[2]] = "open"

\* What a client is unsubscribing from, it has given up.
GivenUpFirst ==
  \A ws \in Sockets, f \in Files :
    command[ws] = "unsubscribe" /\ f \in left[ws] => <<f, ws>> \notin acked

\* Clients count on events of the files they are subscribed to.
OwedToSubscribers ==
  \A ws \in Sockets, p \in Commits : <<ws, p>> \in owed => <<file[p], ws>> \in acked

\* Before the listener has subscribed, nobody counts on any event.
NothingOwedAtStart == listener = "starting" => owed = {}

\* The registry and the subscriptions that clients know of.
RegistryInv ==
  /\ EndedIsUnregistered
  /\ AckedIsRegistered
  /\ AckedIsConnected
  /\ GivenUpFirst

\* The events that clients count on.
DebtInv ==
  /\ OwedToSubscribers
  /\ NothingOwedAtStart
  /\ DebtsOnTheirWay

IInv == TypeOK /\ RegistryInv /\ DebtInv

-----------------------------------------------------------------------------
(* Types.                                                                  *)

\* Initially every variable has its type.
LEMMA InitTyped == Init => TypeOK
BY BoundsAssumption DEF Init, TypeOK

\* The steps of commits, of Redis and of the listener.
LEMMA ServiceStepTyped ==
  ASSUME TypeOK,
         \/ \E p \in Commits :
              CommitReturns(p) \/ Publish(p) \/ PublishFails(p) \/ NeverPublished(p)
         \/ RedisDrops \/ RedisRecovers \/ Listen \/ ListenerStops \/ Forward
  PROVE  TypeOK'
<1> USE DEF TypeOK, commitVars, redisVars, listenerVars, socketVars, observed
<1>1. ASSUME NEW p \in Commits,
             CommitReturns(p) \/ Publish(p) \/ PublishFails(p) \/ NeverPublished(p)
      PROVE  TypeOK'
  <2>1. CASE Publish(p)
    <3>1. channel' \in Seq(Commits) /\ published' \in Seq(Commits)
      BY <2>1 DEF Publish
    <3>2. owed' \subseteq Sockets \X Commits
      BY <2>1 DEF Publish, Creditors
    <3> QED BY <2>1, <3>1, <3>2 DEF Publish
  <2>2. CASE CommitReturns(p) \/ PublishFails(p) \/ NeverPublished(p)
    BY <2>2 DEF CommitReturns, PublishFails, NeverPublished
  <2> QED BY <1>1, <2>1, <2>2
<1>2. CASE RedisDrops
  <2>1. owed' \subseteq owed /\ channel' \in Seq(Commits)
    BY <1>2 DEF RedisDrops
  <2>2. drops' \in 0 .. MaxDrops
    BY <1>2, BoundsAssumption DEF RedisDrops
  <2>3. listener' \in {"starting", "listening", "failing", "stopped"}
    BY <1>2 DEF RedisDrops
  <2> QED BY <1>2, <2>1, <2>2, <2>3 DEF RedisDrops
<1>3. CASE RedisRecovers \/ Listen \/ ListenerStops
  BY <1>3 DEF RedisRecovers, Listen, ListenerStops
<1>4. CASE Take
  <2>1. pushes' \subseteq Sockets \X Commits /\ channel' \in Seq(Commits)
    BY <1>4 DEF Take, PushesOf
  <2> QED BY <1>4, <2>1 DEF Take
<1>5. ASSUME NEW ws \in Sockets, Push(ws) PROVE TypeOK'
  <2>1. PICK p \in Commits : SendEnds(ws, p) /\ pushes' = pushes \ {<<ws, p>>}
    BY <1>5 DEF Push
  <2>2. received' \in [Sockets -> Seq(Commits)]
    BY <2>1 DEF SendEnds
  <2> QED BY <2>1, <2>2 DEF SendEnds
<1> QED BY <1>1, <1>2, <1>3, <1>4, <1>5 DEF Forward

\* The steps of the handlers of WebSocket connections, and a restart.
LEMMA HandlerStepTyped ==
  ASSUME TypeOK,
         \/ \E ws \in Sockets :
              \/ \E kind \in Kinds, F \in (SUBSET Files) \ {{}} : Receive(ws, kind, F)
              \/ Connect(ws) \/ Handle(ws) \/ HandlerRaises(ws) \/ Disconnect(ws)
         \/ Restart
  PROVE  TypeOK'
<1> USE DEF TypeOK, commitVars, redisVars, listenerVars, socketVars, observed
<1>1. ASSUME NEW ws \in Sockets, NEW kind \in Kinds, NEW F \in (SUBSET Files) \ {{}},
             Receive(ws, kind, F)
      PROVE  TypeOK'
  <2>1. acked' \subseteq acked /\ owed' \subseteq owed
    BY <1>1 DEF Receive, GivesUp
  <2>2. commands' \in 0 .. MaxCommands
    BY <1>1, BoundsAssumption DEF Receive
  <2> QED BY <1>1, <2>1, <2>2 DEF Receive, Kinds
<1>2. ASSUME NEW ws \in Sockets, NEW f \in Files, Subscribe(ws, f) \/ Unsubscribe(ws, f)
      PROVE  TypeOK'
  <2>1. registry' \subseteq Files \X Sockets
    BY <1>2 DEF Subscribe, Unsubscribe
  <2>2. /\ left' = [left EXCEPT ![ws] = left[ws] \ {f}]
        /\ UNCHANGED <<commitVars, redisVars, listenerVars, phase, command, commands,
                       observed, restarts>>
    BY <1>2 DEF Subscribe, Unsubscribe
  <2>3. left' \in [Sockets -> SUBSET Files] /\ \A s \in Sockets : left'[s] \subseteq left[s]
    BY <2>2
  <2>4. \A s \in Sockets : command'[s] = "none" => left'[s] = {}
    BY <2>2, <2>3
  <2> QED BY <2>1, <2>2, <2>3, <2>4
<1>3. ASSUME NEW ws \in Sockets, Ack(ws) PROVE TypeOK'
  BY <1>3 DEF Ack
<1>4. ASSUME NEW ws \in Sockets, Connect(ws) PROVE TypeOK'
  BY <1>4 DEF Connect
<1>5. ASSUME NEW ws \in Sockets, Disconnect(ws) PROVE TypeOK'
  BY <1>5 DEF Disconnect, GivesUp
<1>6. ASSUME NEW ws \in Sockets, EndHandler(ws) \/ HandlerRaises(ws) PROVE TypeOK'
  BY <1>6 DEF EndHandler, HandlerRaises, CleanUp, GivesUp
<1>7. CASE Restart
  BY <1>7, BoundsAssumption DEF Restart
<1> QED BY <1>1, <1>2, <1>3, <1>4, <1>5, <1>6, <1>7 DEF Handle

\* Every step keeps the types.
LEMMA StepTyped ==
  ASSUME TypeOK, [Next]_vars
  PROVE  TypeOK'
<1>1. CASE UNCHANGED vars
  BY <1>1 DEF TypeOK, vars, commitVars, redisVars, listenerVars, socketVars, observed
<1> QED BY <1>1, ServiceStepTyped, HandlerStepTyped DEF Next, Idle

-----------------------------------------------------------------------------
(* The registry.                                                           *)

\* Commits, Redis and the listener never touch the registry.
LEMMA RegistryUntouched ==
  ASSUME RegistryInv, UNCHANGED <<registry, phase, command, left, acked>>
  PROVE  RegistryInv'
BY DEF RegistryInv, EndedIsUnregistered, AckedIsRegistered, AckedIsConnected, GivenUpFirst

\* The messages of connected clients.
LEMMA RegistryMessageStep ==
  ASSUME TypeOK, RegistryInv, NEW ws \in Sockets,
         \/ \E kind \in Kinds, F \in (SUBSET Files) \ {{}} : Receive(ws, kind, F)
         \/ \E f \in Files : Subscribe(ws, f) \/ Unsubscribe(ws, f)
         \/ Ack(ws)
         \/ Connect(ws)
  PROVE  RegistryInv'
<1> USE DEF RegistryInv, EndedIsUnregistered, AckedIsRegistered, AckedIsConnected, GivenUpFirst
<1>1. ASSUME NEW kind \in Kinds, NEW F \in (SUBSET Files) \ {{}}, Receive(ws, kind, F)
      PROVE  RegistryInv'
  <2>1. /\ UNCHANGED <<registry, phase>>
        /\ command' = [command EXCEPT ![ws] = kind]
        /\ left' = [left EXCEPT ![ws] = F]
        /\ acked' \subseteq acked
        /\ kind = "unsubscribe" => \A f \in F : <<f, ws>> \notin acked'
    BY <1>1 DEF Receive, GivesUp
  <2> QED BY <2>1 DEF TypeOK
<1>2. ASSUME NEW f \in Files, Subscribe(ws, f) PROVE RegistryInv'
  <2>1. /\ UNCHANGED <<phase, command, acked>>
        /\ phase[ws] \in {"open", "leaving"}
        /\ command[ws] = "subscribe"
        /\ registry' = registry \cup {<<f, ws>>}
        /\ left' = [left EXCEPT ![ws] = left[ws] \ {f}]
    BY <1>2 DEF Subscribe, Handled, observed
  <2> QED BY <2>1 DEF TypeOK
<1>3. ASSUME NEW f \in Files, Unsubscribe(ws, f) PROVE RegistryInv'
  <2>1. /\ UNCHANGED <<phase, command, acked>>
        /\ <<f, ws>> \notin acked
        /\ registry' = registry \ {<<f, ws>>}
        /\ left' = [left EXCEPT ![ws] = left[ws] \ {f}]
    BY <1>3 DEF Unsubscribe, observed
  <2> QED BY <2>1 DEF TypeOK
<1>4. CASE Ack(ws)
  <2>1. /\ UNCHANGED <<registry, phase, left>>
        /\ phase[ws] = "open"
        /\ command' = [command EXCEPT ![ws] = "none"]
        /\ acked' \subseteq acked \cup {s \in registry : s[2] = ws}
    BY <1>4 DEF Ack, Open
  <2>2. \A s \in acked' : phase'[s[2]] = "open"
    BY <2>1
  <2>3. \A r \in Sockets, f \in Files :
          command'[r] = "unsubscribe" /\ f \in left'[r] => <<f, r>> \notin acked'
    BY <2>1 DEF TypeOK
  <2> QED BY <2>1, <2>2, <2>3
<1>5. CASE Connect(ws)
  <2>1. /\ UNCHANGED <<registry, command, left, acked>>
        /\ phase' = [phase EXCEPT ![ws] = "open"]
    BY <1>5 DEF Connect, observed
  <2> QED BY <2>1 DEF TypeOK
<1> QED BY <1>1, <1>2, <1>3, <1>4, <1>5

\* The ways in which a connection ends, and a restart.
LEMMA RegistryEndStep ==
  ASSUME TypeOK, RegistryInv,
         \/ \E ws \in Sockets : Disconnect(ws) \/ EndHandler(ws) \/ HandlerRaises(ws)
         \/ Restart
  PROVE  RegistryInv'
<1> USE DEF RegistryInv, EndedIsUnregistered, AckedIsRegistered, AckedIsConnected, GivenUpFirst
<1>1. ASSUME NEW ws \in Sockets, Disconnect(ws) PROVE RegistryInv'
  <2>1. /\ UNCHANGED <<registry, command, left>>
        /\ phase' = [phase EXCEPT ![ws] = "leaving"]
        /\ acked' \subseteq acked
        /\ \A s \in acked' : s[2] # ws
    BY <1>1 DEF Disconnect, GivesUp, TypeOK
  <2>2. \A s \in registry : phase'[s[2]] \in {"open", "leaving"}
    BY <2>1 DEF TypeOK
  <2> QED BY <2>1, <2>2 DEF TypeOK
<1>2. ASSUME NEW ws \in Sockets, EndHandler(ws) \/ HandlerRaises(ws) PROVE RegistryInv'
  <2>1. /\ phase' = [phase EXCEPT ![ws] = "ended"]
        /\ registry' = {s \in registry : s[2] # ws}
        /\ command' = [command EXCEPT ![ws] = "none"]
        /\ left' = [left EXCEPT ![ws] = {}]
    BY <1>2 DEF EndHandler, HandlerRaises, CleanUp
  <2>2. acked' \subseteq acked /\ \A s \in acked' : s[2] # ws
    BY <1>2 DEF EndHandler, HandlerRaises, GivesUp, TypeOK, observed
  <2> QED BY <2>1, <2>2 DEF TypeOK
<1>3. CASE Restart
  BY <1>3 DEF Restart
<1> QED BY <1>1, <1>2, <1>3

-----------------------------------------------------------------------------
(* The events that clients count on.                                       *)

\* Giving up files never leaves a client with an event of one of them.
LEMMA DebtsGivenUp ==
  ASSUME TypeOK, DebtInv, NEW ws, NEW F \in SUBSET Files, GivesUp(ws, F),
         UNCHANGED <<file, channel, listener, pushes>>
  PROVE  DebtInv'
<1> USE DEF DebtInv
<1>1. OwedToSubscribers'
  BY DEF TypeOK, OwedToSubscribers, GivesUp
<1>2. NothingOwedAtStart' /\ DebtsOnTheirWay'
  BY DEF NothingOwedAtStart, DebtsOnTheirWay, GivesUp
<1> QED BY <1>1, <1>2

\* A step that gives up nothing and takes no event away.
LEMMA DebtsUntouched ==
  ASSUME DebtInv, UNCHANGED <<file, channel, listener, pushes, owed>>, acked \subseteq acked'
  PROVE  DebtInv'
BY DEF DebtInv, OwedToSubscribers, NothingOwedAtStart, DebtsOnTheirWay

\* Publish, when the event is queued or nobody listens.
LEMMA DebtsOfPublish ==
  ASSUME TypeOK, DebtInv, NEW p \in Commits, Publish(p)
  PROVE  DebtInv'
<1> USE DEF DebtInv
<1>1. /\ UNCHANGED <<file, listener, pushes, acked>>
      /\ owed' = owed \cup (Creditors(p) \X {p})
      /\ channel' = IF listener = "listening" THEN Append(channel, p) ELSE channel
  BY DEF Publish, observed, listenerVars
<1>2. OwedToSubscribers'
  BY <1>1 DEF OwedToSubscribers, Creditors
<1>3. NothingOwedAtStart'
  BY <1>1 DEF NothingOwedAtStart, Creditors
<1>4. ASSUME listener = "listening", NEW o \in owed'
      PROVE  (\E i \in DOMAIN channel' : channel'[i] = o[2]) \/ o \in pushes'
  <2>1. /\ channel \in Seq(Commits) /\ channel' \in Seq(Commits)
        /\ Len(channel') = Len(channel) + 1
        /\ \A i \in 1 .. Len(channel) : channel'[i] = channel[i]
        /\ channel'[Len(channel) + 1] = p
    BY <1>1, <1>4, AppendProperties DEF TypeOK
  <2>2. CASE o \in owed
    BY <1>1, <1>4, <2>1, <2>2 DEF DebtsOnTheirWay
  <2>3. CASE o \notin owed
    <3>1. o[2] = p
      BY <1>1, <2>3
    <3>2. Len(channel) + 1 \in DOMAIN channel'
      BY <2>1
    <3> QED BY <2>1, <3>1, <3>2
  <2> QED BY <2>2, <2>3
<1>5. DebtsOnTheirWay'
  BY <1>1, <1>4 DEF DebtsOnTheirWay
<1> QED BY <1>2, <1>3, <1>5

\* Take: every client that counts on the event is in the registry, so it is
\* in the copy that the pushes go through.
LEMMA DebtsOfTake ==
  ASSUME TypeOK, RegistryInv, DebtInv, Take
  PROVE  DebtInv'
<1> USE DEF DebtInv
<1>1. /\ UNCHANGED <<file, listener, owed, acked>>
      /\ channel # <<>> /\ pushes = {}
      /\ pushes' = PushesOf(Head(channel))
      /\ channel' = Tail(channel)
      /\ listener = "listening"
  BY DEF Take, observed, commitVars
<1>2. OwedToSubscribers' /\ NothingOwedAtStart'
  BY <1>1 DEF OwedToSubscribers, NothingOwedAtStart
<1>3. ASSUME NEW o \in owed
      PROVE  (\E i \in DOMAIN channel' : channel'[i] = o[2]) \/ o \in pushes'
  <2>1. PICK i \in DOMAIN channel : channel[i] = o[2]
    BY <1>1 DEF DebtsOnTheirWay
  <2>2. /\ channel \in Seq(Commits) /\ Len(channel) \in Nat
        /\ DOMAIN channel = 1 .. Len(channel)
        /\ Head(channel) = channel[1]
        /\ DOMAIN channel' = 1 .. Len(channel) - 1
        /\ \A j \in 1 .. Len(channel) - 1 : channel'[j] = channel[j + 1]
    BY <1>1 DEF TypeOK
  <2>3. CASE i = 1
    <3>1. o[2] = Head(channel) /\ o[1] \in Sockets /\ o = <<o[1], o[2]>> /\ o[2] \in Commits
      BY <2>1, <2>2, <2>3 DEF TypeOK
    <3>2. <<file[o[2]], o[1]>> \in registry
      BY <3>1 DEF OwedToSubscribers, RegistryInv, AckedIsRegistered
    <3> QED BY <1>1, <3>1, <3>2 DEF PushesOf
  <2>4. CASE i # 1
    <3>1. i - 1 \in DOMAIN channel' /\ channel'[i - 1] = o[2]
      BY <2>1, <2>2, <2>4
    <3> QED BY <3>1
  <2> QED BY <2>3, <2>4
<1>4. DebtsOnTheirWay'
  BY <1>1, <1>3 DEF DebtsOnTheirWay
<1> QED BY <1>2, <1>4

\* Push: the send that ends is the client's event, received or not.
LEMMA DebtsOfPush ==
  ASSUME TypeOK, DebtInv, NEW ws \in Sockets, Push(ws)
  PROVE  DebtInv'
<1>1. PICK p \in Commits : SendEnds(ws, p) /\ pushes' = pushes \ {<<ws, p>>}
  BY DEF Push
<1>2. UNCHANGED <<file, channel, listener, acked>> /\ owed' = owed \ {<<ws, p>>}
  BY <1>1 DEF SendEnds, commitVars, redisVars
<1> QED
  BY <1>1, <1>2 DEF DebtInv, OwedToSubscribers, NothingOwedAtStart, DebtsOnTheirWay

\* Redis and the listener: a queue is lost only with the debts of its events,
\* and a listener starts to listen when nobody counts on anything.
LEMMA DebtsOfRedis ==
  ASSUME TypeOK, DebtInv, RedisDrops \/ Listen \/ ListenerStops \/ Restart
  PROVE  DebtInv'
<1> USE DEF DebtInv
<1>1. CASE RedisDrops
  <2>1. /\ UNCHANGED <<file, acked>>
        /\ owed' \subseteq owed
        /\ listener' = IF listener = "listening" THEN "failing" ELSE listener
    BY <1>1 DEF RedisDrops, commitVars
  <2> QED BY <2>1 DEF OwedToSubscribers, NothingOwedAtStart, DebtsOnTheirWay
<1>2. CASE Listen \/ ListenerStops
  <2>1. /\ UNCHANGED <<file, acked, owed>>
        /\ listener' = "listening" => listener = "starting"
        /\ listener' # "starting"
    BY <1>2 DEF Listen, ListenerStops, commitVars, observed
  <2> QED BY <2>1 DEF OwedToSubscribers, NothingOwedAtStart, DebtsOnTheirWay
<1>3. CASE Restart
  BY <1>3 DEF Restart, OwedToSubscribers, NothingOwedAtStart, DebtsOnTheirWay
<1> QED BY <1>1, <1>2, <1>3

\* Every step keeps the invariant.
LEMMA InvariantStep ==
  ASSUME IInv, [Next]_vars
  PROVE  IInv'
<1>1. TypeOK /\ RegistryInv /\ DebtInv /\ TypeOK'
  BY StepTyped DEF IInv
<1> SUFFICES RegistryInv' /\ DebtInv'
  BY <1>1 DEF IInv
<1>2. ASSUME NEW p \in Commits,
             CommitReturns(p) \/ Publish(p) \/ PublishFails(p) \/ NeverPublished(p)
      PROVE  RegistryInv' /\ DebtInv'
  <2>1. UNCHANGED <<registry, phase, command, left, acked>>
    BY <1>2 DEF CommitReturns, Publish, PublishFails, NeverPublished, socketVars, observed
  <2>2. ASSUME ~Publish(p) PROVE DebtInv'
    BY <1>1, <1>2, <2>2, DebtsUntouched
       DEF CommitReturns, PublishFails, NeverPublished, redisVars, listenerVars, observed
  <2> QED BY <1>1, <2>1, <2>2, RegistryUntouched, DebtsOfPublish
<1>3. CASE RedisDrops \/ Listen \/ ListenerStops \/ Take
  <2>1. UNCHANGED <<registry, phase, command, left, acked>>
    BY <1>3 DEF RedisDrops, Listen, ListenerStops, Take, socketVars, observed
  <2> QED BY <1>1, <1>3, <2>1, RegistryUntouched, DebtsOfRedis, DebtsOfTake
<1>4. CASE RedisRecovers \/ UNCHANGED vars
  <2>1. UNCHANGED <<file, channel, listener, pushes, owed, registry, phase, command, left, acked>>
    BY <1>4 DEF RedisRecovers, vars, commitVars, redisVars, listenerVars, socketVars, observed
  <2> QED BY <1>1, <2>1, RegistryUntouched, DebtsUntouched
<1>5. ASSUME NEW ws \in Sockets, Push(ws) PROVE RegistryInv' /\ DebtInv'
  <2>1. UNCHANGED <<registry, phase, command, left, acked>>
    BY <1>5 DEF Push, SendEnds, socketVars
  <2> QED BY <1>1, <1>5, <2>1, RegistryUntouched, DebtsOfPush
<1>6. ASSUME NEW ws \in Sockets, NEW kind \in Kinds, NEW F \in (SUBSET Files) \ {{}},
             Receive(ws, kind, F)
      PROVE  RegistryInv' /\ DebtInv'
  <2>1. UNCHANGED <<file, channel, listener, pushes>>
    BY <1>6 DEF Receive, commitVars, redisVars, listenerVars
  <2>2. GivesUp(ws, F) \/ UNCHANGED <<acked, owed>>
    BY <1>6 DEF Receive
  <2>3. DebtInv'
    BY <1>1, <2>1, <2>2, DebtsGivenUp, DebtsUntouched
  <2> QED BY <1>1, <1>6, <2>3, RegistryMessageStep
<1>7. ASSUME NEW ws \in Sockets,
             \/ \E f \in Files : Subscribe(ws, f) \/ Unsubscribe(ws, f)
             \/ Ack(ws)
             \/ Connect(ws)
             \/ EndHandler(ws)
      PROVE  RegistryInv' /\ DebtInv'
  <2>1. /\ UNCHANGED <<file, channel, listener, pushes, owed>>
        /\ acked \subseteq acked'
    BY <1>7 DEF Subscribe, Unsubscribe, Ack, Connect, EndHandler,
         commitVars, redisVars, listenerVars, observed
  <2> QED BY <1>1, <1>7, <2>1, DebtsUntouched, RegistryMessageStep, RegistryEndStep
<1>8. ASSUME NEW ws \in Sockets, HandlerRaises(ws) \/ Disconnect(ws)
      PROVE  RegistryInv' /\ DebtInv'
  <2>1. UNCHANGED <<file, channel, listener, pushes>> /\ GivesUp(ws, Files)
    BY <1>8 DEF HandlerRaises, Disconnect, commitVars, redisVars, listenerVars
  <2> QED BY <1>1, <1>8, <2>1, DebtsGivenUp, RegistryEndStep
<1>9. CASE Restart
  BY <1>1, <1>9, RegistryEndStep, DebtsOfRedis
<1> QED
  BY <1>1, <1>2, <1>3, <1>4, <1>5, <1>6, <1>7, <1>8, <1>9
     DEF Next, Forward, Handle, Idle

-----------------------------------------------------------------------------
(***************************************************************************)
(* The order of events.  The inductive invariant says of every event where *)
(* it stands: what a client has received comes before what is being pushed *)
(* to it, and that before what is queued.  Position is a CHOOSE over a     *)
(* growing sequence; Earlier says the same with witnesses, which stay.     *)
(***************************************************************************)

\* p has been published.
IsPublished(p) == \E i \in DOMAIN published : published[i] = p

\* p has been published before q.
Earlier(p, q) ==
  \E i, j \in DOMAIN published : i < j /\ published[i] = p /\ published[j] = q

\* The handler of a commit is done when it has published, so it does so once.
PublishedOnce ==
  \A i \in DOMAIN published :
    /\ pc[published[i]] = "done"
    /\ \A j \in DOMAIN published : published[i] = published[j] => i = j

\* The queue holds events in the order of their publication.
QueueInOrder ==
  \A i \in DOMAIN channel :
    /\ IsPublished(channel[i])
    /\ \A j \in DOMAIN channel : i < j => Earlier(channel[i], channel[j])

\* All pushes under way are of one event, which came before the queued ones.
PushesBeforeQueue ==
  \A o \in pushes :
    /\ IsPublished(o[2])
    /\ \A u \in pushes : o[2] = u[2]
    /\ \A i \in DOMAIN channel : Earlier(o[2], channel[i])

\* What a client has received is in order, and earlier than what is to come.
ReceivedInOrder ==
  \A ws \in Sockets : \A i \in DOMAIN received[ws] :
    /\ IsPublished(received[ws][i])
    /\ \A j \in DOMAIN received[ws] :
         i < j => Earlier(received[ws][i], received[ws][j])
    /\ \A o \in pushes : o[1] = ws => Earlier(received[ws][i], o[2])
    /\ \A j \in DOMAIN channel : Earlier(received[ws][i], channel[j])

OrderInv ==
  /\ PublishedOnce
  /\ QueueInOrder
  /\ PushesBeforeQueue
  /\ ReceivedInOrder

\* The operators on sequences, in the form in which the proofs need them.
LEMMA AppendedAt ==
  ASSUME NEW S, NEW s \in Seq(S), NEW e \in S
  PROVE  /\ DOMAIN s = 1 .. Len(s) /\ Len(s) \in Nat
         /\ DOMAIN Append(s, e) = 1 .. Len(s) + 1
         /\ \A i \in 1 .. Len(s) : Append(s, e)[i] = s[i]
         /\ Append(s, e)[Len(s) + 1] = e
BY AppendProperties, LenProperties

\* A publication changes nothing about earlier ones, and comes after them.
LEMMA PublishedGrows ==
  ASSUME TypeOK, NEW p \in Commits, published' = Append(published, p)
  PROVE  /\ \A q : IsPublished(q) => IsPublished(q)' /\ Earlier(q, p)'
         /\ \A q, r : Earlier(q, r) => Earlier(q, r)'
         /\ IsPublished(p)'
<1>1. /\ DOMAIN published = 1 .. Len(published) /\ Len(published) \in Nat
      /\ DOMAIN published' = 1 .. Len(published) + 1
      /\ \A i \in 1 .. Len(published) : published'[i] = published[i]
      /\ published'[Len(published) + 1] = p
  BY AppendedAt DEF TypeOK
<1>2. Len(published) + 1 \in DOMAIN published' /\ DOMAIN published \subseteq DOMAIN published'
  BY <1>1
<1>3. \A i \in DOMAIN published : i < Len(published) + 1
  BY <1>1
<1> QED BY <1>1, <1>2, <1>3 DEF IsPublished, Earlier

\* Publish: the new event goes behind everything there is.
LEMMA OrderOfPublish ==
  ASSUME TypeOK, OrderInv, NEW p \in Commits, Publish(p)
  PROVE  OrderInv'
<1> USE DEF OrderInv
<1>1. /\ pc[p] = "publish" /\ pc' = [pc EXCEPT ![p] = "done"]
      /\ published' = Append(published, p)
      /\ UNCHANGED <<pushes, received>>
      /\ channel' = channel \/ channel' = Append(channel, p)
  BY DEF Publish, listenerVars
<1>2. /\ \A q : IsPublished(q) => IsPublished(q)' /\ Earlier(q, p)'
      /\ \A q, r : Earlier(q, r) => Earlier(q, r)'
      /\ IsPublished(p)'
  BY <1>1, PublishedGrows
<1>3. PublishedOnce'
  <2>1. /\ DOMAIN published = 1 .. Len(published) /\ Len(published) \in Nat
        /\ DOMAIN published' = 1 .. Len(published) + 1
        /\ \A i \in 1 .. Len(published) : published'[i] = published[i]
        /\ published'[Len(published) + 1] = p
    BY <1>1, AppendedAt DEF TypeOK
  <2>2. \A i \in DOMAIN published : published[i] # p /\ published[i] \in Commits
    BY <1>1 DEF PublishedOnce, TypeOK
  <2>3. \A i \in DOMAIN published' : pc'[published'[i]] = "done"
    BY <1>1, <2>1, <2>2 DEF PublishedOnce, TypeOK
  <2>4. \A i, j \in DOMAIN published' : published'[i] = published'[j] => i = j
    BY <2>1, <2>2 DEF PublishedOnce
  <2> QED BY <2>3, <2>4 DEF PublishedOnce
<1>4. CASE channel' = channel
  <2>1. QueueInOrder' /\ PushesBeforeQueue' /\ ReceivedInOrder'
    BY <1>1, <1>2, <1>4 DEF QueueInOrder, PushesBeforeQueue, ReceivedInOrder
  <2> QED BY <1>3, <2>1
<1>5. CASE channel' = Append(channel, p)
  <2>1. /\ DOMAIN channel = 1 .. Len(channel) /\ Len(channel) \in Nat
        /\ DOMAIN channel' = 1 .. Len(channel) + 1
        /\ \A i \in 1 .. Len(channel) : channel'[i] = channel[i]
        /\ channel'[Len(channel) + 1] = p
    BY <1>5, AppendedAt DEF TypeOK
  <2>2. \A i \in DOMAIN channel' :
          \/ i \in DOMAIN channel /\ channel'[i] = channel[i]
          \/ i = Len(channel) + 1 /\ channel'[i] = p
    BY <2>1
  <2>3. QueueInOrder'
    <3>1. \A i \in DOMAIN channel' : IsPublished(channel[i])'
      BY <1>2, <2>2 DEF QueueInOrder
    <3>2. \A i, j \in DOMAIN channel' : i < j => Earlier(channel[i], channel[j])'
      <4> SUFFICES ASSUME NEW i \in DOMAIN channel', NEW j \in DOMAIN channel', i < j
                   PROVE  Earlier(channel[i], channel[j])'
        OBVIOUS
      <4>1. i \in DOMAIN channel /\ channel'[i] = channel[i]
        BY <2>1
      <4>2. CASE j \in DOMAIN channel /\ channel'[j] = channel[j]
        BY <1>2, <4>1, <4>2 DEF QueueInOrder
      <4>3. CASE channel'[j] = p
        BY <1>2, <4>1, <4>3 DEF QueueInOrder
      <4> QED BY <2>2, <4>2, <4>3
    <3> QED BY <3>1, <3>2 DEF QueueInOrder
  <2>4. PushesBeforeQueue'
    BY <1>1, <1>2, <2>2 DEF PushesBeforeQueue
  <2>5. ReceivedInOrder'
    BY <1>1, <1>2, <2>2 DEF ReceivedInOrder
  <2> QED BY <1>3, <2>3, <2>4, <2>5
<1> QED BY <1>1, <1>4, <1>5

\* Take: the head of the queue goes out before the rest of it.
LEMMA OrderOfTake ==
  ASSUME TypeOK, OrderInv, Take
  PROVE  OrderInv'
<1> USE DEF OrderInv
<1>1. /\ UNCHANGED <<pc, published, received>>
      /\ channel # <<>> /\ pushes = {}
      /\ pushes' = PushesOf(Head(channel))
      /\ channel' = Tail(channel)
  BY DEF Take, observed, commitVars
<1>2. /\ channel \in Seq(Commits) /\ Len(channel) \in Nat
      /\ DOMAIN channel = 1 .. Len(channel)
      /\ Head(channel) = channel[1]
      /\ 1 \in DOMAIN channel
      /\ DOMAIN channel' = 1 .. Len(channel) - 1
      /\ \A j \in 1 .. Len(channel) - 1 : channel'[j] = channel[j + 1]
  BY <1>1 DEF TypeOK
<1>3. \A i \in DOMAIN channel' :
        /\ i \in Nat /\ i + 1 \in DOMAIN channel /\ 1 < i + 1
        /\ channel'[i] = channel[i + 1]
  BY <1>2
<1>4. \A o \in pushes' : o[1] \in Sockets /\ o[2] = channel[1]
  BY <1>1, <1>2 DEF PushesOf
<1>5. PublishedOnce'
  BY <1>1 DEF PublishedOnce
<1>6. /\ \A q : IsPublished(q)' <=> IsPublished(q)
      /\ \A q, r : Earlier(q, r)' <=> Earlier(q, r)
  BY <1>1 DEF IsPublished, Earlier
<1>7. QueueInOrder'
  BY <1>2, <1>3, <1>6 DEF QueueInOrder
<1>8. PushesBeforeQueue'
  BY <1>2, <1>3, <1>4, <1>6 DEF PushesBeforeQueue, QueueInOrder
<1>9. ReceivedInOrder'
  BY <1>1, <1>2, <1>3, <1>4, <1>6 DEF ReceivedInOrder
<1> QED BY <1>5, <1>7, <1>8, <1>9

\* Push: the client has nothing else of this event, and nothing later.
LEMMA OrderOfPush ==
  ASSUME TypeOK, OrderInv, NEW ws \in Sockets, Push(ws)
  PROVE  OrderInv'
<1> USE DEF OrderInv
<1>p. PICK p \in Commits : SendEnds(ws, p) /\ pushes' = pushes \ {<<ws, p>>}
  BY DEF Push
<1>1. /\ UNCHANGED <<pc, published, channel>>
      /\ <<ws, p>> \in pushes
      /\ pushes' = pushes \ {<<ws, p>>}
      /\ received' = received \/ received' = [received EXCEPT ![ws] = Append(received[ws], p)]
  <2>1. received' = [received EXCEPT ![ws] =
                       IF ws \in Open THEN Append(received[ws], p) ELSE received[ws]]
    BY <1>p DEF SendEnds
  <2> QED BY <1>p, <2>1 DEF SendEnds, commitVars, redisVars, TypeOK
<1>2. /\ \A q : IsPublished(q)' <=> IsPublished(q)
      /\ \A q, r : Earlier(q, r)' <=> Earlier(q, r)
  BY <1>1 DEF IsPublished, Earlier
<1>3. PublishedOnce' /\ QueueInOrder' /\ PushesBeforeQueue'
  BY <1>1, <1>2 DEF PublishedOnce, QueueInOrder, PushesBeforeQueue
<1>4. CASE received' = received
  BY <1>1, <1>2, <1>3, <1>4 DEF ReceivedInOrder
<1>5. CASE received' = [received EXCEPT ![ws] = Append(received[ws], p)]
  <2>1. /\ received[ws] \in Seq(Commits)
        /\ received'[ws] = Append(received[ws], p)
        /\ \A s \in Sockets \ {ws} : received'[s] = received[s]
    BY <1>5 DEF TypeOK
  <2>2. /\ DOMAIN received[ws] = 1 .. Len(received[ws]) /\ Len(received[ws]) \in Nat
        /\ DOMAIN received'[ws] = 1 .. Len(received[ws]) + 1
        /\ \A i \in 1 .. Len(received[ws]) : received'[ws][i] = received[ws][i]
        /\ received'[ws][Len(received[ws]) + 1] = p
    BY <2>1, AppendedAt
  <2>3. \A i \in DOMAIN received'[ws] :
          \/ i \in DOMAIN received[ws] /\ received'[ws][i] = received[ws][i]
          \/ i = Len(received[ws]) + 1 /\ received'[ws][i] = p
    BY <2>2
  <2>4. \A o \in pushes' : o[1] # ws
    <3>1. \A o \in pushes : o[2] = p /\ o = <<o[1], o[2]>>
      BY <1>1 DEF PushesBeforeQueue, TypeOK
    <3> QED BY <1>1, <3>1
  <2>5. /\ IsPublished(p)
        /\ \A i \in DOMAIN channel : Earlier(p, channel[i])
        /\ \A i \in DOMAIN received[ws] : Earlier(received[ws][i], p)
    BY <1>1 DEF PushesBeforeQueue, ReceivedInOrder
  <2>6. ASSUME NEW i \in DOMAIN received'[ws]
        PROVE  /\ IsPublished(received'[ws][i])
               /\ \A j \in DOMAIN received'[ws] :
                    i < j => Earlier(received'[ws][i], received'[ws][j])
               /\ \A j \in DOMAIN channel : Earlier(received'[ws][i], channel[j])
    <3>1. IsPublished(received'[ws][i])
      BY <2>3, <2>5 DEF ReceivedInOrder
    <3>2. \A j \in DOMAIN channel : Earlier(received'[ws][i], channel[j])
      BY <2>3, <2>5 DEF ReceivedInOrder
    <3>3. ASSUME NEW j \in DOMAIN received'[ws], i < j
          PROVE  Earlier(received'[ws][i], received'[ws][j])
      <4>1. i \in DOMAIN received[ws] /\ received'[ws][i] = received[ws][i]
        BY <2>2, <3>3
      <4> QED BY <2>3, <2>5, <3>3, <4>1 DEF ReceivedInOrder
    <3> QED BY <3>1, <3>2, <3>3
  <2>7. ASSUME NEW s \in Sockets \ {ws}, NEW i \in DOMAIN received[s]
        PROVE  /\ IsPublished(received[s][i])
               /\ \A j \in DOMAIN received[s] :
                    i < j => Earlier(received[s][i], received[s][j])
               /\ \A o \in pushes : o[1] = s => Earlier(received[s][i], o[2])
               /\ \A j \in DOMAIN channel : Earlier(received[s][i], channel[j])
    BY DEF ReceivedInOrder
  <2>8. ASSUME NEW s \in Sockets, NEW i \in DOMAIN received'[s]
        PROVE  /\ IsPublished(received'[s][i])
               /\ \A j \in DOMAIN received'[s] :
                    i < j => Earlier(received'[s][i], received'[s][j])
               /\ \A o \in pushes' : o[1] = s => Earlier(received'[s][i], o[2])
               /\ \A j \in DOMAIN channel : Earlier(received'[s][i], channel[j])
    <3>1. CASE s = ws
      BY <2>4, <2>6, <3>1
    <3>2. CASE s # ws
      BY <1>1, <2>1, <2>7, <3>2
    <3> QED BY <3>1, <3>2
  <2>9. ReceivedInOrder'
    BY <1>1, <1>2, <2>8 DEF ReceivedInOrder
  <2> QED BY <1>3, <2>9
<1> QED BY <1>1, <1>4, <1>5

\* A step that publishes and delivers nothing, and may only lose the queue.
LEMMA OrderOfOthers ==
  ASSUME TypeOK, OrderInv, UNCHANGED <<published, received>>,
         channel' = channel \/ channel' = <<>>, pushes' \subseteq pushes,
         \A p \in Commits : pc[p] = "done" => pc'[p] = "done"
  PROVE  OrderInv'
<1> USE DEF OrderInv
<1>1. /\ \A q : IsPublished(q)' <=> IsPublished(q)
      /\ \A q, r : Earlier(q, r)' <=> Earlier(q, r)
  BY DEF IsPublished, Earlier
<1>2. PublishedOnce'
  BY DEF PublishedOnce, TypeOK
<1>3. CASE channel' = channel
  BY <1>1, <1>2, <1>3 DEF QueueInOrder, PushesBeforeQueue, ReceivedInOrder
<1>4. CASE channel' = <<>>
  <2>1. DOMAIN channel' = {}
    BY <1>4
  <2>2. QueueInOrder'
    BY <2>1 DEF QueueInOrder
  <2>3. PushesBeforeQueue'
    BY <1>1, <2>1 DEF PushesBeforeQueue
  <2>4. ReceivedInOrder'
    BY <1>1, <2>1 DEF ReceivedInOrder
  <2> QED BY <1>2, <2>2, <2>3, <2>4
<1> QED BY <1>3, <1>4

\* Every step keeps the order.
LEMMA OrderStep ==
  ASSUME TypeOK, OrderInv, [Next]_vars
  PROVE  OrderInv'
<1> USE DEF commitVars, redisVars, listenerVars, socketVars, observed
<1>1. ASSUME NEW p \in Commits, Publish(p) PROVE OrderInv'
  BY <1>1, OrderOfPublish
<1>2. ASSUME NEW ws \in Sockets, Push(ws) PROVE OrderInv'
  BY <1>2, OrderOfPush
<1>3. CASE Take
  BY <1>3, OrderOfTake
<1>4. ASSUME NEW p \in Commits, CommitReturns(p) \/ PublishFails(p) \/ NeverPublished(p)
      PROVE  OrderInv'
  <2>1. /\ UNCHANGED <<published, received, channel, pushes>>
        /\ pc[p] # "done" /\ \A q \in Commits \ {p} : pc'[q] = pc[q]
    BY <1>4 DEF CommitReturns, PublishFails, NeverPublished, TypeOK
  <2> QED BY <2>1, OrderOfOthers
<1>5. CASE RedisDrops \/ RedisRecovers \/ Listen \/ ListenerStops \/ UNCHANGED vars
  <2>1. /\ UNCHANGED <<published, received, pushes, pc>>
        /\ channel' = channel \/ channel' = <<>>
    BY <1>5 DEF RedisDrops, RedisRecovers, Listen, ListenerStops, vars
  <2> QED BY <2>1, OrderOfOthers
<1>6. ASSUME NEW ws \in Sockets,
             \/ \E kind \in Kinds, F \in (SUBSET Files) \ {{}} : Receive(ws, kind, F)
             \/ Connect(ws) \/ Handle(ws) \/ HandlerRaises(ws) \/ Disconnect(ws)
      PROVE  OrderInv'
  <2>1. UNCHANGED <<published, received, pushes, channel, pc>>
    BY <1>6 DEF Receive, Connect, Handle, Subscribe, Unsubscribe, Ack, EndHandler,
         HandlerRaises, Disconnect
  <2> QED BY <2>1, OrderOfOthers
<1>7. CASE Restart
  <2>1. /\ UNCHANGED <<published, received>>
        /\ channel' = <<>> /\ pushes' = {}
        /\ \A p \in Commits : pc[p] = "done" => pc'[p] = "done"
    BY <1>7 DEF Restart
  <2> QED BY <2>1, OrderOfOthers
<1> QED BY <1>1, <1>2, <1>3, <1>4, <1>5, <1>6, <1>7 DEF Next, Forward, Idle

\* With each commit published once, earlier means at a smaller position.
LEMMA EarlierPosition ==
  ASSUME PublishedOnce, NEW p, NEW q, Earlier(p, q), TypeOK
  PROVE  Position(p) < Position(q)
<1>1. PICK i \in DOMAIN published, j \in DOMAIN published :
        i < j /\ published[i] = p /\ published[j] = q
  BY DEF Earlier
<1>2. Position(p) \in DOMAIN published /\ published[Position(p)] = p
  BY <1>1 DEF Position
<1>3. Position(q) \in DOMAIN published /\ published[Position(q)] = q
  BY <1>1 DEF Position
<1>4. Position(p) = i /\ Position(q) = j
  BY <1>1, <1>2, <1>3 DEF PublishedOnce
<1> QED BY <1>1, <1>4

\* At first there are no clients, events or debts.
LEMMA InitEstablished == Init => IInv /\ OrderInv
<1> SUFFICES ASSUME Init PROVE IInv /\ OrderInv
  OBVIOUS
<1>1. TypeOK
  BY InitTyped
<1>2. RegistryInv
  BY DEF Init, RegistryInv, EndedIsUnregistered, AckedIsRegistered,
         AckedIsConnected, GivenUpFirst
<1>3. DebtInv
  BY DEF Init, DebtInv, OwedToSubscribers, NothingOwedAtStart, DebtsOnTheirWay
<1>4. OrderInv
  <2>1. published = <<>> /\ channel = <<>> /\ pushes = {} /\ received = [ws \in Sockets |-> <<>>]
    BY DEF Init
  <2>2. DOMAIN <<>> = {}
    OBVIOUS
  <2> QED
    BY <2>1, <2>2 DEF OrderInv, PublishedOnce, QueueInOrder, PushesBeforeQueue, ReceivedInOrder
<1> QED BY <1>1, <1>2, <1>3, <1>4 DEF IInv

-----------------------------------------------------------------------------
(* Theorems.                                                               *)

\* The invariants of registry, debts and order hold in all reachable states.
THEOREM Invariance == Spec => [](IInv /\ OrderInv)
<1>1. IInv /\ OrderInv /\ [Next]_vars => (IInv /\ OrderInv)'
  BY InvariantStep, OrderStep DEF IInv
<1> QED BY <1>1, InitEstablished, PTL DEF Spec

\* All variables keep their types, and a handler works on file_ids only
\* while it has a message.
THEOREM TypeCorrect == Spec => []TypeOK
<1>1. IInv => TypeOK
  BY DEF IInv
<1> QED BY <1>1, Invariance, PTL

\* However a connection ends, its socket is in no entry of the registry.
THEOREM EndedUnregistered == Spec => []EndedIsUnregistered
<1>1. IInv => EndedIsUnregistered
  BY DEF IInv, RegistryInv
<1> QED BY <1>1, Invariance, PTL

\* No other client's messages or departure take an acknowledged subscription
\* away.
THEOREM AckedRegistered == Spec => []AckedIsRegistered
<1>1. IInv => AckedIsRegistered
  BY DEF IInv, RegistryInv
<1> QED BY <1>1, Invariance, PTL

\* While the listener listens, an event that a client counts on is queued or
\* about to be pushed to it.
THEOREM DebtsQueuedOrPushed == Spec => []DebtsOnTheirWay
<1>1. IInv => DebtsOnTheirWay
  BY DEF IInv, DebtInv
<1> QED BY <1>1, Invariance, PTL

\* Every client receives events in the order of their publication, each at
\* most once.
THEOREM EventsInOrder == Spec => []PushedInOrder
<1>1. IInv /\ OrderInv => PushedInOrder
  <2> SUFFICES ASSUME TypeOK, OrderInv, NEW ws \in Sockets,
                      NEW i \in DOMAIN received[ws], NEW j \in DOMAIN received[ws], i < j
               PROVE  Position(received[ws][i]) < Position(received[ws][j])
    BY DEF IInv, PushedInOrder
  <2>1. Earlier(received[ws][i], received[ws][j]) /\ PublishedOnce
    BY DEF OrderInv, ReceivedInOrder
  <2> QED BY <2>1, EarlierPosition
<1> QED BY <1>1, Invariance, PTL
=============================================================================
