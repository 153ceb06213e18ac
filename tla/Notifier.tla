------------------------------ MODULE Notifier ------------------------------
(***************************************************************************)
(* Real-time notifications of one Metadata Service instance: the publish   *)
(* that follows a commit, the Redis channel, the listener task, and the    *)
(* WebSocket handlers with their registry of subscriptions.                *)
(*                                                                         *)
(* Everything runs on one event loop; an action is what happens between    *)
(* two awaits.  The critical sections of _lock contain no await, so each   *)
(* is one step and the lock itself never makes anyone wait.                *)
(***************************************************************************)
EXTENDS Integers, Sequences, FiniteSets

CONSTANTS
  Files,
  Sockets,     \* WebSocket connections, each opened once
  Commits,     \* commits, each of one file
  MaxCommands, \* bound on the messages clients send
  MaxDrops,    \* bound on the failures of the Redis connection
  MaxRestarts  \* bound on the restarts of the instance

ASSUME BoundsAssumption == {MaxCommands, MaxDrops, MaxRestarts} \subseteq Nat

VARIABLES
  \* commit_version, once its transaction has committed
  file,        \* the file of each commit
  pc,          \* the next step of each commit
  \* Redis
  redisUp,
  channel,     \* events on their way to the listener, oldest first
  drops,
  \* listener_task
  listener,    \* "starting", "listening", "failing", "stopped"
  pushes,      \* pairs <<socket, commit>>: sends of the event it forwards
  \* websocket_endpoint
  registry,    \* _connections, as pairs <<file, socket>>
  phase,       \* "new", "open", "leaving" (the client has gone), "ended"
  command,     \* the message each handler is working on
  left,        \* the file_ids it has still to go through
  commands,    \* messages received so far
  restarts,
  received,    \* the events pushed to each client
  \* history variables
  published,   \* the commits whose event Redis took, in order
  acked,       \* subscriptions the client has been told of and has not given up
  owed         \* pairs <<socket, commit>>: the client counts on this event

commitVars == <<file, pc>>
redisVars == <<redisUp, channel, drops>>
listenerVars == <<listener, pushes>>
socketVars == <<registry, phase, command, left, commands, restarts>>
observed == <<received, published, acked, owed>>
vars == <<commitVars, redisVars, listenerVars, socketVars, observed>>

Kinds == {"subscribe", "unsubscribe"}

Init ==
  /\ file \in [Commits -> Files]
  /\ pc = [p \in Commits |-> "commit"]
  /\ redisUp = TRUE
  /\ channel = <<>>
  /\ drops = 0
  /\ listener = "starting"
  /\ pushes = {}
  /\ registry = {}
  /\ phase = [ws \in Sockets |-> "new"]
  /\ command = [ws \in Sockets |-> "none"]
  /\ left = [ws \in Sockets |-> {}]
  /\ commands = 0
  /\ restarts = 0
  /\ received = [ws \in Sockets |-> <<>>]
  /\ published = <<>>
  /\ acked = {}
  /\ owed = {}

Open == {ws \in Sockets : phase[ws] = "open"}
Handled == {ws \in Sockets : phase[ws] \in {"open", "leaving"}}

-----------------------------------------------------------------------------
(* commit_version and publish_file_update                                  *)

\* commit_file_version returns; the event is published in a later step.
CommitReturns(p) ==
  /\ pc[p] = "commit"
  /\ pc' = [pc EXCEPT ![p] = "publish"]
  /\ UNCHANGED <<file, redisVars, listenerVars, socketVars, observed>>

\* The subscribers of p's file, who may count on its event.  Between startup
\* and psubscribe nobody can.
Creditors(p) ==
  {ws \in Sockets : <<file[p], ws>> \in acked /\ listener # "starting"}

\* Redis hands the event to whoever is subscribed at that moment.
Publish(p) ==
  /\ pc[p] = "publish"
  /\ redisUp
  /\ pc' = [pc EXCEPT ![p] = "done"]
  /\ channel' = IF listener = "listening" THEN Append(channel, p) ELSE channel
  /\ published' = Append(published, p)
  /\ owed' = owed \cup (Creditors(p) \X {p})
  /\ UNCHANGED <<file, redisUp, drops, listenerVars, socketVars, received, acked>>

\* The error of a failed publish is logged and swallowed.
PublishFails(p) ==
  /\ pc[p] = "publish"
  /\ ~redisUp
  /\ pc' = [pc EXCEPT ![p] = "done"]
  /\ UNCHANGED <<file, redisVars, listenerVars, socketVars, observed>>

\* The handler is cancelled, or its process (another instance) is killed.
NeverPublished(p) ==
  /\ pc[p] = "publish"
  /\ pc' = [pc EXCEPT ![p] = "done"]
  /\ UNCHANGED <<file, redisVars, listenerVars, socketVars, observed>>

-----------------------------------------------------------------------------
(* Redis (external)                                                        *)

\* Connections break; what was on its way to the listener is lost, which is
\* what pub/sub promises: nobody can count on those events.
RedisDrops ==
  /\ redisUp
  /\ drops < MaxDrops
  /\ drops' = drops + 1
  /\ redisUp' = FALSE
  /\ channel' = <<>>
  /\ listener' = IF listener = "listening" THEN "failing" ELSE listener
  /\ owed' = {o \in owed : \A i \in DOMAIN channel : channel[i] # o[2]}
  /\ UNCHANGED <<commitVars, pushes, socketVars, received, published, acked>>

RedisRecovers ==
  /\ ~redisUp
  /\ redisUp' = TRUE
  /\ UNCHANGED <<commitVars, channel, drops, listenerVars, socketVars, observed>>

-----------------------------------------------------------------------------
(* listener_task                                                           *)

\* psubscribe, at startup only.
Listen ==
  /\ listener = "starting"
  /\ listener' = IF redisUp THEN "listening" ELSE "stopped"
  /\ UNCHANGED <<commitVars, redisVars, pushes, socketVars, observed>>

\* The exception of a broken connection ends the loop and the task.
ListenerStops ==
  /\ listener = "failing"
  /\ pushes = {}
  /\ listener' = "stopped"
  /\ UNCHANGED <<commitVars, redisVars, pushes, socketVars, observed>>

\* Pushes of an event to a copy of the set of sockets that watch its file.
PushesOf(p) == {ws \in Sockets : <<file[p], ws>> \in registry} \X {p}

\* Mutant: the newest event first, as from a stack.
TakeNewest ==
  /\ listener = "listening"
  /\ pushes = {}
  /\ channel # <<>>
  /\ pushes' = PushesOf(channel[Len(channel)])
  /\ channel' = SubSeq(channel, 1, Len(channel) - 1)
  /\ UNCHANGED <<commitVars, redisUp, drops, listener, socketVars, observed>>

\* The next event, once the pushes of the last one have ended.
Take ==
  /\ listener = "listening"
  /\ pushes = {}
  /\ channel # <<>>
  /\ pushes' = PushesOf(Head(channel))
  /\ channel' = Tail(channel)
  /\ UNCHANGED <<commitVars, redisUp, drops, listener, socketVars, observed>>

\* A send ends; only an open socket receives what is sent to it.
SendEnds(ws, p) ==
  /\ <<ws, p>> \in pushes
  /\ received' = [received EXCEPT ![ws] = IF ws \in Open THEN Append(@, p) ELSE @]
  /\ owed' = owed \ {<<ws, p>>}
  /\ UNCHANGED <<commitVars, redisVars, listener, socketVars, published, acked>>

\* Mutant: the first push that ends, ends the gathering.
PushFirst(ws) ==
  \E p \in Commits : SendEnds(ws, p) /\ pushes' = {}

\* _push, gathered over the copy: each send is awaited by itself, the
\* failure of one is ignored, and the loop goes on when all have ended.
Push(ws) ==
  \E p \in Commits : SendEnds(ws, p) /\ pushes' = pushes \ {<<ws, p>>}

-----------------------------------------------------------------------------
(* websocket_endpoint                                                      *)

\* A client that unsubscribes no longer counts on events of those files.
GivesUp(ws, F) ==
  /\ acked' = {s \in acked : ~(s[1] \in F /\ s[2] = ws)}
  /\ owed' = {o \in owed : ~(o[1] = ws /\ file[o[2]] \in F)}

\* receive_text, when the handler is back at the top of its loop.
Receive(ws, kind, F) ==
  /\ ws \in Open
  /\ command[ws] = "none"
  /\ commands < MaxCommands
  /\ commands' = commands + 1
  /\ command' = [command EXCEPT ![ws] = kind]
  /\ left' = [left EXCEPT ![ws] = F]
  /\ IF kind = "unsubscribe" THEN GivesUp(ws, F) ELSE UNCHANGED <<acked, owed>>
  /\ UNCHANGED <<commitVars, redisVars, listenerVars, registry, phase, received, published, restarts>>

\* subscribe_ws
Subscribe(ws, f) ==
  /\ ws \in Handled
  /\ command[ws] = "subscribe"
  /\ f \in left[ws]
  /\ registry' = registry \cup {<<f, ws>>}
  /\ left' = [left EXCEPT ![ws] = @ \ {f}]
  /\ UNCHANGED <<commitVars, redisVars, listenerVars, phase, command, commands, observed, restarts>>

\* Mutant: the whole entry of the file is dropped.
UnsubscribeEntry(ws, f) ==
  /\ ws \in Handled
  /\ command[ws] = "unsubscribe"
  /\ f \in left[ws]
  /\ registry' = {s \in registry : s[1] # f}
  /\ left' = [left EXCEPT ![ws] = @ \ {f}]
  /\ UNCHANGED <<commitVars, redisVars, listenerVars, phase, command, commands, observed, restarts>>

\* unsubscribe_ws
Unsubscribe(ws, f) ==
  /\ ws \in Handled
  /\ command[ws] = "unsubscribe"
  /\ f \in left[ws]
  /\ registry' = registry \ {<<f, ws>>}
  /\ left' = [left EXCEPT ![ws] = @ \ {f}]
  /\ UNCHANGED <<commitVars, redisVars, listenerVars, phase, command, commands, observed, restarts>>

\* Mutant: the client is told while its file_ids are still gone through.
AckAtOnce(ws) ==
  /\ ws \in Open
  /\ command[ws] # "none"
  /\ command' = [command EXCEPT ![ws] = "none"]
  /\ acked' = IF command[ws] = "subscribe"
              THEN acked \cup {s \in registry : s[2] = ws} \cup (left[ws] \X {ws})
              ELSE acked
  /\ UNCHANGED <<commitVars, redisVars, listenerVars, registry, phase, left, commands, received, published, owed, restarts>>

\* All file_ids are done: tell the client.
Ack(ws) ==
  /\ ws \in Open
  /\ command[ws] # "none"
  /\ left[ws] = {}
  /\ command' = [command EXCEPT ![ws] = "none"]
  /\ acked' = IF command[ws] = "subscribe"
              THEN acked \cup {s \in registry : s[2] = ws}
              ELSE acked
  /\ UNCHANGED <<commitVars, redisVars, listenerVars, registry, phase, left, commands, received, published, owed, restarts>>

\* websocket.accept: from here on the client can be heard.
Connect(ws) ==
  /\ phase[ws] = "new"
  /\ phase' = [phase EXCEPT ![ws] = "open"]
  /\ UNCHANGED <<commitVars, redisVars, listenerVars, registry, command, left, commands, restarts, observed>>

\* The client goes away, at any time.
Disconnect(ws) ==
  /\ ws \in Open
  /\ phase' = [phase EXCEPT ![ws] = "leaving"]
  /\ GivesUp(ws, Files)
  /\ UNCHANGED <<commitVars, redisVars, listenerVars, registry, command, left, commands, restarts, received, published>>

\* Mutant: only the files of the last message are cleaned up.
CleanUpForLast(ws) ==
  /\ phase' = [phase EXCEPT ![ws] = "ended"]
  /\ registry' = registry \ (left[ws] \X {ws})
  /\ command' = [command EXCEPT ![ws] = "none"]
  /\ left' = [left EXCEPT ![ws] = {}]

\* finally: unsubscribe_all, whatever the handler was doing.
CleanUp(ws) ==
  /\ phase' = [phase EXCEPT ![ws] = "ended"]
  /\ registry' = {s \in registry : s[2] # ws}
  /\ command' = [command EXCEPT ![ws] = "none"]
  /\ left' = [left EXCEPT ![ws] = {}]

\* The handler notices at its next receive or send that the client has gone.
EndHandler(ws) ==
  /\ phase[ws] = "leaving"
  /\ CleanUp(ws)
  /\ UNCHANGED <<commitVars, redisVars, listenerVars, commands, restarts, observed>>

\* A message that is no object, or a file_id that cannot be a key, raises in
\* the handler, possibly after some file_ids; returning closes the connection.
HandlerRaises(ws) ==
  /\ ws \in Open
  /\ command[ws] # "none"
  /\ CleanUp(ws)
  /\ GivesUp(ws, Files)
  /\ UNCHANGED <<commitVars, redisVars, listenerVars, commands, restarts, received, published>>

\* The instance goes down and starts again: its tasks, its connections and
\* the registry are gone, and so are the publishes it had not come to.
Restart ==
  /\ restarts < MaxRestarts
  /\ restarts' = restarts + 1
  /\ pc' = [p \in Commits |-> IF pc[p] = "publish" THEN "done" ELSE pc[p]]
  /\ listener' = "starting"
  /\ pushes' = {}
  /\ channel' = <<>>
  /\ registry' = {}
  /\ phase' = [ws \in Sockets |-> IF ws \in Handled THEN "ended" ELSE phase[ws]]
  /\ command' = [ws \in Sockets |-> "none"]
  /\ left' = [ws \in Sockets |-> {}]
  /\ acked' = {}
  /\ owed' = {}
  /\ UNCHANGED <<file, redisUp, drops, commands, received, published>>

-----------------------------------------------------------------------------

\* No commit, event or message is left: the service waits for new ones.
Idle ==
  /\ \A p \in Commits : pc[p] = "done"
  /\ UNCHANGED vars

Forward == Take \/ \E ws \in Sockets : Push(ws)

Handle(ws) ==
  \/ \E f \in Files : Subscribe(ws, f) \/ Unsubscribe(ws, f)
  \/ Ack(ws)
  \/ EndHandler(ws)

Next ==
  \/ \E p \in Commits :
       CommitReturns(p) \/ Publish(p) \/ PublishFails(p) \/ NeverPublished(p)
  \/ RedisDrops
  \/ RedisRecovers
  \/ Listen
  \/ ListenerStops
  \/ Forward
  \/ \E ws \in Sockets :
       \/ \E kind \in Kinds, F \in (SUBSET Files) \ {{}} : Receive(ws, kind, F)
       \/ Connect(ws)
       \/ Handle(ws)
       \/ HandlerRaises(ws)
       \/ Disconnect(ws)
  \/ Restart
  \/ Idle

Spec == Init /\ [][Next]_vars

\* The event loop runs every task that can go on, and Redis comes back.  A
\* push to a client that does not read ends when the WebSocket keep-alive of
\* the server (external) closes the connection.  Nothing makes clients send
\* messages or go away, or commits happen.
FairSpec ==
  /\ Spec
  /\ WF_vars(RedisRecovers)
  /\ WF_vars(Listen)
  /\ WF_vars(ListenerStops)
  /\ WF_vars(Forward)
  /\ \A ws \in Sockets : WF_vars(Handle(ws))

-----------------------------------------------------------------------------
(* Properties.                                                             *)

\* A handler works on file_ids only while it has a message.
TypeOK ==
  /\ file \in [Commits -> Files]
  /\ pc \in [Commits -> {"commit", "publish", "done"}]
  /\ redisUp \in BOOLEAN
  /\ channel \in Seq(Commits)
  /\ drops \in 0 .. MaxDrops
  /\ listener \in {"starting", "listening", "failing", "stopped"}
  /\ pushes \subseteq Sockets \X Commits
  /\ registry \subseteq Files \X Sockets
  /\ phase \in [Sockets -> {"new", "open", "leaving", "ended"}]
  /\ command \in [Sockets -> Kinds \cup {"none"}]
  /\ left \in [Sockets -> SUBSET Files]
  /\ \A ws \in Sockets : command[ws] = "none" => left[ws] = {}
  /\ commands \in 0 .. MaxCommands
  /\ restarts \in 0 .. MaxRestarts
  /\ received \in [Sockets -> Seq(Commits)]
  /\ published \in Seq(Commits)
  /\ acked \subseteq Files \X Sockets
  /\ owed \subseteq Sockets \X Commits

\* A socket whose handler has ended is in no entry of the registry, however
\* the client went: in the middle of a message or with a push under way.
EndedIsUnregistered ==
  \A s \in registry : phase[s[2]] \in {"open", "leaving"}

\* What a client has been told of, and has not given up, is registered: no
\* other client's messages or departure take it away.
AckedIsRegistered == acked \subseteq registry

Position(p) == CHOOSE i \in DOMAIN published : published[i] = p

\* A client receives events in the order in which they were published, each
\* at most once, whichever sockets are pushed first.
PushedInOrder ==
  \A ws \in Sockets : \A i, j \in DOMAIN received[ws] :
    i < j => Position(received[ws][i]) < Position(received[ws][j])

\* As long as the listener listens, an event that a client counts on is
\* queued, or about to be pushed to this client.
DebtsOnTheirWay ==
  listener = "listening" =>
    \A o \in owed :
      \/ \E i \in DOMAIN channel : channel[i] = o[2]
      \/ o \in pushes

\* "Publish a file-changed event so all devices subscribed to this file
\* receive a push": whoever can count on an event gets it, or gives it up.
SubscribersReceivePush ==
  \A ws \in Sockets, p \in Commits : <<ws, p>> \in owed ~> <<ws, p>> \notin owed
=============================================================================
