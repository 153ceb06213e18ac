------------------------------ MODULE LiveSync ------------------------------
(***************************************************************************)
(* Commits, notifications and delta sync together: what a device that     *)
(* stays connected comes to know of the versions of its files.  A commit  *)
(* numbers a version before its event is published; a device asks          *)
(* GetMissingBlocks when it is told that it is subscribed and after every  *)
(* push.  How single commits and single syncs run is the subject of        *)
(* VersionCommit and DeltaSync; here each has the one step at which it     *)
(* takes effect.                                                           *)
(***************************************************************************)
EXTENDS Notifier

VARIABLES
  version,     \* the number of each file's current version, 0 for none
  number,      \* the version number of each commit, 0 before it has one
  due,         \* the syncs <<socket, file>> a device has still to ask for
  answers,     \* answers on their way: <<socket, file, version>>
  copy,        \* the version each device has of each file
  \* history variables
  missed,      \* an event of the file has been lost since the device's last look
  told         \* the version that the pushes handled by a device stand for

deviceVars == <<due, answers, copy, missed, told>>
liveVars == <<version, number, deviceVars>>
allVars == <<vars, liveVars>>

Pairs == Sockets \X Files
None == [sf \in Pairs |-> 0]

LiveInit ==
  /\ Init
  /\ version = [f \in Files |-> 0]
  /\ number = [p \in Commits |-> 0]
  /\ due = {}
  /\ answers = {}
  /\ copy = None
  /\ missed = {}
  /\ told = None

-----------------------------------------------------------------------------
(* The Metadata Service.                                                   *)

\* Mutant: the handler goes on to publish although the transaction failed.
NumberOnly(p) ==
  /\ number' = [number EXCEPT ![p] = version[file[p]] + 1]
  /\ UNCHANGED version

\* The transaction numbers the version and makes it the current one.
NewVersion(p) ==
  /\ number' = [number EXCEPT ![p] = version[file[p]] + 1]
  /\ version' = [version EXCEPT ![file[p]] = @ + 1]

Store(p) ==
  /\ CommitReturns(p)
  /\ NewVersion(p)
  /\ UNCHANGED deviceVars

\* No listener will hear of these commits: their devices miss an event.
Lose(P) ==
  /\ missed' = missed \cup (Sockets \X {file[p] : p \in P})
  /\ UNCHANGED <<version, number, due, answers, copy, told>>

\* Between startup and psubscribe, and after the listener has stopped,
\* Redis has nobody to hand the event to.
Announce(p) ==
  \/ Publish(p) /\ Lose(IF listener = "listening" THEN {} ELSE {p})
  \/ PublishFails(p) /\ Lose({p})
  \/ NeverPublished(p) /\ Lose({p})

\* What was on its way to the listener goes with the connection.
ChannelBreaks == RedisDrops /\ Lose({channel[i] : i \in DOMAIN channel})

\* The device (external) is going to ask for these files.
IsToAsk(looks) ==
  /\ due' = due \cup looks
  /\ UNCHANGED <<version, number, answers, copy, missed, told>>

\* The server's reply to "subscribe"; the device then looks at every file it
\* now hears of, at what it has missed so far.
AckThenSync(ws) ==
  /\ Ack(ws)
  /\ IsToAsk({<<ws, s[1]>> : s \in acked' \ acked})

\* The server's push reaches the device, which then asks for its file.
Deliver(ws) ==
  /\ Push(ws)
  /\ IsToAsk(IF ws \in Open THEN {<<ws, file[s[2]]>> : s \in pushes \ pushes'} ELSE {})

\* The steps of Notifier that no device notices.
Elsewhere ==
  /\ \/ RedisRecovers
     \/ Listen
     \/ ListenerStops
     \/ Take
     \/ Restart
     \/ \E ws \in Sockets :
          \/ \E kind \in Kinds, F \in (SUBSET Files) \ {{}} : Receive(ws, kind, F)
          \/ \E f \in Files : Subscribe(ws, f) \/ Unsubscribe(ws, f)
          \/ Connect(ws)
          \/ EndHandler(ws)
          \/ HandlerRaises(ws)
          \/ Disconnect(ws)
  /\ UNCHANGED liveVars

-----------------------------------------------------------------------------
(* The device (external) and GetMissingBlocks.                             *)

Asking(ws, f) == \E a \in answers : a[1] = ws /\ a[2] = f

\* Pushes of the file that the device has handled by asking once.
Heard(ws, f) ==
  {received[ws][i] : i \in {j \in DOMAIN received[ws] : file[received[ws][j]] = f}}

Largest(S) == CHOOSE n \in S : \A m \in S : m <= n

\* GetMissingBlocks compares with the version that is current when it runs.
\* A device asks for one file once at a time.
Read(ws, f) ==
  /\ ws \in Open
  /\ <<ws, f>> \in due
  /\ ~Asking(ws, f)
  /\ due' = due \ {<<ws, f>>}
  /\ answers' = answers \cup {<<ws, f, version[f]>>}
  /\ missed' = missed \ {<<ws, f>>}
  /\ told' = [told EXCEPT ![<<ws, f>>] =
                Largest({number[p] : p \in Heard(ws, f)} \cup {@})]
  /\ UNCHANGED <<vars, version, number, copy>>

\* The answer arrives, and the device has the blocks of that version.
Arrive(ws, f) ==
  /\ ws \in Open
  /\ \E a \in answers :
       /\ a[1] = ws /\ a[2] = f
       /\ copy' = [copy EXCEPT ![<<ws, f>>] = a[3]]
       /\ answers' = answers \ {a}
  /\ UNCHANGED <<vars, version, number, due, missed, told>>

\* The call fails or its answer is lost: the device asks again.
AskAgain(ws, f) ==
  /\ ws \in Open
  /\ Asking(ws, f)
  /\ answers' = {a \in answers : ~(a[1] = ws /\ a[2] = f)}
  /\ due' = due \cup {<<ws, f>>}
  /\ UNCHANGED <<vars, version, number, copy, missed, told>>

-----------------------------------------------------------------------------

\* All is published and handled: the service waits.
Quiet ==
  /\ Idle
  /\ UNCHANGED liveVars

Forwarding == (Take /\ UNCHANGED liveVars) \/ \E ws \in Sockets : Deliver(ws)

Handling(ws) ==
  \/ \E f \in Files : (Subscribe(ws, f) \/ Unsubscribe(ws, f)) /\ UNCHANGED liveVars
  \/ AckThenSync(ws)
  \/ EndHandler(ws) /\ UNCHANGED liveVars

LiveNext ==
  \/ \E p \in Commits : Store(p) \/ Announce(p)
  \/ ChannelBreaks
  \/ \E ws \in Sockets :
       \/ AckThenSync(ws)
       \/ Deliver(ws)
       \/ \E f \in Files : Read(ws, f) \/ Arrive(ws, f) \/ AskAgain(ws, f)
  \/ Elsewhere
  \/ Quiet

LiveSpec == LiveInit /\ [][LiveNext]_allVars

\* The event loop runs every task that can go on, and a device that asks over
\* and over gets an answer in the end.
FairLiveSpec ==
  /\ LiveSpec
  /\ WF_allVars(Forwarding)
  /\ \A p \in Commits : WF_allVars(Announce(p))
  /\ \A ws \in Sockets :
       /\ WF_allVars(Handling(ws))
       /\ \A f \in Files : WF_allVars(Read(ws, f)) /\ SF_allVars(Arrive(ws, f))

-----------------------------------------------------------------------------
(* Properties.                                                             *)

\* A device that acts on a push finds at least the version it was pushed for,
\* in the answer on its way or in its copy: no event runs ahead of the data.
PushLeadsToVersion ==
  \A ws \in Sockets, f \in Files :
    \/ \E a \in answers : a[1] = ws /\ a[2] = f /\ a[3] >= told[<<ws, f>>]
    \/ copy[<<ws, f>>] >= told[<<ws, f>>]
    \/ <<ws, f>> \in due

\* An event of f is on its way: to be published, queued, or about to be pushed.
Announced(f, ws) ==
  \/ \E p \in Commits : file[p] = f /\ pc[p] = "publish"
  \/ \E i \in DOMAIN channel : file[channel[i]] = f
  \/ \E p \in Commits : file[p] = f /\ <<ws, p>> \in pushes

\* A subscribed device that has done all it was told to has the current
\* version, unless an event of the file has been lost since it last looked:
\* nothing falls between its registration, its first look and the pushes.
QuietDeviceIsCurrent ==
  \A ws \in Sockets, f \in Files :
    \/ <<f, ws>> \notin acked
    \/ <<ws, f>> \in due \cup missed
    \/ Asking(ws, f)
    \/ Announced(f, ws)
    \/ copy[<<ws, f>>] = version[f]

\* A subscribed device gets the current version, unless it goes away or an
\* event is lost; what it has missed earlier comes with the next push.
DevicesCatchUp ==
  \A ws \in Sockets, f \in Files :
    <<f, ws>> \in acked
      ~> \/ copy[<<ws, f>>] = version[f]
         \/ <<f, ws>> \notin acked
         \/ <<ws, f>> \in missed
=============================================================================
