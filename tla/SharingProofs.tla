---------------------------- MODULE SharingProofs ----------------------------
(***************************************************************************)
(* Proofs that only entitled calls act, that deleted files stay gone and   *)
(* that links expire, for any users, folders, files, calls and lifetimes,  *)
(* however grants, deletions and the clock come between a handler's check  *)
(* and its statement.                                                      *)
(***************************************************************************)
EXTENDS Sharing, TLAPS

(***************************************************************************)
(* The inductive invariant: what a call already knows at each label, and   *)
(* that nothing another call does can take it back.  A file never changes  *)
(* folder and never comes back, a link's time is fixed when it is made,    *)
(* and having had a permission is not undone.                              *)
(***************************************************************************)

\* A call is at the statements of its own operation, and the folder that it
\* looked up is still the folder of its file.
PlaceInv ==
  \A c \in Calls :
    /\ pc[c] # "idle" => call[c] \in Requests
    /\ pc[c] = "lookup" => Op(c) \in {"commit", "history"}
    /\ pc[c] = "check" => Op(c) \notin {"delete", "validate"} /\ call[c] \notin RootRequest
    /\ pc[c] = "check" /\ Op(c) \in {"commit", "history"} =>
         found[c] # Nobody /\ found[c] = home[call[c].file]
    /\ pc[c] = "stamp" => Op(c) = "create_link"

\* Past its check, a call has had its permission; a deletion checks and acts
\* in one statement.
CheckedInv ==
  \A c \in Calls :
    /\ NeedsPermission(c)
    /\ pc[c] = "done" \/ (pc[c] \in {"stamp", "act"} /\ Op(c) # "delete")
    => c \in entitled

\* A call that came too late is at a step that will find that out.
LateInv ==
  \A c \in late :
    /\ call[c] \in FileRequest /\ call[c].file \in deleted
    /\ pc[c] \in {"lookup", "failed"} \/ (pc[c] = "act" /\ Op(c) = "delete")

\* A lifetime is counted from a moment not after the creation of the link.
LinkInv ==
  /\ \A c \in Calls : pc[c] = "act" /\ Op(c) = "create_link" =>
       (call[c].ttl > 0 => stamp[c] \in Int /\ stamp[c] <= now + call[c].ttl)
  /\ \A l \in links : l.ttl > 0 => l.expires \in Int /\ l.expires <= l.made + l.ttl

IInv == TypeOK /\ PlaceInv /\ CheckedInv /\ LateInv /\ LinkInv

Labels == Active \cup Finished \cup {"idle"}

-----------------------------------------------------------------------------
(* Lemmas about requests and permissions.                                  *)

\* The operation tells what a request carries.
LEMMA RequestFields ==
  ASSUME NEW r \in Requests
  PROVE  /\ r.op \in {"commit", "history", "delete"} <=> r \in FileRequest
         /\ r \in FileRequest => r.file \in Files /\ r.user \in Users
         /\ r.op = "validate" => r.token \in Calls
         /\ r.op = "create_link" => r.folder \in Folders /\ r.ttl \in TTLs /\ r.ttl \in Int
         /\ r.op = "grant" => /\ r.folder \in Folders /\ r.grantee \in Users
                              /\ r.permission \in GrantLevels
         /\ r.op = "create_file" => r.folder \in Folders
         /\ r.op = "create_directory" => r.user \in Users
         /\ r \in RootRequest => r.op = "create_directory"
         /\ r.op # "none"
BY TimesAssumption DEF Requests, FolderRequest, RootRequest, GrantRequest, LinkRequest,
     FileRequest, TokenRequest

\* Where a request begins.
LEMMA FirstStepIs ==
  ASSUME NEW r \in Requests
  PROVE  /\ FirstStep(r) \in {"lookup", "check", "act"}
         /\ FirstStep(r) = "lookup" => r.op \in {"commit", "history"}
         /\ FirstStep(r) = "check" => r.op \notin {"commit", "history", "delete", "validate"}
                                       /\ r \notin RootRequest
         /\ FirstStep(r) = "act" => r.op \in {"delete", "validate"} \/ r \in RootRequest
<1>1. CASE r.op \in {"commit", "history"}
  <2>1. r.op \notin {"delete", "validate"} /\ r \notin RootRequest
    BY <1>1, RequestFields
  <2>2. FirstStep(r) = "lookup"
    BY <1>1, <2>1 DEF FirstStep
  <2> QED BY <1>1, <2>2
<1>2. CASE r.op \in {"delete", "validate"} \/ r \in RootRequest
  <2>1. r.op \notin {"commit", "history"}
    BY <1>2, RequestFields
  <2>2. FirstStep(r) = "act"
    BY <1>2, <2>1 DEF FirstStep
  <2> QED BY <1>2, <2>2
<1>3. CASE r.op \notin {"commit", "history", "delete", "validate"} /\ r \notin RootRequest
  <2>1. FirstStep(r) = "check"
    BY <1>3 DEF FirstStep
  <2> QED BY <1>3, <2>1
<1> QED BY <1>1, <1>2, <1>3

\* A permission depends on the owner and the grants of the folder only.
LEMMA PermissionStays ==
  ASSUME UNCHANGED <<owner, shares>>
  PROVE  \A u, f : Permission(u, f)' = Permission(u, f)
BY DEF Permission

\* What a passed check has found.
LEMMA CheckOutcome ==
  ASSUME TypeOK, NEW c \in Calls, Check(c)
  PROVE  \/ pc'[c] = "failed" /\ pc' = [pc EXCEPT ![c] = "failed"]
         \/ /\ Permission(call[c].user, CheckedFolder(c)) \in Required(Op(c))
            /\ \/ Op(c) = "create_link" /\ pc'[c] = "stamp" /\ pc' = [pc EXCEPT ![c] = "stamp"]
               \/ Op(c) # "create_link" /\ pc'[c] = "act" /\ pc' = [pc EXCEPT ![c] = "act"]
<1> DEFINE label == IF Permission(call[c].user, CheckedFolder(c)) \in Required(Op(c))
                    THEN AfterCheck(Op(c)) ELSE "failed"
<1>1. pc' = [pc EXCEPT ![c] = label] /\ pc \in [Calls -> Labels]
  BY DEF Check, Goto, TypeOK, Labels
<1>2. \/ label = "failed"
      \/ /\ Permission(call[c].user, CheckedFolder(c)) \in Required(Op(c))
         /\ \/ Op(c) = "create_link" /\ label = "stamp"
            \/ Op(c) # "create_link" /\ label = "act"
  BY DEF AfterCheck
<1> HIDE DEF label
<1>3. pc'[c] = label
  BY <1>1
<1> QED BY <1>1, <1>2, <1>3

\* A lookup finds the folder of the file, unless the file was deleted or the
\* file does not exist.
LEMMA LookupOutcome ==
  ASSUME TypeOK, NEW c \in Calls, Lookup(c)
  PROVE  LET folder == IF call[c].file \in deleted THEN Nobody ELSE home[call[c].file]
         IN  /\ found' = [found EXCEPT ![c] = folder]
             /\ found'[c] = folder
             /\ \/ folder = Nobody /\ pc' = [pc EXCEPT ![c] = "failed"] /\ pc'[c] = "failed"
                \/ folder # Nobody /\ pc' = [pc EXCEPT ![c] = "check"] /\ pc'[c] = "check"
<1> DEFINE folder == IF call[c].file \in deleted THEN Nobody ELSE home[call[c].file]
<1>1. /\ found' = [found EXCEPT ![c] = folder]
      /\ pc' = [pc EXCEPT ![c] = IF found'[c] = Nobody THEN "failed" ELSE "check"]
  BY DEF Lookup, Goto
<1>2. found'[c] = folder
  <2> HIDE DEF folder
  <2> QED BY <1>1 DEF TypeOK
<1>3. \A label : pc' = [pc EXCEPT ![c] = label] => pc'[c] = label
  BY DEF TypeOK
<1> HIDE DEF folder
<1>4. \/ folder = Nobody /\ pc' = [pc EXCEPT ![c] = "failed"]
      \/ folder # Nobody /\ pc' = [pc EXCEPT ![c] = "check"]
  BY <1>1, <1>2
<1>5. \/ folder = Nobody /\ pc' = [pc EXCEPT ![c] = "failed"] /\ pc'[c] = "failed"
      \/ folder # Nobody /\ pc' = [pc EXCEPT ![c] = "check"] /\ pc'[c] = "check"
  BY <1>3, <1>4
<1> QED BY <1>1, <1>2, <1>5 DEF folder

\* What a deletion finds.
LEMMA DeleteOutcome ==
  ASSUME TypeOK, NEW c \in Calls, DeleteFile(c)
  PROVE  \/ pc' = [pc EXCEPT ![c] = "failed"] /\ pc'[c] = "failed" /\ deleted' = deleted
         \/ /\ pc' = [pc EXCEPT ![c] = "done"] /\ pc'[c] = "done"
            /\ deleted' = deleted \cup {call[c].file}
            /\ call[c].file \notin deleted
            /\ Permission(call[c].user, home[call[c].file]) = "owner"
<1> DEFINE ok == /\ call[c].file \notin deleted
                 /\ Permission(call[c].user, home[call[c].file]) = "owner"
<1>1. /\ deleted' = IF ok THEN deleted \cup {call[c].file} ELSE deleted
      /\ pc' = [pc EXCEPT ![c] = IF ok THEN "done" ELSE "failed"]
  BY DEF DeleteFile, Goto
<1>2. \A label : pc' = [pc EXCEPT ![c] = label] => pc'[c] = label
  BY DEF TypeOK
<1>3. CASE ok
  <2>1. deleted' = deleted \cup {call[c].file} /\ pc' = [pc EXCEPT ![c] = "done"]
    BY <1>1, <1>3
  <2> QED BY <1>2, <1>3, <2>1
<1>4. CASE ~ok
  <2>1. deleted' = deleted /\ pc' = [pc EXCEPT ![c] = "failed"]
    BY <1>1, <1>4
  <2> QED BY <1>2, <2>1
<1> QED BY <1>3, <1>4

\* What a validation finds.
LEMMA ValidateOutcome ==
  ASSUME TypeOK, NEW c \in Calls, ValidateLink(c)
  PROVE  \/ pc' = [pc EXCEPT ![c] = "failed"] /\ pc'[c] = "failed"
         \/ /\ pc' = [pc EXCEPT ![c] = "done"] /\ pc'[c] = "done"
            /\ \E l \in links : l.token = call[c].token /\ IsLive(l)
<1> DEFINE ok == \E l \in links : l.token = call[c].token /\ IsLive(l)
<1>1. pc' = [pc EXCEPT ![c] = IF ok THEN "done" ELSE "failed"]
  BY DEF ValidateLink, Goto
<1>2. \A label : pc' = [pc EXCEPT ![c] = label] => pc'[c] = label
  BY DEF TypeOK
<1>3. CASE ok
  <2>1. pc' = [pc EXCEPT ![c] = "done"]
    BY <1>1, <1>3
  <2> QED BY <1>2, <1>3, <2>1
<1>4. CASE ~ok
  <2>1. pc' = [pc EXCEPT ![c] = "failed"]
    BY <1>1, <1>4
  <2> QED BY <1>2, <2>1
<1> QED BY <1>3, <1>4

\* A call's step touches no other call, and a call keeps its arguments.
LEMMA OthersStay ==
  ASSUME TypeOK, NEW c \in Calls, Arrive(c) \/ Handle(c) \/ Fail(c)
  PROVE  /\ \A d \in Calls \ {c} : /\ pc'[d] = pc[d] /\ call'[d] = call[d]
                                   /\ found'[d] = found[d] /\ stamp'[d] = stamp[d]
         /\ \E label \in Labels : pc' = [pc EXCEPT ![c] = label] /\ pc'[c] = label
         /\ pc[c] # "idle" => call' = call /\ late' = late
         /\ now' = now
<1>1. \A label : pc' = [pc EXCEPT ![c] = label] =>
        pc'[c] = label /\ \A d \in Calls \ {c} : pc'[d] = pc[d]
  BY DEF TypeOK
<1>2. CASE Arrive(c)
  <2>1. PICK request \in Requests : /\ call' = [call EXCEPT ![c] = request]
                                    /\ pc' = [pc EXCEPT ![c] = FirstStep(request)]
    BY <1>2 DEF Arrive, Goto
  <2>2. FirstStep(request) \in Labels
    BY FirstStepIs DEF Labels, Active
  <2>3. pc[c] = "idle" /\ UNCHANGED <<found, stamp, now>>
    BY <1>2 DEF Arrive, tables
  <2>4. \A d \in Calls \ {c} : call'[d] = call[d]
    BY <2>1 DEF TypeOK
  <2> QED BY <1>1, <2>1, <2>2, <2>3, <2>4
<1>3. CASE Lookup(c)
  <2>1. UNCHANGED <<call, stamp, late, now>>
    BY <1>3 DEF Lookup, tables
  <2>2. \A d \in Calls \ {c} : found'[d] = found[d]
    BY <1>3, LookupOutcome DEF TypeOK
  <2>3. \E label \in {"failed", "check"} : pc' = [pc EXCEPT ![c] = label]
    BY <1>3, LookupOutcome
  <2> QED BY <1>1, <2>1, <2>2, <2>3 DEF Labels, Active, Finished
<1>4. CASE Check(c)
  <2>1. UNCHANGED <<call, found, stamp, late, now>>
    BY <1>4 DEF Check, tables
  <2>2. \E label \in {"failed", "stamp", "act"} : pc' = [pc EXCEPT ![c] = label]
    BY <1>4, CheckOutcome
  <2> QED BY <1>1, <2>1, <2>2 DEF Labels, Active, Finished
<1>5. CASE Stamp(c)
  <2>1. UNCHANGED <<call, found, late, now>> /\ pc' = [pc EXCEPT ![c] = "act"]
    BY <1>5 DEF Stamp, tables, Goto
  <2>2. \A d \in Calls \ {c} : stamp'[d] = stamp[d]
    BY <1>5 DEF Stamp, TypeOK
  <2> QED BY <1>1, <2>1, <2>2 DEF Labels, Active
<1>6. CASE DeleteFile(c)
  <2>1. UNCHANGED <<call, found, stamp, late, now>>
    BY <1>6 DEF DeleteFile
  <2>2. \E label \in {"failed", "done"} : pc' = [pc EXCEPT ![c] = label]
    BY <1>6, DeleteOutcome
  <2> QED BY <1>1, <2>1, <2>2 DEF Labels, Finished
<1>7. CASE ValidateLink(c)
  <2>1. UNCHANGED <<call, found, stamp, late, now>>
    BY <1>7 DEF ValidateLink, tables
  <2>2. \E label \in {"failed", "done"} : pc' = [pc EXCEPT ![c] = label]
    BY <1>7, ValidateOutcome
  <2> QED BY <1>1, <2>1, <2>2 DEF Labels, Finished
<1>8. CASE CreateDirectory(c) \/ CreateFile(c) \/ Grant(c) \/ InsertLink(c) \/ UseFile(c) \/ Fail(c)
  <2>1. UNCHANGED <<call, found, stamp, late, now>>
    BY <1>8 DEF CreateDirectory, CreateFile, Grant, InsertLink, UseFile, Fail, tables
  <2>2. \E label \in {"failed", "done"} : pc' = [pc EXCEPT ![c] = label]
    BY <1>8 DEF CreateDirectory, CreateFile, Grant, InsertLink, UseFile, Fail, Goto
  <2> QED BY <1>1, <2>1, <2>2 DEF Labels, Finished
<1> QED BY <1>2, <1>3, <1>4, <1>5, <1>6, <1>7, <1>8 DEF Handle

\* A file that is there stays in its folder, and a deleted one stays deleted.
LEMMA FilesStay ==
  ASSUME TypeOK, NEW c \in Calls, Arrive(c) \/ Handle(c) \/ Fail(c)
  PROVE  /\ \A x \in Files : home[x] # Nobody => home'[x] = home[x]
         /\ deleted \subseteq deleted'
<1>1. CASE CreateFile(c)
  <2>1. PICK x \in Files : home[x] = Nobody /\ home' = [home EXCEPT ![x] = call[c].folder]
    BY <1>1 DEF CreateFile
  <2>2. \A y \in Files : y # x => home'[y] = home[y]
    BY <2>1 DEF TypeOK
  <2> QED BY <1>1, <2>1, <2>2 DEF CreateFile
<1>2. CASE DeleteFile(c)
  BY <1>2, DeleteOutcome DEF DeleteFile
<1>3. CASE UNCHANGED <<home, deleted>>
  BY <1>3
<1> QED
  BY <1>1, <1>2, <1>3 DEF Handle, Arrive, Lookup, Check, Stamp, CreateDirectory, Grant,
       InsertLink, UseFile, ValidateLink, Fail, tables

-----------------------------------------------------------------------------
(* Each part of the invariant holds at first, and every step keeps it.     *)

\* No call has begun, there is no link, and one folder with its grants.
LEMMA InvariantInit == Init => IInv
<1> SUFFICES ASSUME Init PROVE IInv
  OBVIOUS
<1>1. /\ pc = [c \in Calls |-> "idle"] /\ call = [c \in Calls |-> [op |-> "none"]]
      /\ deleted = {} /\ links = {} /\ now = 0 /\ entitled = {} /\ late = {}
      /\ found = [c \in Calls |-> Nobody] /\ stamp = [c \in Calls |-> Never]
  BY DEF Init
<1>2. /\ owner \in [Folders -> Users \cup {Nobody}]
      /\ shares \in [Folders \X Users -> Levels]
      /\ home \in [Files -> Folders \cup {Nobody}]
  BY DEF Init
<1>3. TypeOK
  BY <1>1, <1>2, TimesAssumption DEF TypeOK
<1> QED BY <1>1, <1>3 DEF IInv, PlaceInv, CheckedInv, NeedsPermission, LateInv, LinkInv

\* A call's own statements bring it only where its operation belongs, and no
\* other call can change what it has looked up.
LEMMA PlaceStep ==
  ASSUME TypeOK, PlaceInv, NEW c \in Calls, Arrive(c) \/ Handle(c) \/ Fail(c)
  PROVE  PlaceInv'
<1> DEFINE P(l, r, f, h) ==
      /\ l # "idle" => r \in Requests
      /\ l = "lookup" => r.op \in {"commit", "history"}
      /\ l = "check" => r.op \notin {"delete", "validate"} /\ r \notin RootRequest
      /\ l = "check" /\ r.op \in {"commit", "history"} => f # Nobody /\ f = h[r.file]
      /\ l = "stamp" => r.op = "create_link"
<1>1. \A d \in Calls : P(pc[d], call[d], found[d], home)
  BY DEF PlaceInv, Op
<1>2. ASSUME NEW d \in Calls, d # c PROVE P(pc'[d], call'[d], found'[d], home')
  <2>1. pc'[d] = pc[d] /\ call'[d] = call[d] /\ found'[d] = found[d]
    BY <1>2, OthersStay
  <2>2. pc[d] = "check" /\ call[d].op \in {"commit", "history"} =>
          home'[call[d].file] = home[call[d].file]
    BY <1>1, FilesStay, RequestFields
  <2> QED BY <1>1, <2>1, <2>2
<1>3. P(pc'[c], call'[c], found'[c], home')
  <2>1. CASE Arrive(c)
    <3>1. PICK request \in Requests : /\ call' = [call EXCEPT ![c] = request]
                                      /\ pc' = [pc EXCEPT ![c] = FirstStep(request)]
      BY <2>1 DEF Arrive, Goto
    <3>2. call'[c] = request /\ pc'[c] = FirstStep(request)
      BY <3>1 DEF TypeOK
    <3> QED BY <3>2, FirstStepIs
  <2>2. CASE Lookup(c)
    <3>1. /\ call' = call /\ home' = home /\ pc[c] = "lookup"
      BY <2>2 DEF Lookup, tables
    <3>2. \/ pc'[c] = "failed"
          \/ pc'[c] = "check" /\ found'[c] # Nobody /\ found'[c] = home[call[c].file]
      BY <2>2, LookupOutcome
    <3>3. call[c] \in Requests /\ call[c].op \in {"commit", "history"}
      BY <1>1, <3>1
    <3>4. call[c] \notin RootRequest
      BY <3>3, RequestFields
    <3> QED BY <3>1, <3>2, <3>3, <3>4
  <2>3. CASE Check(c)
    <3>1. /\ call' = call /\ pc[c] = "check"
      BY <2>3 DEF Check
    <3>2. pc'[c] \in {"failed", "act"} \/ (pc'[c] = "stamp" /\ call[c].op = "create_link")
      BY <2>3, CheckOutcome DEF Op
    <3>3. call[c] \in Requests
      BY <1>1, <3>1
    <3> QED BY <3>1, <3>2, <3>3
  <2>4. CASE pc'[c] \in {"act", "done", "failed"} /\ call' = call /\ pc[c] # "idle"
    BY <1>1, <2>4
  <2>5. ASSUME Stamp(c) PROVE pc'[c] \in {"act", "done", "failed"} /\ call' = call /\ pc[c] # "idle"
    BY <2>5 DEF Stamp, Goto, TypeOK
  <2>6. ASSUME DeleteFile(c) \/ ValidateLink(c)
        PROVE  pc'[c] \in {"act", "done", "failed"} /\ call' = call /\ pc[c] # "idle"
    BY <2>6, DeleteOutcome, ValidateOutcome DEF DeleteFile, ValidateLink, Acts
  <2>7. ASSUME CreateDirectory(c) \/ CreateFile(c) \/ Grant(c) \/ InsertLink(c) \/ UseFile(c) \/ Fail(c)
        PROVE  pc'[c] \in {"act", "done", "failed"} /\ call' = call /\ pc[c] # "idle"
    BY <2>7 DEF CreateDirectory, CreateFile, Grant, InsertLink, UseFile, Fail, Acts, Goto,
                TypeOK, Active
  <2> QED BY <2>1, <2>2, <2>3, <2>4, <2>5, <2>6, <2>7 DEF Handle
<1>4. \A d \in Calls : P(pc'[d], call'[d], found'[d], home')
  BY <1>2, <1>3
<1> QED BY <1>4 DEF PlaceInv, Op

\* A call's step leaves every table and every local well typed.
LEMMA TypeStep ==
  ASSUME TypeOK, PlaceInv, NEW c \in Calls, Arrive(c) \/ Handle(c) \/ Fail(c),
         entitled' \subseteq Calls
  PROVE  TypeOK'
<1>1. pc' \in [Calls -> Active \cup Finished \cup {"idle"}]
  <2>1. PICK label \in Labels : pc' = [pc EXCEPT ![c] = label]
    BY OthersStay
  <2> QED BY <2>1 DEF TypeOK, Labels
<1>2. now' \in 0 .. MaxTime
  BY OthersStay DEF TypeOK
<1>3. pc[c] # "idle" => call[c] \in Requests
  BY DEF PlaceInv
<1> DEFINE Rest == /\ owner' \in [Folders -> Users \cup {Nobody}]
                   /\ shares' \in [Folders \X Users -> Levels]
                   /\ home' \in [Files -> Folders \cup {Nobody}]
                   /\ deleted' \subseteq Files
                   /\ links' \subseteq LinkRow
                   /\ call' \in [Calls -> Requests \cup {[op |-> "none"]}]
                   /\ found' \in [Calls -> Folders \cup {Nobody}]
                   /\ stamp' \in [Calls -> Int \cup {Never}]
                   /\ late' \subseteq Calls
<1> SUFFICES Rest
  BY <1>1, <1>2 DEF TypeOK
<1>4. ASSUME UNCHANGED <<owner, shares, home, deleted, links, call, found, stamp, late>>
      PROVE  Rest
  BY <1>4 DEF TypeOK
<1>5. CASE Arrive(c)
  <2>1. UNCHANGED <<tables, found, stamp>> /\ late' \in {late \cup {c}, late}
    BY <1>5 DEF Arrive
  <2>2. call' \in [Calls -> Requests \cup {[op |-> "none"]}]
    <3>1. PICK request \in Requests : call' = [call EXCEPT ![c] = request]
      BY <1>5 DEF Arrive
    <3> QED BY <3>1 DEF TypeOK
  <2> QED BY <2>1, <2>2 DEF tables, TypeOK
<1>6. CASE Lookup(c)
  <2>1. UNCHANGED <<tables, call, stamp, late>> /\ pc[c] = "lookup"
    BY <1>6 DEF Lookup
  <2>2. call[c].file \in Files
    BY <1>3, <2>1, RequestFields DEF PlaceInv, Op
  <2>3. (IF call[c].file \in deleted THEN Nobody ELSE home[call[c].file])
           \in Folders \cup {Nobody}
    BY <2>2 DEF TypeOK
  <2>4. found' \in [Calls -> Folders \cup {Nobody}]
    BY <1>6, <2>3, LookupOutcome DEF TypeOK
  <2> QED BY <2>1, <2>4 DEF tables, TypeOK
<1>7. CASE Stamp(c)
  <2>1. UNCHANGED <<tables, call, found, late>> /\ pc[c] = "stamp"
    BY <1>7 DEF Stamp
  <2>2. call[c].ttl \in Int
    BY <1>3, <2>1, RequestFields DEF PlaceInv, Op
  <2>3. now + call[c].ttl \in Int
    BY <2>2, TimesAssumption DEF TypeOK
  <2>4. stamp' \in [Calls -> Int \cup {Never}]
    BY <1>7, <2>3 DEF Stamp, TypeOK
  <2> QED BY <2>1, <2>4 DEF tables, TypeOK
<1>8. CASE CreateDirectory(c)
  <2>1. UNCHANGED <<shares, home, deleted, links, call, found, stamp, late>>
        /\ pc[c] = "act" /\ call[c].op = "create_directory"
    BY <1>8 DEF CreateDirectory, Acts, Op
  <2>2. call[c].user \in Users
    BY <1>3, <2>1, RequestFields
  <2>3. owner' \in [Folders -> Users \cup {Nobody}]
    BY <1>8, <2>2 DEF CreateDirectory, TypeOK
  <2> QED BY <2>1, <2>3 DEF TypeOK
<1>9. CASE CreateFile(c)
  <2>1. UNCHANGED <<owner, shares, deleted, links, call, found, stamp, late>>
        /\ pc[c] = "act" /\ call[c].op = "create_file"
    BY <1>9 DEF CreateFile, Acts, Op
  <2>2. call[c].folder \in Folders
    BY <1>3, <2>1, RequestFields
  <2>3. home' \in [Files -> Folders \cup {Nobody}]
    BY <1>9, <2>2 DEF CreateFile, TypeOK
  <2> QED BY <2>1, <2>3 DEF TypeOK
<1>10. CASE Grant(c)
  <2>1. UNCHANGED <<owner, home, deleted, links, call, found, stamp, late>>
        /\ pc[c] = "act" /\ call[c].op = "grant"
    BY <1>10 DEF Grant, Acts, Op
  <2>2. call[c].permission \in Levels
    BY <1>3, <2>1, RequestFields DEF GrantLevels, Levels
  <2>3. shares' \in [Folders \X Users -> Levels]
    BY <1>10, <2>2 DEF Grant, TypeOK
  <2> QED BY <2>1, <2>3 DEF TypeOK
<1>11. CASE InsertLink(c)
  <2>1. UNCHANGED <<owner, shares, home, deleted, call, found, stamp, late>>
        /\ pc[c] = "act" /\ call[c].op = "create_link"
    BY <1>11 DEF InsertLink, Acts, Op
  <2>2. call[c].folder \in Folders /\ call[c].ttl \in TTLs
    BY <1>3, <2>1, RequestFields
  <2>3. NewLink(c) \in LinkRow
    BY <2>2, TimesAssumption DEF NewLink, LinkRow, TypeOK
  <2>4. links' \subseteq LinkRow
    BY <1>11, <2>3 DEF InsertLink, TypeOK
  <2> QED BY <2>1, <2>4 DEF TypeOK
<1>12. CASE DeleteFile(c)
  <2>1. UNCHANGED <<owner, shares, home, links, call, found, stamp, late>>
        /\ pc[c] = "act" /\ call[c].op = "delete"
    BY <1>12 DEF DeleteFile, Acts, Op
  <2>2. call[c].file \in Files
    BY <1>3, <2>1, RequestFields
  <2>3. deleted' \subseteq Files
    BY <1>12, <2>2, DeleteOutcome DEF TypeOK
  <2> QED BY <2>1, <2>3 DEF TypeOK
<1>13. CASE Check(c) \/ UseFile(c) \/ ValidateLink(c) \/ Fail(c)
  BY <1>4, <1>13 DEF Check, UseFile, ValidateLink, Fail, tables
<1> HIDE DEF Rest
<1> QED BY <1>5, <1>6, <1>7, <1>8, <1>9, <1>10, <1>11, <1>12, <1>13 DEF Handle

\* A deleted file stays deleted, so a call that began after the deletion finds
\* no such file where it looks for it.
LEMMA LateStep ==
  ASSUME TypeOK, PlaceInv, LateInv, NEW c \in Calls, Arrive(c) \/ Handle(c) \/ Fail(c)
  PROVE  LateInv'
<1> SUFFICES ASSUME NEW d \in late'
             PROVE  /\ call'[d] \in FileRequest /\ call'[d].file \in deleted'
                    /\ \/ pc'[d] \in {"lookup", "failed"}
                       \/ pc'[d] = "act" /\ call'[d].op = "delete"
  BY DEF LateInv, Op
<1>1. CASE d # c
  <2>1. d \in late
    <3>1. late' \subseteq late \cup {c}
      <4>1. CASE Arrive(c)
        BY <4>1 DEF Arrive
      <4>2. CASE pc[c] # "idle"
        BY <4>2, OthersStay
      <4> QED BY <4>1, <4>2, OthersStay DEF Handle, Lookup, Check, Stamp, CreateDirectory,
            CreateFile, Grant, InsertLink, UseFile, DeleteFile, ValidateLink, Fail
    <3> QED BY <1>1, <3>1
  <2>2. d \in Calls
    BY <2>1 DEF TypeOK
  <2>3. pc'[d] = pc[d] /\ call'[d] = call[d]
    BY <1>1, <2>2, OthersStay
  <2> QED BY <2>1, <2>3, FilesStay DEF LateInv, Op
<1>2. CASE d = c /\ Arrive(c)
  <2>1. PICK request \in Requests :
          /\ call' = [call EXCEPT ![c] = request]
          /\ pc' = [pc EXCEPT ![c] = FirstStep(request)]
          /\ late' = IF request \in FileRequest /\ request.file \in deleted
                     THEN late \cup {c} ELSE late
    BY <1>2 DEF Arrive, Goto
  <2>2. call'[c] = request /\ pc'[c] = FirstStep(request)
    BY <2>1 DEF TypeOK
  <2>3. c \notin late
    BY <1>2 DEF LateInv, Arrive
  <2>4. request \in FileRequest /\ request.file \in deleted
    BY <1>2, <2>1, <2>3
  <2>5. request.op \in {"commit", "history", "delete"}
    BY <2>4, RequestFields
  <2>6. FirstStep(request) = "lookup" \/ (FirstStep(request) = "act" /\ request.op = "delete")
    <3>1. request \notin RootRequest
      BY <2>5, RequestFields
    <3> QED BY <2>5, <3>1, FirstStepIs
  <2> QED BY <1>2, <2>2, <2>4, <2>6, FilesStay
<1>3. CASE d = c /\ pc[c] # "idle"
  <2>1. call' = call /\ late' = late
    BY <1>3, OthersStay
  <2>2. /\ call[c] \in FileRequest /\ call[c].file \in deleted
        /\ pc[c] \in {"lookup", "failed"} \/ (pc[c] = "act" /\ call[c].op = "delete")
    BY <1>3, <2>1 DEF LateInv, Op
  <2>3. Lookup(c) \/ DeleteFile(c) \/ Fail(c)
    BY <1>3, <2>2 DEF Handle, Arrive, Check, Stamp, CreateDirectory, CreateFile, Grant,
         InsertLink, UseFile, ValidateLink, Acts, Op
  <2>4. pc'[c] = "failed"
    BY <2>2, <2>3, LookupOutcome, DeleteOutcome DEF Fail, Goto, TypeOK
  <2> QED BY <1>3, <2>1, <2>2, <2>4, FilesStay
<1> QED BY <1>1, <1>2, <1>3 DEF Handle, Lookup, Check, Stamp, CreateDirectory, CreateFile,
              Grant, InsertLink, UseFile, DeleteFile, ValidateLink, Fail, Acts, Active

\* Which steps bring a call to its statement.
LEMMA ActOutcome ==
  ASSUME TypeOK, PlaceInv, NEW c \in Calls, Arrive(c) \/ Handle(c) \/ Fail(c), pc'[c] = "act"
  PROVE  \/ Arrive(c) /\ (call'[c].op \in {"delete", "validate"} \/ call'[c] \in RootRequest)
         \/ Check(c) /\ Op(c) # "create_link"
         \/ Stamp(c)
<1>1. CASE Arrive(c)
  <2>1. PICK request \in Requests : /\ call' = [call EXCEPT ![c] = request]
                                    /\ pc' = [pc EXCEPT ![c] = FirstStep(request)]
    BY <1>1 DEF Arrive, Goto
  <2>2. call'[c] = request /\ pc'[c] = FirstStep(request)
    BY <2>1 DEF TypeOK
  <2> QED BY <1>1, <2>2, FirstStepIs
<1>2. CASE Check(c)
  BY <1>2, CheckOutcome
<1>3. CASE Stamp(c)
  BY <1>3
<1>4. ASSUME Lookup(c) \/ DeleteFile(c) \/ ValidateLink(c) PROVE FALSE
  BY <1>4, LookupOutcome, DeleteOutcome, ValidateOutcome
<1>5. ASSUME CreateDirectory(c) \/ CreateFile(c) \/ Grant(c) \/ InsertLink(c) \/ UseFile(c) \/ Fail(c)
      PROVE  FALSE
  BY <1>5 DEF CreateDirectory, CreateFile, Grant, InsertLink, UseFile, Fail, Goto, TypeOK
<1> QED BY <1>1, <1>2, <1>3, <1>4, <1>5 DEF Handle

\* The end of a link is counted from before its creation.
LEMMA LinkStep ==
  ASSUME TypeOK, PlaceInv, LinkInv, NEW c \in Calls, Arrive(c) \/ Handle(c) \/ Fail(c)
  PROVE  LinkInv'
<1>1. now' = now
  BY OthersStay
<1>2. ASSUME NEW d \in Calls, pc'[d] = "act", call'[d].op = "create_link", call'[d].ttl > 0
      PROVE  stamp'[d] \in Int /\ stamp'[d] <= now + call'[d].ttl
  <2>1. CASE d # c
    <3>1. pc'[d] = pc[d] /\ call'[d] = call[d] /\ stamp'[d] = stamp[d]
      BY <2>1, OthersStay
    <3> QED BY <1>2, <3>1 DEF LinkInv, Op
  <2>2. CASE d = c
    <3>1. ~Arrive(c)
      <4> SUFFICES ASSUME Arrive(c) PROVE FALSE
        OBVIOUS
      <4>1. call'[c] \in Requests /\ pc[c] = "idle"
        BY DEF Arrive, TypeOK
      <4>2. ~Check(c) /\ ~Stamp(c)
        BY <4>1 DEF Check, Stamp
      <4>3. call'[c].op \in {"delete", "validate"} \/ call'[c] \in RootRequest
        BY <1>2, <2>2, <4>2, ActOutcome
      <4> QED BY <1>2, <2>2, <4>1, <4>3, RequestFields
    <3>2. pc[c] # "idle" => call' = call
      BY OthersStay
    <3>3. ~(Check(c) /\ Op(c) # "create_link")
      BY <1>2, <2>2, <3>2 DEF Check, Op
    <3>4. Stamp(c)
      BY <1>2, <2>2, <3>1, <3>3, ActOutcome
    <3>5. call' = call /\ call[c] \in Requests /\ call[c].op = "create_link"
      BY <3>4 DEF Stamp, PlaceInv, Op
    <3>6. call[c].ttl \in Int /\ now \in Int
      BY <3>5, RequestFields, TimesAssumption DEF TypeOK
    <3>7. stamp'[c] = now + call[c].ttl
      <4>1. stamp' = [stamp EXCEPT ![c] = now + call[c].ttl]
        BY <1>2, <2>2, <3>4, <3>5 DEF Stamp
      <4> QED BY <4>1 DEF TypeOK
    <3> QED BY <2>2, <3>5, <3>6, <3>7
  <2> QED BY <2>1, <2>2
<1>3. ASSUME NEW l \in links', l.ttl > 0 PROVE l.expires \in Int /\ l.expires <= l.made + l.ttl
  <2>1. CASE l \in links
    BY <1>3, <2>1 DEF LinkInv
  <2>2. CASE l \notin links
    <3>1. InsertLink(c)
      BY <2>2 DEF Handle, Arrive, Lookup, Check, Stamp, CreateDirectory, CreateFile, Grant,
           UseFile, DeleteFile, ValidateLink, Fail, tables
    <3>2. l = NewLink(c) /\ pc[c] = "act" /\ Op(c) = "create_link"
      BY <2>2, <3>1 DEF InsertLink, Acts
    <3>3. l.ttl = call[c].ttl /\ l.expires = stamp[c] /\ l.made = now
      BY <3>2 DEF NewLink
    <3> QED BY <1>3, <3>2, <3>3 DEF LinkInv
  <2> QED BY <2>1, <2>2
<1> QED BY <1>1, <1>2, <1>3 DEF LinkInv, Op

\* A passed check, or a deletion that succeeds, is a moment at which the
\* caller has the permission.
LEMMA CheckedStep ==
  ASSUME TypeOK, PlaceInv, CheckedInv,
         NEW c \in Calls, Arrive(c) \/ Handle(c) \/ Fail(c),
         entitled' = entitled \cup {d \in Calls : pc[d] \notin Finished /\ HasPermission(d)'}
  PROVE  CheckedInv'
<1> SUFFICES ASSUME NEW d \in Calls, NeedsPermission(d)',
                    pc'[d] = "done" \/ (pc'[d] \in {"stamp", "act"} /\ call'[d].op # "delete")
             PROVE  d \in entitled'
  BY DEF CheckedInv, Op
<1>1. CASE d # c
  <2>1. pc'[d] = pc[d] /\ call'[d] = call[d]
    BY <1>1, OthersStay
  <2>2. NeedsPermission(d)
    BY <2>1 DEF NeedsPermission, Op
  <2> QED BY <2>1, <2>2 DEF CheckedInv, Op
<1>2. CASE d = c /\ pc[c] = "idle"
  <2>1. Arrive(c)
    BY <1>2 DEF Handle, Lookup, Check, Stamp, CreateDirectory, CreateFile, Grant, InsertLink,
         UseFile, DeleteFile, ValidateLink, Fail, Acts, Active
  <2>2. PICK request \in Requests : /\ call' = [call EXCEPT ![c] = request]
                                    /\ pc' = [pc EXCEPT ![c] = FirstStep(request)]
    BY <2>1 DEF Arrive, Goto
  <2>3. call'[c] = request /\ pc'[c] = FirstStep(request)
    BY <2>2 DEF TypeOK
  <2>4. request.op # "validate" /\ request \notin RootRequest
    BY <1>2, <2>3 DEF NeedsPermission, Op
  <2> QED BY <1>2, <2>3, <2>4, FirstStepIs
<1>3. CASE d = c /\ pc[c] # "idle"
  <2>1. call' = call
    BY <1>3, OthersStay
  <2>2. NeedsPermission(c)
    BY <1>3, <2>1 DEF NeedsPermission, Op
  <2>3. call[c] \in Requests
    BY <1>3 DEF PlaceInv
  <2>4. CASE Check(c)
    <3>1. /\ Permission(call[c].user, CheckedFolder(c)) \in Required(Op(c))
          /\ UNCHANGED <<owner, shares, home, call>> /\ pc[c] = "check"
      BY <1>3, <2>4, CheckOutcome DEF Check, tables
    <3>2. CheckedFolder(c) = Concerned(c)
      BY <2>3, <3>1, RequestFields DEF CheckedFolder, Concerned, PlaceInv, Op
    <3>3. HasPermission(c)
      BY <2>2, <3>1, <3>2 DEF HasPermission
    <3>4. HasPermission(c)'
      BY <1>3, <3>1, <3>3 DEF HasPermission, NeedsPermission, Permission, Concerned, Required, Op
    <3> QED BY <1>3, <3>1, <3>4 DEF Finished
  <2>5. CASE DeleteFile(c)
    <3>1. /\ Permission(call[c].user, home[call[c].file]) = "owner"
          /\ UNCHANGED <<owner, shares, home, call>> /\ pc[c] = "act" /\ Op(c) = "delete"
      BY <1>3, <2>5, DeleteOutcome DEF DeleteFile, Acts
    <3>2. Required("delete") = {"owner"}
      BY DEF Required
    <3>3. Concerned(c) = home[call[c].file]
      BY <2>3, <3>1, RequestFields DEF Concerned, Op
    <3>4. HasPermission(c)
      BY <2>2, <3>1, <3>2, <3>3 DEF HasPermission
    <3>5. HasPermission(c)'
      BY <1>3, <3>1, <3>4 DEF HasPermission, NeedsPermission, Permission, Concerned, Required, Op
    <3> QED BY <1>3, <3>1, <3>5 DEF Finished
  <2>6. CASE pc[c] \in {"stamp", "act"} /\ Op(c) # "delete"
    BY <1>3, <2>2, <2>6 DEF CheckedInv
  <2>7. CASE Lookup(c) \/ Fail(c)
    BY <1>3, <2>7, LookupOutcome DEF Fail, Goto, TypeOK
  <2>8. ASSUME Stamp(c) PROVE pc[c] \in {"stamp", "act"} /\ Op(c) # "delete"
    BY <2>8 DEF Stamp, PlaceInv
  <2>9. ASSUME CreateDirectory(c) \/ CreateFile(c) \/ Grant(c) \/ InsertLink(c)
                 \/ UseFile(c) \/ ValidateLink(c)
        PROVE  pc[c] \in {"stamp", "act"} /\ Op(c) # "delete"
    BY <2>9 DEF CreateDirectory, CreateFile, Grant, InsertLink, UseFile, ValidateLink, Acts
  <2> QED BY <1>3, <2>4, <2>5, <2>6, <2>7, <2>8, <2>9 DEF Handle, Arrive
<1> QED BY <1>1, <1>2, <1>3

\* Time passes: a lifetime that has begun is not made longer.
LEMMA TickStep ==
  ASSUME IInv, Tick, entitled' \subseteq Calls, entitled \subseteq entitled'
  PROVE  IInv'
<1>1. /\ now' = now + 1 /\ now < MaxTime
      /\ UNCHANGED <<owner, shares, home, deleted, links, locals, late>>
  BY DEF Tick
<1>2. TypeOK /\ now \in Int
  BY DEF IInv, TypeOK
<1>3. TypeOK'
  <2>1. now' \in 0 .. MaxTime
    BY <1>1, <1>2, TimesAssumption DEF TypeOK
  <2> QED BY <1>1, <1>2, <2>1 DEF TypeOK, locals
<1>4. PlaceInv' /\ LateInv'
  BY <1>1 DEF IInv, PlaceInv, LateInv, Op, locals
<1>5. CheckedInv'
  BY <1>1 DEF IInv, CheckedInv, NeedsPermission, Op, locals
<1>6. LinkInv'
  <2>1. ASSUME NEW c \in Calls, pc[c] = "act", call[c].op = "create_link", call[c].ttl > 0
        PROVE  stamp[c] \in Int /\ stamp[c] <= now' + call[c].ttl
    <3>1. stamp[c] \in Int /\ stamp[c] <= now + call[c].ttl
      BY <2>1 DEF IInv, LinkInv, Op
    <3>2. call[c].ttl \in Int
      <4>1. call[c] \in Requests
        BY <2>1 DEF IInv, PlaceInv
      <4> QED BY <2>1, <4>1, RequestFields
    <3> QED BY <1>1, <1>2, <3>1, <3>2
  <2> QED BY <1>1, <2>1 DEF IInv, LinkInv, Op, locals
<1> QED BY <1>3, <1>4, <1>5, <1>6 DEF IInv

\* Every step keeps the invariant.
LEMMA InvariantStep == IInv /\ [Next]_vars => IInv'
<1> SUFFICES ASSUME IInv, [Next]_vars PROVE IInv'
  OBVIOUS
<1>1. CASE UNCHANGED vars
  <2>1. UNCHANGED <<owner, shares, home, deleted, links, now, call, pc, found, stamp, entitled, late>>
    BY <1>1 DEF vars, tables, locals
  <2>2. TypeOK'
    BY <2>1 DEF IInv, TypeOK
  <2>3. PlaceInv' /\ LateInv' /\ LinkInv'
    BY <2>1 DEF IInv, PlaceInv, LateInv, LinkInv, Op
  <2>4. CheckedInv'
    BY <2>1 DEF IInv, CheckedInv, NeedsPermission, Op
  <2> QED BY <2>2, <2>3, <2>4 DEF IInv
<1>2. CASE /\ (\E c \in Calls : Arrive(c) \/ Handle(c) \/ Fail(c)) \/ Tick
           /\ entitled' = entitled \cup {c \in Calls : pc[c] \notin Finished /\ HasPermission(c)'}
  <2>1. entitled' \subseteq Calls /\ entitled \subseteq entitled'
    BY <1>2 DEF IInv, TypeOK
  <2>2. CASE Tick
    BY <2>1, <2>2, TickStep
  <2>3. ASSUME NEW c \in Calls, Arrive(c) \/ Handle(c) \/ Fail(c) PROVE IInv'
    <3>1. TypeOK /\ PlaceInv /\ CheckedInv /\ LateInv /\ LinkInv
      BY DEF IInv
    <3>2. TypeOK' /\ PlaceInv'
      BY <2>1, <2>3, <3>1, TypeStep, PlaceStep
    <3>3. LateInv' /\ LinkInv'
      BY <2>3, <3>1, LateStep, LinkStep
    <3>4. CheckedInv'
      BY <1>2, <2>3, <3>1, CheckedStep
    <3> QED BY <3>2, <3>3, <3>4 DEF IInv
  <2> QED BY <1>2, <2>2, <2>3
<1> QED BY <1>1, <1>2 DEF Next, Idle

-----------------------------------------------------------------------------
(* The theorems.                                                           *)

\* In every reachable state, the inductive invariant holds.
THEOREM Invariance == Spec => []IInv
BY InvariantInit, InvariantStep, PTL DEF Spec

\* All tables are well typed; no grant ever makes a second owner.
THEOREM TypeCorrect == Spec => []TypeOK
<1>1. IInv => TypeOK
  BY DEF IInv
<1> QED BY <1>1, Invariance, PTL

\* Whoever has read or changed anything in a folder had the permission for it
\* at some moment since the call began.
THEOREM ActorsEntitled == Spec => []OnlyEntitledCallsAct
<1>1. IInv => OnlyEntitledCallsAct
  BY DEF IInv, CheckedInv, OnlyEntitledCallsAct
<1> QED BY <1>1, Invariance, PTL

\* No call about a file that begins after its deletion succeeds.
THEOREM DeletedStayGone == Spec => []DeletedFilesStayGone
<1>1. IInv => DeletedFilesStayGone
  BY DEF IInv, LateInv, DeletedFilesStayGone
<1> QED BY <1>1, Invariance, PTL

\* Only validate_share_link's statement ends a validation with success, and it
\* looks at the time.
LEMMA ValidationStep ==
  ASSUME IInv, Next, NEW c \in Calls, pc[c] = "act", pc'[c] = "done", Op(c) = "validate"
  PROVE  \E l \in links : /\ l.token = call[c].token
                          /\ l.ttl > 0 => now < l.made + l.ttl
<1>1. TypeOK
  BY DEF IInv
<1>2. PICK d \in Calls : Arrive(d) \/ Handle(d) \/ Fail(d)
  BY DEF Next, Tick, Idle, vars, locals
<1>3. d = c
  BY <1>1, <1>2, OthersStay
<1>4. ValidateLink(c)
  <2>1. ~Fail(c)
    BY <1>1 DEF Fail, Goto, TypeOK
  <2> QED BY <1>2, <1>3, <2>1 DEF Handle, Arrive, Lookup, Check, Stamp, CreateDirectory,
        CreateFile, Grant, InsertLink, UseFile, DeleteFile, Acts
<1>5. PICK l \in links : l.token = call[c].token /\ IsLive(l)
  BY <1>1, <1>4, ValidateOutcome
<1>6. l.ttl > 0 => now < l.made + l.ttl
  <2> SUFFICES ASSUME l.ttl > 0 PROVE now < l.made + l.ttl
    OBVIOUS
  <2>1. l.expires \in Int /\ l.expires <= l.made + l.ttl
    BY DEF IInv, LinkInv
  <2>2. l.expires > now
    BY <1>5, <2>1, NeverAssumption DEF IsLive
  <2>3. l.made \in Int /\ l.ttl \in Int /\ now \in Int
    <3>1. l \in LinkRow /\ now \in 0 .. MaxTime
      BY <1>1 DEF TypeOK
    <3>2. l.made \in Nat /\ l.ttl \in TTLs
      BY <3>1 DEF LinkRow
    <3>3. now \in Int
      BY <3>1
    <3>4. l.ttl \in Int
      BY <3>2, TimesAssumption
    <3> QED BY <3>2, <3>3, <3>4
  <2> QED BY <2>1, <2>2, <2>3
<1> QED BY <1>5, <1>6

\* No link with a lifetime is accepted when that is over.
THEOREM ExpiredRefused == Spec => LinksExpire
<1>1. IInv /\ [Next]_vars =>
        [\A c \in Calls : pc[c] = "act" /\ pc'[c] = "done" /\ Op(c) = "validate" =>
           \E l \in links : /\ l.token = call[c].token
                            /\ l.ttl > 0 => now < l.made + l.ttl]_vars
  BY ValidationStep
<1> QED BY <1>1, Invariance, PTL DEF Spec, LinksExpire
=============================================================================
