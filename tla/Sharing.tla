------------------------------ MODULE Sharing ------------------------------
(***************************************************************************)
(* Folders, permissions and share links: who may do what, and when.        *)
(*                                                                         *)
(* Every handler checks first and acts later: it reads the folder of a     *)
(* file, then the caller's permission, and then runs the statement that    *)
(* reads or writes, each in a database call of its own.  Grants, deletions *)
(* and time come between them.  One action is one such statement.  What a  *)
(* commit does to versions is left to VersionCommit.                       *)
(***************************************************************************)
EXTENDS Integers, FiniteSets

CONSTANTS
  Users,
  Folders,     \* ids of the rows of folders, in use or still to be drawn
  Files,       \* ids of the rows of files, likewise
  Calls,       \* REST and gRPC calls; a link's token is the call that made it
  TTLs,        \* the ttl_seconds a caller may ask for
  Nobody,      \* no owner, no folder
  Never,       \* NULL in expires_at
  MaxTime      \* bound on the clock

ASSUME TimesAssumption == TTLs \subseteq Int /\ MaxTime \in Nat
ASSUME NobodyAssumption == Nobody \notin Users \cup Folders
ASSUME NeverAssumption == Never \notin Int

VARIABLES
  owner,       \* folders.owner_id; Nobody where there is no row
  shares,      \* folder_shares.permission, by folder and grantee
  home,        \* files.folder_id; Nobody where there is no row
  deleted,     \* files.deleted
  links,       \* share_links
  now,         \* the time
  call,        \* the arguments of each call
  pc,          \* the next statement of each call
  found,       \* the folder that get_file_folder_id returned
  stamp,       \* expires_at, computed before the INSERT
  \* history variables
  entitled,    \* calls whose caller has had the permission they need
  late         \* calls about a file that had been deleted when they began

tables == <<owner, shares, home, deleted, links, now>>
locals == <<call, pc, found, stamp>>
vars == <<tables, locals, entitled, late>>

Levels == {"none", "read", "write"}

\* Mutant: the pattern lets the table's third value through.
AnyLevel == {"read", "write", "owner"}

\* GrantShareRequest accepts these, although the table would take 'owner'.
GrantLevels == {"read", "write"}

-----------------------------------------------------------------------------
(* Requests.                                                               *)

FolderRequest == [op : {"create_directory", "create_file"}, user : Users, folder : Folders]
RootRequest == [op : {"create_directory"}, user : Users, folder : {Nobody}]
GrantRequest == [op : {"grant"}, user : Users, folder : Folders,
                 grantee : Users, permission : GrantLevels]
LinkRequest == [op : {"create_link"}, user : Users, folder : Folders, ttl : TTLs]
FileRequest == [op : {"commit", "history", "delete"}, user : Users, file : Files]
TokenRequest == [op : {"validate"}, token : Calls]

Requests == FolderRequest \cup RootRequest \cup GrantRequest \cup LinkRequest
              \cup FileRequest \cup TokenRequest

Op(c) == call[c].op

FirstStep(request) ==
  CASE request.op \in {"commit", "history"}                        -> "lookup"
    [] request.op \in {"delete", "validate"} \/ request \in RootRequest -> "act"
    [] OTHER                                                       -> "check"

\* The permissions that let a call pass its check.
Required(op) ==
  CASE op \in {"grant", "create_link", "delete"}              -> {"owner"}
    [] op \in {"create_directory", "create_file", "commit"}   -> {"owner", "write"}
    [] op = "history"                                         -> {"owner", "write", "read"}

Active == {"lookup", "check", "stamp", "act"}
Finished == {"done", "failed"}

Init ==
  /\ \E f \in Folders, u \in Users :
       /\ owner = [g \in Folders |-> IF g = f THEN u ELSE Nobody]
       /\ shares \in [Folders \X Users -> Levels]
       /\ \A g \in Folders, v \in Users :
            shares[<<g, v>>] # "none" => g = f /\ v # u
       /\ home \in [Files -> {f, Nobody}]
  /\ deleted = {}
  /\ links = {}
  /\ now = 0
  /\ call = [c \in Calls |-> [op |-> "none"]]
  /\ pc = [c \in Calls |-> "idle"]
  /\ found = [c \in Calls |-> Nobody]
  /\ stamp = [c \in Calls |-> Never]
  /\ entitled = {}
  /\ late = {}

Goto(c, label) == pc' = [pc EXCEPT ![c] = label]

\* get_folder_permission
Permission(u, f) ==
  CASE f = Nobody \/ owner[f] = Nobody -> "none"
    [] owner[f] = u                    -> "owner"
    [] OTHER                           -> shares[<<f, u>>]

-----------------------------------------------------------------------------
(* The handlers, up to their statement.                                    *)

Arrive(c) ==
  /\ pc[c] = "idle"
  /\ \E request \in Requests :
       /\ call' = [call EXCEPT ![c] = request]
       /\ Goto(c, FirstStep(request))
       /\ late' = IF request \in FileRequest /\ request.file \in deleted
                  THEN late \cup {c} ELSE late
  /\ UNCHANGED <<tables, found, stamp>>

\* Mutant: without AND deleted = FALSE.
LookupAny(c) ==
  /\ pc[c] = "lookup"
  /\ found' = [found EXCEPT ![c] = home[call[c].file]]
  /\ Goto(c, IF found'[c] = Nobody THEN "failed" ELSE "check")
  /\ UNCHANGED <<tables, call, stamp, late>>

\* get_file_folder_id; the reply is a 404 if there is no such row.
Lookup(c) ==
  /\ pc[c] = "lookup"
  /\ found' = [found EXCEPT ![c] =
                 IF call[c].file \in deleted THEN Nobody ELSE home[call[c].file]]
  /\ Goto(c, IF found'[c] = Nobody THEN "failed" ELSE "check")
  /\ UNCHANGED <<tables, call, stamp, late>>

\* create_share_link computes the expiry before its statement.
AfterCheck(op) == IF op = "create_link" THEN "stamp" ELSE "act"

CheckedFolder(c) == IF Op(c) \in {"commit", "history"} THEN found[c] ELSE call[c].folder

\* Mutant: any permission at all will do.
CheckAny(c) ==
  /\ pc[c] = "check"
  /\ Goto(c, IF Permission(call[c].user, CheckedFolder(c)) # "none"
             THEN AfterCheck(Op(c)) ELSE "failed")
  /\ UNCHANGED <<tables, call, found, stamp, late>>

\* The reply is a 403 if the permission does not suffice now.
Check(c) ==
  /\ pc[c] = "check"
  /\ Goto(c, IF Permission(call[c].user, CheckedFolder(c)) \in Required(Op(c))
             THEN AfterCheck(Op(c)) ELSE "failed")
  /\ UNCHANGED <<tables, call, found, stamp, late>>

\* create_share_link: a TTL of 0 or less means that the link never expires.
Stamp(c) ==
  /\ pc[c] = "stamp"
  /\ stamp' = [stamp EXCEPT ![c] = IF call[c].ttl > 0 THEN now + call[c].ttl ELSE Never]
  /\ Goto(c, "act")
  /\ UNCHANGED <<tables, call, found, late>>

\* INTERNAL or 500, a lost connection, a killed process.
Fail(c) ==
  /\ pc[c] \in Active
  /\ Goto(c, "failed")
  /\ UNCHANGED <<tables, call, found, stamp, late>>

-----------------------------------------------------------------------------
(* The statements.                                                         *)

\* op is what c is about to do.
Acts(c, op) == pc[c] = "act" /\ Op(c) = op

CreateDirectory(c) ==
  /\ Acts(c, "create_directory")
  /\ \E f \in Folders :
       /\ owner[f] = Nobody
       /\ owner' = [owner EXCEPT ![f] = call[c].user]
  /\ Goto(c, "done")
  /\ UNCHANGED <<shares, home, deleted, links, now, call, found, stamp, late>>

CreateFile(c) ==
  /\ Acts(c, "create_file")
  /\ \E x \in Files :
       /\ home[x] = Nobody
       /\ home' = [home EXCEPT ![x] = call[c].folder]
  /\ Goto(c, "done")
  /\ UNCHANGED <<owner, shares, deleted, links, now, call, found, stamp, late>>

\* grant_folder_access: a new permission replaces the old one, higher or lower.
Grant(c) ==
  /\ Acts(c, "grant")
  /\ shares' = [shares EXCEPT ![<<call[c].folder, call[c].grantee>>] = call[c].permission]
  /\ Goto(c, "done")
  /\ UNCHANGED <<owner, home, deleted, links, now, call, found, stamp, late>>

NewLink(c) == [token |-> c, folder |-> call[c].folder, expires |-> stamp[c],
               made |-> now, ttl |-> call[c].ttl]

InsertLink(c) ==
  /\ Acts(c, "create_link")
  /\ links' = links \cup {NewLink(c)}
  /\ Goto(c, "done")
  /\ UNCHANGED <<owner, shares, home, deleted, now, call, found, stamp, late>>

\* commit_file_version, get_file_history: allowed; their work is elsewhere.
UseFile(c) ==
  /\ Acts(c, "commit") \/ Acts(c, "history")
  /\ Goto(c, "done")
  /\ UNCHANGED <<tables, call, found, stamp, late>>

\* delete_file: check and act in one statement, for the folder's owner only.
DeleteFile(c) ==
  /\ Acts(c, "delete")
  /\ LET x == call[c].file
         ok == x \notin deleted /\ Permission(call[c].user, home[x]) = "owner"
     IN  /\ deleted' = IF ok THEN deleted \cup {x} ELSE deleted
         /\ Goto(c, IF ok THEN "done" ELSE "failed")
  /\ UNCHANGED <<owner, shares, home, links, now, call, found, stamp, late>>

\* Mutant: expires_at >= now().
IsLiveAtEnd(l) == l.expires = Never \/ l.expires >= now

\* expires_at IS NULL OR expires_at > now()
IsLive(l) == l.expires = Never \/ l.expires > now

\* validate_share_link
ValidateLink(c) ==
  /\ Acts(c, "validate")
  /\ Goto(c, IF \E l \in links : l.token = call[c].token /\ IsLive(l)
             THEN "done" ELSE "failed")
  /\ UNCHANGED <<tables, call, found, stamp, late>>

Tick ==
  /\ now < MaxTime
  /\ now' = now + 1
  /\ UNCHANGED <<owner, shares, home, deleted, links, locals, late>>

-----------------------------------------------------------------------------

Handle(c) ==
  \/ Lookup(c)
  \/ Check(c)
  \/ Stamp(c)
  \/ CreateDirectory(c)
  \/ CreateFile(c)
  \/ Grant(c)
  \/ InsertLink(c)
  \/ UseFile(c)
  \/ DeleteFile(c)
  \/ ValidateLink(c)

\* The folder that decides whether c may go on.
Concerned(c) == IF call[c] \in FileRequest THEN home[call[c].file] ELSE call[c].folder

NeedsPermission(c) ==
  pc[c] # "idle" /\ Op(c) # "validate" /\ call[c] \notin RootRequest

\* The caller has, at this moment, the permission that c needs.
HasPermission(c) ==
  /\ NeedsPermission(c)
  /\ Permission(call[c].user, Concerned(c)) \in Required(Op(c))

\* Every call is over: the service waits for new ones.
Idle ==
  /\ \A c \in Calls : pc[c] \in Finished
  /\ UNCHANGED vars

Next ==
  \/ /\ \/ \E c \in Calls : Arrive(c) \/ Handle(c) \/ Fail(c)
        \/ Tick
     /\ entitled' = entitled \cup {c \in Calls : pc[c] \notin Finished /\ HasPermission(c)'}
  \/ Idle

Spec == Init /\ [][Next]_vars

-----------------------------------------------------------------------------
(* Properties.                                                             *)

LinkRow == [token : Calls, folder : Folders, expires : Int \cup {Never}, made : Nat, ttl : TTLs]

\* Nobody is granted 'owner': a folder has the one owner who created it.
TypeOK ==
  /\ owner \in [Folders -> Users \cup {Nobody}]
  /\ shares \in [Folders \X Users -> Levels]
  /\ home \in [Files -> Folders \cup {Nobody}]
  /\ deleted \subseteq Files
  /\ links \subseteq LinkRow
  /\ now \in 0 .. MaxTime
  /\ call \in [Calls -> Requests \cup {[op |-> "none"]}]
  /\ pc \in [Calls -> Active \cup Finished \cup {"idle"}]
  /\ found \in [Calls -> Folders \cup {Nobody}]
  /\ stamp \in [Calls -> Int \cup {Never}]
  /\ entitled \subseteq Calls
  /\ late \subseteq Calls

\* Whoever has read or changed anything in a folder, had the permission for it
\* at some moment since the call began, however grants were changed between
\* its check and its statement; a permission lowered before it began is no help.
OnlyEntitledCallsAct ==
  \A c \in Calls : pc[c] = "done" /\ NeedsPermission(c) => c \in entitled

\* A call about a file that begins after the file was deleted never succeeds.
DeletedFilesStayGone == \A c \in late : pc[c] # "done"

\* No link with a TTL is accepted when its time is over, counted from its
\* creation, however long the INSERT and the validating call take.
LinksExpire ==
  [][\A c \in Calls : pc[c] = "act" /\ pc'[c] = "done" /\ Op(c) = "validate" =>
       \E l \in links : /\ l.token = call[c].token
                        /\ l.ttl > 0 => now < l.made + l.ttl]_vars
=============================================================================
