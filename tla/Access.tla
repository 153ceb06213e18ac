------------------------------- MODULE Access -------------------------------
(***************************************************************************)
(* In whose name a call acts: registration, login and the tokens of the    *)
(* Metadata Service.                                                       *)
(*                                                                         *)
(* A handler gives up the event loop at every await: one action is what    *)
(* happens between two of them.  Over REST the dependency get_current_user *)
(* hands the claims of the token to the handler as an argument.  Over gRPC *)
(* the wrapped handler puts them in a context variable, the servicer reads *)
(* the variable, and when it has ended its old value is put back.  Of the  *)
(* variable there is one value per asyncio task, and the gRPC server runs  *)
(* each call in a task of its own.  Tokens are those that login has signed;*)
(* one clock stands for those of all processes, and goes in fractions of a *)
(* second, of which tokens keep whole seconds.                             *)
(***************************************************************************)
EXTENDS Integers, FiniteSets

CONSTANTS
  Emails,
  Passwords,
  Registrations, Logins,  \* calls without a token, each made once
  Requests,    \* calls with a token, over REST or gRPC, each made once
  Nobody,      \* no user, no token, no password
  TicksPerSecond,
  Lifetime,    \* jwt_expire_minutes, in ticks
  MaxTime      \* bound on the clock

ASSUME TimeAssumption ==
  TicksPerSecond \in Nat \ {0} /\ Lifetime \in Nat /\ MaxTime \in Nat
ASSUME NobodyAssumption == Nobody \notin Registrations \cup Emails \cup Passwords

VARIABLES
  now,
  users,       \* the table: one row per account
  form,        \* the e-mail and password a registration or login sends
  found,       \* the row that each login's SELECT has returned
  token,       \* the token each request carries
  via,         \* the interface each request comes in by
  claims,      \* the user a request's token was decoded to: the argument of
               \* the handler, over gRPC a variable that it closes over
  context,     \* the value of _current_user in each task
  outer,       \* what each call's set() has replaced
  actor,       \* the user in whose name a request has acted
  pc,          \* the next step of each call
  \* history variables
  issued,      \* tokens signed, with the login they were signed for
  accepted     \* when each request's token was accepted; -1 before

accountVars == <<users, form, found, issued>>
requestVars == <<token, via, claims, context, outer, actor, accepted>>
vars == <<now, pc, accountVars, requestVars>>

Forms == Registrations \cup Logins
Calls == Forms \cup Requests
Steps == {"insert", "select", "verify", "send", "decode", "enter", "act", "leave"}
Finished == {"created", "conflict", "token", "refused", "done"}

\* Where a request is whose token has been accepted.
Accepted == {"enter", "act", "leave", "done"}

\* A registration's account has the call as its id.  An account seeded
\* without a password, as the demo script does, has its e-mail.
Ids == Registrations \cup Emails
Account == [id : Ids, email : Emails, password : Passwords \cup {Nobody}]
Token == [sub : Ids, exp : Int]

\* Mutant: one value for all calls, as of a variable of the module.
TaskOfAll(c) == Nobody

\* The task that a call runs in, and whose value of _current_user it sees.
Task(c) == c
Tasks == {Task(c) : c \in Requests}

Init ==
  /\ now = 0
  /\ \E seeded \in SUBSET Emails :
       users = {[id |-> e, email |-> e, password |-> Nobody] : e \in seeded}
  /\ form \in [Forms -> [email : Emails, password : Passwords]]
  /\ found = [c \in Logins |-> {}]
  /\ token = [c \in Requests |-> Nobody]
  /\ via \in [Requests -> {"rest", "grpc"}]
  /\ claims = [c \in Requests |-> Nobody]
  /\ context = [k \in Tasks |-> Nobody]
  /\ outer = [c \in Requests |-> Nobody]
  /\ actor = [c \in Requests |-> Nobody]
  /\ pc = [c \in Calls |-> IF c \in Registrations THEN "insert"
                           ELSE IF c \in Logins THEN "select" ELSE "send"]
  /\ issued = {}
  /\ accepted = [c \in Requests |-> -1]

Goto(c, label) == pc' = [pc EXCEPT ![c] = label]

RowsOf(email) == {u \in users : u.email = email}

-----------------------------------------------------------------------------
(* POST /auth/register, POST /auth/login                                   *)

NewAccount(c) ==
  [id |-> c, email |-> form[c].email, password |-> form[c].password]

\* Mutant: no UNIQUE constraint, the e-mail is looked up by nobody.
RegisterAlways(c) ==
  /\ pc[c] = "insert"
  /\ users' = users \cup {NewAccount(c)}
  /\ Goto(c, "created")
  /\ UNCHANGED <<now, form, found, issued, requestVars>>

\* Mutant: ON CONFLICT (email) DO UPDATE.
RegisterOverwrites(c) ==
  /\ pc[c] = "insert"
  /\ users' = (users \ RowsOf(form[c].email)) \cup {NewAccount(c)}
  /\ Goto(c, "created")
  /\ UNCHANGED <<now, form, found, issued, requestVars>>

\* register_user: one INSERT; an e-mail that has a row already is a 409.
Register(c) ==
  /\ pc[c] = "insert"
  /\ IF RowsOf(form[c].email) = {}
     THEN users' = users \cup {NewAccount(c)} /\ Goto(c, "created")
     ELSE users' = users /\ Goto(c, "conflict")
  /\ UNCHANGED <<now, form, found, issued, requestVars>>

\* get_user_by_email
SelectUser(c) ==
  /\ pc[c] = "select"
  /\ found' = [found EXCEPT ![c] = RowsOf(form[c].email)]
  /\ Goto(c, "verify")
  /\ UNCHANGED <<now, users, form, issued, requestVars>>

\* Times are written to tokens, and compared, without their fractions.
WholeSecond(t) == t - (t % TicksPerSecond)

\* Mutant: an account without a password takes any.
PasswordFitsOrNone(u, c) == u.password \in {Nobody, form[c].password}

\* An account without a password takes none.
PasswordFits(u, c) == u.password = form[c].password

\* verify_password, create_access_token
Verify(c) ==
  /\ pc[c] = "verify"
  /\ LET fitting == {u \in found[c] : PasswordFits(u, c)} IN
       /\ issued' = issued \cup
            {[token |-> [sub |-> u.id, exp |-> WholeSecond(now + Lifetime)],
              login |-> c, at |-> now] : u \in fitting}
       /\ Goto(c, IF fitting = {} THEN "refused" ELSE "token")
  /\ UNCHANGED <<now, users, form, found, requestVars>>

-----------------------------------------------------------------------------
(* Calls with a token                                                      *)

\* A client sends a token that some login has got, or none, or a bad one.
Send(c) ==
  /\ pc[c] = "send"
  /\ \E t \in {i.token : i \in issued} \cup {Nobody} :
       token' = [token EXCEPT ![c] = t]
  /\ Goto(c, "decode")
  /\ UNCHANGED <<now, accountVars, via, claims, context, outer, actor, accepted>>

\* Mutant: the expiry is not looked at.
IsSigned(t) == t # Nobody

\* decode_token: a signature of ours, and a second that has not passed.
IsValid(t) == t # Nobody /\ t.exp >= WholeSecond(now)

\* get_current_user; intercept_service, which returns the wrapped handler.
Decode(c) ==
  /\ pc[c] = "decode"
  /\ IF IsValid(token[c])
     THEN /\ claims' = [claims EXCEPT ![c] = token[c].sub]
          /\ accepted' = [accepted EXCEPT ![c] = now]
          /\ Goto(c, IF via[c] = "rest" THEN "act" ELSE "enter")
     ELSE Goto(c, "refused") /\ UNCHANGED <<claims, accepted>>
  /\ UNCHANGED <<now, accountVars, token, via, context, outer, actor>>

\* _current_user.set(user), once the request's message has been received.
Enter(c) ==
  /\ pc[c] = "enter"
  /\ outer' = [outer EXCEPT ![c] = context[Task(c)]]
  /\ context' = [context EXCEPT ![Task(c)] = claims[c]]
  /\ Goto(c, "act")
  /\ UNCHANGED <<now, accountVars, token, via, claims, actor, accepted>>

\* The handler's argument, or get_authenticated_user(), which raises if there
\* is none.  Today's servicers call it before their first await; here any
\* calls may come between, as the interceptor is to serve any servicer.
UserSeen(c) == IF via[c] = "rest" THEN claims[c] ELSE context[Task(c)]

Act(c) ==
  /\ pc[c] = "act"
  /\ actor' = [actor EXCEPT ![c] = UserSeen(c)]
  /\ Goto(c, IF via[c] = "rest" THEN "done" ELSE "leave")
  /\ UNCHANGED <<now, accountVars, token, via, claims, context, outer, accepted>>

\* _current_user.reset(), also when the servicer has aborted before it looked.
Leave(c) ==
  /\ pc[c] = "leave" \/ (pc[c] = "act" /\ via[c] = "grpc")
  /\ context' = [context EXCEPT ![Task(c)] = outer[c]]
  /\ Goto(c, "done")
  /\ UNCHANGED <<now, accountVars, token, via, claims, outer, actor, accepted>>

Tick ==
  /\ now < MaxTime
  /\ now' = now + 1
  /\ UNCHANGED <<pc, accountVars, requestVars>>

-----------------------------------------------------------------------------

\* Every call is over, and the clock stands still.
Idle ==
  /\ \A c \in Calls : pc[c] \in Finished
  /\ UNCHANGED vars

Next ==
  \/ \E c \in Registrations : Register(c)
  \/ \E c \in Logins : SelectUser(c) \/ Verify(c)
  \/ \E c \in Requests : Send(c) \/ Decode(c) \/ Enter(c) \/ Act(c) \/ Leave(c)
  \/ Tick
  \/ Idle

Spec == Init /\ [][Next]_vars

-----------------------------------------------------------------------------
(* Properties.                                                             *)

\* A request that is past its decoding has claims; found holds one row at
\* most, as fetchrow expects.
TypeOK ==
  /\ now \in 0 .. MaxTime
  /\ users \subseteq Account
  /\ form \in [Forms -> [email : Emails, password : Passwords]]
  /\ found \in [Logins -> SUBSET users]
  /\ \A c \in Logins : Cardinality(found[c]) <= 1
  /\ token \in [Requests -> Token \cup {Nobody}]
  /\ via \in [Requests -> {"rest", "grpc"}]
  /\ claims \in [Requests -> Ids \cup {Nobody}]
  /\ context \in [Tasks -> Ids \cup {Nobody}]
  /\ outer \in [Requests -> Ids \cup {Nobody}]
  /\ actor \in [Requests -> Ids \cup {Nobody}]
  /\ pc \in [Calls -> Steps \cup Finished]
  /\ \A c \in Requests : pc[c] \in Accepted <=> claims[c] # Nobody
  /\ issued \subseteq [token : Token, login : Logins, at : 0 .. MaxTime]
  /\ accepted \in [Requests -> -1 .. MaxTime]

\* "The identity JWTAuthInterceptor resolved for the in-flight call": a request
\* acts for the holder of its own token, whatever calls of other users enter,
\* look and leave in between, and no task holds a user when no call of that
\* user is inside, so that outside a call none is found.
ActsForItsToken ==
  /\ \A c \in Requests : actor[c] # Nobody => actor[c] = token[c].sub
  /\ \A k \in Tasks : context[k] # Nobody =>
       \E c \in Requests :
         /\ Task(c) = k
         /\ pc[c] \in {"act", "leave"}
         /\ context[k] = token[c].sub

\* Whoever was told that the account was created keeps it, and is the only
\* one with that e-mail, whatever registrations of the e-mail overlap.
OneAccountPerEmail ==
  \A c \in Registrations :
    pc[c] = "created" => RowsOf(form[c].email) = {NewAccount(c)}

\* Who acts has given the password with which the account was registered;
\* the accounts of the demo script cannot be logged in to at all.
OnlyHoldersGetTokens ==
  \A i \in issued :
    \E c \in Registrations :
      /\ i.token.sub = c
      /\ form[i.login] = form[c]
      /\ pc[c] = "created"

\* A request that is accepted carries the token of a login that is less than
\* Lifetime and a second ago (fractions of seconds are not compared), although
\* it may act a little later than it is accepted.
SessionsEnd ==
  \A c \in Requests : accepted[c] >= 0 =>
    \E i \in issued : /\ i.token = token[c]
                      /\ i.at <= accepted[c]
                      /\ accepted[c] < i.at + Lifetime + TicksPerSecond
=============================================================================
