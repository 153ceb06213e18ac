---------------------------- MODULE AccessProofs ----------------------------
(***************************************************************************)
(* Proofs that every request acts for the holder of its token, that an     *)
(* e-mail has the one account that was created for it, that only the one   *)
(* who registered an account gets a token for it, and that no session      *)
(* outlives its login by jwt_expire_minutes and a second; for any users,   *)
(* and any number of calls in any order.                                   *)
(***************************************************************************)
EXTENDS Access, FiniteSetTheorems, TLAPS

(***************************************************************************)
(* The inductive invariant.  What a request does is decided in steps of up *)
(* to three calls (an account is registered, its row is read, a token is   *)
(* signed, sent and decoded, the user is put where the servicer looks):    *)
(* each part of the invariant carries what one step has established to the *)
(* next.                                                                   *)
(***************************************************************************)

\* The UNIQUE constraint on users.email.
OneRowPerEmail == \A u, v \in users : u.email = v.email => u = v

\* An account has no password, or the one that its registration gave.
AccountsRegistered ==
  \A u \in users :
    \/ u.password = Nobody
    \/ \E c \in Registrations : u = NewAccount(c) /\ pc[c] = "created"

\* An account that was created stays.
AccountsKept == \A c \in Registrations : pc[c] = "created" => NewAccount(c) \in users

\* A login goes on with the account of its own e-mail.
FoundByEmail == \A c \in Logins : \A u \in found[c] : u.email = form[c].email

\* A token expires Lifetime after its login.
IssuedInTime == \A i \in issued : i.at <= now /\ i.token.exp = WholeSecond(i.at + Lifetime)

\* Requests send tokens that have been signed, or none.
TokensIssued ==
  \A c \in Requests : token[c] = Nobody \/ \E i \in issued : i.token = token[c]

\* The claims of a request are those of its own token, to the end.
ClaimsOfToken ==
  \A c \in Requests :
    /\ pc[c] \in Accepted => claims[c] = token[c].sub
    /\ actor[c] # Nobody => pc[c] \in {"leave", "done"}
    /\ accepted[c] >= 0 => pc[c] \in Accepted

\* The call is between set() and reset().
Inside(c) == via[c] = "grpc" /\ pc[c] \in {"act", "leave"}

\* A task holds the user of the call that is inside, which found none there.
ContextsOfCalls ==
  \A c \in Requests :
    /\ pc[c] \in {"enter", "leave"} => via[c] = "grpc"
    /\ outer[c] = Nobody
    /\ context[c] = IF Inside(c) THEN claims[c] ELSE Nobody

ActorsOfTokens == \A c \in Requests : actor[c] # Nobody => actor[c] = token[c].sub

\* What accounts, registrations and logins keep, and what requests keep.
AccountsInv ==
  /\ OneRowPerEmail
  /\ AccountsRegistered
  /\ AccountsKept
  /\ FoundByEmail
  /\ OnlyHoldersGetTokens
  /\ IssuedInTime

RequestsInv ==
  /\ TokensIssued
  /\ ClaimsOfToken
  /\ ContextsOfCalls
  /\ ActorsOfTokens
  /\ SessionsEnd

IInv == TypeOK /\ AccountsInv /\ RequestsInv

\* Every request has a task of its own.
LEMMA OwnTasks == Tasks = Requests /\ \A c \in Requests : Task(c) = c
BY DEF Tasks, Task

\* Less than a second is cut off.
LEMMA WholeSeconds ==
  ASSUME NEW t \in Nat
  PROVE  /\ WholeSecond(t) \in Int
         /\ WholeSecond(t) <= t /\ t < WholeSecond(t) + TicksPerSecond
<1>1. t % TicksPerSecond \in 0 .. TicksPerSecond - 1
  BY TimeAssumption
<1> QED BY <1>1, TimeAssumption DEF WholeSecond

-----------------------------------------------------------------------------
(* Registration and login.                                                 *)

\* Initially there are at most the accounts of the demo script.
LEMMA InitEstablishes == Init => IInv
<1> SUFFICES ASSUME Init PROVE IInv
  OBVIOUS
<1>1. PICK seeded \in SUBSET Emails :
        users = {[id |-> e, email |-> e, password |-> Nobody] : e \in seeded}
  BY DEF Init
<1>2. users \subseteq Account
  BY <1>1 DEF Account, Ids
<1>3. OneRowPerEmail /\ AccountsRegistered
  BY <1>1 DEF OneRowPerEmail, AccountsRegistered
<1>4. IsFiniteSet({}) /\ Cardinality({}) = 0
  BY FS_EmptySet
<1>5. TypeOK
  BY <1>2, <1>4, TimeAssumption DEF Init, TypeOK, Calls, Forms, Steps, Accepted
<1>6. AccountsKept /\ FoundByEmail /\ OnlyHoldersGetTokens /\ IssuedInTime
  BY DEF Init, AccountsKept, FoundByEmail, OnlyHoldersGetTokens, IssuedInTime, Calls, Forms
<1>7. \A c \in Requests : pc[c] \in {"insert", "select", "send"}
  BY DEF Init, Calls
<1>8. TokensIssued /\ ClaimsOfToken /\ ActorsOfTokens /\ SessionsEnd
  BY <1>7 DEF Init, TokensIssued, ClaimsOfToken, ActorsOfTokens, SessionsEnd, Accepted
<1>9. ContextsOfCalls
  BY <1>7, OwnTasks DEF Init, ContextsOfCalls, Inside
<1> QED BY <1>3, <1>5, <1>6, <1>8, <1>9 DEF IInv, AccountsInv, RequestsInv

\* A step of a registration or a login touches no request.
LEMMA RequestsUntouched ==
  ASSUME IInv, UNCHANGED <<now, requestVars>>, issued \subseteq issued',
         \A c \in Requests : \/ pc'[c] = pc[c]
                              \/ {pc[c], pc'[c]} \cap ({"send", "decode"} \cup Accepted) = {}
  PROVE  RequestsInv'
<1>1. UNCHANGED <<token, via, claims, context, outer, actor, accepted>>
  BY DEF requestVars
<1>2. TokensIssued' /\ ActorsOfTokens' /\ SessionsEnd'
  BY <1>1 DEF IInv, RequestsInv, TokensIssued, ActorsOfTokens, SessionsEnd
<1>3. ClaimsOfToken' /\ ContextsOfCalls'
  BY <1>1 DEF IInv, RequestsInv, ClaimsOfToken, ContextsOfCalls, Inside, Accepted
<1> QED BY <1>2, <1>3 DEF RequestsInv

\* Register: a row for an e-mail that had none.
LEMMA RegisterStep ==
  ASSUME IInv, NEW c \in Registrations, Register(c)
  PROVE  IInv'
<1> USE DEF IInv, AccountsInv, RequestsInv
<1>1. /\ UNCHANGED <<now, form, found, issued, requestVars>>
      /\ c \in Calls /\ c \in Forms
      /\ pc[c] = "insert"
      /\ \/ /\ RowsOf(form[c].email) = {}
            /\ users' = users \cup {NewAccount(c)}
            /\ pc' = [pc EXCEPT ![c] = "created"]
         \/ users' = users /\ pc' = [pc EXCEPT ![c] = "conflict"]
  BY DEF Register, Goto, Calls, Forms
<1>2. NewAccount(c) \in Account
  BY <1>1 DEF NewAccount, Account, Ids, TypeOK
<1>3. users \subseteq users' /\ users' \subseteq Account
  BY <1>1, <1>2 DEF TypeOK
<1>4. TypeOK'
  <2>1. found' \in [Logins -> SUBSET users']
    BY <1>1, <1>3 DEF TypeOK
  <2>2. pc' \in [Calls -> Steps \cup Finished]
    BY <1>1 DEF TypeOK, Finished
  <2>3. \A d \in Requests : pc'[d] \in Accepted <=> claims[d] # Nobody
    BY <1>1 DEF TypeOK, Calls, Accepted
  <2> QED BY <1>1, <1>3, <2>1, <2>2, <2>3 DEF TypeOK, requestVars
<1>5. OneRowPerEmail'
  <2>1. CASE users' = users
    BY <2>1 DEF OneRowPerEmail
  <2>2. CASE RowsOf(form[c].email) = {} /\ users' = users \cup {NewAccount(c)}
    <3>1. \A u \in users : u.email # NewAccount(c).email
      BY <2>2 DEF RowsOf, NewAccount
    <3> QED BY <2>2, <3>1 DEF OneRowPerEmail
  <2> QED BY <1>1, <2>1, <2>2
<1>6. \A d \in Registrations : NewAccount(d)' = NewAccount(d)
  BY <1>1 DEF NewAccount
<1>7. \A d \in Registrations : pc[d] = "created" => pc'[d] = "created"
  BY <1>1 DEF TypeOK, Calls, Forms
<1>8. AccountsRegistered'
  BY <1>1, <1>6, <1>7 DEF AccountsRegistered, TypeOK
<1>9. FoundByEmail' /\ IssuedInTime'
  BY <1>1 DEF FoundByEmail, IssuedInTime
<1>12. AccountsKept'
  <2> SUFFICES ASSUME NEW d \in Registrations, pc'[d] = "created"
               PROVE  NewAccount(d) \in users'
    BY <1>6 DEF AccountsKept
  <2>1. CASE pc[d] = "created"
    BY <1>3, <2>1 DEF AccountsKept
  <2>2. CASE pc[d] # "created"
    <3>1. d = c /\ users' = users \cup {NewAccount(c)}
      BY <1>1, <2>2 DEF TypeOK, Calls, Forms
    <3> QED BY <3>1
  <2> QED BY <2>1, <2>2
<1>10. OnlyHoldersGetTokens'
  BY <1>1, <1>7 DEF OnlyHoldersGetTokens
<1>11. RequestsInv'
  BY <1>1, RequestsUntouched DEF TypeOK, Calls, Accepted
<1> QED BY <1>4, <1>5, <1>8, <1>9, <1>10, <1>11, <1>12

\* SelectUser: the row of the e-mail, if there is one.
LEMMA SelectStep ==
  ASSUME IInv, NEW c \in Logins, SelectUser(c)
  PROVE  IInv'
<1> USE DEF IInv, AccountsInv, RequestsInv
<1>1. /\ UNCHANGED <<now, users, form, issued, requestVars>>
      /\ c \in Calls
      /\ pc[c] = "select"
      /\ found' = [found EXCEPT ![c] = RowsOf(form[c].email)]
      /\ pc' = [pc EXCEPT ![c] = "verify"]
  BY DEF SelectUser, Goto, Calls, Forms
<1>2. RowsOf(form[c].email) \subseteq users
      /\ \A u \in RowsOf(form[c].email) : u.email = form[c].email
  BY DEF RowsOf
<1>3. IsFiniteSet(RowsOf(form[c].email)) /\ Cardinality(RowsOf(form[c].email)) <= 1
  <2>1. CASE RowsOf(form[c].email) = {}
    BY <2>1, FS_EmptySet
  <2>2. CASE RowsOf(form[c].email) # {}
    <3>1. PICK u \in RowsOf(form[c].email) : TRUE
      BY <2>2
    <3>2. RowsOf(form[c].email) = {u}
      BY <3>1 DEF RowsOf, OneRowPerEmail
    <3>3. IsFiniteSet({u}) /\ Cardinality({u}) = 1
      BY FS_Singleton
    <3> QED BY <3>2, <3>3
  <2> QED BY <2>1, <2>2
<1>4. TypeOK'
  <2>1. found' \in [Logins -> SUBSET users']
    BY <1>1, <1>2 DEF TypeOK
  <2>2. \A d \in Logins : Cardinality(found'[d]) <= 1
    BY <1>1, <1>3 DEF TypeOK
  <2>3. /\ pc' \in [Calls -> Steps \cup Finished]
        /\ \A d \in Requests : pc'[d] \in Accepted <=> claims[d] # Nobody
    BY <1>1 DEF TypeOK, Calls, Steps, Accepted
  <2> QED BY <1>1, <2>1, <2>2, <2>3 DEF TypeOK, requestVars
<1>5. OneRowPerEmail' /\ IssuedInTime'
  BY <1>1 DEF OneRowPerEmail, IssuedInTime
<1>6. \A d \in Registrations : NewAccount(d)' = NewAccount(d)
  BY <1>1 DEF NewAccount
<1>7. \A d \in Registrations : pc[d] = "created" => pc'[d] = "created"
  BY <1>1 DEF TypeOK, Calls, Forms
<1>8. AccountsRegistered' /\ AccountsKept'
  <2>1. \A d \in Registrations : pc'[d] = "created" => pc[d] = "created"
    BY <1>1 DEF TypeOK, Calls, Forms
  <2> QED BY <1>1, <1>6, <1>7, <2>1 DEF AccountsRegistered, AccountsKept
<1>9. FoundByEmail'
  BY <1>1, <1>2 DEF FoundByEmail, TypeOK
<1>10. OnlyHoldersGetTokens'
  BY <1>1, <1>7 DEF OnlyHoldersGetTokens
<1>11. RequestsInv'
  BY <1>1, RequestsUntouched DEF TypeOK, Calls, Accepted
<1> QED BY <1>4, <1>5, <1>8, <1>9, <1>10, <1>11

\* Verify: a fitting password is the one the account was registered with.
LEMMA VerifyStep ==
  ASSUME IInv, NEW c \in Logins, Verify(c)
  PROVE  IInv'
<1> USE DEF IInv, AccountsInv, RequestsInv
<1> DEFINE fitting == {u \in found[c] : PasswordFits(u, c)}
           Signed(u) == [token |-> [sub |-> u.id, exp |-> WholeSecond(now + Lifetime)],
                         login |-> c, at |-> now]
<1>1. /\ UNCHANGED <<now, users, form, found, requestVars>>
      /\ c \in Calls /\ c \in Forms
      /\ pc[c] = "verify"
      /\ issued' = issued \cup {Signed(u) : u \in fitting}
      /\ pc' = [pc EXCEPT ![c] = IF fitting = {} THEN "refused" ELSE "token"]
  BY DEF Verify, Goto, Calls, Forms
<1>2. \A u \in fitting : u \in users /\ u.email = form[c].email /\ u.password = form[c].password
  BY DEF PasswordFits, FoundByEmail, TypeOK
<1>3. \A u \in fitting :
        Signed(u) \in [token : Token, login : Logins, at : 0 .. MaxTime]
  <2> SUFFICES ASSUME NEW u \in fitting
               PROVE  Signed(u) \in [token : Token, login : Logins, at : 0 .. MaxTime]
    OBVIOUS
  <2>1. u.id \in Ids /\ WholeSecond(now + Lifetime) \in Int /\ now \in 0 .. MaxTime
    BY <1>2, TimeAssumption, WholeSeconds DEF TypeOK, Account
  <2> QED BY <2>1 DEF Token
<1>4. \A u \in fitting : \E r \in Registrations :
        u.id = r /\ form[c] = form[r] /\ pc[r] = "created"
  <2> SUFFICES ASSUME NEW u \in fitting
               PROVE  \E r \in Registrations :
                        u.id = r /\ form[c] = form[r] /\ pc[r] = "created"
    OBVIOUS
  <2>1. form[c] \in [email : Emails, password : Passwords]
    BY <1>1 DEF TypeOK
  <2>2. u.password # Nobody
    BY <1>2, <2>1, NobodyAssumption
  <2>3. PICK r \in Registrations : u = NewAccount(r) /\ pc[r] = "created"
    BY <1>2, <2>2 DEF AccountsRegistered
  <2>4. form[r] \in [email : Emails, password : Passwords]
    BY DEF TypeOK, Forms
  <2>5. u.id = r /\ form[r].email = u.email /\ form[r].password = u.password
    BY <2>3 DEF NewAccount
  <2> QED BY <1>2, <2>1, <2>3, <2>4, <2>5
<1>5. TypeOK'
  <2>1. issued' \subseteq [token : Token, login : Logins, at : 0 .. MaxTime]
    BY <1>1, <1>3 DEF TypeOK
  <2>2. /\ pc' \in [Calls -> Steps \cup Finished]
        /\ \A d \in Requests : pc'[d] \in Accepted <=> claims[d] # Nobody
    BY <1>1 DEF TypeOK, Calls, Accepted, Finished
  <2> QED BY <1>1, <2>1, <2>2 DEF TypeOK, requestVars
<1>6. OneRowPerEmail' /\ FoundByEmail'
  BY <1>1 DEF OneRowPerEmail, FoundByEmail
<1>7. \A d \in Registrations : NewAccount(d)' = NewAccount(d)
  BY <1>1 DEF NewAccount
<1>8. \A d \in Registrations : pc[d] = "created" => pc'[d] = "created"
  BY <1>1 DEF TypeOK, Calls, Forms
<1>9. AccountsRegistered' /\ AccountsKept'
  <2>1. \A d \in Registrations : pc'[d] = "created" => pc[d] = "created"
    BY <1>1 DEF TypeOK, Calls, Forms
  <2> QED BY <1>1, <1>7, <1>8, <2>1 DEF AccountsRegistered, AccountsKept
<1>10. OnlyHoldersGetTokens'
  <2> SUFFICES ASSUME NEW i \in issued'
               PROVE  \E r \in Registrations :
                        i.token.sub = r /\ form[i.login] = form[r] /\ pc'[r] = "created"
    BY <1>1 DEF OnlyHoldersGetTokens
  <2>1. CASE i \in issued
    BY <1>8, <2>1 DEF OnlyHoldersGetTokens
  <2>2. CASE i \notin issued
    <3>1. PICK u \in fitting : i = Signed(u)
      BY <1>1, <2>2
    <3>2. i.token.sub = u.id /\ i.login = c
      BY <3>1
    <3> QED BY <1>4, <1>8, <3>2
  <2> QED BY <2>1, <2>2
<1>11. IssuedInTime'
  <2>1. \A u \in fitting : Signed(u).at <= now /\ Signed(u).token.exp = WholeSecond(Signed(u).at + Lifetime)
    BY DEF TypeOK
  <2> QED BY <1>1, <2>1 DEF IssuedInTime
<1>12. RequestsInv'
  BY <1>1, RequestsUntouched DEF TypeOK, Calls, Accepted
<1> QED BY <1>5, <1>6, <1>9, <1>10, <1>11, <1>12

-----------------------------------------------------------------------------
(* Calls with a token.                                                     *)

\* A step of a request touches no account, registration or login.
LEMMA AccountsUntouched ==
  ASSUME IInv, UNCHANGED <<now, accountVars>>,
         \A c \in Registrations : pc[c] = "created" <=> pc'[c] = "created"
  PROVE  AccountsInv'
<1>1. UNCHANGED <<now, users, form, found, issued>>
  BY DEF accountVars
<1>2. \A d \in Registrations : NewAccount(d)' = NewAccount(d)
  BY <1>1 DEF NewAccount
<1>3. OneRowPerEmail' /\ FoundByEmail' /\ IssuedInTime'
  BY <1>1 DEF IInv, AccountsInv, OneRowPerEmail, FoundByEmail, IssuedInTime
<1>4. AccountsRegistered' /\ AccountsKept'
  BY <1>1, <1>2 DEF IInv, AccountsInv, AccountsRegistered, AccountsKept
<1>5. OnlyHoldersGetTokens'
  BY <1>1 DEF IInv, AccountsInv, OnlyHoldersGetTokens
<1> QED BY <1>3, <1>4, <1>5 DEF AccountsInv

\* What all steps of a request have in common.
LEMMA RequestGoes ==
  ASSUME TypeOK, NEW c \in Requests, NEW label \in Steps \cup Finished,
         pc' = [pc EXCEPT ![c] = label],
         pc[c] # "created", label # "created"
  PROVE  /\ pc' \in [Calls -> Steps \cup Finished]
         /\ pc'[c] = label /\ \A d \in Requests \ {c} : pc'[d] = pc[d]
         /\ \A d \in Registrations : pc[d] = "created" <=> pc'[d] = "created"
BY DEF TypeOK, Calls, Forms

\* Send: a token that has been signed, or none.
LEMMA SendStep ==
  ASSUME IInv, NEW c \in Requests, Send(c)
  PROVE  IInv'
<1> USE DEF IInv, RequestsInv
<1>1. /\ UNCHANGED <<now, accountVars, issued, via, claims, context, outer, actor, accepted>>
      /\ pc[c] = "send" /\ pc' = [pc EXCEPT ![c] = "decode"]
  BY DEF Send, Goto, accountVars
<1>2. PICK t \in {i.token : i \in issued} \cup {Nobody} : token' = [token EXCEPT ![c] = t]
  BY DEF Send
<1>3. t \in Token \cup {Nobody}
  BY <1>2 DEF TypeOK
<1>4. /\ pc' \in [Calls -> Steps \cup Finished]
      /\ pc'[c] = "decode" /\ \A d \in Requests \ {c} : pc'[d] = pc[d]
      /\ \A d \in Registrations : pc[d] = "created" <=> pc'[d] = "created"
  BY <1>1, RequestGoes DEF Steps
<1>5. /\ token' \in [Requests -> Token \cup {Nobody}]
      /\ token'[c] = t /\ \A d \in Requests \ {c} : token'[d] = token[d]
  BY <1>2, <1>3 DEF TypeOK
<1>6. TypeOK'
  BY <1>1, <1>4, <1>5 DEF TypeOK, accountVars, Accepted
<1>7. TokensIssued'
  BY <1>1, <1>2, <1>5 DEF TokensIssued
<1>8. actor[c] = Nobody
  BY <1>1 DEF ClaimsOfToken
<1>9. ClaimsOfToken' /\ ActorsOfTokens' /\ SessionsEnd'
  <2>1. accepted[c] < 0
    BY <1>1 DEF ClaimsOfToken, Accepted, TypeOK
  <2> QED BY <1>1, <1>4, <1>5, <1>8, <2>1
          DEF ClaimsOfToken, ActorsOfTokens, SessionsEnd, Accepted
<1>10. ContextsOfCalls'
  BY <1>1, <1>4 DEF ContextsOfCalls, Inside
<1>11. AccountsInv'
  BY <1>1, <1>4, AccountsUntouched
<1> QED BY <1>6, <1>7, <1>9, <1>10, <1>11

\* Decode: a valid token has been signed at most Lifetime and less than a
\* second ago.
LEMMA DecodeStep ==
  ASSUME IInv, NEW c \in Requests, Decode(c)
  PROVE  IInv'
<1> USE DEF IInv, RequestsInv
<1>1. /\ UNCHANGED <<now, accountVars, issued, token, via, context, outer, actor>>
      /\ pc[c] = "decode"
  BY DEF Decode, accountVars
<1>2. actor[c] = Nobody /\ accepted[c] = -1 /\ context[c] = Nobody
  BY <1>1 DEF ClaimsOfToken, ContextsOfCalls, Inside, Accepted, TypeOK
<1>3. TokensIssued' /\ ActorsOfTokens'
  BY <1>1 DEF TokensIssued, ActorsOfTokens
<1>4. CASE ~IsValid(token[c])
  <2>1. pc' = [pc EXCEPT ![c] = "refused"] /\ UNCHANGED <<claims, accepted>>
    BY <1>4 DEF Decode, Goto
  <2>2. /\ pc' \in [Calls -> Steps \cup Finished]
        /\ pc'[c] = "refused" /\ \A d \in Requests \ {c} : pc'[d] = pc[d]
        /\ \A d \in Registrations : pc[d] = "created" <=> pc'[d] = "created"
    BY <1>1, <2>1, RequestGoes DEF Finished
  <2>3. TypeOK'
    BY <1>1, <2>1, <2>2 DEF TypeOK, accountVars, Accepted
  <2>4. ClaimsOfToken' /\ SessionsEnd'
    BY <1>1, <1>2, <2>1, <2>2 DEF ClaimsOfToken, SessionsEnd, Accepted
  <2>5. ContextsOfCalls'
    BY <1>1, <2>1, <2>2 DEF ContextsOfCalls, Inside
  <2>6. AccountsInv'
    BY <1>1, <2>2, AccountsUntouched
  <2> QED BY <1>3, <2>3, <2>4, <2>5, <2>6
<1>5. CASE IsValid(token[c])
  <2> DEFINE label == IF via[c] = "rest" THEN "act" ELSE "enter"
  <2>1. /\ claims' = [claims EXCEPT ![c] = token[c].sub]
        /\ accepted' = [accepted EXCEPT ![c] = now]
        /\ pc' = [pc EXCEPT ![c] = label]
    BY <1>5 DEF Decode, Goto
  <2>2. label \in Steps /\ label \in {"act", "enter"}
        /\ (label = "act" <=> via[c] = "rest") /\ via[c] \in {"rest", "grpc"}
    BY DEF Steps, TypeOK
  <2> HIDE DEF label
  <2>3. /\ pc' \in [Calls -> Steps \cup Finished]
        /\ pc'[c] = label /\ \A d \in Requests \ {c} : pc'[d] = pc[d]
        /\ \A d \in Registrations : pc[d] = "created" <=> pc'[d] = "created"
    BY <1>1, <2>1, <2>2, RequestGoes
  <2>4. PICK i \in issued : i.token = token[c]
    BY <1>5 DEF TokensIssued, IsValid
  <2>5. token[c].sub \in Ids /\ token[c].sub # Nobody
    BY <2>4, NobodyAssumption DEF AccountsInv, TypeOK, Token, OnlyHoldersGetTokens
  <2>6. /\ claims' \in [Requests -> Ids \cup {Nobody}]
        /\ claims'[c] = token[c].sub /\ \A d \in Requests \ {c} : claims'[d] = claims[d]
        /\ accepted' \in [Requests -> -1 .. MaxTime]
        /\ accepted'[c] = now /\ \A d \in Requests \ {c} : accepted'[d] = accepted[d]
    BY <2>1, <2>5, TimeAssumption DEF TypeOK
  <2>7. TypeOK'
    <3>1. \A d \in Requests : pc'[d] \in Accepted <=> claims'[d] # Nobody
      BY <2>2, <2>3, <2>5, <2>6 DEF TypeOK, Accepted
    <3> QED BY <1>1, <2>3, <2>6, <3>1 DEF TypeOK, accountVars
  <2>8. ClaimsOfToken'
    BY <1>1, <1>2, <2>2, <2>3, <2>6 DEF ClaimsOfToken, Accepted
  <2>9. ContextsOfCalls'
    <3>1. ~Inside(c) /\ ~Inside(c)'
      BY <1>1, <2>2, <2>3 DEF Inside
    <3> QED BY <1>1, <2>2, <2>3, <2>6, <3>1 DEF ContextsOfCalls, Inside
  <2>10. SessionsEnd'
    <3>1. /\ i.at \in Nat /\ now \in Nat /\ i.at <= now
          /\ WholeSecond(i.at + Lifetime) >= WholeSecond(now)
      BY <1>5, <2>4 DEF AccountsInv, IsValid, IssuedInTime, TypeOK
    <3>2. WholeSecond(i.at + Lifetime) <= i.at + Lifetime
      BY <3>1, WholeSeconds, TimeAssumption
    <3>3. now < WholeSecond(now) + TicksPerSecond
          /\ WholeSecond(now) \in Int /\ WholeSecond(i.at + Lifetime) \in Int
      BY <3>1, WholeSeconds, TimeAssumption
    <3>4. now < i.at + Lifetime + TicksPerSecond
      BY <3>1, <3>2, <3>3, TimeAssumption
    <3> QED BY <1>1, <2>4, <2>6, <3>1, <3>4 DEF SessionsEnd
  <2>11. AccountsInv'
    BY <1>1, <2>3, AccountsUntouched
  <2> QED BY <1>3, <2>7, <2>8, <2>9, <2>10, <2>11
<1> QED BY <1>4, <1>5

\* Enter: the task holds nobody yet, and now the user of its call.
LEMMA EnterStep ==
  ASSUME IInv, NEW c \in Requests, Enter(c)
  PROVE  IInv'
<1> USE DEF IInv, RequestsInv
<1>1. /\ UNCHANGED <<now, accountVars, issued, token, via, claims, actor, accepted>>
      /\ outer' = [outer EXCEPT ![c] = context[c]]
      /\ context' = [context EXCEPT ![c] = claims[c]]
      /\ pc[c] = "enter" /\ pc' = [pc EXCEPT ![c] = "act"]
  BY OwnTasks DEF Enter, Goto, accountVars
<1>2. via[c] = "grpc" /\ context[c] = Nobody
  BY <1>1 DEF ContextsOfCalls, Inside
<1>3. /\ pc' \in [Calls -> Steps \cup Finished]
      /\ pc'[c] = "act" /\ \A d \in Requests \ {c} : pc'[d] = pc[d]
      /\ \A d \in Registrations : pc[d] = "created" <=> pc'[d] = "created"
  BY <1>1, RequestGoes DEF Steps
<1>4. /\ outer' \in [Requests -> Ids \cup {Nobody}]
      /\ outer'[c] = Nobody /\ \A d \in Requests \ {c} : outer'[d] = outer[d]
      /\ context' \in [Tasks -> Ids \cup {Nobody}]
      /\ context'[c] = claims[c] /\ \A d \in Requests \ {c} : context'[d] = context[d]
  BY <1>1, <1>2, OwnTasks DEF TypeOK
<1>5. TypeOK'
  BY <1>1, <1>3, <1>4 DEF TypeOK, accountVars, Accepted
<1>6. TokensIssued' /\ ActorsOfTokens' /\ SessionsEnd'
  BY <1>1 DEF TokensIssued, ActorsOfTokens, SessionsEnd
<1>7. ClaimsOfToken'
  BY <1>1, <1>3 DEF ClaimsOfToken, Accepted
<1>8. ContextsOfCalls'
  BY <1>1, <1>2, <1>3, <1>4 DEF ContextsOfCalls, Inside
<1>9. AccountsInv'
  BY <1>1, <1>3, AccountsUntouched
<1> QED BY <1>5, <1>6, <1>7, <1>8, <1>9

\* Act: the argument, and the variable of its own task, are its claims.
LEMMA ActStep ==
  ASSUME IInv, NEW c \in Requests, Act(c)
  PROVE  IInv'
<1> USE DEF IInv, RequestsInv
<1> DEFINE label == IF via[c] = "rest" THEN "done" ELSE "leave"
<1>1. /\ UNCHANGED <<now, accountVars, issued, token, via, claims, context, outer, accepted>>
      /\ actor' = [actor EXCEPT ![c] = UserSeen(c)]
      /\ pc[c] = "act" /\ pc' = [pc EXCEPT ![c] = label]
  BY DEF Act, Goto, accountVars
<1>2. /\ via[c] \in {"rest", "grpc"}
      /\ label \in Steps \cup Finished /\ label \in {"done", "leave"}
      /\ label = "leave" <=> via[c] = "grpc"
  BY DEF Steps, Finished, TypeOK
<1> HIDE DEF label
<1>3. UserSeen(c) = token[c].sub /\ claims[c] = token[c].sub
  BY <1>1, <1>2, OwnTasks DEF UserSeen, ContextsOfCalls, Inside, ClaimsOfToken, Accepted
<1>4. /\ pc' \in [Calls -> Steps \cup Finished]
      /\ pc'[c] = label /\ \A d \in Requests \ {c} : pc'[d] = pc[d]
      /\ \A d \in Registrations : pc[d] = "created" <=> pc'[d] = "created"
  BY <1>1, <1>2, RequestGoes
<1>5. /\ actor' \in [Requests -> Ids \cup {Nobody}]
      /\ actor'[c] = token[c].sub /\ \A d \in Requests \ {c} : actor'[d] = actor[d]
  <2>1. claims[c] \in Ids \cup {Nobody}
    BY DEF TypeOK
  <2> QED BY <1>1, <1>3, <2>1 DEF TypeOK
<1>6. TypeOK'
  BY <1>1, <1>2, <1>4, <1>5 DEF TypeOK, accountVars, Accepted
<1>7. TokensIssued' /\ SessionsEnd'
  BY <1>1 DEF TokensIssued, SessionsEnd
<1>8. ClaimsOfToken' /\ ActorsOfTokens'
  BY <1>1, <1>2, <1>4, <1>5 DEF ClaimsOfToken, ActorsOfTokens, Accepted
<1>9. ContextsOfCalls'
  BY <1>1, <1>2, <1>4 DEF ContextsOfCalls, Inside
<1>10. AccountsInv'
  BY <1>1, <1>4, AccountsUntouched
<1> QED BY <1>6, <1>7, <1>8, <1>9, <1>10

\* Leave: the task holds nobody again.
LEMMA LeaveStep ==
  ASSUME IInv, NEW c \in Requests, Leave(c)
  PROVE  IInv'
<1> USE DEF IInv, RequestsInv
<1>1. /\ UNCHANGED <<now, accountVars, issued, token, via, claims, outer, actor, accepted>>
      /\ context' = [context EXCEPT ![c] = outer[c]]
      /\ pc[c] \in {"act", "leave"} /\ pc' = [pc EXCEPT ![c] = "done"]
  BY OwnTasks DEF Leave, Goto, accountVars
<1>2. via[c] = "grpc" /\ outer[c] = Nobody
  BY DEF Leave, ContextsOfCalls
<1>3. /\ pc' \in [Calls -> Steps \cup Finished]
      /\ pc'[c] = "done" /\ \A d \in Requests \ {c} : pc'[d] = pc[d]
      /\ \A d \in Registrations : pc[d] = "created" <=> pc'[d] = "created"
  BY <1>1, RequestGoes DEF Finished
<1>4. /\ context' \in [Tasks -> Ids \cup {Nobody}]
      /\ context'[c] = Nobody /\ \A d \in Requests \ {c} : context'[d] = context[d]
  BY <1>1, <1>2, OwnTasks DEF TypeOK
<1>5. TypeOK'
  BY <1>1, <1>3, <1>4 DEF TypeOK, accountVars, Accepted
<1>6. TokensIssued' /\ ActorsOfTokens' /\ SessionsEnd'
  BY <1>1 DEF TokensIssued, ActorsOfTokens, SessionsEnd
<1>7. ClaimsOfToken'
  BY <1>1, <1>3 DEF ClaimsOfToken, Accepted
<1>8. ContextsOfCalls'
  BY <1>1, <1>2, <1>3, <1>4 DEF ContextsOfCalls, Inside
<1>9. AccountsInv'
  BY <1>1, <1>3, AccountsUntouched
<1> QED BY <1>5, <1>6, <1>7, <1>8, <1>9

\* Tick: what has been signed in the past stays signed in the past.
LEMMA TickStep ==
  ASSUME IInv, Tick
  PROVE  IInv'
<1> USE DEF IInv, AccountsInv, RequestsInv
<1>1. /\ UNCHANGED <<users, form, found, issued, requestVars, pc>>
      /\ UNCHANGED <<token, via, claims, context, outer, actor, accepted>>
      /\ now < MaxTime /\ now' = now + 1
  BY DEF Tick, accountVars, requestVars
<1>2. TypeOK'
  BY <1>1, TimeAssumption DEF TypeOK
<1>3. IssuedInTime'
  BY <1>1 DEF IssuedInTime, TypeOK
<1>4. \A d \in Registrations : NewAccount(d)' = NewAccount(d)
  BY <1>1 DEF NewAccount
<1>5. /\ OneRowPerEmail' /\ AccountsRegistered' /\ AccountsKept' /\ FoundByEmail'
      /\ OnlyHoldersGetTokens'
  BY <1>1, <1>4 DEF OneRowPerEmail, AccountsRegistered, AccountsKept, FoundByEmail,
                    OnlyHoldersGetTokens
<1>6. TokensIssued' /\ ClaimsOfToken' /\ ActorsOfTokens' /\ SessionsEnd'
  BY <1>1 DEF TokensIssued, ClaimsOfToken, ActorsOfTokens, SessionsEnd
<1>7. ContextsOfCalls'
  BY <1>1 DEF ContextsOfCalls, Inside
<1> QED BY <1>2, <1>3, <1>5, <1>6, <1>7

\* A stuttering step.
LEMMA StutteringStep ==
  ASSUME IInv, UNCHANGED vars
  PROVE  IInv'
<1>1. /\ UNCHANGED <<now, pc, accountVars, requestVars, issued>>
      /\ UNCHANGED <<users, form, found, token, via, claims, context, outer, actor, accepted>>
  BY DEF vars, accountVars, requestVars
<1>2. TypeOK'
  BY <1>1 DEF IInv, TypeOK
<1>3. AccountsInv' /\ RequestsInv'
  BY <1>1, AccountsUntouched, RequestsUntouched
<1> QED BY <1>2, <1>3 DEF IInv

-----------------------------------------------------------------------------
(* Theorems.                                                               *)

\* The invariant holds in every reachable state.
THEOREM Invariance == Spec => []IInv
<1>1. Init => IInv
  BY InitEstablishes
<1>2. IInv /\ [Next]_vars => IInv'
  BY RegisterStep, SelectStep, VerifyStep, SendStep, DecodeStep, EnterStep, ActStep,
     LeaveStep, TickStep, StutteringStep DEF Next, Idle
<1> QED BY <1>1, <1>2, PTL DEF Spec

\* All variables keep their types: a look-up by e-mail finds one row at most,
\* and a call has claims from its decoding on.
THEOREM TypeCorrect == Spec => []TypeOK
<1>1. IInv => TypeOK
  BY DEF IInv
<1> QED BY <1>1, Invariance, PTL

\* A request acts for the holder of its own token, though the servicer reads
\* it from the one name _current_user; and no task holds a user outside the
\* calls of that user.  This rests on a task of its own for each call (Task)
\* and on set() and reset() around every servicer.
THEOREM RequestsActForToken == Spec => []ActsForItsToken
<1>1. IInv => ActsForItsToken
  <2> SUFFICES ASSUME IInv PROVE ActsForItsToken
    OBVIOUS
  <2>1. ASSUME NEW c \in Requests, actor[c] # Nobody PROVE actor[c] = token[c].sub
    BY <2>1 DEF IInv, RequestsInv, ActorsOfTokens
  <2>2. ASSUME NEW k \in Tasks, context[k] # Nobody
        PROVE  \E c \in Requests :
                 Task(c) = k /\ pc[c] \in {"act", "leave"} /\ context[k] = token[c].sub
    <3>1. k \in Requests /\ Task(k) = k
      BY OwnTasks
    <3>2. pc[k] \in {"act", "leave"} /\ context[k] = claims[k]
      BY <2>2, <3>1 DEF IInv, RequestsInv, ContextsOfCalls, Inside
    <3>3. claims[k] = token[k].sub
      BY <3>1, <3>2 DEF IInv, RequestsInv, ClaimsOfToken, Accepted
    <3> QED BY <3>1, <3>2, <3>3
  <2> QED BY <2>1, <2>2 DEF ActsForItsToken
<1> QED BY <1>1, Invariance, PTL

\* An e-mail that an account was created for has that account, and no other.
THEOREM AccountsAreUnique == Spec => []OneAccountPerEmail
<1>1. IInv => OneAccountPerEmail
  <2> SUFFICES ASSUME IInv, NEW c \in Registrations, pc[c] = "created"
               PROVE  RowsOf(form[c].email) = {NewAccount(c)}
    BY DEF OneAccountPerEmail
  <2>1. NewAccount(c) \in RowsOf(form[c].email)
    BY DEF IInv, AccountsInv, AccountsKept, RowsOf, NewAccount
  <2> QED BY <2>1 DEF IInv, AccountsInv, OneRowPerEmail, RowsOf
<1> QED BY <1>1, Invariance, PTL

\* Every token was signed for the e-mail and password of a registration.
THEOREM TokensToHolders == Spec => []OnlyHoldersGetTokens
<1>1. IInv => OnlyHoldersGetTokens
  BY DEF IInv, AccountsInv
<1> QED BY <1>1, Invariance, PTL

\* No request is accepted Lifetime and a second after the login behind it.
THEOREM SessionsAreBounded == Spec => []SessionsEnd
<1>1. IInv => SessionsEnd
  BY DEF IInv, RequestsInv
<1> QED BY <1>1, Invariance, PTL
=============================================================================
