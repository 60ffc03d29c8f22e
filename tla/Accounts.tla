------------------------------ MODULE Accounts ------------------------------
(***************************************************************************)
(* Workspaces (tenants), their users, and the requests that register,      *)
(* sign in, authenticate and manage them: backend/src/auth and             *)
(* backend/src/users.  Every step of a request is one access to MongoDB    *)
(* together with what the handler does before the next one; requests are   *)
(* interleaved in every way.                                               *)
(*                                                                         *)
(* A user is named by its e-mail (users are never removed); a workspace by *)
(* the request that registered it.  A token carries the id of its user and *)
(* nothing else; it does not expire here.                                  *)
(***************************************************************************)
EXTENDS Naturals, FiniteSets

CONSTANTS
  Emails,      \* the e-mails
  Requests,    \* the requests, each of which is sent once
  Asks,        \* what clients other than the browser ask for
  Founded,     \* the workspaces there are at first
  Members,     \* the users there are at first
  MaxFailures, \* how many kinds of failures may happen, each of them once
  Nobody,      \* no e-mail
  NoUser       \* no user document

Roles == {"ADMIN", "MEMBER"}

\* The user document: seen is whether lastLoginAt is set.
User == [tenant : Founded \cup Requests, role : Roles, active : BOOLEAN, seen : BOOLEAN]

\* What a request asks for: with whose token (by), about which account, and, to
\* create or to update it, with which role, or active or not.
Public == {"register", "login"}
ForAdmins == {"list", "create", "update"}
Changes == Roles \cup {"active", "inactive"}
Ask == [asks : Public \cup ForAdmins \cup {"me"}, by : Emails \cup {Nobody},
        email : Emails \cup {Nobody}, change : Changes]

ToAsk(asks, by, email, change) ==
  [asks |-> asks, by |-> by, email |-> email, change |-> change]

\* Accounts are named by who needs one, callers by who needs a token, and an
\* account is created in a role.
WellFormed(a) ==
  /\ a \in Ask
  /\ a.asks \notin Public => a.by \in Emails
  /\ a.asks \in Public \cup {"create", "update"} => a.email \in Emails
  /\ a.asks = "create" => a.change \in Roles

Failures == {"crash", "error", "lost answer"}

ASSUME AccountsAssumption ==
  /\ Nobody \notin Emails /\ NoUser \notin User
  /\ Founded \cap Requests = {}
  /\ \A a \in Asks : WellFormed(a)
  /\ Members \in [Emails -> User \cup {NoUser}]
  /\ \A e \in Emails : Members[e] # NoUser => Members[e].tenant \in Founded
  /\ MaxFailures \in Nat

VARIABLES
  tenants, \* the workspaces
  users,   \* the user of each e-mail
  request, \* the requests
  failures \* the kinds of failures that happened

accountVars == <<tenants, users, request, failures>>

\* Where a request stands: on its way through the handler, or at its end.
InFlight == {"received", "known", "admitted", "free", "founded", "stored", "compensating"}
Ends == {"answered", "unauthorized", "failed", "abandoned"}

\* A request: what it asks for, where it stands, the user document its handler
\* has read, and the users it is answered with.
Request == [ask : Ask, at : InFlight \cup Ends \cup {"unsent"}, read : User \cup {NoUser},
            answer : [Emails -> User \cup {NoUser}]]

None == [e \in Emails |-> NoUser]
Unsent == [ask |-> ToAsk("me", Nobody, Nobody, "active"), at |-> "unsent",
           read |-> NoUser, answer |-> None]

AccountsTypeOK ==
  /\ tenants \subseteq Founded \cup Requests
  /\ users \in [Emails -> User \cup {NoUser}]
  /\ request \in [Requests -> Request]
  /\ failures \subseteq Failures

AccountsInit ==
  /\ tenants = Founded
  /\ users = Members
  /\ request = [r \in Requests |-> Unsent]
  /\ failures = {}

-----------------------------------------------------------------------------
ask(r) == request[r].ask
At(r, place) == request[r].at = place
Exists(e) == users[e] # NoUser

\* The request goes on, is over, or is over with an answer.
GoesTo(r, place) == request' = [request EXCEPT ![r].at = place]
Reads(r, u, place) == request' = [request EXCEPT ![r].at = place, ![r].read = u]
AnswersWith(r, us) == request' = [request EXCEPT ![r].at = "answered", ![r].answer = us]

Fails(kind) ==
  /\ kind \notin failures /\ Cardinality(failures) < MaxFailures
  /\ failures' = failures \cup {kind}

Sends(r, a) ==
  /\ At(r, "unsent")
  /\ request' = [request EXCEPT ![r].ask = a, ![r].at = "received"]

\* A client that holds a token of the user whom it names, or needs none.
Receive(r) ==
  /\ \E a \in Asks : a.by \in {Nobody} \cup {e \in Emails : Exists(e)} /\ Sends(r, a)
  /\ UNCHANGED <<tenants, users, failures>>

-----------------------------------------------------------------------------
(* authenticateAccessToken, in two reads, and RolesGuard.                  *)

FindsCaller(r) ==
  /\ At(r, "received") /\ ask(r).asks \notin Public
  /\ LET caller == users[ask(r).by] IN
     IF caller # NoUser /\ caller.active
       THEN Reads(r, caller, "known")
       ELSE GoesTo(r, "unauthorized")
  /\ UNCHANGED <<tenants, users, failures>>

Admits(r) ==
  /\ At(r, "known") /\ ask(r).asks \notin Public
  /\ GoesTo(r, IF request[r].read.tenant \notin tenants THEN "unauthorized"
               ELSE IF ask(r).asks \in ForAdmins /\ request[r].read.role # "ADMIN" THEN "failed"
               ELSE "admitted")
  /\ UNCHANGED <<tenants, users, failures>>

-----------------------------------------------------------------------------
(* What the handlers answer with.                                          *)

\* getCurrentUser answers with what authentication has read.
AnswersMe(r) ==
  /\ At(r, "admitted") /\ ask(r).asks = "me"
  /\ AnswersWith(r, [None EXCEPT ![ask(r).by] = request[r].read])
  /\ UNCHANGED <<tenants, users, failures>>

\* findAll of UsersService.
AnswersList(r) ==
  /\ At(r, "admitted") /\ ask(r).asks = "list"
  /\ AnswersWith(r, [e \in Emails |->
       IF Exists(e) /\ users[e].tenant = request[r].read.tenant THEN users[e] ELSE NoUser])
  /\ UNCHANGED <<tenants, users, failures>>

-----------------------------------------------------------------------------
(* create of UsersService, and register.                                   *)

ChecksEmail(r) ==
  /\ \/ At(r, "admitted") /\ ask(r).asks = "create"
     \/ At(r, "received") /\ ask(r).asks = "register"
  /\ GoesTo(r, IF Exists(ask(r).email) THEN "failed" ELSE "free")
  /\ UNCHANGED <<tenants, users, failures>>

CreatesTenant(r) ==
  /\ At(r, "free") /\ ask(r).asks = "register"
  /\ tenants' = tenants \cup {r}
  /\ GoesTo(r, "founded")
  /\ UNCHANGED <<users, failures>>

\* The request that is to store a new user: of which workspace, in which role.
Creates(r) ==
  \/ At(r, "free") /\ ask(r).asks = "create"
  \/ At(r, "founded")
NewUser(r) ==
  [tenant |-> IF ask(r).asks = "register" THEN r ELSE request[r].read.tenant,
   role |-> IF ask(r).asks = "register" THEN "ADMIN" ELSE ask(r).change,
   active |-> TRUE, seen |-> FALSE]

\* The user document u was stored: the request is answered with it (toResponse),
\* after a token was signed if it asked to register.
Stored(r, u) ==
  IF ask(r).asks = "register"
    THEN Reads(r, u, "stored")
    ELSE AnswersWith(r, [None EXCEPT ![ask(r).email] = u])

\* What becomes of a request whose user was not stored, or not to its knowledge.
NotStored(r) == IF ask(r).asks = "register" THEN "compensating" ELSE "failed"

\* mutant: without the unique index on the e-mail
InsertsUserAnyway(r) ==
  /\ Creates(r)
  /\ users' = [users EXCEPT ![ask(r).email] = NewUser(r)]
  /\ Stored(r, NewUser(r))
  /\ UNCHANGED <<tenants, failures>>

\* mutant: the workspace of a user who was not stored is not removed
InsertsUserWithoutCompensation(r) ==
  /\ Creates(r)
  /\ IF Exists(ask(r).email)
       THEN GoesTo(r, "failed") /\ UNCHANGED users
       ELSE /\ users' = [users EXCEPT ![ask(r).email] = NewUser(r)]
            /\ Stored(r, NewUser(r))
  /\ UNCHANGED <<tenants, failures>>

\* The unique index on the e-mail refuses the second of two.
InsertsUser(r) ==
  /\ Creates(r)
  /\ IF Exists(ask(r).email)
       THEN GoesTo(r, NotStored(r)) /\ UNCHANGED users
       ELSE /\ users' = [users EXCEPT ![ask(r).email] = NewUser(r)]
            /\ Stored(r, NewUser(r))
  /\ UNCHANGED <<tenants, failures>>

\* The catch of register.
RemovesTenant(r) ==
  /\ At(r, "compensating")
  /\ tenants' = tenants \ {r}
  /\ GoesTo(r, "failed")
  /\ UNCHANGED <<users, failures>>

\* createAuthResponse, of register and of login.
AnswersToken(r) ==
  /\ At(r, "stored")
  /\ AnswersWith(r, [None EXCEPT ![ask(r).email] = request[r].read])
  /\ UNCHANGED <<tenants, users, failures>>

-----------------------------------------------------------------------------
(* login.                                                                  *)

\* Also whose password is wrong is refused.
FindsUser(r) ==
  /\ At(r, "received") /\ ask(r).asks = "login"
  /\ \/ /\ Exists(ask(r).email) /\ users[ask(r).email].active
        /\ Reads(r, users[ask(r).email], "known")
     \/ GoesTo(r, "failed")
  /\ UNCHANGED <<tenants, users, failures>>

FindsTenant(r) ==
  /\ At(r, "known") /\ ask(r).asks = "login"
  /\ GoesTo(r, IF request[r].read.tenant \in tenants THEN "admitted" ELSE "failed")
  /\ UNCHANGED <<tenants, users, failures>>

\* mutant: the document is written as it was read
SavesLoginWhole(r) ==
  /\ At(r, "admitted") /\ ask(r).asks = "login"
  /\ users' = [users EXCEPT ![ask(r).email] = [request[r].read EXCEPT !.seen = TRUE]]
  /\ GoesTo(r, "stored")
  /\ UNCHANGED <<tenants, failures>>

\* save writes what was modified: lastLoginAt.
SavesLogin(r) ==
  /\ At(r, "admitted") /\ ask(r).asks = "login"
  /\ users' = [users EXCEPT ![ask(r).email].seen = TRUE]
  /\ GoesTo(r, "stored")
  /\ UNCHANGED <<tenants, failures>>

-----------------------------------------------------------------------------
(* update of UsersService.                                                 *)

\* mutant: whatever is changed is taken for the role
ChangedRole(u, change) == [u EXCEPT !.role = change]

Changed(u, change) ==
  CASE change \in Roles -> [u EXCEPT !.role = change]
    [] change = "active" -> [u EXCEPT !.active = TRUE]
    [] change = "inactive" -> [u EXCEPT !.active = FALSE]

SelfLockout(r) == ask(r).email = ask(r).by /\ ask(r).change \in {"inactive", "MEMBER"}

\* The filter: this user, of the workspace of the caller.
Updatable(r) ==
  Exists(ask(r).email) /\ users[ask(r).email].tenant = request[r].read.tenant

\* mutant: an administrator may lock herself out
UpdatesUserOrSelf(r) ==
  /\ At(r, "admitted") /\ ask(r).asks = "update"
  /\ IF ~Updatable(r)
       THEN GoesTo(r, "failed") /\ UNCHANGED users
       ELSE LET updated == Changed(users[ask(r).email], ask(r).change) IN
            /\ users' = [users EXCEPT ![ask(r).email] = updated]
            /\ Stored(r, updated)
  /\ UNCHANGED <<tenants, failures>>

UpdatesUser(r) ==
  /\ At(r, "admitted") /\ ask(r).asks = "update"
  /\ IF SelfLockout(r) \/ ~Updatable(r)
       THEN GoesTo(r, "failed") /\ UNCHANGED users
       ELSE LET updated == Changed(users[ask(r).email], ask(r).change) IN
            /\ users' = [users EXCEPT ![ask(r).email] = updated]
            /\ Stored(r, updated)
  /\ UNCHANGED <<tenants, failures>>

-----------------------------------------------------------------------------
(* Failures.                                                               *)

\* mutant: an error after the user was stored removes its workspace, too
AfterErrorAwaited(r) ==
  CASE ask(r).asks \notin Public /\ request[r].at \in {"received", "known"} -> "unauthorized"
    [] ask(r).asks = "register" /\ request[r].at \in {"founded", "stored"} -> "compensating"
    [] At(r, "compensating") -> "abandoned"
    [] OTHER -> "failed"

\* Authentication answers every error in the same way; register compensates
\* an error of the insertion, but not one of signing the token, which it does
\* not await, and gives up if the compensation fails.
AfterError(r) ==
  CASE ask(r).asks \notin Public /\ request[r].at \in {"received", "known"} -> "unauthorized"
    [] At(r, "founded") -> "compensating"
    [] At(r, "compensating") -> "abandoned"
    [] OTHER -> "failed"

\* The next access, or signing the token, throws.
Throws(r) ==
  /\ request[r].at \in InFlight /\ ~(At(r, "admitted") /\ ask(r).asks = "me")
  /\ Fails("error") /\ GoesTo(r, AfterError(r))
  /\ UNCHANGED <<tenants, users>>

\* The user is stored and the answer is lost on the way back.
StoresUnheard(r) ==
  /\ Creates(r) /\ ~Exists(ask(r).email)
  /\ Fails("lost answer")
  /\ users' = [users EXCEPT ![ask(r).email] = NewUser(r)]
  /\ GoesTo(r, NotStored(r))
  /\ UNCHANGED tenants

\* The API dies, with all its requests.
Crash ==
  /\ Fails("crash")
  /\ request' = [r \in Requests |->
       IF request[r].at \in InFlight THEN [request[r] EXCEPT !.at = "abandoned"] ELSE request[r]]
  /\ UNCHANGED <<tenants, users>>

-----------------------------------------------------------------------------
Handles(r) ==
  \/ FindsCaller(r) \/ Admits(r) \/ AnswersMe(r) \/ AnswersList(r)
  \/ ChecksEmail(r) \/ CreatesTenant(r) \/ InsertsUser(r) \/ RemovesTenant(r) \/ AnswersToken(r)
  \/ FindsUser(r) \/ FindsTenant(r) \/ SavesLogin(r)
  \/ UpdatesUser(r)
  \/ Throws(r) \/ StoresUnheard(r)

AccountsNext == Crash \/ \E r \in Requests : Receive(r) \/ Handles(r)

AccountsSpec == AccountsInit /\ [][AccountsNext]_accountVars

-----------------------------------------------------------------------------
\* Nobody belongs to a workspace that is gone, unless the answer to the
\* insertion of the user was lost: then register removes the workspace of a
\* user who is there (auth.service.ts:61).
UsersHaveTenants ==
  "lost answer" \notin failures =>
    \A e \in Emails : Exists(e) => users[e].tenant \in tenants

\* README.md:209: a workspace whose user could not be created is removed.  So a
\* workspace without a user is of a request that is not over, or that a crash or
\* an error of the removal cut short.
TenantsAreInhabited ==
  \A t \in tenants \cap Requests :
    \/ \E e \in Emails : Exists(e) /\ users[e].tenant = t
    \/ request[t].at \in {"founded", "compensating", "abandoned"}

\* Of requests that race for an e-mail, at most one is told that it won, and the
\* account is in the workspace that it was told.
OneWinnerPerEmail ==
  \A r \in Requests :
    At(r, "answered") /\ ask(r).asks \in {"register", "create"} =>
      /\ users[ask(r).email].tenant = request[r].answer[ask(r).email].tenant
      /\ \A q \in Requests \ {r} :
           At(q, "answered") /\ ask(q).asks \in {"register", "create"} =>
             ask(q).email # ask(r).email

IsAdmin(e, t) ==
  /\ Exists(e)
  /\ users[e].tenant = t /\ users[e].active /\ users[e].role = "ADMIN"

\* A workspace loses its last active administrator only to one who was admitted
\* as an administrator and is none any more: two who demote or deactivate each
\* other at once (users.service.ts:80).
AdminsAreLostByOverlapOnly ==
  [][\A t \in tenants :
       (\E e \in Emails : IsAdmin(e, t)) /\ ~(\E e \in Emails : IsAdmin(e, t)') =>
         \E r \in Requests :
           /\ At(r, "admitted") /\ ask(r).asks = "update" /\ ~At(r, "admitted")'
           /\ ~IsAdmin(ask(r).by, t)]_accountVars

\* Nobody is active again, or an administrator, because of a login that read the
\* account before it was changed: that takes a request to update it.
DeactivationSticks ==
  [][\A e \in Emails :
       Exists(e) /\ ((~users[e].active /\ users'[e].active)
                     \/ (users[e].role = "MEMBER" /\ users'[e].role = "ADMIN")) =>
         \E r \in Requests :
           /\ At(r, "admitted") /\ ~At(r, "admitted")'
           /\ ask(r).asks = "update" /\ ask(r).email = e
           /\ ask(r).change \in {"active", "ADMIN"}]_accountVars

=============================================================================
