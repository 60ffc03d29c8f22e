---------------------------- MODULE AccountPages ----------------------------
(***************************************************************************)
(* One browser: its session (frontend/src/App.tsx, frontend/src/api.ts),   *)
(* the page to sign in (pages/AuthPage.tsx) and the page of the team       *)
(* (pages/UserManagementPage.tsx).  It sends its requests to the API of    *)
(* Accounts, among those of other clients.                                 *)
(***************************************************************************)
EXTENDS Accounts

CONSTANTS
  SignedIn, \* whose tokens the browser may have kept, or Nobody's
  Typed     \* the e-mails that are typed into its forms

ASSUME PagesAssumption == SignedIn \subseteq Emails \cup {Nobody} /\ Typed \subseteq Emails

VARIABLES
  token,        \* the token it keeps: the e-mail it was issued to, or Nobody
  user,         \* the session user: an e-mail with its user document
  checking,     \* whether the session is being verified
  sessionError, \* whether verifying it failed
  route,        \* the route of the hash: list, for all but users, or users
  mounted,      \* whether the page of the team is there
  team,         \* the rows it shows, one per user
  updating,     \* the row whose buttons are disabled
  waits         \* who waits for each request: nobody, the app, the page of the
                \* team, or such a page that was left meanwhile

sessionVars == <<token, user, checking, sessionError>>
teamVars == <<route, mounted, team, updating>>
pageVars == <<sessionVars, teamVars, waits>>

SignedOut == [email |-> Nobody, doc |-> NoUser]
SessionOf(e, answer) == [email |-> e, doc |-> answer[e]]

PagesTypeOK ==
  /\ token \in Emails \cup {Nobody}
  /\ user \in [email : Emails \cup {Nobody}, doc : User \cup {NoUser}]
  /\ {checking, sessionError, mounted} \subseteq BOOLEAN
  /\ route \in {"list", "users"}
  /\ team \in [Emails -> User \cup {NoUser}]
  /\ updating \in Emails \cup {Nobody}
  /\ waits \in [Requests -> {"nobody", "app", "page", "left"}]

PagesInit ==
  /\ token \in SignedIn
  /\ user = SignedOut
  /\ checking = (token # Nobody) /\ sessionError = FALSE
  /\ route \in {"list", "users"}
  /\ mounted = FALSE /\ team = None /\ updating = Nobody
  /\ waits = [r \in Requests |-> "nobody"]

-----------------------------------------------------------------------------
(* What the browser asks for.                                              *)

Waits(asks) == \E r \in Requests : waits[r] \in {"app", "page"} /\ ask(r).asks = asks

\* It takes the request r to ask for a.
Requires(r, who, a) ==
  /\ Sends(r, a)
  /\ waits' = [waits EXCEPT ![r] = who]
  /\ UNCHANGED <<tenants, users, failures>>

\* verifySession, on the first render and on the button to try again.
VerifySession(r) ==
  /\ token # Nobody /\ ~Waits("me")
  /\ checking \/ sessionError
  /\ checking' = TRUE /\ sessionError' = FALSE
  /\ Requires(r, "app", ToAsk("me", token, Nobody, "active"))
  /\ UNCHANGED <<token, user, teamVars>>

\* handleSubmit of AuthPage.
SignIn(r) ==
  /\ user = SignedOut /\ ~checking /\ ~(sessionError /\ token # Nobody)
  /\ ~Waits("login") /\ ~Waits("register")
  /\ \E e \in Typed, asks \in Public : Requires(r, "app", ToAsk(asks, Nobody, e, "active"))
  /\ UNCHANGED <<sessionVars, teamVars>>

ShowsTeam == user # SignedOut /\ route = "users" /\ user.doc.role = "ADMIN"

\* The first render of UserManagementPage, and loadUsers.
LoadUsers(r) ==
  /\ ShowsTeam
  /\ mounted' = TRUE
  /\ Requires(r, "page", ToAsk("list", token, Nobody, "active"))
  /\ UNCHANGED <<sessionVars, route, team, updating>>

\* handleCreate.
CreateUser(r) ==
  /\ mounted /\ ~Waits("create")
  /\ \E e \in Typed, role \in Roles : Requires(r, "page", ToAsk("create", token, e, role))
  /\ UNCHANGED <<sessionVars, teamVars>>

\* What the row of a user offers: another role while it is active, and to turn
\* it on or off.
Offers(u) ==
  (IF u.active THEN Roles \ {u.role} ELSE {})
    \cup {IF u.active THEN "inactive" ELSE "active"}

\* handleUpdate, of any row but one's own.
UpdateUser(r) ==
  /\ mounted
  /\ \E e \in Emails \ {user.email, updating} :
       /\ team[e] # NoUser /\ updating' = e
       /\ \E change \in Offers(team[e]) : Requires(r, "page", ToAsk("update", token, e, change))
  /\ UNCHANGED <<sessionVars, route, mounted, team>>

-----------------------------------------------------------------------------
(* Where the browser goes.                                                 *)

\* mutant: the page of the team that was left still takes its answers
LeavesPageWaiting(w) ==
  /\ route' = "list" /\ mounted' = FALSE /\ team' = None /\ updating' = Nobody
  /\ waits' = w

\* To the route of the list, when w are the waits otherwise.
LeavesPage(w) ==
  /\ route' = "list" /\ mounted' = FALSE /\ team' = None /\ updating' = Nobody
  /\ waits' = [r \in Requests |-> IF w[r] = "page" THEN "left" ELSE w[r]]

Goes ==
  /\ \/ route = "list" /\ route' = "users" /\ UNCHANGED <<mounted, team, updating, waits>>
     \/ route = "users" /\ LeavesPage(waits)
  /\ UNCHANGED <<accountVars, sessionVars>>

Logout ==
  /\ ~checking
  /\ user # SignedOut \/ (sessionError /\ token # Nobody)
  /\ token' = Nobody /\ user' = SignedOut
  /\ LeavesPage(waits)
  /\ UNCHANGED <<accountVars, checking, sessionError>>

-----------------------------------------------------------------------------
(* What comes back.                                                        *)

Over(r) == [waits EXCEPT ![r] = "nobody"]
Awaited(r, places) == waits[r] # "nobody" /\ request[r].at \in places

\* mutant: the user stays signed in without a token
RefusedButStays(r) ==
  /\ Awaited(r, {"unauthorized"})
  /\ token' = Nobody /\ UNCHANGED user
  /\ checking' = (checking /\ ask(r).asks # "me")
  /\ LeavesPage(Over(r))
  /\ UNCHANGED <<accountVars, sessionError>>

\* 401, whichever session the request was of, and whoever waits for it
\* (request in api.ts, handleUnauthorized and verifySession in App).
Refused(r) ==
  /\ Awaited(r, {"unauthorized"})
  /\ token' = Nobody /\ user' = SignedOut
  /\ checking' = (checking /\ ask(r).asks # "me")
  /\ LeavesPage(Over(r))
  /\ UNCHANGED <<accountVars, sessionError>>

\* handleAuthenticated.
Authenticated(r) ==
  /\ Awaited(r, {"answered"}) /\ ask(r).asks \in Public
  /\ token' = ask(r).email /\ user' = SessionOf(ask(r).email, request[r].answer)
  /\ sessionError' = FALSE
  /\ LeavesPage(Over(r))
  /\ UNCHANGED <<accountVars, checking>>

Verified(r) ==
  /\ Awaited(r, {"answered"}) /\ ask(r).asks = "me"
  /\ user' = SessionOf(ask(r).by, request[r].answer) /\ checking' = FALSE
  /\ waits' = Over(r)
  /\ UNCHANGED <<accountVars, token, sessionError, teamVars>>

\* The rows of the page after a request that was answered with the users us:
\* all are replaced, one is added, one is replaced.
TeamAfter(asks, us) ==
  [e \in Emails |->
     IF asks = "list" \/ (us[e] # NoUser /\ (asks = "create" \/ team[e] # NoUser))
       THEN us[e] ELSE team[e]]

\* An answer for the page of the team, which it takes if it is still there.
Taken(r) ==
  /\ Awaited(r, {"answered"}) /\ ask(r).asks \in ForAdmins
  /\ team' = IF waits[r] = "page" THEN TeamAfter(ask(r).asks, request[r].answer) ELSE team
  /\ updating' = IF waits[r] = "page" /\ ask(r).asks = "update" THEN Nobody ELSE updating
  /\ waits' = Over(r)
  /\ UNCHANGED <<accountVars, sessionVars, route, mounted>>

\* mutant: verifySession clears the token on every error
FailedAndSignedOut(r) ==
  /\ IF ask(r).asks = "me"
       THEN token' = Nobody /\ sessionError' = TRUE /\ checking' = FALSE
       ELSE UNCHANGED <<token, sessionError, checking>>
  /\ updating' = IF waits[r] = "page" /\ ask(r).asks = "update" THEN Nobody ELSE updating
  /\ waits' = Over(r)
  /\ UNCHANGED <<user, route, mounted, team>>

\* What an error other than 401 does to the browser.
FailedCall(r) ==
  /\ IF ask(r).asks = "me"
       THEN sessionError' = TRUE /\ checking' = FALSE
       ELSE UNCHANGED <<sessionError, checking>>
  /\ updating' = IF waits[r] = "page" /\ ask(r).asks = "update" THEN Nobody ELSE updating
  /\ waits' = Over(r)
  /\ UNCHANGED <<token, user, route, mounted, team>>

Failed(r) ==
  /\ Awaited(r, {"failed", "abandoned"}) /\ FailedCall(r)
  /\ UNCHANGED accountVars

\* After ten seconds, or on a network error, the browser gives the request up;
\* the API may go on with it.
GivesUp(r) ==
  /\ waits[r] # "nobody" /\ Fails("error") /\ FailedCall(r)
  /\ UNCHANGED <<tenants, users, request>>

-----------------------------------------------------------------------------
Init == AccountsInit /\ PagesInit

Requesting(r) ==
  \/ VerifySession(r) \/ SignIn(r) \/ LoadUsers(r) \/ CreateUser(r) \/ UpdateUser(r)
Landing(r) ==
  \/ Refused(r) \/ Authenticated(r) \/ Verified(r) \/ Taken(r) \/ Failed(r) \/ GivesUp(r)

Next ==
  \/ AccountsNext /\ UNCHANGED pageVars
  \/ Goes \/ Logout
  \/ \E r \in Requests : Requesting(r) \/ Landing(r)

accountPagesVars == <<accountVars, pageVars>>

Spec == Init /\ [][Next]_accountPagesVars

-----------------------------------------------------------------------------
\* Every variable keeps to its type.
PagesAndAccountsTypeOK == AccountsTypeOK /\ PagesTypeOK

\* Who is signed in has the token of the session, after any sequence of late
\* answers.
SessionHasItsToken == user # SignedOut => token = user.email

\* A session ends by logging out, or by a 401 that the API answered to a request
\* of this browser: never by an error, a crash of the API or a call given up
\* (App.tsx:62).  The request may be one of an earlier session (api.ts:233).
FailuresKeepTheSession ==
  [][token # Nobody /\ token' # token =>
       \/ Logout
       \/ \E r \in Requests : Awaited(r, {"unauthorized"}) /\ waits'[r] = "nobody"]_accountPagesVars

\* The page of the team shows people of the workspace of the session only, also
\* if answers to an earlier session come in late.
TeamIsOfTheSession ==
  \A e \in Emails : team[e] # NoUser => user # SignedOut /\ team[e].tenant = user.doc.tenant

=============================================================================
