---------------------------- MODULE AccountsProofs ----------------------------
(***************************************************************************)
(* Theorems about AccountPages for every set of e-mails and of requests,   *)
(* whatever other clients ask for and whatever fails.                      *)
(***************************************************************************)
EXTENDS AccountPages, TLAPS

-----------------------------------------------------------------------------
(* The invariant of the accounts.                                          *)

\* The user of e is of workspace t, once and for all.
Belongs(e, t) == e \in Emails /\ Exists(e) /\ users[e].tenant = t

\* Whose document the handler of a request reads.
Subject(q) == IF q.ask.asks \in Public THEN q.ask.email ELSE q.ask.by

\* What a request can ask for, and what it has read, by where it stands.
Placed(q) ==
  /\ q \in Request
  /\ IF q.at = "unsent" THEN q.read = NoUser ELSE WellFormed(q.ask)
  /\ q.at \in {"known", "admitted"} => q.ask.asks # "register" /\ q.read # NoUser
  /\ q.at = "free" => \/ q.ask.asks = "register"
                      \/ q.ask.asks = "create" /\ q.read # NoUser
  /\ q.at \in {"founded", "compensating"} => q.ask.asks = "register"
  /\ q.at = "stored" => q.ask.asks \in Public /\ q.read # NoUser

\* What a request has read, and what it is answered with, names workspaces as
\* they are.
Truthful(q) ==
  /\ q.read # NoUser => Belongs(Subject(q), q.read.tenant)
  /\ q.at = "answered" =>
       /\ q.ask.asks \in Public \cup {"create"} =>
            q.answer[q.ask.email] # NoUser /\ Belongs(q.ask.email, q.answer[q.ask.email].tenant)
       /\ q.ask.asks = "me" =>
            q.answer[q.ask.by] # NoUser /\ Belongs(q.ask.by, q.answer[q.ask.by].tenant)
       /\ q.ask.asks \in ForAdmins =>
            \A e \in Emails : q.answer[e] # NoUser => Belongs(q.ask.by, q.answer[e].tenant)

RequestsInv == \A r \in Requests : Placed(request[r]) /\ Truthful(request[r])

\* Whether a user, or a request that may store one, names the workspace t.
Used(t) ==
  \/ \E e \in Emails : Exists(e) /\ users[e].tenant = t
  \/ \E r \in Requests : request[r].read # NoUser /\ request[r].read.tenant = t

\* A request that has founded no workspace.
Landless(q) == q.at \in {"unsent", "received", "free"} \/ q.ask.asks # "register"

\* The workspace of r is nobody's until its user is stored.
Founds(r) ==
  /\ Landless(request[r]) => r \notin tenants /\ ~Used(r)
  /\ At(r, "founded") => r \in tenants /\ ~Used(r)
  /\ At(r, "compensating") /\ "lost answer" \notin failures => ~Used(r)

FoundingInv ==
  /\ \A r \in Requests : Founds(r)
  /\ "lost answer" \notin failures => \A t \in Founded \cup Requests : Used(t) => t \in tenants
  /\ TenantsAreInhabited

\* Who has been told, or is going to be told, that she won an e-mail.
Wins(q) == q.at \in {"stored", "answered"} /\ q.ask.asks \in {"register", "create"}
WinnersInv ==
  \A r \in Requests, q \in Requests :
    Wins(request[r]) /\ Wins(request[q]) /\ ask(r).email = ask(q).email => r = q

AccountsInv == AccountsTypeOK /\ RequestsInv /\ FoundingInv /\ WinnersInv

-----------------------------------------------------------------------------
(* What a step may do.                                                     *)

\* Users stay, each in her workspace.
Kept ==
  /\ users' \in [Emails -> User \cup {NoUser}]
  /\ \A e \in Emails : Exists(e) => Exists(e)' /\ users'[e].tenant = users[e].tenant

Only(r) ==
  /\ request' \in [Requests -> Request]
  /\ \A q \in Requests \ {r} : request'[q] = request[q]

\* A step of r, sound as far as r goes.
Sound(r) == Kept /\ Only(r) /\ Placed(request[r])' /\ Truthful(request[r])'

\* A step of r that makes no user of another workspace than before, nor a
\* winner, nor a workspace.
Ordinary(r) ==
  /\ Sound(r)
  /\ tenants' = tenants
  /\ failures \subseteq failures' /\ failures' \subseteq Failures
  /\ \A e \in Emails : Exists(e)' => Used(users'[e].tenant)
  /\ request'[r].read # NoUser => Used(request'[r].read.tenant)
  /\ Landless(request[r])' => Landless(request[r])
  /\ At(r, "founded")' => At(r, "founded")
  /\ At(r, "compensating")' => request[r].at \in {"founded", "compensating"}
  /\ request[r].at \in {"founded", "compensating", "abandoned"} =>
       request'[r].at \in {"founded", "compensating", "abandoned"}
  /\ Wins(request[r])' => Wins(request[r]) /\ request'[r].ask = request[r].ask

\* Whatever a handler, a client or a failure does to one request keeps the others.
LEMMA OthersStaySound ==
  ASSUME RequestsInv, NEW r \in Requests, Sound(r)
  PROVE  RequestsInv'
<1>1. ASSUME NEW e, NEW t, Belongs(e, t) PROVE Belongs(e, t)'
  BY <1>1 DEF Belongs, Sound, Kept
<1>2. SUFFICES ASSUME NEW q \in Requests, q # r
               PROVE  Placed(request[q])' /\ Truthful(request[q])'
  BY DEF RequestsInv, Sound
<1>3. request'[q] = request[q] /\ Placed(request[q]) /\ Truthful(request[q])
  BY <1>2 DEF Sound, Only, RequestsInv
<1>4. Placed(request[q])'
  BY <1>3 DEF Placed
<1>5. Truthful(request[q])'
  BY <1>1, <1>3 DEF Truthful, Subject
<1>6. QED
  BY <1>4, <1>5

\* An ordinary step keeps the invariant.
LEMMA OrdinaryKeeps ==
  ASSUME AccountsInv, NEW r \in Requests, Ordinary(r)
  PROVE  AccountsInv'
<1>1. AccountsTypeOK'
  BY DEF AccountsInv, AccountsTypeOK, Ordinary, Sound, Kept, Only
<1>2. RequestsInv'
  BY OthersStaySound DEF AccountsInv, Ordinary
<1>3. \A q \in Requests \ {r} : request'[q] = request[q]
  BY DEF Ordinary, Sound, Only
<1>4. ASSUME NEW t, Used(t)' PROVE Used(t)
  <2>1. CASE \E e \in Emails : Exists(e)' /\ users'[e].tenant = t
    BY <2>1 DEF Ordinary
  <2>2. CASE \E q \in Requests : request'[q].read # NoUser /\ request'[q].read.tenant = t
    BY <2>2, <1>3 DEF Ordinary, Used
  <2>3. QED
    BY <1>4, <2>1, <2>2 DEF Used
<1>5. ASSUME NEW q \in Requests PROVE Founds(q)'
  <2>1. Founds(q)
    BY DEF AccountsInv, FoundingInv
  <2>2. /\ Landless(request[q])' => Landless(request[q])
        /\ request'[q].at = "founded" => request[q].at = "founded"
        /\ request'[q].at = "compensating" => request[q].at \in {"founded", "compensating"}
    BY <1>3 DEF Ordinary, At, Landless
  <2>3. tenants' = tenants /\ failures \subseteq failures'
    BY DEF Ordinary
  <2>4. QED
    BY <2>1, <2>2, <2>3, <1>4 DEF Founds, At
<1>6. "lost answer" \notin failures' =>
        \A t \in Founded \cup Requests : Used(t)' => t \in tenants'
  BY <1>4 DEF Ordinary, AccountsInv, FoundingInv
<1>7. TenantsAreInhabited'
  <2>1. SUFFICES ASSUME NEW t \in tenants \cap Requests,
                        request'[t].at \notin {"founded", "compensating", "abandoned"}
                 PROVE  \E e \in Emails : Exists(e)' /\ users'[e].tenant = t
    BY DEF TenantsAreInhabited, Ordinary
  <2>2. request[t].at \notin {"founded", "compensating", "abandoned"}
    BY <2>1, <1>3 DEF Ordinary
  <2>3. \E e \in Emails : Exists(e) /\ users[e].tenant = t
    BY <2>2 DEF AccountsInv, FoundingInv, TenantsAreInhabited
  <2>4. QED
    BY <2>3 DEF Ordinary, Sound, Kept
<1>8. WinnersInv'
  <2>1. ASSUME NEW q \in Requests, Wins(request[q])'
        PROVE  Wins(request[q]) /\ request'[q].ask = request[q].ask
    BY <2>1, <1>3 DEF Ordinary, Wins
  <2>2. QED
    BY <2>1 DEF WinnersInv, AccountsInv, ask
<1>9. QED
  BY <1>1, <1>2, <1>5, <1>6, <1>7, <1>8 DEF AccountsInv, FoundingInv

-----------------------------------------------------------------------------
(* The steps of a request.                                                 *)

\* What the steps of a handler do to its request.
LEMMA Effects ==
  ASSUME AccountsTypeOK, NEW r \in Requests
  PROVE  /\ \A place \in InFlight \cup Ends :
              GoesTo(r, place) =>
                /\ Only(r)
                /\ request'[r].ask = request[r].ask /\ request'[r].at = place
                /\ request'[r].read = request[r].read
                /\ request'[r].answer = request[r].answer
         /\ \A u \in User, place \in InFlight :
              Reads(r, u, place) =>
                /\ Only(r)
                /\ request'[r].ask = request[r].ask /\ request'[r].at = place
                /\ request'[r].read = u
                /\ request'[r].answer = request[r].answer
         /\ \A us \in [Emails -> User \cup {NoUser}] :
              AnswersWith(r, us) =>
                /\ Only(r)
                /\ request'[r].ask = request[r].ask /\ request'[r].at = "answered"
                /\ request'[r].read = request[r].read
                /\ request'[r].answer = us
<1>1. request \in [Requests -> Request]
  BY DEF AccountsTypeOK
<1>2. ASSUME NEW place \in InFlight \cup Ends, GoesTo(r, place)
      PROVE  /\ Only(r)
             /\ request'[r].ask = request[r].ask /\ request'[r].at = place
             /\ request'[r].read = request[r].read
             /\ request'[r].answer = request[r].answer
  BY <1>1, <1>2 DEF GoesTo, Only, Request
<1>3. ASSUME NEW u \in User, NEW place \in InFlight, Reads(r, u, place)
      PROVE  /\ Only(r)
             /\ request'[r].ask = request[r].ask /\ request'[r].at = place
             /\ request'[r].read = u
             /\ request'[r].answer = request[r].answer
  BY <1>1, <1>3 DEF Reads, Only, Request
<1>4. ASSUME NEW us \in [Emails -> User \cup {NoUser}], AnswersWith(r, us)
      PROVE  /\ Only(r)
             /\ request'[r].ask = request[r].ask /\ request'[r].at = "answered"
             /\ request'[r].read = request[r].read
             /\ request'[r].answer = us
  BY <1>1, <1>4 DEF AnswersWith, Only, Request, Ends
<1>5. QED
  BY <1>2, <1>3, <1>4

\* A request that only moves, along the way of its handler, to no new winner.
LEMMA MovesKeep ==
  ASSUME AccountsInv, NEW r \in Requests, NEW place \in InFlight \cup Ends,
         GoesTo(r, place), UNCHANGED <<tenants, users>>,
         failures \subseteq failures', failures' \subseteq Failures,
         ~At(r, "unsent"), place # "answered",
         place \in {"known", "admitted"} => ask(r).asks # "register" /\ request[r].read # NoUser,
         place = "free" => \/ ask(r).asks = "register" /\ At(r, "received")
                           \/ ask(r).asks = "create" /\ request[r].read # NoUser,
         place \in {"received", "founded", "stored"} => FALSE,
         place = "compensating" => At(r, "founded"),
         At(r, "founded") => place = "compensating",
         At(r, "compensating") => place = "abandoned",
         At(r, "abandoned") => FALSE
  PROVE  AccountsInv'
<1>1. /\ Only(r)
      /\ request'[r].ask = request[r].ask /\ request'[r].at = place
      /\ request'[r].read = request[r].read
      /\ request'[r].answer = request[r].answer
  BY Effects DEF AccountsInv
<1>2. Placed(request[r]) /\ Truthful(request[r])
  BY DEF AccountsInv, RequestsInv
<1>3. Kept
  BY DEF Kept, AccountsInv, AccountsTypeOK, Exists
<1>4. Placed(request[r])'
  BY <1>1, <1>2 DEF Placed, Only, At, ask, InFlight, Ends
<1>5. Truthful(request[r])'
  BY <1>1, <1>2 DEF Truthful, Subject, Belongs, Exists
<1>6. \A e \in Emails : Exists(e)' => Used(users'[e].tenant)
  BY DEF Used, Exists
<1>7. request'[r].read # NoUser => Used(request'[r].read.tenant)
  BY <1>1 DEF Used
<1>8. ~Wins(request[r])'
  BY <1>1 DEF Wins
<1>9. Ordinary(r)
  BY <1>1, <1>3, <1>4, <1>5, <1>6, <1>7, <1>8 DEF Ordinary, Sound, Landless, At, ask, InFlight, Ends
<1>10. QED
  BY <1>9, OrdinaryKeeps

\* A request that reads the document of its subject.
LEMMA ReadingKeeps ==
  ASSUME AccountsInv, NEW r \in Requests, NEW e \in Emails,
         At(r, "received"), ask(r).asks # "register", e = Subject(request[r]), Exists(e),
         Reads(r, users[e], "known"), UNCHANGED <<tenants, users, failures>>
  PROVE  AccountsInv'
<1>1. users[e] \in User /\ NoUser \notin User
  BY AccountsAssumption DEF AccountsInv, AccountsTypeOK, Exists
<1>2. /\ Only(r)
      /\ request'[r].ask = request[r].ask /\ request'[r].at = "known"
      /\ request'[r].read = users[e]
      /\ request'[r].answer = request[r].answer
  BY <1>1, Effects DEF AccountsInv, InFlight
<1>3. Placed(request[r]) /\ Truthful(request[r])
  BY DEF AccountsInv, RequestsInv
<1>4. Kept
  BY DEF Kept, AccountsInv, AccountsTypeOK, Exists
<1>5. Placed(request[r])'
  BY <1>1, <1>2, <1>3 DEF Placed, Only, At, ask
<1>6. Truthful(request[r])'
  BY <1>1, <1>2 DEF Truthful, Subject, Belongs, Exists
<1>7. \A f \in Emails : Exists(f)' => Used(users'[f].tenant)
  BY DEF Used, Exists
<1>8. request'[r].read # NoUser => Used(request'[r].read.tenant)
  BY <1>2 DEF Used
<1>9. ~Wins(request[r])'
  BY <1>2 DEF Wins
<1>10. failures' \subseteq Failures
  BY DEF AccountsInv, AccountsTypeOK
<1>11. Ordinary(r)
  BY <1>2, <1>4, <1>5, <1>6, <1>7, <1>8, <1>9, <1>10 DEF Ordinary, Sound, Landless, At
<1>12. QED
  BY <1>11, OrdinaryKeeps

\* A request that is answered with users of the workspace of its subject.
LEMMA AnsweringKeeps ==
  ASSUME AccountsInv, NEW r \in Requests, NEW us \in [Emails -> User \cup {NoUser}],
         request[r].at \in {"admitted", "stored"},
         AnswersWith(r, us), UNCHANGED <<tenants, failures>>,
         Kept, \A e \in Emails : Exists(e)' => Used(users'[e].tenant),
         \A e \in Emails : us[e] # NoUser => us[e].tenant = request[r].read.tenant,
         ask(r).asks \in Public \cup {"me"} =>
           LET e == Subject(request[r]) IN us[e] # NoUser,
         ask(r).asks # "create", ask(r).asks = "register" => At(r, "stored")
  PROVE  AccountsInv'
<1>1. /\ Only(r)
      /\ request'[r].ask = request[r].ask /\ request'[r].at = "answered"
      /\ request'[r].read = request[r].read
      /\ request'[r].answer = us
  BY Effects DEF AccountsInv
<1>2. Placed(request[r]) /\ Truthful(request[r])
  BY DEF AccountsInv, RequestsInv
<1>4. Placed(request[r])'
  BY <1>1, <1>2 DEF Placed, Only
<1>5. Truthful(request[r])'
  <2>1. request[r].read # NoUser
    BY <1>2 DEF Placed
  <2>2. Belongs(Subject(request[r]), request[r].read.tenant)
    BY <2>1, <1>2 DEF Truthful
  <2>3. Subject(request[r]) \in Emails
    BY <2>2 DEF Belongs
  <2>4. /\ users'[Subject(request[r])] # NoUser
        /\ users'[Subject(request[r])].tenant = request[r].read.tenant
    BY <2>2 DEF Belongs, Kept, Exists
  <2>5. QED
    BY <2>3, <2>4, <1>1 DEF Truthful, Subject, Belongs, Exists, ask, Public, ForAdmins
<1>6. request'[r].read # NoUser => Used(request'[r].read.tenant)
  BY <1>1 DEF Used
<1>7. Wins(request[r])' => Wins(request[r])
  BY <1>1 DEF Wins, ask, At
<1>8. failures' \subseteq Failures
  BY DEF AccountsInv, AccountsTypeOK
<1>9. Ordinary(r)
  BY <1>1, <1>4, <1>5, <1>6, <1>7, <1>8 DEF Ordinary, Sound, Landless, At
<1>10. QED
  BY <1>9, OrdinaryKeeps

\* The caller is found, or the request is refused.
LEMMA FindsCallerKeeps ==
  ASSUME AccountsInv, NEW r \in Requests, FindsCaller(r)
  PROVE  AccountsInv'
<1>1. Placed(request[r]) /\ ask(r).asks # "register" /\ ask(r).by \in Emails
      /\ ask(r).by = Subject(request[r])
  BY DEF AccountsInv, RequestsInv, Placed, WellFormed, FindsCaller, At, ask, Public, Subject
<1>2. CASE GoesTo(r, "unauthorized")
  BY <1>1, <1>2, MovesKeep DEF FindsCaller, At, Ends, InFlight, AccountsInv, AccountsTypeOK
<1>3. CASE Exists(ask(r).by) /\ Reads(r, users[ask(r).by], "known")
  BY <1>1, <1>3, ReadingKeeps DEF FindsCaller
<1>4. QED
  BY <1>2, <1>3 DEF FindsCaller, Exists

\* RolesGuard lets a request through, or not.
LEMMA AdmitsKeeps ==
  ASSUME AccountsInv, NEW r \in Requests, Admits(r)
  PROVE  AccountsInv'
<1>1. request[r].read # NoUser /\ ask(r).asks # "register"
  BY DEF AccountsInv, RequestsInv, Placed, Admits, At, ask
<1>2. \E place \in {"unauthorized", "failed", "admitted"} : GoesTo(r, place)
  BY DEF Admits
<1>3. QED
  BY <1>1, <1>2, MovesKeep DEF Admits, At, Ends, InFlight, AccountsInv, AccountsTypeOK

\* An e-mail that is taken ends the request; one that is free does not.
LEMMA ChecksEmailKeeps ==
  ASSUME AccountsInv, NEW r \in Requests, ChecksEmail(r)
  PROVE  AccountsInv'
<1>1. At(r, "admitted") => request[r].read # NoUser
  BY DEF AccountsInv, RequestsInv, Placed, At
<1>2. ~At(r, "unsent") /\ ~At(r, "founded") /\ ~At(r, "compensating") /\ ~At(r, "abandoned")
  BY DEF ChecksEmail, At
<1>3. failures \subseteq failures' /\ failures' \subseteq Failures
  BY DEF ChecksEmail, AccountsInv, AccountsTypeOK
<1>4. CASE GoesTo(r, "failed")
  BY <1>2, <1>3, <1>4, MovesKeep DEF ChecksEmail, Ends
<1>5. CASE GoesTo(r, "free")
  BY <1>1, <1>2, <1>3, <1>5, MovesKeep DEF ChecksEmail, InFlight
<1>6. QED
  BY <1>4, <1>5 DEF ChecksEmail

\* getCurrentUser answers with the caller.
LEMMA AnswersMeKeeps ==
  ASSUME AccountsInv, NEW r \in Requests, AnswersMe(r)
  PROVE  AccountsInv'
<1>1. /\ Placed(request[r]) /\ Truthful(request[r])
      /\ request[r].read \in User /\ NoUser \notin User
  BY AccountsAssumption DEF AccountsInv, RequestsInv, Placed, Request, AnswersMe, At
<1>2. ask(r).by = Subject(request[r]) /\ ask(r).by \in Emails
  BY <1>1 DEF Subject, Truthful, Belongs, AnswersMe, ask, Public
<1> DEFINE us == [None EXCEPT ![ask(r).by] = request[r].read]
<1>3. /\ us \in [Emails -> User \cup {NoUser}]
      /\ us[ask(r).by] = request[r].read
      /\ \A e \in Emails : us[e] # NoUser => us[e] = request[r].read
  BY <1>1, <1>2 DEF None
<1>4. Kept
  BY DEF Kept, AccountsInv, AccountsTypeOK, Exists, AnswersMe
<1>5. \A e \in Emails : Exists(e)' => Used(users'[e].tenant)
  BY DEF Used, Exists, AnswersMe
<1> HIDE DEF us
<1>6. AnswersWith(r, us) /\ At(r, "admitted") /\ ask(r).asks = "me"
      /\ UNCHANGED <<tenants, failures>>
  BY DEF AnswersMe, us
<1>7. QED
  BY <1>1, <1>2, <1>3, <1>4, <1>5, <1>6, AnsweringKeeps DEF At

\* findAll answers with users of the workspace of the caller.
LEMMA AnswersListKeeps ==
  ASSUME AccountsInv, NEW r \in Requests, AnswersList(r)
  PROVE  AccountsInv'
<1> DEFINE us == [e \in Emails |->
       IF Exists(e) /\ users[e].tenant = request[r].read.tenant THEN users[e] ELSE NoUser]
<1>1. /\ us \in [Emails -> User \cup {NoUser}]
      /\ \A e \in Emails : us[e] # NoUser => us[e].tenant = request[r].read.tenant
  BY DEF AccountsInv, AccountsTypeOK
<1>2. Kept
  BY DEF Kept, AccountsInv, AccountsTypeOK, Exists, AnswersList
<1>3. \A e \in Emails : Exists(e)' => Used(users'[e].tenant)
  BY DEF Used, Exists, AnswersList
<1>4. AnswersWith(r, us) /\ At(r, "admitted") /\ ask(r).asks = "list"
      /\ UNCHANGED <<tenants, failures>>
  BY DEF AnswersList
<1> HIDE DEF us
<1>5. QED
  BY <1>1, <1>2, <1>3, <1>4, AnsweringKeeps DEF At, Public

\* register and login answer with the user who was stored, or found.
LEMMA AnswersTokenKeeps ==
  ASSUME AccountsInv, NEW r \in Requests, AnswersToken(r)
  PROVE  AccountsInv'
<1>1. /\ Placed(request[r]) /\ Truthful(request[r])
      /\ request[r].read \in User /\ NoUser \notin User /\ ask(r).asks \in Public
  BY AccountsAssumption DEF AccountsInv, RequestsInv, Placed, Request, AnswersToken, At, ask
<1>2. ask(r).email = Subject(request[r]) /\ ask(r).email \in Emails
  BY <1>1 DEF Subject, Truthful, Belongs, ask
<1> DEFINE us == [None EXCEPT ![ask(r).email] = request[r].read]
<1>3. /\ us \in [Emails -> User \cup {NoUser}]
      /\ us[ask(r).email] = request[r].read
      /\ \A e \in Emails : us[e] # NoUser => us[e] = request[r].read
  BY <1>1, <1>2 DEF None
<1>4. Kept
  BY DEF Kept, AccountsInv, AccountsTypeOK, Exists, AnswersToken
<1>5. \A e \in Emails : Exists(e)' => Used(users'[e].tenant)
  BY DEF Used, Exists, AnswersToken
<1> HIDE DEF us
<1>6. AnswersWith(r, us) /\ At(r, "stored") /\ UNCHANGED <<tenants, failures>>
  BY DEF AnswersToken, us
<1>7. QED
  BY <1>1, <1>2, <1>3, <1>4, <1>5, <1>6, AnsweringKeeps DEF At, Public

\* login finds the user.
LEMMA FindsUserKeeps ==
  ASSUME AccountsInv, NEW r \in Requests, FindsUser(r)
  PROVE  AccountsInv'
<1>1. ask(r).email \in Emails /\ ask(r).email = Subject(request[r])
  BY DEF AccountsInv, RequestsInv, Placed, WellFormed, FindsUser, At, ask, Public, Subject
<1>2. CASE GoesTo(r, "failed")
  BY <1>2, MovesKeep DEF FindsUser, At, Ends, AccountsInv, AccountsTypeOK
<1>3. CASE Exists(ask(r).email) /\ Reads(r, users[ask(r).email], "known")
  BY <1>1, <1>3, ReadingKeeps DEF FindsUser
<1>4. QED
  BY <1>2, <1>3 DEF FindsUser

\* login finds the workspace of the user.
LEMMA FindsTenantKeeps ==
  ASSUME AccountsInv, NEW r \in Requests, FindsTenant(r)
  PROVE  AccountsInv'
<1>1. request[r].read # NoUser
  BY DEF AccountsInv, RequestsInv, Placed, FindsTenant, At
<1>2. \E place \in {"failed", "admitted"} : GoesTo(r, place)
  BY DEF FindsTenant
<1>3. QED
  BY <1>1, <1>2, MovesKeep DEF FindsTenant, At, Ends, InFlight, AccountsInv, AccountsTypeOK

\* An error ends the request, or leads register to compensate.
LEMMA ThrowsKeeps ==
  ASSUME AccountsInv, NEW r \in Requests, Throws(r)
  PROVE  AccountsInv'
<1>1. failures \subseteq failures' /\ failures' \subseteq Failures
  BY DEF Throws, Fails, Failures, AccountsInv, AccountsTypeOK
<1>2. request[r].at \in InFlight /\ GoesTo(r, AfterError(r)) /\ UNCHANGED <<tenants, users>>
  BY DEF Throws
<1>3. /\ AfterError(r) \in {"unauthorized", "compensating", "abandoned", "failed"}
      /\ AfterError(r) = "compensating" <=> At(r, "founded")
      /\ At(r, "compensating") => AfterError(r) = "abandoned"
  <2>1. At(r, "compensating") \/ At(r, "founded") => request[r].at \notin {"received", "known"}
    BY DEF At
  <2>2. QED
    BY <2>1 DEF AfterError, At
<1>4. AfterError(r) \in InFlight \cup Ends
  BY <1>3 DEF InFlight, Ends
<1>5. QED
  BY <1>1, <1>2, <1>3, <1>4, MovesKeep DEF At, InFlight

\* A login writes one field of a user who is there.
LEMMA SavesLoginKeeps ==
  ASSUME AccountsInv, NEW r \in Requests, SavesLogin(r)
  PROVE  AccountsInv'
<1>1. /\ Placed(request[r]) /\ Truthful(request[r])
      /\ request[r].read # NoUser /\ NoUser \notin User
  BY AccountsAssumption DEF AccountsInv, RequestsInv, Placed, SavesLogin, At
<1>2. Belongs(ask(r).email, request[r].read.tenant)
  BY <1>1 DEF Truthful, Subject, SavesLogin, ask, Public
<1>3. users \in [Emails -> User \cup {NoUser}] /\ users[ask(r).email] \in User
  BY <1>2 DEF AccountsInv, AccountsTypeOK, Belongs, Exists
<1>4. /\ users' = [users EXCEPT ![ask(r).email] = [users[ask(r).email] EXCEPT !.seen = TRUE]]
      /\ [users[ask(r).email] EXCEPT !.seen = TRUE] \in User
      /\ [users[ask(r).email] EXCEPT !.seen = TRUE].tenant = users[ask(r).email].tenant
  BY <1>3 DEF SavesLogin, User
<1>5. Kept
  BY <1>1, <1>2, <1>3, <1>4 DEF Kept, Exists
<1>6. \A e \in Emails : Exists(e)' => Used(users'[e].tenant)
  BY <1>1, <1>2, <1>3, <1>4 DEF Used, Exists, Belongs
<1>7. /\ Only(r)
      /\ request'[r].ask = request[r].ask /\ request'[r].at = "stored"
      /\ request'[r].read = request[r].read
      /\ request'[r].answer = request[r].answer
  BY Effects DEF AccountsInv, SavesLogin, InFlight
<1>8. Placed(request[r])'
  BY <1>1, <1>7 DEF Placed, Only, SavesLogin, At, ask, Public
<1>9. Truthful(request[r])'
  <2>1. Belongs(ask(r).email, request[r].read.tenant)'
    BY <1>2, <1>5, <1>7 DEF Belongs, Kept, Exists, ask
  <2>2. QED
    BY <2>1, <1>7 DEF Truthful, Subject, SavesLogin, ask, Public
<1>10. request'[r].read # NoUser => Used(request'[r].read.tenant)
  BY <1>7 DEF Used
<1>11. ~Wins(request[r])'
  BY <1>7 DEF Wins, SavesLogin, ask
<1>12. failures' \subseteq Failures /\ UNCHANGED <<tenants, failures>>
  BY DEF AccountsInv, AccountsTypeOK, SavesLogin
<1>13. Ordinary(r)
  BY <1>5, <1>6, <1>7, <1>8, <1>9, <1>10, <1>11, <1>12
  DEF Ordinary, Sound, Landless, At, SavesLogin, ask
<1>14. QED
  BY <1>13, OrdinaryKeeps

\* What a change makes of a user is one of the same workspace.
LEMMA ChangedUser ==
  ASSUME NEW u \in User, NEW change \in Changes
  PROVE  /\ Changed(u, change) \in User
         /\ Changed(u, change).tenant = u.tenant
         /\ change \notin {"inactive"} => (u.active => Changed(u, change).active)
         /\ change # "MEMBER" => (u.role = "ADMIN" => Changed(u, change).role = "ADMIN")
         /\ change # "active" => (Changed(u, change).active => u.active)
         /\ change # "ADMIN" => (u.role = "MEMBER" => Changed(u, change).role = "MEMBER")
<1>1. CASE change \in Roles
  <2>1. Changed(u, change) = [u EXCEPT !.role = change]
    BY <1>1 DEF Changed, Roles
  <2>2. QED
    BY <1>1, <2>1 DEF User, Roles
<1>2. CASE change = "active"
  <2>1. Changed(u, change) = [u EXCEPT !.active = TRUE]
    BY <1>2 DEF Changed, Roles
  <2>2. QED
    BY <1>2, <2>1 DEF User
<1>3. CASE change = "inactive"
  <2>1. Changed(u, change) = [u EXCEPT !.active = FALSE]
    BY <1>3 DEF Changed, Roles
  <2>2. QED
    BY <1>3, <2>1 DEF User
<1>4. QED
  BY <1>1, <1>2, <1>3 DEF Changes

\* What an update makes of a user.
Updated(r) == Changed(users[ask(r).email], ask(r).change)

\* What an update does when it is not refused.
LEMMA UpdateEffect ==
  ASSUME AccountsInv, NEW r \in Requests, UpdatesUser(r), ~SelfLockout(r), Updatable(r)
  PROVE  /\ ask(r).email \in Emails /\ ask(r).change \in Changes
         /\ users[ask(r).email] \in User
         /\ Updated(r) \in User /\ Updated(r).tenant = request[r].read.tenant
         /\ users' = [users EXCEPT ![ask(r).email] = Updated(r)]
         /\ AnswersWith(r, [None EXCEPT ![ask(r).email] = Updated(r)])
<1>1. ask(r).email \in Emails /\ ask(r).change \in Changes
  BY DEF AccountsInv, RequestsInv, Placed, WellFormed, Ask, UpdatesUser, At, ask
<1>2. users[ask(r).email] \in User
  BY <1>1 DEF AccountsInv, AccountsTypeOK, Updatable, Exists
<1>3. Updated(r) \in User /\ Updated(r).tenant = request[r].read.tenant
  BY <1>1, <1>2, ChangedUser DEF Updated, Updatable
<1>4. /\ users' = [users EXCEPT ![ask(r).email] = Updated(r)]
      /\ Stored(r, Updated(r))
  BY DEF UpdatesUser, Updated
<1>5. AnswersWith(r, [None EXCEPT ![ask(r).email] = Updated(r)])
  BY <1>4 DEF Stored, UpdatesUser
<1>6. QED
  BY <1>1, <1>2, <1>3, <1>4, <1>5

\* update answers with the user as she is now, or fails.
LEMMA UpdatesUserKeeps ==
  ASSUME AccountsInv, NEW r \in Requests, UpdatesUser(r)
  PROVE  AccountsInv'
<1>1. CASE SelfLockout(r) \/ ~Updatable(r)
  BY <1>1, MovesKeep DEF UpdatesUser, At, Ends, AccountsInv, AccountsTypeOK
<1>2. CASE ~(SelfLockout(r) \/ ~Updatable(r))
  <2>1. /\ ask(r).email \in Emails /\ users[ask(r).email] \in User
        /\ Updated(r) \in User /\ Updated(r).tenant = request[r].read.tenant
        /\ users' = [users EXCEPT ![ask(r).email] = Updated(r)]
        /\ AnswersWith(r, [None EXCEPT ![ask(r).email] = Updated(r)])
    BY <1>2, UpdateEffect
  <2>2. NoUser \notin User /\ users \in [Emails -> User \cup {NoUser}]
    BY AccountsAssumption DEF AccountsInv, AccountsTypeOK
  <2>3. users[ask(r).email].tenant = Updated(r).tenant
    BY <1>2, <2>1 DEF Updatable
  <2>4. Kept
    BY <2>1, <2>2, <2>3 DEF Kept, Exists
  <2>5. \A e \in Emails : Exists(e)' => Used(users'[e].tenant)
    BY <2>1, <2>2, <2>3 DEF Used, Exists
  <2> DEFINE us == [None EXCEPT ![ask(r).email] = Updated(r)]
  <2>6. /\ us \in [Emails -> User \cup {NoUser}]
        /\ \A e \in Emails : us[e] # NoUser => us[e].tenant = request[r].read.tenant
    BY <2>1 DEF None
  <2> HIDE DEF us
  <2>7. AnswersWith(r, us) /\ At(r, "admitted") /\ ask(r).asks = "update"
        /\ UNCHANGED <<tenants, failures>>
    BY <2>1 DEF UpdatesUser, us
  <2>8. QED
    BY <2>4, <2>5, <2>6, <2>7, AnsweringKeeps DEF At, Public
<1>3. QED
  BY <1>1, <1>2

-----------------------------------------------------------------------------
(* The steps that make or remove workspaces, and make users.               *)

\* Nothing that a workspace is used by changes when a request only moves.
LEMMA MovesUse ==
  ASSUME NEW r \in Requests, Only(r), request'[r].read = request[r].read, UNCHANGED users,
         NEW t
  PROVE  Used(t)' => Used(t)
BY DEF Used, Only, Exists

\* The parts of the invariant that a move of r keeps.
LEMMA MovesSound ==
  ASSUME AccountsInv, NEW r \in Requests, NEW place \in InFlight \cup Ends,
         GoesTo(r, place), UNCHANGED <<users, failures>>, tenants' \subseteq Founded \cup Requests,
         place \in {"founded", "failed"}, place = "founded" => ask(r).asks = "register",
         ~At(r, "unsent")
  PROVE  /\ AccountsTypeOK' /\ RequestsInv' /\ WinnersInv'
         /\ Only(r) /\ request'[r].at = place /\ request'[r].ask = request[r].ask
         /\ request'[r].read = request[r].read
<1>1. /\ Only(r)
      /\ request'[r].ask = request[r].ask /\ request'[r].at = place
      /\ request'[r].read = request[r].read
      /\ request'[r].answer = request[r].answer
  BY Effects DEF AccountsInv
<1>2. Placed(request[r]) /\ Truthful(request[r])
  BY DEF AccountsInv, RequestsInv
<1>3. Kept
  BY DEF Kept, AccountsInv, AccountsTypeOK, Exists
<1>4. Placed(request[r])'
  BY <1>1, <1>2 DEF Placed, Only, At, ask
<1>5. Truthful(request[r])'
  BY <1>1, <1>2 DEF Truthful, Subject, Belongs, Exists
<1>6. RequestsInv'
  BY <1>1, <1>3, <1>4, <1>5, OthersStaySound DEF Sound, AccountsInv
<1>7. AccountsTypeOK'
  BY <1>1 DEF AccountsInv, AccountsTypeOK, Only
<1>8. WinnersInv'
  BY <1>1 DEF WinnersInv, AccountsInv, Wins, Only, ask
<1>9. QED
  BY <1>1, <1>6, <1>7, <1>8

\* register creates a workspace that nobody is of.
LEMMA CreatesTenantKeeps ==
  ASSUME AccountsInv, NEW r \in Requests, CreatesTenant(r)
  PROVE  AccountsInv'
<1>1. /\ AccountsTypeOK' /\ RequestsInv' /\ WinnersInv'
      /\ Only(r) /\ request'[r].at = "founded" /\ request'[r].ask = request[r].ask
      /\ request'[r].read = request[r].read
  BY MovesSound DEF CreatesTenant, At, InFlight, AccountsInv, AccountsTypeOK
<1>2. UNCHANGED <<users, failures>> /\ tenants' = tenants \cup {r} /\ At(r, "free")
  BY DEF CreatesTenant
<1>3. \A t : Used(t)' => Used(t)
  BY <1>1, <1>2, MovesUse
<1>4. ASSUME NEW q \in Requests PROVE Founds(q)'
  <2>1. Founds(q)
    BY DEF AccountsInv, FoundingInv
  <2>2. CASE q = r
    BY <1>1, <1>2, <1>3, <2>1, <2>2 DEF Founds, Landless, At, ask, CreatesTenant
  <2>3. CASE q # r
    BY <1>1, <1>2, <1>3, <2>1, <2>3 DEF Founds, Landless, At, Only
  <2>4. QED
    BY <2>2, <2>3
<1>5. "lost answer" \notin failures' =>
        \A t \in Founded \cup Requests : Used(t)' => t \in tenants'
  BY <1>2, <1>3 DEF AccountsInv, FoundingInv
<1>6. TenantsAreInhabited'
  BY <1>1, <1>2 DEF TenantsAreInhabited, AccountsInv, FoundingInv, Only, Exists
<1>7. QED
  BY <1>1, <1>4, <1>5, <1>6 DEF AccountsInv, FoundingInv

\* register removes its workspace, which is nobody's.
LEMMA RemovesTenantKeeps ==
  ASSUME AccountsInv, NEW r \in Requests, RemovesTenant(r)
  PROVE  AccountsInv'
<1>1. /\ AccountsTypeOK' /\ RequestsInv' /\ WinnersInv'
      /\ Only(r) /\ request'[r].at = "failed" /\ request'[r].ask = request[r].ask
      /\ request'[r].read = request[r].read
  BY MovesSound DEF RemovesTenant, At, Ends, AccountsInv, AccountsTypeOK
<1>2. /\ UNCHANGED <<users, failures>> /\ tenants' = tenants \ {r} /\ At(r, "compensating")
      /\ ask(r).asks = "register"
  BY DEF RemovesTenant, AccountsInv, RequestsInv, Placed, At, ask
<1>3. \A t : Used(t)' => Used(t)
  BY <1>1, <1>2, MovesUse
<1>4. ASSUME NEW q \in Requests PROVE Founds(q)'
  <2>1. Founds(q)
    BY DEF AccountsInv, FoundingInv
  <2>2. CASE q = r
    BY <1>1, <1>2, <1>3, <2>1, <2>2 DEF Founds, Landless, At, ask
  <2>3. CASE q # r
    BY <1>1, <1>2, <1>3, <2>1, <2>3 DEF Founds, Landless, At, Only
  <2>4. QED
    BY <2>2, <2>3
<1>5. "lost answer" \notin failures' =>
        \A t \in Founded \cup Requests : Used(t)' => t \in tenants'
  <2>1. "lost answer" \notin failures => ~Used(r)
    BY <1>2 DEF AccountsInv, FoundingInv, Founds
  <2>2. QED
    BY <1>2, <1>3, <2>1 DEF AccountsInv, FoundingInv
<1>6. TenantsAreInhabited'
  BY <1>1, <1>2 DEF TenantsAreInhabited, AccountsInv, FoundingInv, Only, Exists
<1>7. QED
  BY <1>1, <1>4, <1>5, <1>6 DEF AccountsInv, FoundingInv

\* A new user u of r, whether or not r is told.
LEMMA StoringKeeps ==
  ASSUME AccountsInv, NEW r \in Requests, NEW u \in User, NEW e \in Emails,
         Creates(r), e = ask(r).email, ~Exists(e), u = NewUser(r),
         users' = [users EXCEPT ![e] = u], tenants' = tenants,
         failures \subseteq failures', failures' \subseteq Failures,
         Only(r), request'[r].ask = request[r].ask,
         request'[r].read \in {request[r].read, u},
         Placed(request[r])', Truthful(request[r])',
         request'[r].at \in {"stored", "answered", "compensating", "failed"},
         request'[r].at = "compensating" => "lost answer" \in failures'
  PROVE  AccountsInv'
<1>1. users \in [Emails -> User \cup {NoUser}] /\ NoUser \notin User
  BY AccountsAssumption DEF AccountsInv, AccountsTypeOK
<1>2. Kept
  BY <1>1 DEF Kept, Exists
<1>3. AccountsTypeOK'
  BY <1>1 DEF AccountsInv, AccountsTypeOK, Only
<1>4. RequestsInv'
  BY <1>2, OthersStaySound DEF Sound, AccountsInv
<1>5. users'[e] = u /\ Exists(e)' /\ \A f \in Emails \ {e} : users'[f] = users[f]
  BY <1>1 DEF Exists
<1>6. \/ u.tenant = r /\ At(r, "founded")
      \/ Used(u.tenant) /\ At(r, "free") /\ ask(r).asks = "create"
  <2>1. Placed(request[r])
    BY DEF AccountsInv, RequestsInv
  <2>2. CASE At(r, "founded")
    BY <2>1, <2>2 DEF Placed, NewUser, At, ask
  <2>3. CASE At(r, "free") /\ ask(r).asks = "create"
    BY <2>1, <2>3 DEF Placed, NewUser, Used, At, ask
  <2>4. QED
    BY <2>2, <2>3 DEF Creates
<1>7. ASSUME NEW t, Used(t)' PROVE Used(t) \/ (t = r /\ At(r, "founded"))
  <2>1. CASE \E f \in Emails : Exists(f)' /\ users'[f].tenant = t
    <3>1. PICK f \in Emails : Exists(f)' /\ users'[f].tenant = t
      BY <2>1
    <3>2. CASE f = e
      BY <3>1, <3>2, <1>5, <1>6
    <3>3. CASE f # e
      BY <3>1, <3>3, <1>5 DEF Used, Exists
    <3>4. QED
      BY <3>2, <3>3
  <2>2. CASE \E q \in Requests : request'[q].read # NoUser /\ request'[q].read.tenant = t
    <3>1. PICK q \in Requests : request'[q].read # NoUser /\ request'[q].read.tenant = t
      BY <2>2
    <3>2. CASE q # r \/ request'[r].read = request[r].read
      BY <3>1, <3>2 DEF Used, Only
    <3>3. CASE q = r /\ request'[r].read = u
      BY <3>1, <3>3, <1>6
    <3>4. QED
      BY <3>2, <3>3
  <2>3. QED
    BY <1>7, <2>1, <2>2 DEF Used
<1>8. ASSUME NEW q \in Requests PROVE Founds(q)'
  <2>1. Founds(q)
    BY DEF AccountsInv, FoundingInv
  <2>2. CASE q = r
    <3>1. CASE At(r, "founded")
      <4>1. ask(r).asks = "register"
        BY <3>1 DEF AccountsInv, RequestsInv, Placed, At, ask
      <4>2. QED
        BY <4>1, <2>2 DEF Founds, Landless, At, ask
    <3>2. CASE At(r, "free") /\ ask(r).asks = "create"
      <4>1. r \notin tenants /\ ~Used(r)
        BY <2>1, <2>2, <3>2 DEF Founds, Landless, ask
      <4>2. ~Used(r)'
        BY <4>1, <1>7, <3>2 DEF At
      <4>3. QED
        BY <4>1, <4>2, <2>2, <3>2 DEF Founds, At
    <3>3. QED
      BY <1>6, <3>1, <3>2
  <2>3. CASE q # r
    BY <1>7, <2>1, <2>3 DEF Founds, Landless, At, Only
  <2>4. QED
    BY <2>2, <2>3
<1>9. "lost answer" \notin failures' =>
        \A t \in Founded \cup Requests : Used(t)' => t \in tenants'
  <2>1. At(r, "founded") => r \in tenants
    BY DEF AccountsInv, FoundingInv, Founds
  <2>2. QED
    BY <1>7, <2>1 DEF AccountsInv, FoundingInv
<1>10. TenantsAreInhabited'
  <2>1. SUFFICES ASSUME NEW t \in tenants \cap Requests,
                        request'[t].at \notin {"founded", "compensating", "abandoned"}
                 PROVE  \E f \in Emails : Exists(f)' /\ users'[f].tenant = t
    BY DEF TenantsAreInhabited
  <2>2. CASE t = r /\ At(r, "founded")
    BY <2>2, <1>5, <1>6 DEF At
  <2>3. CASE ~(t = r /\ At(r, "founded"))
    <3>1. request[t].at \notin {"founded", "compensating", "abandoned"}
      BY <2>1, <2>3, <1>6 DEF Only, At
    <3>2. \E f \in Emails : Exists(f) /\ users[f].tenant = t
      BY <3>1 DEF AccountsInv, FoundingInv, TenantsAreInhabited
    <3>3. QED
      BY <3>2, <1>2 DEF Kept
  <2>4. QED
    BY <2>2, <2>3
<1>11. WinnersInv'
  <2>1. ASSUME NEW q \in Requests, q # r, Wins(request[q])', request'[q].ask.email = e PROVE FALSE
    <3>1. Wins(request[q]) /\ ask(q).email = e
      BY <2>1 DEF Only, Wins, ask
    <3>2. Placed(request[q]) /\ Truthful(request[q])
      BY DEF AccountsInv, RequestsInv
    <3>3. Exists(e)
      BY <3>1, <3>2 DEF Wins, Placed, Truthful, Subject, Belongs, ask, Public
    <3>4. QED
      BY <3>3
  <2>2. ASSUME NEW q \in Requests, q # r
        PROVE  Wins(request[q])' = Wins(request[q]) /\ request'[q].ask = request[q].ask
    BY <2>2 DEF Only, Wins
  <2>3. SUFFICES ASSUME NEW p \in Requests, NEW q \in Requests, p # q,
                        Wins(request[p])', Wins(request[q])',
                        request'[p].ask.email = request'[q].ask.email
                 PROVE  FALSE
    BY DEF WinnersInv, ask
  <2>4. CASE p # r /\ q # r
    BY <2>2, <2>3, <2>4 DEF WinnersInv, AccountsInv, ask
  <2>5. request'[r].ask.email = e
    BY DEF ask
  <2>6. CASE p = r
    BY <2>1, <2>3, <2>5, <2>6
  <2>7. CASE q = r
    BY <2>1, <2>3, <2>5, <2>7
  <2>8. QED
    BY <2>4, <2>6, <2>7
<1>12. QED
  BY <1>3, <1>4, <1>8, <1>9, <1>10, <1>11 DEF AccountsInv, FoundingInv

\* What an insertion has at hand.
LEMMA CreatesSound ==
  ASSUME AccountsInv, NEW r \in Requests, Creates(r)
  PROVE  /\ ask(r).email \in Emails /\ NewUser(r) \in User /\ NoUser \notin User
         /\ ~At(r, "unsent") /\ Placed(request[r]) /\ Truthful(request[r])
         /\ At(r, "founded") => ask(r).asks = "register"
         /\ ask(r).asks # "register" =>
              /\ At(r, "free") /\ ask(r).asks = "create" /\ request[r].read # NoUser
              /\ NewUser(r).tenant = request[r].read.tenant
<1>1. /\ Placed(request[r]) /\ Truthful(request[r])
      /\ request[r].read \in User \cup {NoUser} /\ NoUser \notin User
  BY AccountsAssumption DEF AccountsInv, RequestsInv, Placed, Request
<1>2. /\ ~At(r, "unsent") /\ WellFormed(ask(r))
      /\ At(r, "founded") => ask(r).asks = "register"
  BY <1>1 DEF Placed, Creates, At, ask
<1>3. ask(r).asks \in {"register", "create"}
  BY <1>2 DEF Creates
<1>4. ask(r).email \in Emails
  BY <1>2, <1>3 DEF WellFormed, Public
<1>5. ask(r).asks # "register" =>
        /\ At(r, "free") /\ ask(r).asks = "create" /\ request[r].read # NoUser
        /\ NewUser(r).tenant = request[r].read.tenant
  BY <1>1, <1>2, <1>3 DEF Creates, Placed, NewUser, At, ask
<1>6. NewUser(r) \in User
  <2>1. CASE ask(r).asks = "register"
    BY <2>1 DEF NewUser, User, Roles
  <2>2. CASE ask(r).asks # "register"
    <3>1. ask(r).change \in Roles /\ request[r].read \in User
      BY <1>1, <1>2, <1>5, <2>2 DEF WellFormed
    <3>2. request[r].read.tenant \in Founded \cup Requests
      BY <3>1 DEF User
    <3>3. QED
      BY <2>2, <3>1, <3>2 DEF NewUser, User
  <2>3. QED
    BY <2>1, <2>2
<1>7. QED
  BY <1>1, <1>2, <1>4, <1>5, <1>6

\* register and create insert a user, or find the e-mail taken.
LEMMA InsertsUserKeeps ==
  ASSUME AccountsInv, NEW r \in Requests, InsertsUser(r)
  PROVE  AccountsInv'
<1>0. PICK e \in Emails, u \in User : e = ask(r).email /\ u = NewUser(r)
  BY CreatesSound DEF InsertsUser
<1>1. Creates(r) /\ UNCHANGED <<tenants, failures>> /\ failures' \subseteq Failures
  BY DEF InsertsUser, AccountsInv, AccountsTypeOK
<1>2. /\ NoUser \notin User
      /\ ~At(r, "unsent") /\ Placed(request[r]) /\ Truthful(request[r])
      /\ At(r, "founded") => ask(r).asks = "register"
      /\ ask(r).asks # "register" =>
           /\ At(r, "free") /\ ask(r).asks = "create" /\ request[r].read # NoUser
           /\ u.tenant = request[r].read.tenant
  BY <1>0, <1>1, CreatesSound
<1>3. CASE Exists(e)
  <2>1. GoesTo(r, NotStored(r)) /\ UNCHANGED users
    BY <1>0, <1>3 DEF InsertsUser
  <2>2. CASE At(r, "founded")
    BY <1>1, <1>2, <2>1, <2>2, MovesKeep DEF NotStored, InFlight, At
  <2>3. CASE ~At(r, "founded")
    <3>1. ask(r).asks = "create" /\ At(r, "free")
      BY <1>1, <2>3 DEF Creates
    <3>2. QED
      BY <1>1, <1>2, <2>1, <3>1, MovesKeep DEF NotStored, Ends, At
  <2>4. QED
    BY <2>2, <2>3
<1>4. CASE ~Exists(e)
  <2>1. users' = [users EXCEPT ![e] = u] /\ Stored(r, u)
    BY <1>0, <1>4 DEF InsertsUser
  <2>2. users'[e] = u /\ Exists(e)'
    BY <1>2, <2>1 DEF Exists, AccountsInv, AccountsTypeOK
  <2>3. CASE ask(r).asks = "register"
    <3>1. Reads(r, u, "stored")
      BY <2>1, <2>3 DEF Stored
    <3>2. /\ Only(r)
          /\ request'[r].ask = request[r].ask /\ request'[r].at = "stored"
          /\ request'[r].read = u
          /\ request'[r].answer = request[r].answer
      BY <1>2, <3>1, Effects DEF AccountsInv, InFlight
    <3>3. Placed(request[r])'
      BY <1>2, <2>3, <3>2 DEF Placed, Only, At, ask, Public
    <3>4. Truthful(request[r])'
      BY <1>0, <1>2, <2>2, <2>3, <3>2 DEF Truthful, Subject, Belongs, ask, Public
    <3>5. QED
      BY <1>0, <1>1, <1>2, <1>4, <2>1, <3>2, <3>3, <3>4, StoringKeeps
  <2>4. CASE ask(r).asks # "register"
    <3> DEFINE us == [None EXCEPT ![e] = u]
    <3>1. AnswersWith(r, us)
      BY <1>0, <2>1, <2>4 DEF Stored
    <3>2. us \in [Emails -> User \cup {NoUser}] /\ us[e] = u
          /\ \A f \in Emails \ {e} : us[f] = NoUser
      BY <1>2 DEF None
    <3> HIDE DEF us
    <3>3. /\ Only(r)
          /\ request'[r].ask = request[r].ask /\ request'[r].at = "answered"
          /\ request'[r].read = request[r].read
          /\ request'[r].answer = us
      BY <3>1, <3>2, Effects DEF AccountsInv
    <3>4. Placed(request[r])'
      BY <1>2, <3>3 DEF Placed, Only, At
    <3>5. Belongs(ask(r).by, request[r].read.tenant)
      BY <1>2, <2>4 DEF Truthful, Subject, ask, Public
    <3>6. /\ ask(r).by \in Emails /\ users'[ask(r).by] # NoUser
          /\ users'[ask(r).by].tenant = u.tenant
      BY <1>2, <1>4, <2>1, <2>2, <2>4, <3>5 DEF Belongs, Exists, AccountsInv, AccountsTypeOK
    <3>7. Truthful(request[r])'
      <4>1. /\ request'[r].ask.asks = "create" /\ request'[r].ask.email = e
            /\ request'[r].ask.by = ask(r).by
            /\ request'[r].read.tenant = u.tenant
        BY <1>0, <1>2, <2>4, <3>3 DEF ask
      <4>2. users'[e] # NoUser /\ users'[e].tenant = u.tenant /\ u # NoUser
        BY <1>2, <2>2 DEF Exists
      <4>3. QED
        BY <3>2, <3>3, <3>6, <4>1, <4>2 DEF Truthful, Subject, Belongs, Exists, Public, ForAdmins
    <3>8. QED
      BY <1>0, <1>1, <1>2, <1>4, <2>1, <3>3, <3>4, <3>7, StoringKeeps
  <2>5. QED
    BY <2>3, <2>4
<1>5. QED
  BY <1>3, <1>4

\* A user is inserted and the request does not hear of it.
LEMMA StoresUnheardKeeps ==
  ASSUME AccountsInv, NEW r \in Requests, StoresUnheard(r)
  PROVE  AccountsInv'
<1> DEFINE e == ask(r).email
           u == NewUser(r)
<1>1. /\ Creates(r) /\ ~Exists(e) /\ UNCHANGED tenants
      /\ failures \subseteq failures' /\ failures' \subseteq Failures
      /\ "lost answer" \in failures'
      /\ users' = [users EXCEPT ![e] = u] /\ GoesTo(r, NotStored(r))
  BY DEF StoresUnheard, Fails, Failures, AccountsInv, AccountsTypeOK
<1>2. /\ e \in Emails /\ u \in User /\ NoUser \notin User
      /\ ~At(r, "unsent") /\ Placed(request[r]) /\ Truthful(request[r])
      /\ At(r, "founded") => ask(r).asks = "register"
      /\ ask(r).asks # "register" => At(r, "free") /\ ask(r).asks = "create"
  BY <1>1, CreatesSound
<1>3. NotStored(r) \in {"compensating", "failed"}
      /\ (NotStored(r) = "compensating" => ask(r).asks = "register")
  BY DEF NotStored
<1>4. /\ Only(r)
      /\ request'[r].ask = request[r].ask /\ request'[r].at = NotStored(r)
      /\ request'[r].read = request[r].read
      /\ request'[r].answer = request[r].answer
  BY <1>1, <1>3, Effects DEF AccountsInv, InFlight, Ends
<1>5. Placed(request[r])'
  BY <1>2, <1>3, <1>4 DEF Placed, Only, At, ask
<1>6. Truthful(request[r])'
  <2>1. ASSUME request[r].read # NoUser
        PROVE  Belongs(Subject(request[r]), request[r].read.tenant)'
    <3>1. Belongs(Subject(request[r]), request[r].read.tenant)
      BY <1>2, <2>1 DEF Truthful
    <3>2. QED
      BY <1>1, <1>2, <1>4, <3>1 DEF Belongs, Subject, Exists, AccountsInv, AccountsTypeOK
  <2>2. QED
    BY <1>3, <1>4, <2>1 DEF Truthful
<1>7. QED
  BY <1>1, <1>2, <1>3, <1>4, <1>5, <1>6, StoringKeeps

-----------------------------------------------------------------------------
(* Every step.                                                             *)

\* A request is sent.
LEMMA SendsKeeps ==
  ASSUME AccountsInv, NEW r \in Requests, NEW a, WellFormed(a),
         Sends(r, a), UNCHANGED <<tenants, users, failures>>
  PROVE  AccountsInv'
<1>1. request \in [Requests -> Request] /\ a \in Ask /\ Placed(request[r])
  BY DEF AccountsInv, AccountsTypeOK, RequestsInv, WellFormed
<1>2. /\ Only(r)
      /\ request'[r].ask = a /\ request'[r].at = "received"
      /\ request'[r].read = request[r].read
      /\ request'[r].answer = request[r].answer
  BY <1>1 DEF Sends, Only, Request, InFlight
<1>3. request[r].read = NoUser /\ At(r, "unsent")
  BY <1>1 DEF Placed, Sends, At
<1>4. Kept
  BY DEF Kept, AccountsInv, AccountsTypeOK, Exists
<1>5. Placed(request[r])'
  BY <1>1, <1>2 DEF Placed, Only
<1>6. Truthful(request[r])'
  BY <1>2, <1>3 DEF Truthful
<1>7. \A e \in Emails : Exists(e)' => Used(users'[e].tenant)
  BY DEF Used, Exists
<1>8. ~Wins(request[r])'
  BY <1>2 DEF Wins
<1>9. failures' \subseteq Failures
  BY DEF AccountsInv, AccountsTypeOK
<1>10. Ordinary(r)
  BY <1>2, <1>3, <1>4, <1>5, <1>6, <1>7, <1>8, <1>9 DEF Ordinary, Sound, Landless, At
<1>11. QED
  BY <1>10, OrdinaryKeeps

\* Requests that are abandoned, or not, keep what they have read.
LEMMA AbandoningKeeps ==
  ASSUME AccountsInv, UNCHANGED <<tenants, users>>,
         failures \subseteq failures', failures' \subseteq Failures,
         request' \in [Requests -> Request],
         \A r \in Requests :
           \/ request'[r] = request[r]
           \/ /\ request'[r].ask = request[r].ask /\ request'[r].read = request[r].read
              /\ request[r].at \in InFlight /\ request'[r].at = "abandoned"
  PROVE  AccountsInv'
<1>1. AccountsTypeOK'
  BY DEF AccountsInv, AccountsTypeOK
<1>2. RequestsInv'
  <2>1. SUFFICES ASSUME NEW r \in Requests PROVE Placed(request[r])' /\ Truthful(request[r])'
    BY DEF RequestsInv
  <2>2. Placed(request[r]) /\ Truthful(request[r])
    BY DEF AccountsInv, RequestsInv
  <2>3. CASE request'[r] = request[r]
    BY <2>2, <2>3 DEF Placed, Truthful, Belongs, Exists
  <2>4. CASE /\ request'[r].ask = request[r].ask /\ request'[r].read = request[r].read
             /\ request[r].at \in InFlight /\ request'[r].at = "abandoned"
    <3>1. Placed(request[r])'
      BY <2>2, <2>4 DEF Placed, InFlight
    <3>2. Truthful(request[r])'
      BY <2>2, <2>4 DEF Truthful, Subject, Belongs, Exists
    <3>3. QED
      BY <3>1, <3>2
  <2>5. QED
    BY <2>3, <2>4
<1>3. ASSUME NEW t, Used(t)' PROVE Used(t)
  BY <1>3 DEF Used, Exists
<1>4. ASSUME NEW r \in Requests PROVE Founds(r)'
  <2>1. Founds(r)
    BY DEF AccountsInv, FoundingInv
  <2>2. QED
    BY <1>3, <2>1 DEF Founds, Landless, At
<1>5. "lost answer" \notin failures' =>
        \A t \in Founded \cup Requests : Used(t)' => t \in tenants'
  BY <1>3 DEF AccountsInv, FoundingInv
<1>6. TenantsAreInhabited'
  BY DEF TenantsAreInhabited, AccountsInv, FoundingInv, Exists
<1>7. WinnersInv'
  BY DEF WinnersInv, AccountsInv, Wins, ask
<1>8. QED
  BY <1>1, <1>2, <1>4, <1>5, <1>6, <1>7 DEF AccountsInv, FoundingInv

\* The API dies.
LEMMA CrashKeeps ==
  ASSUME AccountsInv, Crash
  PROVE  AccountsInv'
<1>1. request \in [Requests -> Request]
  BY DEF AccountsInv, AccountsTypeOK
<1>2. \A r \in Requests : "abandoned" \in InFlight \cup Ends \cup {"unsent"}
                         /\ [request[r] EXCEPT !.at = "abandoned"] \in Request
                         /\ [request[r] EXCEPT !.at = "abandoned"].at = "abandoned"
                         /\ [request[r] EXCEPT !.at = "abandoned"].ask = request[r].ask
                         /\ [request[r] EXCEPT !.at = "abandoned"].read = request[r].read
  BY <1>1 DEF Request, Ends
<1>3. request' = [r \in Requests |->
        IF request[r].at \in InFlight THEN [request[r] EXCEPT !.at = "abandoned"] ELSE request[r]]
  BY DEF Crash
<1>4. request' \in [Requests -> Request]
  BY <1>1, <1>2, <1>3
<1>5. \A r \in Requests :
        \/ request'[r] = request[r]
        \/ /\ request'[r].ask = request[r].ask /\ request'[r].read = request[r].read
           /\ request[r].at \in InFlight /\ request'[r].at = "abandoned"
  BY <1>2, <1>3
<1>6. failures \subseteq failures' /\ failures' \subseteq Failures /\ UNCHANGED <<tenants, users>>
  BY DEF Crash, Fails, Failures, AccountsInv, AccountsTypeOK
<1>7. QED
  BY <1>4, <1>5, <1>6, AbandoningKeeps

\* What a step of the browser does to the accounts, besides those of the API: it
\* sends a request, or gives one up.
BrowserStep ==
  \/ \E r \in Requests, a \in Ask :
       WellFormed(a) /\ Sends(r, a) /\ UNCHANGED <<tenants, users, failures>>
  \/ Fails("error") /\ UNCHANGED <<tenants, users, request>>
  \/ UNCHANGED accountVars

\* Every step of the API and of the browser keeps the accounts' invariant.
LEMMA AccountsStep ==
  ASSUME AccountsInv, AccountsNext \/ BrowserStep
  PROVE  AccountsInv'
<1>1. ASSUME NEW r \in Requests, Receive(r) PROVE AccountsInv'
  BY <1>1, SendsKeeps, AccountsAssumption DEF Receive
<1>2. ASSUME NEW r \in Requests, Handles(r) PROVE AccountsInv'
  BY <1>2, FindsCallerKeeps, AdmitsKeeps, AnswersMeKeeps, AnswersListKeeps, ChecksEmailKeeps,
     CreatesTenantKeeps, InsertsUserKeeps, RemovesTenantKeeps, AnswersTokenKeeps, FindsUserKeeps,
     FindsTenantKeeps, SavesLoginKeeps, UpdatesUserKeeps, ThrowsKeeps, StoresUnheardKeeps
  DEF Handles
<1>3. CASE Crash
  BY <1>3, CrashKeeps
<1>4. CASE BrowserStep
  <2>1. request \in [Requests -> Request] /\ failures \subseteq Failures
    BY DEF AccountsInv, AccountsTypeOK
  <2>2. CASE Fails("error") /\ UNCHANGED <<tenants, users, request>>
    BY <2>1, <2>2, AbandoningKeeps DEF Fails, Failures
  <2>3. CASE UNCHANGED accountVars
    BY <2>1, <2>3, AbandoningKeeps DEF accountVars
  <2>4. QED
    BY <1>4, <2>2, <2>3, SendsKeeps DEF BrowserStep
<1>5. QED
  BY <1>1, <1>2, <1>3, <1>4 DEF AccountsNext

\* The accounts' invariant holds initially.
LEMMA AccountsInitially ==
  AccountsInit => AccountsInv
<1> SUFFICES ASSUME AccountsInit PROVE AccountsInv
  OBVIOUS
<1>1. /\ Unsent \in Request
      /\ Unsent.at = "unsent" /\ Unsent.read = NoUser /\ Unsent.ask.asks = "me"
  BY DEF Unsent, Request, ToAsk, Ask, None, Changes, Roles, Public, ForAdmins
<1>2. \A r \in Requests : request[r] = Unsent
  BY DEF AccountsInit
<1>3. AccountsTypeOK
  BY <1>1, AccountsAssumption DEF AccountsInit, AccountsTypeOK
<1>4. RequestsInv
  BY <1>1, <1>2 DEF RequestsInv, Placed, Truthful
<1>5. \A t : Used(t) => t \in Founded
  BY <1>1, <1>2, AccountsAssumption DEF Used, AccountsInit, Exists
<1>6. tenants = Founded /\ tenants \cap Requests = {}
  BY AccountsAssumption DEF AccountsInit
<1>7. ASSUME NEW r \in Requests PROVE Founds(r)
  BY <1>1, <1>2, <1>5, <1>6 DEF Founds, At
<1>8. TenantsAreInhabited
  BY <1>6 DEF TenantsAreInhabited
<1>9. WinnersInv
  BY <1>1, <1>2 DEF WinnersInv, Wins
<1>10. QED
  BY <1>3, <1>4, <1>5, <1>6, <1>7, <1>8, <1>9 DEF AccountsInv, FoundingInv

\* Users stay, each in her workspace, and requests that were sent stay what they
\* are.
LEMMA Frame ==
  ASSUME AccountsInv, AccountsNext \/ BrowserStep
  PROVE  /\ \A e \in Emails : Exists(e) => Exists(e)' /\ users'[e].tenant = users[e].tenant
         /\ \A r \in Requests : ~At(r, "unsent") => ~At(r, "unsent")' /\ ask(r)' = ask(r)
<1> DEFINE Steady ==
      \A e \in Emails : Exists(e) => Exists(e)' /\ users'[e].tenant = users[e].tenant
           Asked ==
      \A r \in Requests : ~At(r, "unsent") => ~At(r, "unsent")' /\ ask(r)' = ask(r)
<1>1. request \in [Requests -> Request]
  BY DEF AccountsInv, AccountsTypeOK
<1>2. users \in [Emails -> User \cup {NoUser}] /\ NoUser \notin User
  BY AccountsAssumption DEF AccountsInv, AccountsTypeOK
<1>3. UNCHANGED users => Steady
  BY DEF Exists
<1>4. ASSUME NEW r \in Requests, NEW place, GoesTo(r, place), place # "unsent" PROVE Asked
  BY <1>1, <1>4 DEF GoesTo, At, ask, Request
<1>5. ASSUME NEW r \in Requests, NEW u, NEW place, Reads(r, u, place), place # "unsent" PROVE Asked
  BY <1>1, <1>5 DEF Reads, At, ask, Request
<1>6. ASSUME NEW r \in Requests, NEW us, AnswersWith(r, us) PROVE Asked
  BY <1>1, <1>6 DEF AnswersWith, At, ask, Request
<1>7. ASSUME NEW r \in Requests, NEW a, Sends(r, a) PROVE Asked
  BY <1>1, <1>7 DEF Sends, At, ask, Request
<1> HIDE DEF Steady, Asked
<1>8. ASSUME NEW r \in Requests, NEW u, Stored(r, u) PROVE Asked
  BY <1>5, <1>6, <1>8 DEF Stored
<1>9. ASSUME NEW r \in Requests, Handles(r) PROVE Steady /\ Asked
  <2>1. CASE FindsCaller(r)
    BY <2>1, <1>3, <1>4, <1>5 DEF FindsCaller
  <2>2. CASE Admits(r)
    <3>1. \E place \in {"unauthorized", "failed", "admitted"} : GoesTo(r, place)
      BY <2>2 DEF Admits
    <3>2. QED
      BY <2>2, <3>1, <1>3, <1>4 DEF Admits
  <2>3. CASE AnswersMe(r) \/ AnswersList(r) \/ AnswersToken(r)
    BY <2>3, <1>3, <1>6 DEF AnswersMe, AnswersList, AnswersToken
  <2>4. CASE ChecksEmail(r)
    <3>1. \E place \in {"failed", "free"} : GoesTo(r, place)
      BY <2>4 DEF ChecksEmail
    <3>2. QED
      BY <2>4, <3>1, <1>3, <1>4 DEF ChecksEmail
  <2>5. CASE CreatesTenant(r) \/ RemovesTenant(r)
    BY <2>5, <1>3, <1>4 DEF CreatesTenant, RemovesTenant
  <2>6. CASE InsertsUser(r)
    <3>1. NotStored(r) # "unsent"
      BY DEF NotStored
    <3>2. CASE Exists(ask(r).email)
      BY <2>6, <3>1, <3>2, <1>3, <1>4 DEF InsertsUser
    <3>3. CASE ~Exists(ask(r).email)
      <4>1. Steady
        BY <2>6, <3>3, <1>2 DEF InsertsUser, Exists, Steady
      <4>2. QED
        BY <2>6, <3>3, <4>1, <1>8 DEF InsertsUser
    <3>4. QED
      BY <3>2, <3>3
  <2>7. CASE FindsUser(r)
    BY <2>7, <1>3, <1>4, <1>5 DEF FindsUser
  <2>8. CASE FindsTenant(r)
    <3>1. \E place \in {"failed", "admitted"} : GoesTo(r, place)
      BY <2>8 DEF FindsTenant
    <3>2. QED
      BY <2>8, <3>1, <1>3, <1>4 DEF FindsTenant
  <2>9. CASE SavesLogin(r)
    <3>1. ASSUME NEW u \in User
          PROVE  /\ [u EXCEPT !.seen = TRUE] \in User
                 /\ [u EXCEPT !.seen = TRUE].tenant = u.tenant
      BY DEF User
    <3>2. users' = [users EXCEPT ![ask(r).email] = [users[ask(r).email] EXCEPT !.seen = TRUE]]
      BY <2>9 DEF SavesLogin
    <3>3. Steady
      BY <3>1, <3>2, <1>2 DEF Exists, Steady
    <3>4. QED
      BY <2>9, <3>3, <1>4 DEF SavesLogin
  <2>10. CASE UpdatesUser(r)
    <3>1. CASE SelfLockout(r) \/ ~Updatable(r)
      BY <2>10, <3>1, <1>3, <1>4 DEF UpdatesUser
    <3>2. CASE ~(SelfLockout(r) \/ ~Updatable(r))
      <4>1. /\ Updated(r) \in User /\ Updated(r).tenant = request[r].read.tenant
            /\ users' = [users EXCEPT ![ask(r).email] = Updated(r)]
            /\ AnswersWith(r, [None EXCEPT ![ask(r).email] = Updated(r)])
        BY <2>10, <3>2, UpdateEffect
      <4>2. users[ask(r).email].tenant = request[r].read.tenant
        BY <3>2 DEF Updatable
      <4>3. Steady
        BY <4>1, <4>2, <1>2 DEF Exists, Steady
      <4>4. QED
        BY <4>1, <4>3, <1>6
    <3>3. QED
      BY <3>1, <3>2
  <2>11. CASE Throws(r)
    <3>1. AfterError(r) # "unsent"
      BY DEF AfterError
    <3>2. QED
      BY <2>11, <3>1, <1>3, <1>4 DEF Throws
  <2>12. CASE StoresUnheard(r)
    <3>1. NotStored(r) # "unsent"
      BY DEF NotStored
    <3>2. Steady
      BY <2>12, <1>2 DEF StoresUnheard, Exists, Steady
    <3>3. QED
      BY <2>12, <3>1, <3>2, <1>4 DEF StoresUnheard
  <2>13. QED
    BY <1>9, <2>1, <2>2, <2>3, <2>4, <2>5, <2>6, <2>7, <2>8, <2>9, <2>10, <2>11, <2>12 DEF Handles
<1>10. ASSUME Crash PROVE Steady /\ Asked
  <2>1. \A r \in Requests : /\ [request[r] EXCEPT !.at = "abandoned"].ask = request[r].ask
                           /\ [request[r] EXCEPT !.at = "abandoned"].at = "abandoned"
    BY <1>1 DEF Request
  <2>2. Asked
    BY <1>10, <2>1 DEF Crash, At, ask, Asked
  <2>3. QED
    BY <1>10, <2>2, <1>3 DEF Crash
<1>11. ASSUME NEW r \in Requests, Receive(r) PROVE Steady /\ Asked
  BY <1>11, <1>3, <1>7 DEF Receive
<1>12. ASSUME BrowserStep PROVE Steady /\ Asked
  <2>1. UNCHANGED request => Asked
    BY DEF At, ask, Asked
  <2>2. QED
    BY <1>12, <2>1, <1>3, <1>7 DEF BrowserStep, accountVars
<1>13. Steady /\ Asked
  BY <1>9, <1>10, <1>11, <1>12 DEF AccountsNext
<1>14. QED
  BY <1>13 DEF Steady, Asked

-----------------------------------------------------------------------------
(* The browser.                                                            *)

\* Who is signed in is who her token says, and where she says.
SignedInInv ==
  user # SignedOut =>
    /\ token = user.email /\ token # Nobody /\ user.doc # NoUser
    /\ Belongs(user.email, user.doc.tenant)
    /\ ~checking /\ ~sessionError

\* A request that the browser waits for is of the session, or was left.
Attended(r) ==
  waits[r] # "nobody" =>
    /\ ~At(r, "unsent")
    /\ waits[r] = "app" <=> ask(r).asks \notin ForAdmins
    /\ ask(r).asks = "me" => ask(r).by = token /\ checking /\ ~sessionError
    /\ ask(r).asks \in Public => token = Nobody
    /\ waits[r] # "app" => ~checking /\ ~sessionError
    /\ waits[r] = "page" => mounted /\ ask(r).by = token

SessionInv ==
  /\ PagesTypeOK
  /\ SignedInInv
  /\ user = SignedOut /\ token # Nobody => checking \/ sessionError
  /\ checking => token # Nobody
  /\ mounted => user # SignedOut
  /\ TeamIsOfTheSession
  /\ \A r \in Requests : Attended(r)
  /\ \A r \in Requests, q \in Requests : waits[r] = "app" /\ waits[q] = "app" => r = q

\* The browser's invariant holds when it starts.
LEMMA SessionInitially ==
  PagesInit => SessionInv
<1> SUFFICES ASSUME PagesInit PROVE SessionInv
  OBVIOUS
<1>1. token \in Emails \cup {Nobody}
  BY PagesAssumption DEF PagesInit
<1>2. SignedOut \in [email : Emails \cup {Nobody}, doc : User \cup {NoUser}]
  BY DEF SignedOut
<1>3. None \in [Emails -> User \cup {NoUser}] /\ \A e \in Emails : None[e] = NoUser
  BY DEF None
<1>4. PagesTypeOK
  BY <1>1, <1>2, <1>3 DEF PagesInit, PagesTypeOK
<1>5. QED
  BY <1>3, <1>4 DEF PagesInit, SessionInv, SignedInInv, TeamIsOfTheSession, Attended

\* The accounts go on without the browser.
LEMMA SessionStays ==
  ASSUME AccountsInv, SessionInv, AccountsNext \/ BrowserStep, UNCHANGED pageVars
  PROVE  SessionInv'
<1>1. /\ \A e \in Emails : Exists(e) => Exists(e)' /\ users'[e].tenant = users[e].tenant
      /\ \A r \in Requests : ~At(r, "unsent") => ~At(r, "unsent")' /\ ask(r)' = ask(r)
  BY Frame
<1>2. /\ token' = token /\ user' = user /\ checking' = checking /\ sessionError' = sessionError
      /\ route' = route /\ mounted' = mounted /\ team' = team /\ updating' = updating
      /\ waits' = waits
  BY DEF pageVars, sessionVars, teamVars
<1>3. PagesTypeOK' /\ TeamIsOfTheSession'
  BY <1>2 DEF SessionInv, PagesTypeOK, TeamIsOfTheSession
<1>4. SignedInInv'
  BY <1>1, <1>2 DEF SessionInv, SignedInInv, Belongs
<1>5. ASSUME NEW r \in Requests PROVE Attended(r)'
  <2>1. Attended(r)
    BY DEF SessionInv
  <2>2. QED
    BY <1>1, <1>2, <2>1 DEF Attended
<1>6. QED
  BY <1>2, <1>3, <1>4, <1>5 DEF SessionInv

\* What the browser asks for, as whom, and what becomes of the session meanwhile.
Verifying(who, a) ==
  /\ a.asks = "me" /\ who = "app" /\ a.by = token /\ token # Nobody
  /\ ~Waits("me") /\ (checking \/ sessionError)
  /\ checking' = TRUE /\ sessionError' = FALSE /\ UNCHANGED <<mounted, updating>>
SigningIn(who, a) ==
  /\ a.asks \in Public /\ who = "app"
  /\ user = SignedOut /\ ~checking /\ ~(sessionError /\ token # Nobody)
  /\ ~Waits("login") /\ ~Waits("register")
  /\ UNCHANGED <<checking, sessionError, mounted, updating>>
Managing(who, a) ==
  /\ a.asks \in ForAdmins /\ who = "page" /\ a.by = token /\ user # SignedOut
  /\ mounted' = TRUE /\ updating' \in Emails \cup {Nobody}
  /\ UNCHANGED <<checking, sessionError>>

\* What the browser sends is well formed.
LEMMA RequestingSends ==
  ASSUME SessionInv, NEW r \in Requests, Requesting(r)
  PROVE  \E a \in Ask, who \in {"app", "page"} :
           /\ WellFormed(a) /\ Requires(r, who, a)
           /\ UNCHANGED <<token, user, team, route>>
           /\ Verifying(who, a) \/ SigningIn(who, a) \/ Managing(who, a)
<1>1. /\ token \in Emails \cup {Nobody} /\ Nobody \notin Emails
      /\ team \in [Emails -> User \cup {NoUser}] /\ updating \in Emails \cup {Nobody}
      /\ mounted \/ ShowsTeam => token \in Emails /\ user # SignedOut
      /\ mounted \in BOOLEAN
  BY AccountsAssumption DEF SessionInv, SignedInInv, PagesTypeOK, ShowsTeam
<1>2. ASSUME NEW asks \in Public \cup ForAdmins \cup {"me"}, NEW by \in Emails \cup {Nobody},
             NEW e \in Emails \cup {Nobody}, NEW change \in Changes
      PROVE  /\ ToAsk(asks, by, e, change) \in Ask
             /\ ToAsk(asks, by, e, change).asks = asks /\ ToAsk(asks, by, e, change).by = by
             /\ ToAsk(asks, by, e, change).email = e /\ ToAsk(asks, by, e, change).change = change
  BY DEF ToAsk, Ask
<1>3. CASE VerifySession(r)
  <2> DEFINE a == ToAsk("me", token, Nobody, "active")
  <2>1. token \in Emails /\ Requires(r, "app", a)
    BY <1>1, <1>3 DEF VerifySession
  <2>2. WellFormed(a) /\ a.asks = "me" /\ a.by = token
    BY <2>1, <1>2 DEF WellFormed, Changes, Public, ForAdmins
  <2> HIDE DEF a
  <2>3. Verifying("app", a) /\ UNCHANGED <<token, user, team, route>>
    BY <1>3, <2>2 DEF VerifySession, Verifying, teamVars
  <2>4. QED
    BY <2>1, <2>2, <2>3 DEF WellFormed
<1>4. CASE SignIn(r)
  <2>1. PICK e \in Emails, asks \in Public : Requires(r, "app", ToAsk(asks, Nobody, e, "active"))
    BY <1>4, PagesAssumption DEF SignIn
  <2> DEFINE a == ToAsk(asks, Nobody, e, "active")
  <2>2. WellFormed(a) /\ a.asks \in Public
    BY <1>2 DEF WellFormed, Changes, Public
  <2> HIDE DEF a
  <2>3. SigningIn("app", a) /\ UNCHANGED <<token, user, team, route>>
    BY <1>4, <2>2 DEF SignIn, SigningIn, sessionVars, teamVars
  <2>4. QED
    BY <2>1, <2>2, <2>3 DEF WellFormed, a
<1>5. CASE LoadUsers(r)
  <2> DEFINE a == ToAsk("list", token, Nobody, "active")
  <2>1. token \in Emails /\ Requires(r, "page", a)
    BY <1>1, <1>5 DEF LoadUsers
  <2>2. WellFormed(a) /\ a.asks \in ForAdmins /\ a.by = token
    BY <2>1, <1>2 DEF WellFormed, Changes, Public, ForAdmins
  <2> HIDE DEF a
  <2>3. Managing("page", a) /\ UNCHANGED <<token, user, team, route>>
    BY <1>1, <1>5, <2>2 DEF LoadUsers, Managing, sessionVars, ShowsTeam
  <2>4. QED
    BY <2>1, <2>2, <2>3 DEF WellFormed
<1>6. CASE CreateUser(r)
  <2>1. PICK e \in Emails, role \in Roles : Requires(r, "page", ToAsk("create", token, e, role))
    BY <1>6, PagesAssumption DEF CreateUser
  <2>2. token \in Emails
    BY <1>1, <1>6 DEF CreateUser
  <2> DEFINE a == ToAsk("create", token, e, role)
  <2>3. WellFormed(a) /\ a.asks \in ForAdmins /\ a.by = token
    BY <2>2, <1>2 DEF WellFormed, Changes, Public, ForAdmins
  <2> HIDE DEF a
  <2>4. Managing("page", a) /\ UNCHANGED <<token, user, team, route>>
    BY <1>1, <1>6, <2>3 DEF CreateUser, Managing, sessionVars, teamVars
  <2>5. QED
    BY <2>1, <2>3, <2>4 DEF WellFormed, a
<1>7. CASE UpdateUser(r)
  <2>1. PICK e \in Emails :
          updating' = e /\ \E change \in Offers(team[e]) :
            Requires(r, "page", ToAsk("update", token, e, change))
    BY <1>7 DEF UpdateUser
  <2>2. PICK change \in Offers(team[e]) : Requires(r, "page", ToAsk("update", token, e, change))
    BY <2>1
  <2>3. token \in Emails /\ change \in Changes
    BY <1>1, <1>7 DEF UpdateUser, Offers, Changes
  <2> DEFINE a == ToAsk("update", token, e, change)
  <2>4. WellFormed(a) /\ a.asks \in ForAdmins /\ a.by = token
    BY <2>3, <1>2 DEF WellFormed, Public, ForAdmins
  <2> HIDE DEF a
  <2>5. Managing("page", a) /\ UNCHANGED <<token, user, team, route>>
    BY <1>1, <1>7, <2>1, <2>4 DEF UpdateUser, Managing, sessionVars
  <2>6. QED
    BY <2>2, <2>4, <2>5 DEF WellFormed, a
<1>8. QED
  BY <1>3, <1>4, <1>5, <1>6, <1>7 DEF Requesting

\* What the browser sends keeps the session.
LEMMA RequestingKeeps ==
  ASSUME AccountsInv, SessionInv, NEW r \in Requests, Requesting(r)
  PROVE  AccountsInv' /\ SessionInv'
<1>1. PICK a \in Ask, who \in {"app", "page"} :
        /\ WellFormed(a) /\ Requires(r, who, a)
        /\ UNCHANGED <<token, user, team, route>>
        /\ Verifying(who, a) \/ SigningIn(who, a) \/ Managing(who, a)
  BY RequestingSends
<1>2. BrowserStep
  BY <1>1 DEF Requires, BrowserStep
<1>3. /\ \A e \in Emails : Exists(e) => Exists(e)' /\ users'[e].tenant = users[e].tenant
      /\ \A q \in Requests : ~At(q, "unsent") => ~At(q, "unsent")' /\ ask(q)' = ask(q)
      /\ AccountsInv'
  BY <1>2, Frame, AccountsStep
<1>4. request \in [Requests -> Request] /\ waits \in [Requests -> {"nobody", "app", "page", "left"}]
  BY DEF AccountsInv, AccountsTypeOK, SessionInv, PagesTypeOK
<1>5. /\ waits[r] = "nobody" /\ ~At(r, "unsent")' /\ ask(r)' = a
      /\ waits' = [waits EXCEPT ![r] = who]
  BY <1>1, <1>4 DEF Requires, Sends, At, ask, Request, SessionInv, Attended
<1>6. PagesTypeOK'
  BY <1>1, <1>4, <1>5 DEF SessionInv, PagesTypeOK, Verifying, SigningIn, Managing
<1>7. SignedInInv'
  BY <1>1, <1>3 DEF SessionInv, SignedInInv, Belongs, Verifying, SigningIn, Managing
<1>8. TeamIsOfTheSession'
  BY <1>1 DEF SessionInv, TeamIsOfTheSession
<1>9. /\ user' = SignedOut /\ token' # Nobody => checking' \/ sessionError'
      /\ checking' => token' # Nobody
      /\ mounted' => user' # SignedOut
  BY <1>1 DEF SessionInv, Verifying, SigningIn, Managing
<1>10. \A q \in Requests \ {r} :
         waits'[q] = waits[q] /\ (waits[q] # "nobody" => ~At(q, "unsent")' /\ ask(q)' = ask(q))
  BY <1>3, <1>4, <1>5 DEF SessionInv, Attended
<1>11. waits'[r] = who
  BY <1>4, <1>5
<1>12. \A q \in Requests : ask(q).asks \in Public \cup ForAdmins \cup {"me"}
  BY <1>4 DEF Request, Ask, ask
<1>13. CASE Verifying(who, a)
  <2>1. ASSUME NEW q \in Requests, waits[q] # "nobody" PROVE FALSE
    <3>1. Attended(q) /\ waits[q] \in {"app", "page", "left"}
      BY <1>4, <2>1 DEF SessionInv
    <3>2. ask(q).asks # "me"
      BY <1>13, <2>1, <3>1 DEF Verifying, Waits, Attended, ForAdmins
    <3>3. ask(q).asks \in ForAdmins
      BY <1>12, <1>13, <2>1, <3>1, <3>2 DEF Verifying, Attended
    <3>4. QED
      BY <1>13, <2>1, <3>1, <3>3 DEF Verifying, Attended
  <2>2. \A q \in Requests \ {r} : waits'[q] = "nobody"
    BY <2>1, <1>10
  <2>3. Attended(r)'
    BY <1>1, <1>5, <1>11, <1>13 DEF Attended, Verifying, Public, ForAdmins
  <2>4. \A q \in Requests : Attended(q)'
    BY <2>2, <2>3 DEF Attended
  <2>5. QED
    BY <2>2, <2>4, <1>3, <1>6, <1>7, <1>8, <1>9 DEF SessionInv
<1>14. CASE SigningIn(who, a)
  <2>1. token = Nobody /\ token' = token
    BY <1>1, <1>14 DEF SigningIn, SessionInv
  <2>2. ASSUME NEW q \in Requests, waits[q] = "app" PROVE FALSE
    <3>1. Attended(q)
      BY DEF SessionInv
    <3>2. ask(q).asks \notin {"me"} \cup ForAdmins
      BY <1>14, <2>2, <3>1 DEF SigningIn, Attended
    <3>3. ask(q).asks \in {"login", "register"}
      BY <1>12, <3>2 DEF Public
    <3>4. QED
      BY <1>14, <2>2, <3>3 DEF SigningIn, Waits
  <2>3. ASSUME NEW q \in Requests \ {r} PROVE Attended(q)'
    <3>1. Attended(q)
      BY DEF SessionInv
    <3>2. QED
      BY <1>1, <1>10, <1>14, <2>1, <3>1 DEF SigningIn, Attended
  <2>4. Attended(r)'
    BY <1>1, <1>5, <1>11, <1>14, <2>1 DEF Attended, SigningIn, Public, ForAdmins
  <2>5. \A q \in Requests \ {r} : waits'[q] # "app"
    BY <2>2, <1>10
  <2>6. QED
    BY <2>3, <2>4, <2>5, <1>3, <1>6, <1>7, <1>8, <1>9 DEF SessionInv
<1>15. CASE Managing(who, a)
  <2>1. ~checking' /\ ~sessionError' /\ token' = token /\ mounted'
    BY <1>1, <1>15 DEF Managing, SessionInv, SignedInInv
  <2>2. ASSUME NEW q \in Requests \ {r} PROVE Attended(q)'
    <3>1. Attended(q)
      BY DEF SessionInv
    <3>2. QED
      BY <1>10, <1>15, <2>1, <3>1 DEF Managing, Attended
  <2>3. Attended(r)'
    BY <1>5, <1>11, <1>15, <2>1 DEF Attended, Managing, Public, ForAdmins
  <2>4. \A q \in Requests, p \in Requests : waits'[q] = "app" /\ waits'[p] = "app" => q = p
    BY <1>10, <1>11, <1>15 DEF Managing, SessionInv
  <2>5. QED
    BY <2>2, <2>3, <2>4, <1>3, <1>6, <1>7, <1>8, <1>9 DEF SessionInv
<1>16. QED
  BY <1>1, <1>13, <1>14, <1>15

\* A page that is left keeps who waits for what.
LEMMA Leaving ==
  ASSUME NEW w \in [Requests -> {"nobody", "app", "page", "left"}], LeavesPage(w)
  PROVE  /\ waits' \in [Requests -> {"nobody", "app", "page", "left"}]
         /\ \A r \in Requests : waits'[r] = IF w[r] = "page" THEN "left" ELSE w[r]
         /\ route' = "list" /\ mounted' = FALSE /\ updating' = Nobody
         /\ team' \in [Emails -> User \cup {NoUser}]
         /\ \A e \in Emails : team'[e] = NoUser
BY DEF LeavesPage, None

\* While the session is verified, the browser waits for nothing else.
LEMMA VerifiesAlone ==
  ASSUME AccountsInv, SessionInv, NEW r \in Requests, waits[r] # "nobody", NEW q \in Requests,
         waits[q] # "nobody"
  PROVE  /\ ask(r).asks \in Public \cup ForAdmins \cup {"me"}
         /\ checking => ask(r).asks = "me"
         /\ ask(r).asks \notin ForAdmins /\ ask(q).asks \notin ForAdmins => r = q
         /\ ask(r).asks = "me" => r = q
<1>1. /\ ask(r).asks \in Public \cup ForAdmins \cup {"me"}
      /\ ask(q).asks \in Public \cup ForAdmins \cup {"me"}
  BY DEF AccountsInv, AccountsTypeOK, Request, Ask, ask
<1>2. Attended(r) /\ Attended(q)
  BY DEF SessionInv
<1>3. /\ checking => ask(r).asks = "me"
      /\ checking => ask(q).asks = "me"
  BY <1>1, <1>2 DEF Attended, SessionInv
<1>4. ask(r).asks \notin ForAdmins /\ ask(q).asks \notin ForAdmins => r = q
  BY <1>2 DEF Attended, SessionInv
<1>5. ask(r).asks = "me" => checking
  BY <1>2 DEF Attended
<1>6. "me" \notin ForAdmins
  BY DEF ForAdmins
<1>7. QED
  BY <1>1, <1>3, <1>4, <1>5, <1>6

\* Nothing of the accounts changes.
LEMMA AccountsStand ==
  ASSUME UNCHANGED accountVars
  PROVE  /\ AccountsInv => AccountsInv'
         /\ \A e \in Emails : users'[e] = users[e] /\ Exists(e)' = Exists(e)
         /\ \A r \in Requests : At(r, "unsent")' = At(r, "unsent") /\ ask(r)' = ask(r)
<1>1. AccountsInv => AccountsInv'
  BY AccountsStep DEF BrowserStep
<1>2. QED
  BY <1>1 DEF accountVars, Exists, At, ask

\* The browser goes to another route.
LEMMA GoesKeeps ==
  ASSUME AccountsInv, SessionInv, Goes
  PROVE  SessionInv'
<1>1. UNCHANGED <<accountVars, token, user, checking, sessionError>>
  BY DEF Goes, sessionVars
<1>2. CASE route = "list" /\ route' = "users" /\ UNCHANGED <<mounted, team, updating, waits>>
  <2>1. \A r \in Requests : Attended(r)'
    BY <1>1, <1>2, AccountsStand DEF SessionInv, Attended
  <2>2. SignedInInv' /\ TeamIsOfTheSession' /\ PagesTypeOK'
    BY <1>1, <1>2, AccountsStand
    DEF SessionInv, SignedInInv, Belongs, TeamIsOfTheSession, PagesTypeOK
  <2>3. QED
    BY <1>1, <1>2, <2>1, <2>2 DEF SessionInv
<1>3. CASE LeavesPage(waits)
  <2>1. /\ waits' \in [Requests -> {"nobody", "app", "page", "left"}]
        /\ \A r \in Requests : waits'[r] = IF waits[r] = "page" THEN "left" ELSE waits[r]
        /\ route' = "list" /\ mounted' = FALSE /\ updating' = Nobody
        /\ team' \in [Emails -> User \cup {NoUser}]
        /\ \A e \in Emails : team'[e] = NoUser
    BY <1>3, Leaving DEF SessionInv, PagesTypeOK
  <2>2. \A r \in Requests : Attended(r)'
    BY <1>1, <2>1, AccountsStand DEF SessionInv, Attended
  <2>3. SignedInInv' /\ TeamIsOfTheSession' /\ PagesTypeOK'
    BY <1>1, <2>1, AccountsStand
    DEF SessionInv, SignedInInv, Belongs, TeamIsOfTheSession, PagesTypeOK
  <2>4. QED
    BY <1>1, <2>1, <2>2, <2>3 DEF SessionInv
<1>4. QED
  BY <1>2, <1>3 DEF Goes

\* The user logs out.
LEMMA LogoutKeeps ==
  ASSUME AccountsInv, SessionInv, Logout
  PROVE  SessionInv'
<1>1. /\ UNCHANGED <<accountVars, checking, sessionError>> /\ ~checking
      /\ token' = Nobody /\ user' = SignedOut
  BY DEF Logout
<1>2. /\ waits' \in [Requests -> {"nobody", "app", "page", "left"}]
      /\ \A r \in Requests : waits'[r] = IF waits[r] = "page" THEN "left" ELSE waits[r]
      /\ route' = "list" /\ mounted' = FALSE /\ updating' = Nobody
      /\ team' \in [Emails -> User \cup {NoUser}]
      /\ \A e \in Emails : team'[e] = NoUser
  BY Leaving DEF Logout, SessionInv, PagesTypeOK
<1>3. \A r \in Requests : Attended(r)'
  BY <1>1, <1>2, AccountsStand DEF SessionInv, Attended
<1>4. SignedInInv' /\ TeamIsOfTheSession' /\ PagesTypeOK'
  BY <1>1, <1>2 DEF SessionInv, SignedInInv, TeamIsOfTheSession, PagesTypeOK, SignedOut
<1>5. QED
  BY <1>1, <1>2, <1>3, <1>4 DEF SessionInv

\* The page is left because of what r came back with.
LEMMA LeavingOver ==
  ASSUME SessionInv, NEW r \in Requests, LeavesPage(Over(r))
  PROVE  /\ waits' \in [Requests -> {"nobody", "app", "page", "left"}]
         /\ \A q \in Requests \ {r} : waits'[q] = IF waits[q] = "page" THEN "left" ELSE waits[q]
         /\ waits'[r] = "nobody"
         /\ route' = "list" /\ mounted' = FALSE /\ updating' = Nobody
         /\ team' \in [Emails -> User \cup {NoUser}]
         /\ \A e \in Emails : team'[e] = NoUser
<1>1. /\ Over(r) \in [Requests -> {"nobody", "app", "page", "left"}]
      /\ Over(r)[r] = "nobody" /\ \A q \in Requests \ {r} : Over(r)[q] = waits[q]
  BY DEF Over, SessionInv, PagesTypeOK
<1>2. QED
  BY <1>1, Leaving

\* A 401 ends the session.
LEMMA RefusedKeeps ==
  ASSUME AccountsInv, SessionInv, NEW r \in Requests, Refused(r)
  PROVE  SessionInv'
<1>1. /\ UNCHANGED <<accountVars, sessionError>> /\ waits[r] # "nobody"
      /\ token' = Nobody /\ user' = SignedOut
      /\ checking' = (checking /\ ask(r).asks # "me")
  BY DEF Refused, Awaited
<1>2. /\ waits' \in [Requests -> {"nobody", "app", "page", "left"}]
      /\ \A q \in Requests \ {r} : waits'[q] = IF waits[q] = "page" THEN "left" ELSE waits[q]
      /\ waits'[r] = "nobody"
      /\ route' = "list" /\ mounted' = FALSE /\ updating' = Nobody
      /\ team' \in [Emails -> User \cup {NoUser}]
      /\ \A e \in Emails : team'[e] = NoUser
  BY LeavingOver DEF Refused
<1>3. ~checking'
  BY <1>1, VerifiesAlone
<1>4. ASSUME NEW q \in Requests PROVE Attended(q)'
  <2>1. CASE q = r
    BY <1>2, <2>1 DEF Attended
  <2>2. CASE q # r /\ waits[q] # "nobody"
    <3>1. Attended(q)
      BY DEF SessionInv
    <3>2. ask(q).asks # "me"
      BY <1>1, <2>2, VerifiesAlone
    <3>3. QED
      BY <1>1, <1>2, <1>3, <2>2, <3>1, <3>2, AccountsStand DEF Attended
  <2>3. CASE q # r /\ waits[q] = "nobody"
    BY <1>2, <2>3 DEF Attended
  <2>4. QED
    BY <2>1, <2>2, <2>3
<1>5. SignedInInv' /\ TeamIsOfTheSession' /\ PagesTypeOK'
  BY <1>1, <1>2, <1>3 DEF SessionInv, SignedInInv, TeamIsOfTheSession, PagesTypeOK, SignedOut
<1>6. \A q \in Requests, p \in Requests : waits'[q] = "app" /\ waits'[p] = "app" => q = p
  BY <1>2 DEF SessionInv
<1>7. QED
  BY <1>1, <1>2, <1>3, <1>4, <1>5, <1>6 DEF SessionInv

\* The answer to a request that asks for one account is an account of that user.
LEMMA AnswerIsSession ==
  ASSUME AccountsInv, NEW r \in Requests, At(r, "answered"), NEW e,
         \/ ask(r).asks \in Public /\ e = ask(r).email
         \/ ask(r).asks = "me" /\ e = ask(r).by
  PROVE  /\ SessionOf(e, request[r].answer).email = e
         /\ SessionOf(e, request[r].answer).doc \in User
         /\ Belongs(e, SessionOf(e, request[r].answer).doc.tenant)
         /\ e # Nobody
<1>1. Truthful(request[r]) /\ request[r].answer \in [Emails -> User \cup {NoUser}]
  BY DEF AccountsInv, RequestsInv, Placed, Request
<1>2. request[r].answer[e] # NoUser /\ Belongs(e, request[r].answer[e].tenant)
  BY <1>1 DEF Truthful, ask, At
<1>3. e \in Emails /\ request[r].answer[e] \in User
  BY <1>1, <1>2 DEF Belongs
<1>4. QED
  BY <1>2, <1>3, AccountsAssumption DEF SessionOf

\* register or login begins a session.
LEMMA AuthenticatedKeeps ==
  ASSUME AccountsInv, SessionInv, NEW r \in Requests, Authenticated(r)
  PROVE  SessionInv'
<1>1. /\ UNCHANGED <<accountVars, checking>> /\ waits[r] # "nobody"
      /\ At(r, "answered") /\ ask(r).asks \in Public
      /\ token' = ask(r).email /\ user' = SessionOf(ask(r).email, request[r].answer)
      /\ sessionError' = FALSE
  BY DEF Authenticated, Awaited, At
<1>2. /\ waits' \in [Requests -> {"nobody", "app", "page", "left"}]
      /\ \A q \in Requests \ {r} : waits'[q] = IF waits[q] = "page" THEN "left" ELSE waits[q]
      /\ waits'[r] = "nobody"
      /\ route' = "list" /\ mounted' = FALSE /\ updating' = Nobody
      /\ team' \in [Emails -> User \cup {NoUser}]
      /\ \A e \in Emails : team'[e] = NoUser
  BY LeavingOver DEF Authenticated
<1>3. PICK e : e = ask(r).email
  OBVIOUS
<1>4. /\ user'.email = e /\ user'.doc \in User /\ Belongs(e, user'.doc.tenant) /\ e # Nobody
      /\ e \in Emails /\ token' = e
      /\ user' \in [email : Emails \cup {Nobody}, doc : User \cup {NoUser}]
  <2>1. /\ SessionOf(e, request[r].answer).email = e
        /\ SessionOf(e, request[r].answer).doc \in User
        /\ Belongs(e, SessionOf(e, request[r].answer).doc.tenant)
        /\ e # Nobody
    BY <1>1, <1>3, AnswerIsSession
  <2>2. user' = SessionOf(e, request[r].answer) /\ e \in Emails /\ token' = e
    BY <1>1, <1>3, <2>1 DEF Belongs
  <2>3. QED
    BY <2>1, <2>2 DEF SessionOf
<1>5. ~checking /\ token = Nobody
  BY <1>1 DEF SessionInv, Attended
<1>6. ASSUME NEW q \in Requests PROVE Attended(q)'
  <2>1. CASE q = r
    BY <1>2, <2>1 DEF Attended
  <2>2. CASE q # r /\ waits[q] # "nobody"
    <3>1. Attended(q)
      BY DEF SessionInv
    <3>2. ask(q).asks \in ForAdmins
      BY <1>1, <2>2, VerifiesAlone DEF Public, ForAdmins
    <3>3. QED
      BY <1>1, <1>2, <1>5, <2>2, <3>1, <3>2, AccountsStand DEF Attended, ForAdmins, Public
  <2>3. CASE q # r /\ waits[q] = "nobody"
    BY <1>2, <2>3 DEF Attended
  <2>4. QED
    BY <2>1, <2>2, <2>3
<1>7. NoUser \notin User
  BY AccountsAssumption
<1>8. SignedInInv' /\ TeamIsOfTheSession' /\ PagesTypeOK'
  <2>1. Belongs(user.email, user.doc.tenant)'
    BY <1>1, <1>4, AccountsStand DEF Belongs
  <2>2. SignedInInv'
    BY <1>1, <1>4, <1>5, <1>7, <2>1 DEF SignedInInv
  <2>3. QED
    BY <1>1, <1>2, <1>4, <2>2 DEF TeamIsOfTheSession, PagesTypeOK, SessionInv
<1>9. \A q \in Requests, p \in Requests : waits'[q] = "app" /\ waits'[p] = "app" => q = p
  BY <1>2 DEF SessionInv
<1>10. user' # SignedOut
  BY <1>4 DEF SignedOut
<1>11. QED
  BY <1>1, <1>2, <1>5, <1>6, <1>8, <1>9, <1>10 DEF SessionInv

\* The session that was kept is verified.
LEMMA VerifiedKeeps ==
  ASSUME AccountsInv, SessionInv, NEW r \in Requests, Verified(r)
  PROVE  SessionInv'
<1>1. /\ UNCHANGED <<accountVars, token, sessionError, teamVars>> /\ waits[r] # "nobody"
      /\ At(r, "answered") /\ ask(r).asks = "me"
      /\ user' = SessionOf(ask(r).by, request[r].answer)
      /\ checking' = FALSE /\ waits' = Over(r)
  BY DEF Verified, Awaited, At
<1>2. PICK e : e = ask(r).by
  OBVIOUS
<1>3. /\ user'.email = e /\ user'.doc \in User /\ Belongs(e, user'.doc.tenant) /\ e # Nobody
      /\ user' \in [email : Emails \cup {Nobody}, doc : User \cup {NoUser}]
  <2>1. /\ SessionOf(e, request[r].answer).email = e
        /\ SessionOf(e, request[r].answer).doc \in User
        /\ Belongs(e, SessionOf(e, request[r].answer).doc.tenant)
        /\ e # Nobody
    BY <1>1, <1>2, AnswerIsSession
  <2>2. user' = SessionOf(e, request[r].answer) /\ e \in Emails
    BY <1>1, <1>2, <2>1 DEF Belongs
  <2>3. QED
    BY <2>1, <2>2 DEF SessionOf
<1>4. e = token /\ checking /\ ~sessionError
  BY <1>1, <1>2 DEF SessionInv, Attended
<1>5. waits' \in [Requests -> {"nobody", "app", "page", "left"}]
      /\ \A q \in Requests : waits'[q] = "nobody"
  <2>1. \A q \in Requests \ {r} : waits[q] = "nobody"
    BY <1>1, VerifiesAlone
  <2>2. QED
    BY <1>1, <2>1 DEF Over, SessionInv, PagesTypeOK
<1>6. NoUser \notin User
  BY AccountsAssumption
<1>7. SignedInInv'
  <2>1. Belongs(user.email, user.doc.tenant)'
    BY <1>1, <1>3, AccountsStand DEF Belongs
  <2>2. QED
    BY <1>1, <1>3, <1>4, <1>6, <2>1 DEF SignedInInv
<1>8. TeamIsOfTheSession' /\ PagesTypeOK'
  <2>1. user = SignedOut /\ \A f \in Emails : team[f] = NoUser
    BY <1>4 DEF SessionInv, SignedInInv, TeamIsOfTheSession
  <2>2. QED
    BY <1>1, <1>3, <1>5, <2>1 DEF SessionInv, TeamIsOfTheSession, PagesTypeOK, teamVars
<1>9. user' # SignedOut
  BY <1>3 DEF SignedOut
<1>10. \A q \in Requests : Attended(q)'
  BY <1>5 DEF Attended
<1>11. QED
  BY <1>1, <1>5, <1>7, <1>8, <1>9, <1>10 DEF SessionInv

\* The page of the team takes an answer, or ignores it.
LEMMA TakenKeeps ==
  ASSUME AccountsInv, SessionInv, NEW r \in Requests, Taken(r)
  PROVE  SessionInv'
<1> DEFINE us == request[r].answer
<1>1. /\ UNCHANGED <<accountVars, token, user, checking, sessionError, route, mounted>>
      /\ waits[r] # "nobody" /\ At(r, "answered") /\ ask(r).asks \in ForAdmins
      /\ team' = IF waits[r] = "page" THEN TeamAfter(ask(r).asks, us) ELSE team
      /\ updating' = IF waits[r] = "page" /\ ask(r).asks = "update" THEN Nobody ELSE updating
      /\ waits' = Over(r)
  BY DEF Taken, Awaited, At, sessionVars
<1>2. /\ us \in [Emails -> User \cup {NoUser}] /\ team \in [Emails -> User \cup {NoUser}]
      /\ \A e \in Emails : us[e] # NoUser => Belongs(ask(r).by, us[e].tenant)
  BY <1>1 DEF AccountsInv, RequestsInv, Placed, Truthful, Request, ask, At, SessionInv, PagesTypeOK
<1> HIDE DEF us
<1>3. /\ waits' \in [Requests -> {"nobody", "app", "page", "left"}] /\ waits'[r] = "nobody"
      /\ \A q \in Requests \ {r} : waits'[q] = waits[q]
  BY <1>1 DEF Over, SessionInv, PagesTypeOK
<1>4. waits[r] = "page" => /\ user # SignedOut
                          /\ \A e \in Emails : us[e] # NoUser => us[e].tenant = user.doc.tenant
  BY <1>2 DEF SessionInv, Attended, SignedInInv, Belongs
<1>5. TeamIsOfTheSession' /\ team' \in [Emails -> User \cup {NoUser}]
  <2>1. CASE waits[r] = "page"
    <3>1. /\ team' \in [Emails -> User \cup {NoUser}]
          /\ \A e \in Emails : team'[e] \in {us[e], team[e]}
      BY <1>1, <1>2, <2>1 DEF TeamAfter
    <3>2. QED
      BY <1>1, <1>4, <2>1, <3>1 DEF SessionInv, TeamIsOfTheSession
  <2>2. CASE waits[r] # "page"
    BY <1>1, <1>2, <2>2 DEF SessionInv, TeamIsOfTheSession
  <2>3. QED
    BY <2>1, <2>2
<1>6. SignedInInv' /\ PagesTypeOK'
  BY <1>1, <1>3, <1>5, AccountsStand DEF SessionInv, SignedInInv, Belongs, PagesTypeOK
<1>7. ASSUME NEW q \in Requests PROVE Attended(q)'
  <2>1. Attended(q)
    BY DEF SessionInv
  <2>2. QED
    BY <1>1, <1>3, <2>1, AccountsStand DEF Attended
<1>8. \A q \in Requests, p \in Requests : waits'[q] = "app" /\ waits'[p] = "app" => q = p
  BY <1>3 DEF SessionInv
<1>9. QED
  BY <1>1, <1>5, <1>6, <1>7, <1>8 DEF SessionInv

\* A call that failed, whatever becomes of its request.
LEMMA FailedCallKeeps ==
  ASSUME AccountsInv, SessionInv, NEW r \in Requests, waits[r] # "nobody", FailedCall(r),
         UNCHANGED <<tenants, users, request>>
  PROVE  SessionInv'
<1>1. /\ token' = token /\ user' = user /\ route' = route /\ mounted' = mounted /\ team' = team
      /\ waits' = Over(r)
      /\ updating' = IF waits[r] = "page" /\ ask(r).asks = "update" THEN Nobody ELSE updating
  BY DEF FailedCall
<1>2. /\ waits' \in [Requests -> {"nobody", "app", "page", "left"}] /\ waits'[r] = "nobody"
      /\ \A q \in Requests \ {r} : waits'[q] = waits[q]
  BY <1>1 DEF Over, SessionInv, PagesTypeOK
<1>3. \A q \in Requests, p \in Requests : waits'[q] = "app" /\ waits'[p] = "app" => q = p
  BY <1>2 DEF SessionInv
<1>4. TeamIsOfTheSession'
  BY <1>1 DEF SessionInv, TeamIsOfTheSession
<1>5. CASE ask(r).asks = "me"
  <2>1. sessionError' = TRUE /\ checking' = FALSE
    BY <1>5 DEF FailedCall
  <2>2. user = SignedOut
    BY <1>5 DEF SessionInv, Attended, SignedInInv
  <2>3. \A q \in Requests : waits'[q] = "nobody"
    BY <1>2, <1>5, VerifiesAlone
  <2>4. SignedInInv' /\ PagesTypeOK' /\ \A q \in Requests : Attended(q)'
    BY <1>1, <1>2, <2>1, <2>2, <2>3 DEF SessionInv, SignedInInv, PagesTypeOK, Attended
  <2>5. QED
    BY <1>1, <1>3, <1>4, <2>1, <2>2, <2>4 DEF SessionInv
<1>6. CASE ask(r).asks # "me"
  <2>1. sessionError' = sessionError /\ checking' = checking
    BY <1>6 DEF FailedCall
  <2>2. SignedInInv' /\ PagesTypeOK'
    BY <1>1, <1>2, <2>1 DEF SessionInv, SignedInInv, Belongs, Exists, PagesTypeOK
  <2>3. ASSUME NEW q \in Requests PROVE Attended(q)'
    <3>1. Attended(q)
      BY DEF SessionInv
    <3>2. QED
      BY <1>1, <1>2, <2>1, <3>1 DEF Attended, At, ask
  <2>4. QED
    BY <1>1, <1>3, <1>4, <2>1, <2>2, <2>3 DEF SessionInv
<1>7. QED
  BY <1>5, <1>6

-----------------------------------------------------------------------------
(* The induction.                                                          *)

Inv == AccountsInv /\ SessionInv

\* The invariant holds initially.
LEMMA Initially ==
  Init => Inv
BY AccountsInitially, SessionInitially DEF Init, Inv

\* Every step keeps the invariant.
LEMMA Inductive ==
  Inv /\ [Next]_accountPagesVars => Inv'
<1> SUFFICES ASSUME AccountsInv, SessionInv, [Next]_accountPagesVars PROVE AccountsInv' /\ SessionInv'
  BY DEF Inv
<1>1. CASE AccountsNext /\ UNCHANGED pageVars
  BY <1>1, AccountsStep, SessionStays
<1>2. CASE Goes
  <2>1. UNCHANGED accountVars
    BY <1>2 DEF Goes
  <2>2. QED
    BY <1>2, <2>1, AccountsStand, GoesKeeps
<1>3. CASE Logout
  <2>1. UNCHANGED accountVars
    BY <1>3 DEF Logout
  <2>2. QED
    BY <1>3, <2>1, AccountsStand, LogoutKeeps
<1>4. ASSUME NEW r \in Requests, Requesting(r) PROVE AccountsInv' /\ SessionInv'
  BY <1>4, RequestingKeeps
<1>5. ASSUME NEW r \in Requests, Landing(r) PROVE AccountsInv' /\ SessionInv'
  <2>1. CASE GivesUp(r)
    <3>1. Fails("error") /\ UNCHANGED <<tenants, users, request>> /\ waits[r] # "nobody" /\ FailedCall(r)
      BY <2>1 DEF GivesUp
    <3>2. BrowserStep
      BY <3>1 DEF BrowserStep
    <3>3. QED
      BY <3>1, <3>2, AccountsStep, FailedCallKeeps
  <2>2. CASE ~GivesUp(r)
    <3>1. UNCHANGED accountVars
      BY <1>5, <2>2 DEF Landing, Refused, Authenticated, Verified, Taken, Failed
    <3>2. AccountsInv'
      BY <3>1, AccountsStand
    <3>3. Failed(r) => SessionInv'
      BY <3>1, FailedCallKeeps DEF Failed, Awaited, accountVars
    <3>4. QED
      BY <1>5, <2>2, <3>2, <3>3, RefusedKeeps, AuthenticatedKeeps, VerifiedKeeps, TakenKeeps DEF Landing
  <2>3. QED
    BY <2>1, <2>2
<1>6. CASE UNCHANGED accountPagesVars
  <2>1. UNCHANGED accountVars /\ UNCHANGED pageVars
    BY <1>6 DEF accountPagesVars
  <2>2. QED
    BY <2>1, AccountsStep, SessionStays DEF BrowserStep
<1>7. QED
  BY <1>1, <1>2, <1>3, <1>4, <1>5, <1>6 DEF Next

\* The invariant holds in every reachable state.
LEMMA Invariant ==
  Spec => []Inv
<1>1. QED
  BY Initially, Inductive, PTL DEF Spec

-----------------------------------------------------------------------------
(* Theorems.                                                               *)

\* Accounts, requests and the pages keep to their types.
THEOREM AccountsTypeCorrect ==
  Spec => []PagesAndAccountsTypeOK
<1>1. Inv => PagesAndAccountsTypeOK
  BY DEF Inv, AccountsInv, SessionInv, PagesAndAccountsTypeOK
<1>2. QED
  BY <1>1, Invariant, PTL

\* Nobody belongs to a workspace that register has removed (auth.service.ts:61),
\* as long as no answer to the insertion of a user was lost.
THEOREM CompensationTakesNobodysWorkspace ==
  Spec => []UsersHaveTenants
<1>1. Inv => UsersHaveTenants
  <2>1. SUFFICES ASSUME Inv, "lost answer" \notin failures, NEW e \in Emails, Exists(e)
                 PROVE  users[e].tenant \in tenants
    BY DEF UsersHaveTenants
  <2>2. users[e].tenant \in Founded \cup Requests
    BY <2>1 DEF Inv, AccountsInv, AccountsTypeOK, Exists, User
  <2>3. Used(users[e].tenant)
    BY <2>1 DEF Used
  <2>4. QED
    BY <2>1, <2>2, <2>3 DEF Inv, AccountsInv, FoundingInv
<1>2. QED
  BY <1>1, Invariant, PTL

\* A workspace without a user is of a registration that is not over or was cut
\* short (README.md:209).
THEOREM NoWorkspaceIsLeftBehind ==
  Spec => []TenantsAreInhabited
<1>1. Inv => TenantsAreInhabited
  BY DEF Inv, AccountsInv, FoundingInv
<1>2. QED
  BY <1>1, Invariant, PTL

\* Of requests that race for an e-mail at most one is told that it won
\* (user.schema.ts, its unique index; auth.service.ts:46).
THEOREM EmailsAreWonOnce ==
  Spec => []OneWinnerPerEmail
<1>1. Inv => OneWinnerPerEmail
  <2>1. SUFFICES ASSUME Inv, NEW r \in Requests, At(r, "answered"), ask(r).asks \in {"register", "create"}
                 PROVE  /\ users[ask(r).email].tenant = request[r].answer[ask(r).email].tenant
                        /\ \A q \in Requests \ {r} :
                             At(q, "answered") /\ ask(q).asks \in {"register", "create"} =>
                               ask(q).email # ask(r).email
    BY DEF OneWinnerPerEmail
  <2>2. Truthful(request[r])
    BY <2>1 DEF Inv, AccountsInv, RequestsInv
  <2>3. users[ask(r).email].tenant = request[r].answer[ask(r).email].tenant
    BY <2>1, <2>2 DEF Truthful, Belongs, At, ask, Public
  <2>4. Wins(request[r])
    BY <2>1 DEF Wins, At, ask
  <2>5. ASSUME NEW q \in Requests \ {r}, At(q, "answered"), ask(q).asks \in {"register", "create"}
        PROVE  ask(q).email # ask(r).email
    <3>1. Wins(request[q])
      BY <2>5 DEF Wins, At, ask
    <3>2. QED
      BY <2>1, <2>4, <2>5, <3>1 DEF Inv, AccountsInv, WinnersInv
  <2>6. QED
    BY <2>3, <2>5
<1>2. QED
  BY <1>1, Invariant, PTL

\* Who is signed in has the token of the session, after any sequence of late
\* answers (App.tsx:62, api.ts:233).
THEOREM SessionsAgree ==
  Spec => []SessionHasItsToken
<1>1. Inv => SessionHasItsToken
  BY DEF Inv, SessionInv, SignedInInv, SessionHasItsToken
<1>2. QED
  BY <1>1, Invariant, PTL

\* The page of the team shows people of the workspace of the session only
\* (UserManagementPage.tsx, users.service.ts:35).
THEOREM TeamsStayInTheirWorkspace ==
  Spec => []TeamIsOfTheSession
<1>1. Inv => TeamIsOfTheSession
  BY DEF Inv, SessionInv
<1>2. QED
  BY <1>1, Invariant, PTL

-----------------------------------------------------------------------------
(* What a step does to the rights of users, and to the session.            *)

SameRights(e) ==
  /\ users'[e] # NoUser /\ users'[e].tenant = users[e].tenant
  /\ users'[e].role = users[e].role /\ users'[e].active = users[e].active

\* Rights change by an update that is let through, and nothing else.
LEMMA RightsChange ==
  ASSUME Inv, [Next]_accountPagesVars
  PROVE  \/ \A e \in Emails : Exists(e) => SameRights(e)
         \/ \E r \in Requests : UpdatesUser(r) /\ ~SelfLockout(r) /\ Updatable(r)
<1> DEFINE Same == \A e \in Emails : Exists(e) => SameRights(e)
<1>1. users \in [Emails -> User \cup {NoUser}] /\ NoUser \notin User /\ AccountsInv
  BY AccountsAssumption DEF Inv, AccountsInv, AccountsTypeOK
<1>2. UNCHANGED users => Same
  BY DEF Exists, SameRights
<1>3. ASSUME NEW r \in Requests, InsertsUser(r) \/ StoresUnheard(r) PROVE Same
  <2>1. CASE UNCHANGED users
    BY <2>1, <1>2
  <2>2. CASE ~Exists(ask(r).email) /\ users' = [users EXCEPT ![ask(r).email] = NewUser(r)]
    BY <2>2, <1>1 DEF Exists, SameRights
  <2>3. QED
    BY <1>3, <2>1, <2>2 DEF InsertsUser, StoresUnheard
<1>4. ASSUME NEW r \in Requests, SavesLogin(r) PROVE Same
  <2>1. ASSUME NEW u \in User
        PROVE  /\ [u EXCEPT !.seen = TRUE] \in User
               /\ [u EXCEPT !.seen = TRUE].tenant = u.tenant
               /\ [u EXCEPT !.seen = TRUE].role = u.role
               /\ [u EXCEPT !.seen = TRUE].active = u.active
    BY DEF User
  <2>2. users' = [users EXCEPT ![ask(r).email] = [users[ask(r).email] EXCEPT !.seen = TRUE]]
    BY <1>4 DEF SavesLogin
  <2>3. QED
    BY <2>1, <2>2, <1>1 DEF Exists, SameRights
<1>5. ASSUME NEW r \in Requests, UpdatesUser(r)
      PROVE  Same \/ (~SelfLockout(r) /\ Updatable(r))
  BY <1>2, <1>5 DEF UpdatesUser
<1> HIDE DEF Same
<1>6. CASE AccountsNext
  <2>1. CASE Crash \/ \E r \in Requests : Receive(r)
    BY <2>1, <1>2 DEF Crash, Receive, Same
  <2>2. CASE \E r \in Requests : Handles(r)
    <3>1. PICK r \in Requests : Handles(r)
      BY <2>2
    <3>2. CASE InsertsUser(r) \/ StoresUnheard(r) \/ SavesLogin(r) \/ UpdatesUser(r)
      BY <3>2, <1>3, <1>4, <1>5 DEF Same
    <3>3. CASE ~(InsertsUser(r) \/ StoresUnheard(r) \/ SavesLogin(r) \/ UpdatesUser(r))
      <4>1. UNCHANGED users
        BY <3>1, <3>3 DEF Handles, FindsCaller, Admits, AnswersMe, AnswersList, ChecksEmail,
           CreatesTenant, RemovesTenant, AnswersToken, FindsUser, FindsTenant, Throws
      <4>2. QED
        BY <4>1, <1>2 DEF Same
    <3>4. QED
      BY <3>2, <3>3
  <2>3. QED
    BY <1>6, <2>1, <2>2 DEF AccountsNext
<1>7. CASE ~AccountsNext
  <2>1. UNCHANGED users
    <3>1. CASE Goes \/ Logout
      BY <3>1 DEF Goes, Logout, accountVars
    <3>2. ASSUME NEW r \in Requests, Requesting(r) PROVE UNCHANGED users
      <4>1. PICK a \in Ask, who \in {"app", "page"} : Requires(r, who, a)
        BY <3>2, RequestingSends DEF Inv
      <4>2. QED
        BY <4>1 DEF Requires
    <3>3. ASSUME NEW r \in Requests, Landing(r) PROVE UNCHANGED users
      BY <3>3 DEF Landing, Refused, Authenticated, Verified, Taken, Failed, GivesUp, accountVars
    <3>4. CASE UNCHANGED accountPagesVars
      BY <3>4 DEF accountPagesVars, accountVars
    <3>5. QED
      BY <1>7, <3>1, <3>2, <3>3, <3>4 DEF Next
  <2>2. QED
    BY <2>1, <1>2 DEF Same
<1>8. QED
  BY <1>6, <1>7

\* What an update that is let through does to each user.
LEMMA UpdateRights ==
  ASSUME AccountsInv, NEW r \in Requests, UpdatesUser(r), ~SelfLockout(r), Updatable(r)
  PROVE  /\ At(r, "admitted") /\ ~At(r, "admitted")' /\ ask(r).asks = "update"
         /\ ask(r).change \in Changes /\ users[ask(r).email] \in User
         /\ users'[ask(r).email] = Updated(r) /\ Updated(r) \in User
         /\ Updated(r).tenant = users[ask(r).email].tenant
         /\ \A e \in Emails : e # ask(r).email => users'[e] = users[e]
<1>1. /\ ask(r).email \in Emails /\ ask(r).change \in Changes
      /\ users[ask(r).email] \in User
      /\ Updated(r) \in User /\ Updated(r).tenant = request[r].read.tenant
      /\ users' = [users EXCEPT ![ask(r).email] = Updated(r)]
      /\ AnswersWith(r, [None EXCEPT ![ask(r).email] = Updated(r)])
  BY UpdateEffect
<1>2. users \in [Emails -> User \cup {NoUser}] /\ request \in [Requests -> Request]
  BY DEF AccountsInv, AccountsTypeOK
<1>3. ~At(r, "admitted")'
  BY <1>1, <1>2 DEF AnswersWith, At, Request
<1>4. users[ask(r).email].tenant = request[r].read.tenant
  BY DEF Updatable
<1>5. QED
  BY <1>1, <1>2, <1>3, <1>4 DEF UpdatesUser

\* Nobody gets rights back except by a request to update her: a login that read
\* the account before it was changed does not (auth.service.ts:94).
THEOREM LoginsGiveNoRightsBack ==
  Spec => DeactivationSticks
<1> DEFINE Step ==
      \A e \in Emails :
        Exists(e) /\ ((~users[e].active /\ users'[e].active)
                      \/ (users[e].role = "MEMBER" /\ users'[e].role = "ADMIN")) =>
          \E r \in Requests :
            /\ At(r, "admitted") /\ ~At(r, "admitted")'
            /\ ask(r).asks = "update" /\ ask(r).email = e
            /\ ask(r).change \in {"active", "ADMIN"}
<1>1. ASSUME Inv, [Next]_accountPagesVars PROVE Step
  <2>1. SUFFICES ASSUME NEW e \in Emails, Exists(e),
                        \/ ~users[e].active /\ users'[e].active
                        \/ users[e].role = "MEMBER" /\ users'[e].role = "ADMIN"
                 PROVE  \E r \in Requests :
                          /\ At(r, "admitted") /\ ~At(r, "admitted")'
                          /\ ask(r).asks = "update" /\ ask(r).email = e
                          /\ ask(r).change \in {"active", "ADMIN"}
    OBVIOUS
  <2>2. ~SameRights(e)
    BY <2>1 DEF SameRights
  <2>3. PICK r \in Requests : UpdatesUser(r) /\ ~SelfLockout(r) /\ Updatable(r)
    BY <1>1, <2>1, <2>2, RightsChange
  <2>4. /\ At(r, "admitted") /\ ~At(r, "admitted")' /\ ask(r).asks = "update"
        /\ ask(r).change \in Changes /\ users[ask(r).email] \in User
        /\ users'[ask(r).email] = Updated(r)
        /\ \A f \in Emails : f # ask(r).email => users'[f] = users[f]
    BY <1>1, <2>3, UpdateRights DEF Inv
  <2>5. ask(r).email = e
    BY <2>1, <2>4
  <2>6. ask(r).change \in {"active", "ADMIN"}
    BY <2>1, <2>4, <2>5, ChangedUser DEF Updated
  <2>7. QED
    BY <2>4, <2>5, <2>6
<1>2. Inv /\ [Next]_accountPagesVars => [Step]_accountVars
  BY <1>1
<1>3. QED
  BY <1>2, Invariant, PTL DEF Spec, DeactivationSticks

\* A workspace loses its last administrator only by two updates that overlap:
\* the check of the caller and the guard against locking oneself out are of an
\* earlier moment than the write (users.service.ts:80).
THEOREM LastAdminsAreLostByOverlap ==
  Spec => AdminsAreLostByOverlapOnly
<1> DEFINE Step ==
      \A t \in tenants :
        (\E e \in Emails : IsAdmin(e, t)) /\ ~(\E e \in Emails : IsAdmin(e, t)') =>
          \E r \in Requests :
            /\ At(r, "admitted") /\ ask(r).asks = "update" /\ ~At(r, "admitted")'
            /\ ~IsAdmin(ask(r).by, t)
<1>1. ASSUME Inv, [Next]_accountPagesVars PROVE Step
  <2>1. SUFFICES ASSUME NEW t \in tenants, NEW e \in Emails, IsAdmin(e, t),
                        \A f \in Emails : ~IsAdmin(f, t)'
                 PROVE  \E r \in Requests :
                          /\ At(r, "admitted") /\ ask(r).asks = "update" /\ ~At(r, "admitted")'
                          /\ ~IsAdmin(ask(r).by, t)
    OBVIOUS
  <2>2. Exists(e) /\ ~SameRights(e)
    BY <2>1 DEF SameRights, IsAdmin, Exists
  <2>3. PICK r \in Requests : UpdatesUser(r) /\ ~SelfLockout(r) /\ Updatable(r)
    BY <1>1, <2>2, RightsChange
  <2>4. /\ At(r, "admitted") /\ ~At(r, "admitted")' /\ ask(r).asks = "update"
        /\ ask(r).change \in Changes /\ users[ask(r).email] \in User
        /\ users'[ask(r).email] = Updated(r) /\ Updated(r) \in User
        /\ Updated(r).tenant = users[ask(r).email].tenant
        /\ \A f \in Emails : f # ask(r).email => users'[f] = users[f]
    BY <1>1, <2>3, UpdateRights DEF Inv
  <2>5. ask(r).by \in Emails /\ NoUser \notin User
    <3>1. WellFormed(ask(r))
      BY <1>1, <2>4 DEF Inv, AccountsInv, RequestsInv, Placed, At, ask
    <3>2. QED
      BY <2>4, <3>1, AccountsAssumption DEF WellFormed, Public
  <2>6. ASSUME IsAdmin(ask(r).by, t) PROVE FALSE
    <3>1. CASE ask(r).by # ask(r).email
      <4>1. users'[ask(r).by] = users[ask(r).by]
        BY <2>4, <2>5, <3>1
      <4>2. PICK f \in Emails : f = ask(r).by
        BY <2>5
      <4>3. IsAdmin(f, t)'
        BY <2>6, <4>1, <4>2 DEF IsAdmin, Exists
      <4>4. QED
        BY <2>1, <4>3
    <3>2. CASE ask(r).by = ask(r).email
      <4>1. ask(r).change \notin {"inactive", "MEMBER"}
        BY <2>3, <3>2 DEF SelfLockout
      <4>2. Updated(r).active /\ Updated(r).role = "ADMIN" /\ Updated(r).tenant = t
        BY <2>4, <2>6, <3>2, <4>1, ChangedUser DEF Updated, IsAdmin
      <4>3. PICK f \in Emails : f = ask(r).email
        BY <2>5, <3>2
      <4>4. IsAdmin(f, t)'
        BY <2>4, <2>5, <4>2, <4>3 DEF IsAdmin, Exists
      <4>5. QED
        BY <2>1, <4>4
    <3>3. QED
      BY <3>1, <3>2
  <2>7. QED
    BY <2>4, <2>6
<1>2. Inv /\ [Next]_accountPagesVars => [Step]_accountVars
  BY <1>1
<1>3. QED
  BY <1>2, Invariant, PTL DEF Spec, AdminsAreLostByOverlapOnly

\* A session ends by logging out or by a 401, never by an error, a crash or a
\* call given up (App.tsx:62).
THEOREM SessionsSurviveFailures ==
  Spec => FailuresKeepTheSession
<1> DEFINE Step ==
      token # Nobody /\ token' # token =>
        \/ Logout
        \/ \E r \in Requests : Awaited(r, {"unauthorized"}) /\ waits'[r] = "nobody"
<1>1. ASSUME Inv, [Next]_accountPagesVars PROVE Step
  <2>1. SUFFICES ASSUME token # Nobody, token' # token, ~Logout
                 PROVE  \E r \in Requests : Awaited(r, {"unauthorized"}) /\ waits'[r] = "nobody"
    OBVIOUS
  <2>2. ASSUME NEW r \in Requests, Authenticated(r) PROVE FALSE
    <3>1. Attended(r)
      BY <1>1 DEF Inv, SessionInv
    <3>2. QED
      BY <2>1, <2>2, <3>1 DEF Authenticated, Awaited, Attended
  <2>3. PICK r \in Requests : Landing(r)
    <3>1. ASSUME NEW r \in Requests, Requesting(r) PROVE FALSE
      BY <2>1, <3>1 DEF Requesting, VerifySession, SignIn, LoadUsers, CreateUser, UpdateUser, sessionVars
    <3>2. QED
      BY <1>1, <2>1, <3>1 DEF Next, Goes, pageVars, sessionVars, accountPagesVars
  <2>4. Refused(r)
    BY <2>1, <2>2, <2>3 DEF Landing, Verified, Taken, Failed, GivesUp, FailedCall, sessionVars
  <2>5. waits'[r] = "nobody"
    BY <1>1, <2>4, LeavingOver DEF Refused, Inv
  <2>6. QED
    BY <2>4, <2>5 DEF Refused
<1>2. Inv /\ [Next]_accountPagesVars => [Step]_accountPagesVars
  BY <1>1
<1>3. QED
  BY <1>2, Invariant, PTL DEF Spec, FailuresKeepTheSession

=============================================================================
