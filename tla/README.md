# A TLA+ model of the brief service

Users write a *brief* in a browser. The API (NestJS) stores it in MongoDB and
puts its id on a BullMQ queue in Redis. A worker takes the job, has a provider
(OpenRouter) analyse the text, stores the result and publishes an event, which
a gateway passes on to the browsers. MongoDB and Redis share no transaction,
processes die, calls time out, answers come late, and a cycle in the API
repairs what was lost. This project models the service in four parts, checks
each with TLC and proves its main safety properties with TLAPS.

Paths below are relative to the repository (`src/`).

## 1. Inventory

| Component | State | Operations | Modelled in |
|---|---|---|---|
| Brief document (`backend/src/briefs/schemas`, `worker/src/briefs/brief-repository.ts`) | status, text, result, error, `updatedAt` | guarded single-document updates | `BriefDocuments` |
| Queue `brief-analysis` (BullMQ; `briefs-queue.service.ts`, `app.module.ts`) | a job per brief: state, attempts, stalls, lock | add, remove, take, settle, promote, stalled check, trim | `BriefJobs`, `BriefWorker` |
| Worker (`worker/src/briefs/brief-processor.ts`) | where each execution stands, what it read | `processBrief`, one step per await | `BriefWorker` |
| API writes (`backend/src/briefs/briefs.service.ts`) | the requests in progress | create, retry, update, remove | `BriefApi` |
| Reconciliation (`brief-reconciliation.service.ts`) | `running`, the list read, the current brief | `reconcile`, `ensureAnalysis` | `BriefReconciliation` |
| Worker start and shutdown (`worker/src/main.ts`, `operations.ts`) | resources, `isShuttingDown`, exit code | bootstrap, shutdown | `WorkerProcess` |
| Dead-letter queue (`worker/src/job-failure.ts`, `main.ts`) | copies of failed jobs | `describeJobFailure`, `publishDeadLetter` | `WorkerProcess` |
| Provider client, result schema (`worker/src/llm`, `worker/src/errors`), input quality (`shared`) | none | classify a reply, validate a result, judge a text | `BriefAnalysis` |
| Events (`realtime/brief-events.gateway.ts`, `frontend/src/brief-events.ts`) | channel, room, socket | publish, authenticate, join, forward, reconnect | `BriefEvents` |
| Page of a brief (`frontend/src/pages/BriefDetailPage.tsx`) | the brief shown, its calls | load, poll, follow events, edit, retry, remove | `BriefDetailPage` |
| Page of the list (`BriefListPage.tsx`), `findAll` | filter, page, listing, its loads | load, poll, filter, turn the page | `BriefListPage` |
| Accounts (`backend/src/auth`, `backend/src/users`) | users, tenants, requests | register, login, authenticate, list, create, update | `Accounts` |
| Session and team page (`frontend/src/App.tsx`, `api.ts`, `AuthPage.tsx`, `UserManagementPage.tsx`) | token, session user, rows | verify, sign in, log out, manage | `AccountPages` |
| Metrics, logs, deployment, rendering | counters nothing reads back | | no (§7) |

**How they interact.** API, worker and reconciliation never call each other;
they share documents and jobs. The job id is the brief id, so a brief has at
most one job. A document changes only by a filtered update that MongoDB applies
atomically, a job only by an operation Redis applies atomically; everything can
happen between two of those. The worker publishes an event *after* its write,
in no order with the writes of others, and the API publishes none of its own.
Browsers learn of changes by events, by polling while they have no socket, and
by the answers to their calls. Requests about accounts meet only in MongoDB.

**What is hard.** A call that was applied and whose answer is lost; a process
killed between its MongoDB write and the queue's record of it; a worker paused
longer than its lock lasts; a list that is stale when it is used; `remove` then
`add` as two calls; a worker that forecasts (`willRetry`) what the queue will
decide; a stalled check that fails jobs without running any code of ours;
a shutdown that begins while bootstrap still awaits; a socket that is connected
before it is in its room; answers that arrive in another order than they were
asked for, or in another session; two administrators who lock each other out.
`PROJECT.json` lists each at its line.

**What makes each part correct.** Documents: result and error agree with the
status. Worker: one provider call per brief at a time, a bounded number of calls
per job, results only over the text they were computed from and only if they fit
the schema, connections closed after the jobs that use them. Pipeline: an
ANALYZED result is final; PENDING is always served; PROCESSING always ends.
Pages: what is shown comes to agree with what is stored. Accounts: workspaces
and users agree, e-mails are unique, a workspace keeps an administrator,
deactivation lasts, and a session shows its own workspace only.

## 2. Modules

```
BriefDocuments   BriefJobs   BriefAnalysis      pure operations, no variables
   |   |    \      /     \     /
   |   |   BriefState     WorkerProcess  -- implements --> BriefLifecycle
   |   |  /    |     \    WorkerProcessProofs
   | BriefWorker BriefApi BriefReconciliation
   |       \     |      /
   |       BriefSystem  -- implements --> BriefLifecycle
   |       BriefInvariants
   |       BriefSystemProofs -> BriefFinalityProofs -> BriefClaimProofs -> BriefLifecycleProofs
   |                                                                    -> BriefAttentionProofs
BriefEvents                                      events and sockets
   |      \
BriefDetailPage  BriefListPage
    \      /
    Frontend                                     a browser
    FrontendProofs

Accounts -> AccountPages -> AccountsProofs       users and sessions
```

`MCBriefSystem`, `MCWorkerProcess`, `MCFrontend` and `MCAccounts` give the
constants their values for TLC.

### The pipeline

* **BriefDocuments.** One operator per update: if the filter matches, the new
  document, else the old one. A text is its version number; a result is its
  outcome and the version it was computed from (`of`, which the code does not
  store: it is there so that a property can speak of it); an error is whether it
  is retryable; `updatedAt` is the flag `stale` (older than
  `MIN_PENDING_AGE_MS`). Left out: `attemptCount`, other timestamps, tenant and
  author (every filter has the tenant, and a brief never changes it).
* **BriefJobs.** BullMQ is not part of the repository; its operations are
  modelled by what the code relies on: `add` keeps an existing job, `remove`
  leaves a locked one, a failed attempt counts in `attemptsMade`, a stall in a
  counter of its own that allows `MaxStalledCount` (BullMQ's default, 1).
* **BriefState.** `doc`, `job`, `exec` (executions of `processBrief`), `req`
  (requests between two calls), `rec` (the cycle) and `left`, the number of
  events of each bounded kind that may still happen.
* **BriefWorker.** Each action ends where `processBrief` awaits. `ClaimBrief` /
  `MissBrief` / `RecheckBrief` are `startAttempt`; `AnalyzeBrief` is the provider
  call, free to return either outcome or throw either kind of error;
  `CompleteBrief` and `PersistFailure` are the writes; `SettleJob` is BullMQ
  recording the end, if the execution still holds the lock. `DatabaseError` is a
  MongoDB call that throws, its write applied or not. `WorkerCrash` loses a
  process's executions and leaves their jobs locked until the lock expires.
* **BriefApi.** A request holds an element of `Requests` from its first call to
  its last. `retry` has four calls and so four waiting points. A queue call
  answers, fails, or is applied and loses its answer.
* **BriefReconciliation.** `reconcile` reads a list once and works through it;
  each call of `ensureAnalysis` is a step. `running` is `rec.pc # "idle"`.
* **BriefSystem.** The composition, and the properties.
* **BriefLifecycle.** What the pipeline promises about one brief: its visible
  document and the text being analysed, with a step for each thing a user asks
  for or can be told. `BriefSystem!Lifecycle(b)` instantiates it for a brief,
  with `UnderAnalysis(b)` (what some execution has claimed) for the text, and
  `ImplementsLifecycle` is the refinement. A brief under analysis can be neither
  edited nor removed, analyses do not overlap, and `Finish` stores a result of
  the text the brief still has. Jobs, retries, cycles and crashes are stutters
  or one of the ten steps.

One assumption on time is made, in `Age`: a request that is publishing a PENDING
brief is answered before the brief is 30 seconds old (the producer's connection
gives up after 3 s and one retry, `app.module.ts:57-58`).

### One worker process

* **BriefAnalysis.** A text is the sequence of its words, a word of its letters,
  as `assessBriefInputQuality` counts them. Of a result's strings only the length
  matters to the schema. A reply of the provider is whether it came in time, its
  status and what its body was; `ReplyError` is `analyzeBrief`. An error is its
  name, its `code`, the code its message begins with, and whether it may be
  repeated: as much as `processBrief`, BullMQ and `errorLogFields` look at.
* **WorkerProcess.** `boot` and `closing` are where `bootstrap` and `shutdown`
  stand, `open` is what is open, `ClosingOrder` the order of `shutdown`. A signal
  can come in any state; a connection can fail, a close can throw, a process can
  be killed and is then started again. Meanwhile jobs run as in `BriefWorker`,
  here with the error each attempt ends with: what the document becomes and is
  told (`stored`; `Written` is the filtered update of `startAttempt`, `complete`,
  `prepareRetry` or `fail`, whichever the execution is at), what BullMQ decides
  (`job`) and what the handler of `failed` makes
  of it (`letter`, the dead-letter copy, which is sent without being awaited).
  `began` remembers what bootstrap awaited when shutdown began, for the
  properties' one exception. Documents of other programs and lost locks are
  `BriefSystem`'s and left out here. `Lifecycle(j)` instantiates `BriefLifecycle`
  for the brief of a job, so that both models of the worker are held to one
  promise: here it starts with the brief `create` has stored.

### A browser

* **BriefEvents.** The worker's writes and the events that follow them (`due`);
  other users' writes, which no event follows; the socket as the page sees it
  (`socket`) and as the gateway sees it (`room`): the page counts as connected
  before the gateway has authenticated it and put it in its room. Events and
  connections can be lost.
* **BriefDetailPage.** Every call of the page is an entry of `call` that the API
  answers, and that lands, in any order. Loads keep the last answer to land.
  Acts go on after the page is left. A save that follows "insufficient" is
  followed by a retry, as `saveChanges` does.
* **BriefListPage.** A load remembers the filter and page it was asked for, and
  the last to land is shown. `Rows` and `Total` are `findAll`'s query.
* **Frontend.** Routes: opening and leaving pages (which closes the socket and
  abandons loads), and deletion, which opens the list wherever the user is.

### Accounts and sessions

* **Accounts.** A request stands at a place of its handler and each step is one
  access to MongoDB with what follows it up to the next: authentication is two
  reads, `register` a check, two insertions and a compensation, `login` two reads
  and a save of `lastLoginAt`. A user is named by its e-mail and a workspace by
  the request that registered it. A crash ends all requests; an access throws;
  an insertion is applied and its answer lost.
* **AccountPages.** One browser: token and session user, verification, signing
  in and out, the page of the team. Answers land whenever they come, in whichever
  session; a page that was left takes none; a 401 to any of them ends the session.

## 3. Properties

| Property | Says |
|---|---|
| *Pipeline* | |
| `TypeOK` | types |
| `FieldsAgree` | result on COMPLETED and only there, error on FAILED, on PENDING only a retryable one |
| `OneAnalysisAtATime` | no two executions are between claim and completion of one brief |
| `ProcessingIsAttended` | a PROCESSING brief has a job that will be worked on, or one about to be added |
| `FailedIsNotDelayed` | a brief the worker gave up has no attempt waiting in the backoff |
| `CallsAreBounded` | a job is handed out at most `MaxAttempts + MaxStalledCount` times |
| `ResultOfCurrentText` | a result is stored over the text it was computed from |
| `AnalyzedIsFinal` | an ANALYZED result stays until the brief is removed |
| `FinalFailureIsFinal` | a brief that failed for good is not worked on again |
| `ImplementsLifecycle` | what a user can see of a brief follows `BriefLifecycle` |
| `PendingIsServed` | PENDING leads to something else |
| `ProcessingEnds` | PROCESSING leads to something else |
| *Worker process* | |
| `TypeOK` | types |
| `JobsKeepTheirConnections` | a running job finds its connections open, whenever the signal comes |
| `NothingOutlivesShutdown` | a finished shutdown left nothing open and no job running |
| `CopiedIffGivenUp` | a job has a dead-letter copy (made, due or lost) iff BullMQ gave it up |
| `CopyNamesTheError` | the copy names the error that the document was told |
| `RepeatedForGoodReason` | a job is repeated after what another attempt can mend, and only then |
| `StoredResultsFitTheSchema` | whoever made it, a stored result fits the schema |
| `ShutdownEnds` | a shutdown comes to its end |
| `JobsFollowLifecycle` | the brief of a job follows `BriefLifecycle`, whatever errors and kills its attempts meet |
| *Browser* | |
| `FrontTypeOK` | types |
| `SpinnersHaveALoad` | a page that says it loads, or has disabled its refresh button, has a load in flight that ends it |
| `PolledViewCatchesUp` | without a socket, a page does not show an ended analysis as in progress for ever |
| `EventsAreFollowed` | an event that reaches the page makes it show the end of an analysis, and the end stays there unless an older answer was overtaken (`EndsStay`) |
| `PolledListCatchesUp` | without a socket, a list that is wrong comes to be right again, each time |
| `UpdatedAutomatically` | a page that shows a brief in progress comes to show its end |
| *Accounts* | |
| `PagesAndAccountsTypeOK` | types |
| `UsersHaveTenants` | the compensation of `register` takes nobody's workspace |
| `TenantsAreInhabited` | no workspace without a user is left behind |
| `OneWinnerPerEmail` | of requests that race for an e-mail at most one is told that it won |
| `SessionHasItsToken` | session user and kept token belong together |
| `TeamIsOfTheSession` | the page of the team shows the session's workspace only |
| `AdminsAreLostByOverlapOnly` | the last administrator is lost only to a caller who is none any more |
| `DeactivationSticks` | no login gives rights back that were taken while it ran |
| `FailuresKeepTheSession` | a session ends by logging out or by a 401 only |

Three exceptions are stated in the properties, because the code needs them:
* `began = "connect"`: a signal while `bootstrap` awaits `mongoose.connect`.
  `shutdown` finds nothing to close but MongoDB; `bootstrap` then goes on and
  opens everything after it (`main.ts:194`).
* `"lost answer"`: an insertion of a user that was applied and seemed to fail.
  `register` then removes the workspace of a user who exists (`auth.service.ts:61`).
* any 401: `api.ts` does not tell whose request is refused, so a late 401 of an
  earlier session ends the current one (`api.ts:233`).

## 4. Runs

| Run | Instance | Result |
|---|---|---|
| `worker_crash` | 1 brief, 2 processes, 2 requests, 3 attempts; one edit, retry, worker crash, trim | all hold, `ImplementsLifecycle` too |
| `api_faults` | 1 brief, 3 attempts; one edit, retry, API crash, queue error, trim | all hold, `ImplementsLifecycle` too |
| `lost_locks` | 1 brief, 2 processes, 2 attempts; one retry, two lost locks, one MongoDB error | all hold |
| `batch_liveness` | 2 briefs, 1 execution, list limit 1, 1 attempt; two API crashes, one queue error, one lost answer | holds |
| `lost_answer` | one lost answer | `AnalyzedIsFinal` violated |
| `stale_list` | no fault at all | `FinalFailureIsFinal` violated |
| `paused_worker` | one edit, one lost lock | `ResultOfCurrentText` violated |
| `two_crashes` | two worker crashes | `ProcessingEnds` violated |
| `worker_process` | 1 job, 2 attempts, 2 texts, 12 replies; two kills, one fault of each other kind | all hold |
| `pages` | 3 briefs, 1 row per page, 2 filters, 2 loads; one claim, one page opened, one other event | all hold |
| `lost_update` | 1 brief, 1 load at a time, one claim, no fault | `UpdatedAutomatically` violated |
| `accounts` | 4 e-mails, 2 workspaces, 3 requests; one failure | all hold |

**Bounds of the pipeline.** Briefs interact only through the worker's slots and
the list of the cycle, so one brief is enough everywhere but in `batch_liveness`,
which is about the list. Two executions of two processes are what a race for a
lock needs, two requests what a race of two users needs. `MaxAttempts` is 3 as in
`app.module.ts` where attempts meet crashes; 2 where only "another attempt
follows" matters; 1 in `batch_liveness` (below). Each kind of fault happens once
or twice, because each additional one multiplies the states by more than it adds
in behaviour: every violation found needs at most two. Deadlock is not a concept
of an open system (when all bounds are spent and no brief is left the model
stops) and is off, in the other parts for the same reason.

`FieldsAgree` is checked where two executions can be at one brief (`lost_locks`),
which is where it is hardest to keep; the theorem `FieldsAlwaysAgree` covers the
faults of the other runs.

**Bounds of the worker process.** Jobs share a process only by its slots, so one
is enough. Two attempts tell a first failure from a last. The replies have one
for each way `analyzeBrief` ends, with a result at the shortest lengths the
schema takes and one a letter below; the two texts lie on both sides of "three
different long words". Two kills are one more stall than BullMQ forgives.

**Bounds of the browser.** Two loads are what an answer needs to overtake
another; an event or a poll that finds both in flight waits for one to land. Three briefs with one row each make a page before and after. One click,
write of another user, lost event, failed call or broken connection, at any
point, meets everything the worker does.

**Bounds of the accounts.** Three requests: two that race and one that lands in
another session. Two administrators of one workspace can demote each other; the
administrator of the other makes a workspace to mix up; the fourth e-mail is the
one that is registered and created. Requests are interchangeable
(`SYMMETRY`; no liveness is checked there).

**What the violations show.** Each disagrees with a line of the repository,
quoted in `PROJECT.json`.
1. `lost_answer`: `create`'s compensation has no filter on the status, `retry`'s
   has. A brief already ANALYZED becomes FAILED, with its result in place.
2. `stale_list`: the cycle publishes from its list without reading the document
   again, and `startAttempt` claims FAILED as well as PENDING.
3. `paused_worker`: `complete` asks for PROCESSING, not for its own claim.
4. `two_crashes`: a second stall fails the job without `processBrief`, and nobody
   else ever moves a PROCESSING brief.
5. `lost_update`: between the connection of a socket and its joining the room the
   page does not poll any more and is not told yet. If the analysis ends then,
   "this page will be updated automatically" (`BriefDetailPage.tsx:371`) is not
   so: polling is conditional on the socket alone. Everything is fair here that
   the code does by itself (`UndisturbedSpec`: the event is published, the socket
   connects and joins), and one load at a time leaves no other cause. In a copy of
   the model where the page loads once when its socket has joined, the property
   holds.

**What TLC showed besides**, and what therefore bounds the passing runs:
* With a queue error, a retry's compensation can mark FAILED a brief whose job is
  in backoff (`FailedIsNotDelayed` is checked without queue errors).
* With a worker crash *and* an API crash, the cycle or a retry can remove the
  stalled job of a PROCESSING brief and die before adding another
  (`ProcessingIsAttended` is checked under each alone).
* With a full list and retries, a brief in backoff that is republished from a
  stale list again and again can keep another out of the list for ever.
  `batch_liveness` therefore has one attempt per job; the code's limit is 100.
* With two loads, `EventAfterEnd ~> []~ShowsOldProgress` fails too, under
  `UndisturbedSpec` and without any fault: a load is answered before the end and
  is slow to arrive, the event of the end comes, the load it sets off lands first,
  and the older answer lands on top of it (`loadBrief` keeps what lands last,
  `BriefDetailPage.tsx:112`). The page is connected and does not poll, so it shows
  the old progress until its user acts, which is a second way in which
  `BriefDetailPage.tsx:371` is not so. With one load at a time that property holds.
  `EventsAreFollowed` therefore names this case, `Overtaken`, as the one in which
  an event does not bring the end for good.

## 5. Fairness

* `BriefSystem!FairSpec`. An execution goes on, because every await of
  `processBrief` has a timeout or fails, but for the publishing of an event, which
  waits for Redis to be back (`main.ts:44`; the queue waits with it); an accepted
  request runs to its end; the interval timer fires and a started cycle goes on; BullMQ's timers (backoff, lock
  expiry, stalled check) fire; time passes (`Age`). Weak fairness is enough for
  these, and strong fairness is assumed only of taking a job: a waiting job can be
  overtaken while executions are busy, but the queue is served in order.
* `WorkerProcess!FairSpec`. What bootstrap, shutdown and attempts await comes to
  an end: connecting and closing succeed or throw, MongoDB and the provider have
  timeouts, and Redis, which an event is published to without one, comes back. Jobs
  need not be taken, and copies need not be sent.
* `Frontend!FairSpec`. Intervals fire, the API answers, the page handles what
  arrives, and a broken connection is noticed (socket.io's heartbeat). The worker
  need not go on, events need not be published, and sockets need not connect,
  so that polling is not excused by a socket that is bound to connect.
* `Frontend!UndisturbedSpec`, for `lost_update`: besides, the worker publishes
  right after its write (`brief-processor.ts:157`), a socket connects, and the
  gateway ends its authentication, by joining the room or by disconnecting. A
  counterexample is then not one where the system just stops.

Users, faults, kills, signals and trimming have no fairness anywhere.

## 6. Proofs

`tlapm` checks these theorems for every value of the constants.

**Pipeline.** From `AttemptsAssumption` and `StateAssumption`:
* `TypeCorrect`: `Spec => []TypeOK`. Inductive: `TypeInv`, which adds that a live
  job has an attempt left and its stalls forgiven, that only an active job is
  locked, and that a waiting execution, request or cycle has a brief and a
  verdict fit for its next step (without which `Fail(d, verdict)` could not be
  typed).
* `CallsBounded`: `Spec => []CallsAreBounded`. Inductive: `CountInv`, the number
  of times a job was handed out is attempts made + stalls + 1 if it is active or
  completed.
* `AnalyzedStays` and `FieldsAlwaysAgree`, if `Bounds["lostAnswer"] = 0`.
  Inductive: `CreateInv`. All updates but one have a filter that spares a
  COMPLETED document; for `create`'s compensation the argument is that nothing
  else can have touched the brief. So `CreateInv` says that an id not yet drawn
  is unknown everywhere, and that a brief whose `create` is unanswered is PENDING
  (or removed), not old, without a job, and on no list.
* `OneAnalysis` and `ResultIsCurrent`, if `Bounds["lockLoss"] = 0`. Inductive:
  `LockInv`, every execution holds the lock of its active job (two executions at
  one brief would own one lock), and `TextInv`, which adds that from claim to
  completion the document has the text that was read as long as it is PROCESSING.
  Lost answers do not matter here: the compensation they set off can turn a
  claimed brief into FAILED, and its text be edited, but `complete` then finds
  no PROCESSING document.
* `LifecycleImplemented`: `Spec => ImplementsLifecycle` under both conditions:
  the step simulation, action by action. Inductive: `LifecycleInv`, which is
  `ClaimInv` (the document under analysis *is* PROCESSING with the text that was
  read) and that an id not yet drawn has the empty document. Since a brief has at
  most one execution, `UnderAnalysis` is what that execution has read; every other
  action is one of the abstract steps or a stutter.
* `ForecastIsRight`: `Spec => []FailedIsNotDelayed`, if no lock is lost and no call
  of MongoDB or the queue fails. Inductive: `ForecastInv`. The execution computes
  `willRetry` from an `attemptsMade` it read when it began, BullMQ from the one in
  Redis; the two are equal as long as the execution holds the lock
  (`AttemptsAreKnown`), and an execution that leaves its brief FAILED is on its way
  to the end of the job (`FailureIsForeseen`).
* `ProcessingHasAJob`: `Spec => []ProcessingIsAttended`, if no lock is lost, no
  MongoDB call fails, and either no worker crashes, or at most `MaxStalledCount`
  crashes happen while the API and its queue calls do not fail. Inductive:
  `AttendInv`. A PROCESSING brief is worked on, or its execution crashed and then
  its job is active and abandoned, waits, or is about to be added again by the
  cycle or a retry (`TakenCareOf`); crashes still to come and stalls counted never
  exceed what BullMQ forgives (`StallsAreForgiven`), so the stalled check does not
  give the job up.

The conditions are the ones the violations and the list in §4 show to be needed:
`lost_answer` for `lostAnswer`, `paused_worker` for `lockLoss`, `two_crashes` for
the number of worker crashes, and what TLC showed besides for the rest. Kinds of
faults that a theorem does not name, and edits, retries, removals and trimming,
are unbounded in it.

**Worker process.** From `AttemptsAssumption`, `ProcessAssumption` and
`RepliesAssumption` (a reply that was answered has a final HTTP status, 200 to 599):
* `WorkerTypeCorrect`, `ConnectionsAreKept`, `ShutdownIsComplete`, `CopiesAgree` and
  `ResultsFit`. Inductive: `ProcessInv`, which says what may be open while
  `bootstrap` and `shutdown` stand where they do (a job runs only as long as the
  worker is open or about to be closed, and everything it needs comes later in
  `ClosingOrder`), and `JobsInv`, which ties the state of a job to the place of its
  execution, to its dead-letter copy, a stored status to its result, and a reply
  that is about to be stored to the schema.
* `CopiesNameTheError` and `RepetitionIsJustified`. Inductive, with `JobsInv`:
  `ToldInv`, which follows an error from the reply through the catch block, the
  document and `toUnrecoverableError` to the handler of `failed`, and says at each
  place that it is still the reply's own, unless MongoDB threw.
* `WorkerKeepsThePromise`: `Spec => JobsFollowLifecycle`. Inductive, with the two
  others: `AttendedInv`, while the provider is asked and the result is stored the
  document is PROCESSING, and an error that is caught has a code. Each step of a
  job is then `Claim`, `Abandon`, `Finish`, `GiveBack`, `GiveUp` or a stutter of
  `BriefLifecycle`; the lemma `FollowedStep` does the simulation, once for all
  steps, and the lemmas named `...Follows` say which step is which.

**Browser.** From `EventsAssumption`, `PageAssumption` and `ListAssumption`:
`PagesTypeCorrect`, `NoSpinnerForEver` and `ShownEndsStay`. The second is inductive
given the types:
a step that sets a spinner sends a load, and a load that lands, fails or is
dropped takes its place in `call` or `load` with it, so that the question is only
what the *other* loads leave behind. The third, the stable half of
`EventsAreFollowed`, is the step argument that while a brief has ended the API
answers with its end (an edit keeps it, a retry or a removal ends the condition),
so that only an answer from before could undo what a page shows.

**Accounts.** From `AccountsAssumption` and `PagesAssumption`, nine theorems:
`AccountsTypeCorrect`, `CompensationTakesNobodysWorkspace`,
`NoWorkspaceIsLeftBehind`, `EmailsAreWonOnce`, `LoginsGiveNoRightsBack`,
`LastAdminsAreLostByOverlap`, `SessionsAgree`, `TeamsStayInTheirWorkspace` and
`SessionsSurviveFailures`. The inductive invariant `Inv` is `AccountsInv` (where a
request stands says what it asks for and what its handler has read; a workspace
belongs to the registration that founded it until that stored its user; who won
an e-mail is in the workspace it was told) and `SessionInv` (the session user has
the kept token; an answer awaited by the page that is open was asked in this
session; the app waits for one request at a time). For
`AdminsAreLostByOverlapOnly` the argument is the self lock-out guard: whoever
takes the last administrator away is not that administrator, was one when
admitted, and so has lost it since.

**Only model-checked:** liveness, which needs fairness and ENABLED, and those TLAPS
does not handle: `PendingIsServed`, `ProcessingEnds`, `ShutdownEnds`,
`PolledViewCatchesUp`, `PolledListCatchesUp` and the first half of
`EventsAreFollowed`. Every
invariant and every other action property that a passing run checks is stated by a
theorem.

## 7. Not modelled

* *Observability*: counters and logs, which nothing reads back. *Deployment and
  scripts*, and the parsing of the environment: no state of their own.
* *NewBriefPage*: one form and one call; nothing identifies a repeated create.
  Rendering, wording and routing beyond the pages named above.
* Of *findAll*: the counts per status, the search by text, and other orders; one
  status filter stands for all filters, and its reads are made at one moment
  (a page of results that never existed at one moment is replaced by the next).
* Of the *frontend*: a call that the browser gave up was applied before that or
  never; there is one browser with one page open. The pages of briefs and those
  of accounts are not composed: a session that ends leaves any page, which is
  `Leave` in `Frontend`.
* Of *accounts*: expiry and signing of tokens, hashing, and validation of input.
* Of the *schema*: which characters a string has; of *input quality*: the
  normalisation of Unicode. Both work on what is left after it.

## 8. Plan

1. A listing whose reads are made at three moments, if a promise about it is made.
2. Lemmas about the operators that the liveness properties rest on (that a cycle
   shortens its list with each step, that attempts and stalls only grow), so that
   the part of them which is not fairness is proved too.
