---------------------------- MODULE WorkerProcess ----------------------------
(***************************************************************************)
(* One worker process from its start to its end: bootstrap, the jobs it    *)
(* runs, the dead-letter copies its handler of the event failed makes, and *)
(* shutdown (worker/src/main.ts, operations.ts, job-failure.ts), with what *)
(* an attempt does to the error of the brief (brief-processor.ts).         *)
(*                                                                         *)
(* BriefWorker has the same executions with their documents and the other  *)
(* programs; here it is their errors and their process that count.  An     *)
(* execution is named by its job.                                          *)
(***************************************************************************)
EXTENDS BriefJobs, BriefAnalysis

CONSTANTS
  Texts,       \* texts of briefs
  Replies,     \* replies of the provider
  Concurrency, \* jobs a process runs at once (WORKER_CONCURRENCY)
  Faults       \* how often each kind of fault may happen

Jobs == Executions

\* A process is killed; connecting to MongoDB fails; closing a resource
\* throws; a MongoDB call of an attempt throws; a copy cannot be added.
FaultKinds == {"kill", "connectError", "closeError", "databaseError", "copyError"}

ASSUME ProcessAssumption ==
  /\ Concurrency \in Nat \ {0}
  /\ Faults \in [FaultKinds -> Nat]

\* The provider's answers are HTTP responses, and final ones.
ASSUME RepliesAssumption ==
  \A reply \in Replies :
    /\ reply.fetched \in {"never", "refused", "answered"}
    /\ reply.fetched = "answered" => reply.status \in 200 .. 599

VARIABLES
  boot,    \* what bootstrap awaits: connect (MongoDB), ready (the worker); or done, failed
  closing, \* the resource that shutdown is closing; or none (not begun), done
  began,   \* what bootstrap awaited when shutdown began, or none
  open,    \* the resources of the process that are open
  exit,    \* process.exitCode
  job,     \* the jobs in Redis
  run,     \* where the execution of each job stands in this process
  stored,  \* what MongoDB has of each brief: text, status, error, result
  letter,  \* the dead-letter copy of each job
  left     \* how many faults of each kind may still happen

vars == <<boot, closing, began, open, exit, job, run, stored, letter, left>>

procVars == <<boot, closing, began, open, exit>>
jobVars == <<job, run, stored, letter>>

\* In the order in which shutdown closes them.
ClosingOrder == <<"operations", "worker", "deadLetterQueue", "eventsRedis", "redis", "mongo">>
Resources == Range(ClosingOrder)

Statuses == {"PENDING", "PROCESSING", "COMPLETED", "FAILED"}

Places == {"idle", "attempt", "provider", "complete", "catch", "settle", "report"}

\* An execution of processBrief: where it stands, the reply it waits for, the
\* error it ends with.
Run == [pc    : Places,
        reply : Replies \cup {Silence, Answer(OwnResult)},
        error : Errors]

IdleRun == [pc |-> "idle", reply |-> Silence, error |-> NoError]

\* none: not made.  due: being added.  sent, lost.
Letter == [state : {"none", "due", "sent", "lost"}, code : Codes]
NoLetter == [state |-> "none", code |-> "none"]

TypeOK ==
  /\ boot \in {"connect", "ready", "done", "failed"}
  /\ closing \in Resources \cup {"none", "done"}
  /\ began \in {"connect", "ready", "done", "failed", "none"}
  /\ open \subseteq Resources
  /\ exit \in {0, 1}
  /\ job \in [Jobs -> Job]
  /\ run \in [Jobs -> Run]
  /\ \A j \in Jobs : /\ stored[j].text \in Texts
                     /\ stored[j].status \in Statuses
                     /\ stored[j].code \in Codes
                     /\ stored[j].retryable \in BOOLEAN
  /\ letter \in [Jobs -> Letter]
  /\ left \in [FaultKinds -> Nat]

\* The brief of a job, as create has stored it.
NewRecord(text) == [text |-> text, status |-> "PENDING", code |-> "none",
                    retryable |-> FALSE, result |-> NoResult]

Init ==
  /\ boot = "connect" /\ closing = "none" /\ began = "none"
  /\ open = {} /\ exit = 0
  /\ job = [j \in Jobs |-> Add(NoJob)]
  /\ run = [j \in Jobs |-> IdleRun]
  /\ stored \in [Jobs -> {NewRecord(text) : text \in Texts}]
  /\ letter = [j \in Jobs |-> NoLetter]
  /\ left = Faults

Suffer(kind) == left[kind] > 0 /\ left' = [left EXCEPT ![kind] = @ - 1]

-----------------------------------------------------------------------------
(* bootstrap.                                                              *)

\* mongoose.connect is done: everything else is created at once, and the
\* worker takes jobs from then on.
Connected ==
  /\ boot = "connect"
  /\ boot' = "ready"
  /\ open' = Resources \ {"operations"}
  /\ UNCHANGED <<closing, began, exit, left, jobVars>>

\* The first resource at or after position i that there is to close.
FirstOpen(i, resources) ==
  IF \E k \in i .. Len(ClosingOrder) : ClosingOrder[k] \in resources
    THEN ClosingOrder[CHOOSE k \in i .. Len(ClosingOrder) :
                        /\ ClosingOrder[k] \in resources
                        /\ \A m \in i .. k - 1 : ClosingOrder[m] \notin resources]
    ELSE "done"

\* shutdown, unless it runs already, while bootstrap is at stage.  MongoDB
\* counts as open while it is being connected.
Shutdown(stage) ==
  IF closing # "none" THEN UNCHANGED <<closing, began>>
  ELSE /\ closing' = FirstOpen(1, open \cup (IF stage = "connect" THEN {"mongo"} ELSE {}))
       /\ began' = stage

\* bootstrap throws: MongoDB or the worker cannot be reached...
BootstrapFails ==
  /\ boot \in {"connect", "ready"}
  /\ Suffer("connectError")
  /\ boot' = "failed" /\ exit' = 1
  /\ Shutdown("failed")
  /\ UNCHANGED <<open, jobVars>>

\* mutant: the operations server is kept in a local variable of bootstrap
WorkerReadyAnyway ==
  /\ boot = "ready"
  /\ boot' = "done" /\ open' = open \cup {"operations"}
  /\ UNCHANGED <<closing, began, exit, left, jobVars>>

\* ... or, once the worker is ready, shutdown has taken the operations server
\* away; else it starts to listen.
WorkerReady ==
  /\ boot = "ready"
  /\ IF began = "ready"
       THEN boot' = "failed" /\ exit' = 1 /\ UNCHANGED open
       ELSE boot' = "done" /\ open' = open \cup {"operations"} /\ UNCHANGED exit
  /\ UNCHANGED <<closing, began, left, jobVars>>

-----------------------------------------------------------------------------
(* shutdown.                                                               *)

\* SIGINT or SIGTERM.
Signal ==
  /\ closing = "none" /\ Shutdown(boot)
  /\ UNCHANGED <<boot, open, exit, left, jobVars>>

Position(resource) == CHOOSE k \in DOMAIN ClosingOrder : ClosingOrder[k] = resource

\* mutant: the worker is closed without waiting for its jobs
CanCloseAtOnce(resource) == resource = "mongo" => boot # "connect"

\* Worker.close waits for the running jobs, and disconnect for a connect.
CanClose(resource) ==
  /\ resource = "mongo" => boot # "connect"
  /\ resource = "worker" => \A j \in Jobs : run[j].pc = "idle"

\* The current resource is closed, or closing it throws (and a connection that
\* cannot be quit is cut): on to the next one that is open.
CloseNext ==
  /\ closing \in Resources /\ CanClose(closing)
  /\ open' = open \ {closing}
  /\ closing' = FirstOpen(Position(closing) + 1, open)
  /\ \/ UNCHANGED <<exit, left>>
     \/ exit' = 1 /\ Suffer("closeError")
  /\ UNCHANGED <<boot, began, jobVars>>

-----------------------------------------------------------------------------
(* The jobs.                                                               *)

RunGoes(j, pc, error) == run' = [run EXCEPT ![j].pc = pc, ![j].error = error]

TakesJobs == "worker" \in open /\ closing # "worker"

\* BullMQ hands a waiting job to processBrief.
TakeJob(j) ==
  /\ TakesJobs /\ job[j].state = "wait"
  /\ Cardinality({k \in Jobs : run[k].pc # "idle"}) < Concurrency
  /\ job' = [job EXCEPT ![j] = Take(@, j)]
  /\ run' = [run EXCEPT ![j] = [IdleRun EXCEPT !.pc = "attempt"]]
  /\ UNCHANGED <<procVars, stored, letter, left>>

\* willRetry of processBrief: its attempt is not in attemptsMade yet.
ExpectsRetry(j) == run[j].error.retryable /\ RetryAllowed(job[j].made)

\* The brief of j with another status and error.
Marked(j, status, code, retryable) ==
  [stored[j] EXCEPT !.status = status, !.code = code, !.retryable = retryable]

\* What the MongoDB call that an attempt is about to make does to a brief that
\* is not COMPLETED.
Updated(j) ==
  CASE run[j].pc = "attempt" -> Marked(j, "PROCESSING", "none", FALSE)
    [] run[j].pc = "complete" ->
         [Marked(j, "COMPLETED", "none", FALSE) EXCEPT !.result = run[j].reply.result]
    [] run[j].pc = "catch" ->
         Marked(j, IF ExpectsRetry(j) THEN "PENDING" ELSE "FAILED",
                run[j].error.code, run[j].error.retryable)

\* mutant: startAttempt claims whatever it finds
WrittenOverResults(j) ==
  IF stored[j].status = "COMPLETED" /\ run[j].pc # "attempt" THEN stored[j] ELSE Updated(j)

\* A COMPLETED brief is left alone by every filter; while a job is worked on,
\* its brief is COMPLETED or PROCESSING.
Written(j) == IF stored[j].status = "COMPLETED" THEN stored[j] ELSE Updated(j)

Write(j) == "mongo" \in open /\ stored' = [stored EXCEPT ![j] = Written(j)]

\* startAttempt finds the brief COMPLETED and the job is done, or it forgets the
\* last error; a text that is not sufficient is not sent to the provider.
StartAttempt(j) ==
  /\ run[j].pc = "attempt" /\ Write(j)
  /\ \/ /\ stored[j].status = "COMPLETED"
        /\ RunGoes(j, "settle", NoError)
     \/ /\ stored[j].status # "COMPLETED" /\ Sufficient(stored[j].text)
        /\ \E reply \in Replies :
             run' = [run EXCEPT ![j].pc = "provider", ![j].reply = reply]
     \/ /\ stored[j].status # "COMPLETED" /\ ~Sufficient(stored[j].text)
        /\ run' = [run EXCEPT ![j].pc = "complete", ![j].reply = Answer(OwnResult)]
  /\ UNCHANGED <<procVars, job, letter, left>>

\* mutant: the call of the provider has no timeout
ProviderAnswersInTime(j) ==
  /\ run[j].pc = "provider" /\ run[j].reply # Silence
  /\ LET error == ReplyError(run[j].reply) IN
     RunGoes(j, IF error = NoError THEN "complete" ELSE "catch", error)
  /\ UNCHANGED <<procVars, job, stored, letter, left>>

\* mutant: a result is not validated
ProviderAnswersUnchecked(j) ==
  /\ run[j].pc = "provider"
  /\ LET error == ReplyError(run[j].reply) IN
     IF run[j].reply.body = "result" THEN RunGoes(j, "complete", NoError)
                                     ELSE RunGoes(j, "catch", error)
  /\ UNCHANGED <<procVars, job, stored, letter, left>>

\* analyzeBrief returns or throws; the signal of its timeout ends the wait.
ProviderAnswers(j) ==
  /\ run[j].pc = "provider"
  /\ LET error == ReplyError(run[j].reply) IN
     RunGoes(j, IF error = NoError THEN "complete" ELSE "catch", error)
  /\ UNCHANGED <<procVars, job, stored, letter, left>>

\* complete.
StoreResult(j) ==
  /\ run[j].pc = "complete" /\ Write(j)
  /\ RunGoes(j, "settle", NoError)
  /\ UNCHANGED <<procVars, job, letter, left>>

\* prepareRetry or fail.
StoreError(j) ==
  /\ run[j].pc = "catch" /\ Write(j)
  /\ RunGoes(j, "settle", Thrown(run[j].error))
  /\ UNCHANGED <<procVars, job, letter, left>>

\* A MongoDB call throws, applied or not, and always so if the connection is
\* closed: before the attempt was started and in the catch block the error goes
\* to BullMQ.
DatabaseThrows(j) ==
  /\ run[j].pc \in {"attempt", "complete", "catch"}
  /\ \/ Suffer("databaseError") /\ Write(j)
     \/ Suffer("databaseError") /\ "mongo" \in open /\ UNCHANGED stored
     \/ "mongo" \notin open /\ UNCHANGED <<left, stored>>
  /\ CASE run[j].pc = "attempt" -> RunGoes(j, "settle", Thrown(InternalError))
       [] run[j].pc = "complete" -> RunGoes(j, "catch", InternalError)
       [] run[j].pc = "catch" -> RunGoes(j, "settle", DriverError)
  /\ UNCHANGED <<procVars, job, letter>>

\* BullMQ records how the job ended, and then emits failed.
SettleJob(j) ==
  /\ run[j].pc = "settle"
  /\ IF run[j].error = NoError
       THEN /\ job' = [job EXCEPT ![j] = Succeeded(@)]
            /\ run' = [run EXCEPT ![j] = IdleRun]
       ELSE /\ job' = [job EXCEPT ![j] = FailedOnce(@, run[j].error.retryable)]
            /\ run' = [run EXCEPT ![j].pc = "report"]
  /\ UNCHANGED <<procVars, stored, letter, left>>

\* mutant: as in processBrief, the attempt is added to attemptsMade
WillRetryOneLess(made, error) ==
  error.name # "UnrecoverableError" /\ made + 1 < MaxAttempts

\* describeJobFailure; attemptsMade counts the attempt that has failed.
WillRetry(made, error) == error.name # "UnrecoverableError" /\ made < MaxAttempts

\* The handler of failed: a job that is not repeated gets a copy.
Report(j, made, error) ==
  letter' = [letter EXCEPT ![j] =
    IF WillRetry(made, error) THEN @ ELSE [state |-> "due", code |-> ErrorCodeOf(error)]]

ReportFailure(j) ==
  /\ run[j].pc = "report"
  /\ Report(j, job[j].made, run[j].error)
  /\ run' = [run EXCEPT ![j] = IdleRun]
  /\ UNCHANGED <<procVars, job, stored, left>>

\* publishDeadLetter: the copy is added if the connection is still there...
SendCopy(j) ==
  /\ letter[j].state = "due" /\ "redis" \in open
  /\ letter' = [letter EXCEPT ![j].state = "sent"]
  /\ UNCHANGED <<procVars, job, run, stored, left>>

\* ... else, or if Redis refuses it, it is only logged.
LoseCopy(j) ==
  /\ letter[j].state = "due"
  /\ IF "redis" \in open THEN Suffer("copyError") ELSE UNCHANGED left
  /\ letter' = [letter EXCEPT ![j].state = "lost"]
  /\ UNCHANGED <<procVars, job, run, stored>>

\* The backoff is over; it needs no process.
PromoteJob(j) ==
  /\ job[j].state = "delayed"
  /\ job' = [job EXCEPT ![j].state = "wait"]
  /\ UNCHANGED <<procVars, run, stored, letter, left>>

\* The worker's check finds a job whose process was killed: it waits again, or
\* it stalled once too often and fails without running.
StalledCheck(j) ==
  /\ "worker" \in open
  /\ job[j].state = "active" /\ run[j].pc = "idle"
  /\ LET after == [Stalled(job[j]) EXCEPT !.owner = NoExecution] IN
     /\ job' = [job EXCEPT ![j] = after]
     /\ IF after.state = "failed" THEN Report(j, after.made, StalledError)
                                  ELSE UNCHANGED letter
  /\ UNCHANGED <<procVars, run, stored, left>>

\* The process is killed and started again: what it held is gone.
Kill ==
  /\ Suffer("kill")
  /\ boot' = "connect" /\ closing' = "none" /\ began' = "none"
  /\ open' = {} /\ exit' = 0
  /\ run' = [j \in Jobs |-> IdleRun]
  /\ letter' = [j \in Jobs |->
       IF \/ letter[j].state = "due"
          \/ run[j].pc = "report" /\ job[j].state = "failed"
         THEN [letter[j] EXCEPT !.state = "lost"] ELSE letter[j]]
  /\ UNCHANGED <<job, stored>>

-----------------------------------------------------------------------------
JobStep(j) ==
  \/ StartAttempt(j)
  \/ ProviderAnswers(j)
  \/ StoreResult(j)
  \/ StoreError(j)
  \/ DatabaseThrows(j)
  \/ SettleJob(j)
  \/ ReportFailure(j)

ProcessStep == Connected \/ BootstrapFails \/ WorkerReady \/ CloseNext

Next ==
  \/ ProcessStep \/ Signal \/ Kill
  \/ \E j \in Jobs : \/ JobStep(j) \/ TakeJob(j) \/ PromoteJob(j) \/ StalledCheck(j)
                     \/ SendCopy(j) \/ LoseCopy(j)

Spec == Init /\ [][Next]_vars

\* What was awaited comes to an end: the calls of an attempt have a timeout, but
\* for an event, which is published once Redis is back; connecting and closing
\* succeed or throw.
FairSpec ==
  /\ Spec
  /\ WF_vars(ProcessStep)
  /\ \A j \in Jobs : WF_vars(JobStep(j))

-----------------------------------------------------------------------------
\* A job that runs finds MongoDB, the queue and the publisher of events open,
\* whenever the signal comes: shutdown waits for it before it closes them.  The
\* exception is a shutdown that began while bootstrap was still connecting.
JobsKeepTheirConnections ==
  \A j \in Jobs : run[j].pc # "idle" =>
    \/ {"mongo", "redis", "eventsRedis", "deadLetterQueue"} \subseteq open
    \/ began = "connect"

\* A shutdown that is over leaves nothing open that could take another job
\* (with the same exception: bootstrap then goes on after it).
NothingOutlivesShutdown ==
  closing = "done" =>
    \/ open = {} /\ \A j \in Jobs : run[j].pc = "idle"
    \/ began = "connect"

\* The worker's reading of a failure is the queue's: a job has a dead-letter
\* copy, made, being made or lost, if and only if the queue gave it up (and the
\* handler of failed had its turn).
CopiedIffGivenUp ==
  \A j \in Jobs :
    /\ letter[j].state # "none" => job[j].state = "failed"
    /\ job[j].state = "failed" => letter[j].state # "none" \/ run[j].pc = "report"

\* The copy of a job names the error its brief was told, although the one is
\* read off what BullMQ reports and the other off what the processor caught.
CopyNamesTheError ==
  \A j \in Jobs :
    run[j].pc = "report" /\ run[j].error \notin {InternalError, DriverError}
      => ErrorCodeOf(run[j].error) = stored[j].code

\* What another attempt can mend: the provider was slow, unreachable, busy or
\* broken, or what it said cannot be used.
Recoverable(reply) ==
  \/ reply.fetched # "answered"
  \/ reply.status \in 200 .. 299 \cup {408, 429} \cup 500 .. 599

\* A job is repeated after such a reply as long as it has attempts left, and
\* never after another one (README.md:366-369).
RepeatedForGoodReason ==
  \A j \in Jobs :
    run[j].pc = "report" /\ run[j].error \notin {InternalError, DriverError}
      => (job[j].state # "failed"
            <=> (Recoverable(run[j].reply) /\ job[j].made < MaxAttempts))

\* Whoever made it, a stored result fits the schema the frontend renders.
StoredResultsFitTheSchema ==
  \A j \in Jobs : stored[j].result # NoResult => FitsSchema(stored[j].result)

\* A shutdown comes to its end, with jobs running or not.
ShutdownEnds == (closing \in Resources) ~> (closing \notin Resources)

-----------------------------------------------------------------------------
(* The promise, brief by brief.                                            *)

\* What a user can see of the brief of j (a result says what it was computed
\* from), and whether its only text is being analysed.
Brief(j) ==
  [status  |-> stored[j].status,
   content |-> 1,
   outcome |-> stored[j].result.outcome,
   of      |-> IF stored[j].result = NoResult THEN 0 ELSE 1,
   error   |-> IF stored[j].code = "none" THEN "none"
               ELSE IF stored[j].retryable THEN "retryable" ELSE "final",
   stale   |-> FALSE]

UnderAnalysis(j) == IF run[j].pc \in {"provider", "complete"} THEN 1 ELSE 0

Lifecycle(j) == INSTANCE BriefLifecycle WITH
  brief <- Brief(j),
  analysing <- UnderAnalysis(j)

\* From the moment create has stored it, the brief of a job follows
\* BriefLifecycle, whatever error ends which attempt, and whenever the process
\* is stopped or killed: this model of the worker and the one of BriefWorker
\* keep the same promise.
JobsFollowLifecycle ==
  /\ \A j \in Jobs : Brief(j) = Lifecycle(j)!NewBrief
  /\ [][\A j \in Jobs : Lifecycle(j)!Step]_vars

=============================================================================
