------------------------- MODULE BriefAttentionProofs -------------------------
(***************************************************************************)
(* What becomes of a brief between two programs: a FAILED one has no retry *)
(* left in the queue, and a PROCESSING one has a job, or somebody who is   *)
(* about to add one.                                                       *)
(***************************************************************************)
EXTENDS BriefClaimProofs

-----------------------------------------------------------------------------
(* What a step leaves alone, as long as no lock is lost and no MongoDB     *)
(* call of the worker throws.                                              *)

\* A step of an execution concerns its own brief and nobody else's.
LEMMA OnlyOwnBrief ==
  ASSUME LockInv, NEW e \in Executions, ExecutionStep(e)
  PROVE  /\ exec[e].pc # "idle" /\ exec[e].brief \in Briefs
         /\ Holds(e, job[exec[e].brief])
         /\ \A f \in Executions \ {e} :
              /\ exec'[f] = exec[f]
              /\ exec[f].pc # "idle" => exec[f].brief # exec[e].brief
         /\ \A b \in Briefs \ {exec[e].brief} : doc'[b] = doc[b] /\ job'[b] = job[b]
         /\ UNCHANGED <<req, rec, left>>
<1>1. /\ exec \in [Executions -> Execution] /\ doc \in [Briefs -> Document]
      /\ job \in [Briefs -> Job] /\ SoundExecution(exec[e])
  BY DEF LockInv, TypeInv, SoundJobs, SoundExecutions, TypedDocs
<1>2. exec[e].pc # "idle" /\ exec[e].brief \in Briefs
  BY <1>1 DEF SoundExecution, ExecutionStep, ClaimBrief, MissBrief, RecheckBrief, AnalyzeBrief,
    CompleteBrief, PersistFailure, SettleJob, At
<1>3. Holds(e, job[exec[e].brief])
  BY <1>2 DEF LockInv, LocksAreHeld, Holds
<1>4. \A f \in Executions \ {e} : exec'[f] = exec[f]
  BY <1>1 DEF ExecutionStep, ClaimBrief, MissBrief, RecheckBrief, AnalyzeBrief,
    CompleteBrief, PersistFailure, SettleJob, Goto
<1>5. \A f \in Executions \ {e} : exec[f].pc # "idle" => exec[f].brief # exec[e].brief
  BY <1>2, OneExecutionPerBrief DEF LockInv
<1>6. \A b \in Briefs \ {exec[e].brief} : doc'[b] = doc[b] /\ job'[b] = job[b]
  BY <1>1, <1>2 DEF ExecutionStep, ClaimBrief, MissBrief, RecheckBrief, AnalyzeBrief,
    CompleteBrief, PersistFailure, SettleJob, Write
<1>7. UNCHANGED <<req, rec, left>>
  BY DEF ExecutionStep, ClaimBrief, MissBrief, RecheckBrief, AnalyzeBrief,
    CompleteBrief, PersistFailure, SettleJob
<1>8. QED
  BY <1>2, <1>3, <1>4, <1>5, <1>6, <1>7

\* A step of BullMQ with the job of one brief.
QueueStep(b) ==
  \/ PromoteJob(b) \/ OrphanLockExpires(b) \/ StalledCheck(b) \/ TrimJob(b)

\* The steps of the worker that such a state allows.
LEMMA WorkerSteps ==
  ASSUME LockInv, NoDatabaseError, WorkerNext
  PROVE  \/ \E e \in Executions : ExecutionStep(e)
         \/ \E e \in Executions, b \in Briefs : TakeJob(e, b)
         \/ \E b \in Briefs : QueueStep(b)
         \/ \E w \in Workers : WorkerCrash(w)
BY DEF LockInv, NoLockLoss, NoDatabaseError, WorkerNext, DatabaseError, LockLost, Spend, QueueStep

\* The other steps of the worker write no document.
LEMMA QueueWritesNothing ==
  /\ \A e, b : TakeJob(e, b) => UNCHANGED <<doc, req, rec, left>>
  /\ \A b : QueueStep(b) => UNCHANGED <<doc, exec, req, rec>>
  /\ \A w : WorkerCrash(w) => UNCHANGED <<doc, job, req, rec>>
BY DEF TakeJob, QueueStep, PromoteJob, OrphanLockExpires, StalledCheck, TrimJob, WorkerCrash

\* What the API may make of a status.
LEMMA ApiStatus ==
  ASSUME TypeInv, ApiNext, NEW b \in Briefs
  PROVE  /\ doc'[b].status = "PROCESSING" => doc[b].status = "PROCESSING"
         /\ doc[b].status = "DELETED" => doc'[b].status = "DELETED"
         /\ NothingToCompensate /\ doc'[b].status = "FAILED" => doc[b].status = "FAILED"
<1> DEFINE Kept(d) ==
      /\ d.status = "PROCESSING" => doc[b].status = "PROCESSING"
      /\ doc[b].status = "DELETED" => d.status = "DELETED"
      /\ NothingToCompensate /\ d.status = "FAILED" => doc[b].status = "FAILED"
<1>0. doc \in [Briefs -> Document] /\ doc[b] \in Document
  BY DEF TypeInv, TypedDocs
<1>1. Kept(doc[b])
  OBVIOUS
<1>2. ASSUME NEW r \in Requests, RequestStep(r) PROVE Kept(doc'[b])
  <2>1. CASE CompensateCreateWrite(r) \/ CompensateRetryWrite(r)
    <3>1. ~NothingToCompensate
      BY <2>1 DEF NothingToCompensate, CompensateCreateWrite, CompensateRetryWrite, Waits
    <3>2. doc'[b] \in {doc[b], CompensateCreate(doc[b]), CompensateRetry(doc[b])}
      BY <1>0, <2>1 DEF CompensateCreateWrite, CompensateRetryWrite, Store
    <3>3. Kept(CompensateCreate(doc[b])) /\ Kept(CompensateRetry(doc[b]))
      BY <1>0, <3>1 DEF CompensateCreate, CompensateRetry, Exists, Stored, Moved, Document
    <3>4. QED
      BY <1>1, <3>2, <3>3
  <2>2. CASE RetryWrite(r)
    <3>1. doc'[b] \in {doc[b], BackToPending(doc[b], req[r].read)}
      BY <1>0, <2>2 DEF RetryWrite, Store
    <3>2. Kept(BackToPending(doc[b], req[r].read))
      BY <1>0 DEF BackToPending, RetryMatches, Retryable, Emptied, Moved, Document
    <3>3. QED
      BY <1>1, <3>1, <3>2
  <2>3. CASE UNCHANGED doc
    BY <1>1, <2>3
  <2>4. QED
    BY <1>2, <2>1, <2>2, <2>3 DEF RequestStep, Enqueue, EnqueueThrows, RetryRemove,
      RetryAdd, RetryThrows, RemoveJob
<1>3. ASSUME NEW r \in Requests, NEW c \in Briefs,
             CreateBrief(r, c) \/ ReadForRetry(r, c) \/ RemoveBrief(r, c)
      PROVE  Kept(doc'[b])
  <2>1. \/ doc'[b] = doc[b]
        \/ doc'[b] = NewBrief /\ doc[b].status = "UNBORN"
        \/ doc'[b] = Deleted
    BY <1>0, <1>3 DEF CreateBrief, ReadForRetry, RemoveBrief, Store
  <2>2. NewBrief.status = "PENDING" /\ Deleted.status = "DELETED"
    BY DEF NewBrief, Deleted, Unborn
  <2>3. QED
    BY <1>1, <2>1, <2>2
<1>4. ASSUME NEW c \in Briefs, UpdateBrief(c) \/ Age(c) PROVE Kept(doc'[b])
  <2>1. doc'[b] \in {doc[b], Edited(doc[b]), [doc[b] EXCEPT !.stale = TRUE]}
    BY <1>0, <1>4 DEF UpdateBrief, Age, Store
  <2>2. /\ Edited(doc[b]).status = doc[b].status
        /\ [doc[b] EXCEPT !.stale = TRUE].status = doc[b].status
    BY <1>0 DEF Edited, Document
  <2>3. QED
    BY <1>1, <2>1, <2>2
<1>5. CASE ApiCrash
  BY <1>1, <1>5 DEF ApiCrash
<1>6. Kept(doc'[b])
  BY <1>2, <1>3, <1>4, <1>5, Zenon DEF ApiNext
<1>7. QED
  BY <1>6

\* The cycle writes no document, and neither it nor the API touches executions.
LEMMA OthersLeaveAlone ==
  /\ ReconciliationNext => UNCHANGED <<doc, exec, req>>
  /\ ApiNext => UNCHANGED exec
BY DEF ApiNext, RequestStep, CreateBrief, Enqueue, EnqueueThrows, CompensateCreateWrite,
  ReadForRetry, RetryWrite, RetryRemove, RetryAdd, RetryThrows, CompensateRetryWrite,
  UpdateBrief, RemoveBrief, RemoveJob, Age, ApiCrash, ReconciliationNext, ListPending,
  GetJob, FinishCycle, GetState, RemoveTerminalJob, AddJob, CycleThrows

\* They change a job by adding or removing it, if at all.
LEMMA OthersCallQueue ==
  ASSUME TypeInv, ApiNext \/ ReconciliationNext, NEW b \in Briefs
  PROVE  job'[b] \in {job[b], Add(job[b]), Remove(job[b])}
<1>0. job \in [Briefs -> Job]
  BY DEF TypeInv, SoundJobs
<1>1. \A c, j : QueueAnswers(c, j) \/ QueueThrows(c, j) =>
        job'[b] = job[b] \/ (b = c /\ job'[b] = j)
  BY <1>0 DEF QueueAnswers, QueueThrows
<1>2. ASSUME NEW r \in Requests, RequestStep(r)
      PROVE  job'[b] \in {job[b], Add(job[b]), Remove(job[b])}
  BY <1>1, <1>2 DEF RequestStep, Enqueue, EnqueueThrows, CompensateCreateWrite,
    RetryWrite, RetryRemove, RetryAdd, RetryThrows, CompensateRetryWrite, RemoveJob
<1>3. CASE ApiNext
  BY <1>2, <1>3 DEF ApiNext, CreateBrief, ReadForRetry, UpdateBrief, RemoveBrief, Age, ApiCrash
<1>4. CASE ReconciliationNext
  BY <1>1, <1>4 DEF ReconciliationNext, ListPending, GetJob, FinishCycle, GetState,
    RemoveTerminalJob, AddJob, CycleThrows
<1>5. QED
  BY <1>3, <1>4

\* The documents after the steps of the worker that write one.
LEMMA WorkerStatus ==
  ASSUME TypeInv, NEW e \in Executions, exec[e].brief \in Briefs
  PROVE  LET d == doc[exec[e].brief] IN
         /\ ClaimBrief(e) => doc'[exec[e].brief].status = "PROCESSING"
         /\ CompleteBrief(e) =>
              doc'[exec[e].brief].status
                = IF d.status = "PROCESSING" THEN "COMPLETED" ELSE d.status
         /\ PersistFailure(e) => doc'[exec[e].brief].status # "PROCESSING"
         /\ PersistFailure(e) /\ WillRetry(exec[e]) /\ d.status # "FAILED" =>
              doc'[exec[e].brief].status # "FAILED"
<1> DEFINE b == exec[e].brief
           d == doc[b]
<1>1. d \in Document /\ doc \in [Briefs -> Document]
  BY DEF TypeInv, TypedDocs
<1>2. ClaimBrief(e) => doc'[b].status = "PROCESSING"
  BY <1>1 DEF ClaimBrief, Write, StartAttempt, Emptied, Moved, Document
<1>3. CompleteBrief(e) =>
        doc'[b].status = IF d.status = "PROCESSING" THEN "COMPLETED" ELSE d.status
  BY <1>1 DEF CompleteBrief, Write, Complete, Moved, Document
<1>4. PrepareRetry(d).status = IF d.status = "PROCESSING" THEN "PENDING" ELSE d.status
  BY <1>1 DEF PrepareRetry, Emptied, Moved, Document
<1>5. \A err : Fail(d, err).status = IF Claimable(d) THEN "FAILED" ELSE d.status
  BY <1>1 DEF Fail, Emptied, Moved, Document
<1>6. d.status = "PROCESSING" => Claimable(d)
  BY DEF Claimable, Exists, Stored
<1>7. PersistFailure(e) => doc'[b] = FailureWrite(exec[e])
  BY <1>1 DEF PersistFailure, Write
<1>8. FailureWrite(exec[e]) = IF WillRetry(exec[e]) THEN PrepareRetry(d)
                                                   ELSE Fail(d, exec[e].verdict)
  BY DEF FailureWrite
<1>9. QED
  BY <1>2, <1>3, <1>4, <1>5, <1>6, <1>7, <1>8

\* Where the steps of an execution lead.
LEMMA ExecutionGoes ==
  ASSUME TypeInv, NEW e \in Executions, ExecutionStep(e)
  PROVE  /\ ~SettleJob(e) => /\ exec'[e].pc # "idle" /\ exec'[e].brief = exec[e].brief
                             /\ exec'[e].made = exec[e].made
         /\ SettleJob(e) => exec'[e] = IdleExecution
         /\ ClaimBrief(e) => exec'[e].pc = "analyze"
         /\ MissBrief(e) => exec'[e].pc = "recheck"
         /\ RecheckBrief(e) => exec'[e].pc = "settle"
         /\ AnalyzeBrief(e) => exec'[e].pc \in {"complete", "catch"}
         /\ CompleteBrief(e) =>
              \/ doc[exec[e].brief].status = "PROCESSING"
                 /\ exec'[e].pc = "settle" /\ exec'[e].verdict = "ok"
              \/ doc[exec[e].brief].status # "PROCESSING" /\ exec'[e].pc = "catch"
         /\ PersistFailure(e) => exec'[e] = [exec[e] EXCEPT !.pc = "settle"]
         /\ ~SettleJob(e) => UNCHANGED job
<1>1. exec \in [Executions -> Execution] /\ exec[e] \in Execution
  BY DEF TypeInv, SoundExecutions
<1>2. QED
  BY <1>1 DEF ExecutionStep, ClaimBrief, MissBrief, RecheckBrief, AnalyzeBrief,
    CompleteBrief, PersistFailure, SettleJob, Goto, Execution

-----------------------------------------------------------------------------
(* The worker's forecast of BullMQ's decision.                             *)

\* As long as no queue call fails, no request has anything to make up for.
LEMMA NothingFails ==
  ASSUME ForecastInv, [Next]_vars
  PROVE  NothingToCompensate'
<1>0. req \in [Requests -> Request] /\ NothingToCompensate
  BY DEF ForecastInv, LockInv, TypeInv, SoundRequests
<1>1. \A c, j : ~QueueThrows(c, j)
  BY DEF ForecastInv, NoQueueError, QueueThrows, Spend
<1>2. ASSUME NEW r \in Requests, RequestStep(r) PROVE NothingToCompensate'
  <2>1. Answer(r) \/ Proceed(r, "retryRemove") \/ Proceed(r, "retryAdd")
    BY <1>1, <1>2 DEF RequestStep, Enqueue, EnqueueThrows, CompensateCreateWrite, RetryWrite,
      RetryRemove, RetryAdd, RetryThrows, CompensateRetryWrite, RemoveJob
  <2>2. req'[r].pc \in {"idle", "retryRemove", "retryAdd"}
    BY <1>0, <2>1 DEF Answer, Proceed, IdleRequest, Request
  <2>3. \A s \in Requests \ {r} : req'[s] = req[s]
    BY <1>0, <2>1 DEF Answer, Proceed
  <2>4. QED
    BY <1>0, <2>2, <2>3 DEF NothingToCompensate
<1>o. ASSUME NEW r \in Requests, NEW pc \in {"enqueue", "retryWrite", "removeJob"},
             NEW b, NEW read, Open(r, pc, b, read)
      PROVE  NothingToCompensate'
  <2>1. req'[r].pc = pc /\ \A s \in Requests \ {r} : req'[s] = req[s]
    BY <1>0, <1>o DEF Open
  <2>2. QED
    BY <1>0, <2>1 DEF NothingToCompensate
<1>u. CASE UNCHANGED req
  BY <1>0, <1>u DEF NothingToCompensate
<1>c. CASE ApiCrash
  BY <1>c DEF ApiCrash, IdleRequest, NothingToCompensate
<1>3. CASE ApiNext
  BY <1>2, <1>3, <1>o, <1>u, <1>c DEF ApiNext, CreateBrief, ReadForRetry, RemoveBrief,
    UpdateBrief, Age
<1>4. CASE WorkerNext
  <2>1. UNCHANGED req
    BY <1>4, WorkerSteps, OnlyOwnBrief, QueueWritesNothing DEF ForecastInv
  <2>2. QED
    BY <1>0, <2>1 DEF NothingToCompensate
<1>5. CASE ReconciliationNext \/ UNCHANGED vars
  BY <1>0, <1>5, OthersLeaveAlone DEF NothingToCompensate, vars
<1>6. QED
  BY <1>3, <1>4, <1>5 DEF Next

\* An execution's job keeps its attempts as long as the execution is on.
LEMMA AttemptsStayKnown ==
  ASSUME ForecastInv, [Next]_vars
  PROVE  AttemptsAreKnown'
<1>0. /\ exec \in [Executions -> Execution] /\ job \in [Briefs -> Job]
      /\ \A f \in Executions : exec[f].pc # "idle" =>
           /\ exec[f].brief \in Briefs /\ Holds(f, job[exec[f].brief])
           /\ exec[f].made = job[exec[f].brief].made
  BY DEF ForecastInv, LockInv, TypeInv, SoundJobs, SoundExecutions, SoundExecution,
    LocksAreHeld, Holds, AttemptsAreKnown
<1>1. ASSUME NEW e \in Executions, ExecutionStep(e) PROVE AttemptsAreKnown'
  <2>1. ASSUME NEW f \in Executions \ {e}, exec'[f].pc # "idle"
        PROVE  exec'[f].made = job'[exec'[f].brief].made
    BY <1>0, <1>1, <2>1, OnlyOwnBrief DEF ForecastInv
  <2>2. ASSUME exec'[e].pc # "idle" PROVE exec'[e].made = job'[exec'[e].brief].made
    <3>1. TypeInv /\ exec[e].pc # "idle"
      BY <1>1, OnlyOwnBrief DEF ForecastInv, LockInv
    <3>2. ~SettleJob(e)
      <4>1. exec'[e] # IdleExecution
        BY <2>2 DEF IdleExecution
      <4>2. QED
        BY <1>1, <3>1, <4>1, ExecutionGoes
    <3>3. exec'[e].brief = exec[e].brief /\ exec'[e].made = exec[e].made /\ UNCHANGED job
      BY <1>1, <3>1, <3>2, ExecutionGoes
    <3>4. QED
      BY <1>0, <3>1, <3>3
  <2>3. QED
    BY <2>1, <2>2 DEF AttemptsAreKnown
<1>2. ASSUME NEW e \in Executions, NEW b \in Briefs, TakeJob(e, b) PROVE AttemptsAreKnown'
  <2>1. ASSUME NEW f \in Executions \ {e}, exec'[f].pc # "idle"
        PROVE  exec'[f].made = job'[exec'[f].brief].made
    <3>1. exec'[f] = exec[f] /\ exec[f].pc # "idle"
      BY <1>0, <1>2, <2>1 DEF TakeJob
    <3>2. exec[f].brief \in Briefs /\ job'[exec[f].brief] = job[exec[f].brief]
      BY <1>0, <1>2, <3>1 DEF TakeJob, Holds
    <3>3. QED
      BY <1>0, <3>1, <3>2
  <2>2. exec'[e].made = job[b].made /\ exec'[e].brief = b
    BY <1>0, <1>2 DEF TakeJob, IdleExecution
  <2>3. job'[b].made = job[b].made
    BY <1>0, <1>2 DEF TakeJob, Take, Job
  <2>4. QED
    BY <2>1, <2>2, <2>3 DEF AttemptsAreKnown
<1>3. ASSUME UNCHANGED exec,
             \A f \in Executions : exec[f].pc # "idle" =>
               job'[exec[f].brief].made = job[exec[f].brief].made
      PROVE  AttemptsAreKnown'
  BY <1>0, <1>3 DEF AttemptsAreKnown
<1>4. ASSUME NEW b \in Briefs, QueueStep(b) PROVE AttemptsAreKnown'
  <2>1. ASSUME NEW f \in Executions, exec[f].pc # "idle"
        PROVE  job'[exec[f].brief].made = job[exec[f].brief].made
    BY <1>0, <1>4, <2>1, AttemptsAssumption
    DEF QueueStep, PromoteJob, OrphanLockExpires, StalledCheck, TrimJob,
      ReleaseLock, Stalled, Holds, Job, Terminal, Locked, AttemptsAssumption
  <2>2. QED
    BY <1>3, <1>4, <2>1, QueueWritesNothing
<1>5. ASSUME NEW w \in Workers, WorkerCrash(w) PROVE AttemptsAreKnown'
  BY <1>0, <1>5 DEF WorkerCrash, IdleExecution, AttemptsAreKnown
<1>6. CASE ApiNext \/ ReconciliationNext
  <2>1. ASSUME NEW f \in Executions, exec[f].pc # "idle"
        PROVE  job'[exec[f].brief] = job[exec[f].brief]
    <3>1. exec[f].brief \in Briefs /\ Holds(f, job[exec[f].brief])
      BY <1>0, <2>1
    <3>2. job'[exec[f].brief] \in {job[exec[f].brief], Add(job[exec[f].brief]),
                                   Remove(job[exec[f].brief])}
      BY <1>6, <3>1, OthersCallQueue DEF ForecastInv, LockInv
    <3>3. QED
      BY <3>1, <3>2, AttemptsAssumption
      DEF Holds, Add, Remove, Locked, AttemptsAssumption
  <2>2. QED
    BY <1>3, <1>6, <2>1, OthersLeaveAlone
<1>7. CASE UNCHANGED vars
  BY <1>3, <1>7 DEF vars
<1>8. QED
  BY <1>1, <1>2, <1>4, <1>5, <1>6, <1>7, WorkerSteps DEF Next, ForecastInv

\* A brief becomes FAILED only by the catch block of the execution that holds
\* the lock of its job.
LEMMA OnlyCatchFails ==
  ASSUME ForecastInv, [Next]_vars, NEW b \in Briefs,
         doc[b].status # "FAILED", doc'[b].status = "FAILED"
  PROVE  \E e \in Executions :
           exec[e].brief = b /\ PersistFailure(e) /\ ~WillRetry(exec[e])
<1>1. CASE ApiNext
  BY <1>1, ApiStatus DEF ForecastInv, LockInv
<1>2. CASE ReconciliationNext \/ UNCHANGED vars
  BY <1>2, OthersLeaveAlone DEF vars
<1>3. ASSUME NEW e \in Executions, ExecutionStep(e)
      PROVE  exec[e].brief = b /\ PersistFailure(e) /\ ~WillRetry(exec[e])
  <2>1. exec[e].brief = b
    BY <1>3, OnlyOwnBrief DEF ForecastInv
  <2>2. ~MissBrief(e) /\ ~RecheckBrief(e) /\ ~AnalyzeBrief(e) /\ ~SettleJob(e)
    BY DEF MissBrief, RecheckBrief, AnalyzeBrief, SettleJob
  <2>3. ~ClaimBrief(e) /\ ~CompleteBrief(e) /\ (PersistFailure(e) => ~WillRetry(exec[e]))
    BY <2>1, WorkerStatus DEF ForecastInv, LockInv
  <2>4. QED
    BY <1>3, <2>1, <2>2, <2>3 DEF ExecutionStep
<1>4. CASE WorkerNext
  BY <1>3, <1>4, WorkerSteps, QueueWritesNothing DEF ForecastInv
<1>5. QED
  BY <1>1, <1>2, <1>4 DEF Next

\* Where an execution stands when it matters that its brief is not FAILED.
Forecasts(x) ==
  \/ x.pc \in {"recheck", "analyze", "complete", "catch"}
  \/ x.pc = "settle" /\ WillRetry(x)

\* A step of the execution itself...
LEMMA ForecastOfExecution ==
  ASSUME ForecastInv, NEW e \in Executions, ExecutionStep(e), Forecasts(exec'[e])
  PROVE  doc'[exec'[e].brief].status # "FAILED"
<1> DEFINE b == exec[e].brief
<1>0. /\ exec \in [Executions -> Execution] /\ TypeInv /\ b \in Briefs
      /\ Forecasts(exec[e]) => doc[b].status # "FAILED"
  BY OnlyOwnBrief DEF ForecastInv, LockInv, TypeInv, SoundExecutions, FailureIsForeseen, Forecasts
<1>1. ~SettleJob(e) /\ exec'[e].brief = b
  <2>1. exec'[e] # IdleExecution
    BY DEF IdleExecution, Forecasts
  <2>2. QED
    BY <1>0, <2>1, ExecutionGoes
<1>2. CASE ClaimBrief(e)
  BY <1>0, <1>1, <1>2, WorkerStatus
<1>3. CASE MissBrief(e)
  BY <1>1, <1>3 DEF MissBrief, Claimable, Exists, Stored
<1>4. CASE RecheckBrief(e) \/ AnalyzeBrief(e)
  BY <1>0, <1>1, <1>4 DEF RecheckBrief, AnalyzeBrief, At, Forecasts
<1>5. CASE CompleteBrief(e)
  <2>1. doc[b].status # "FAILED"
    BY <1>0, <1>5 DEF CompleteBrief, At, Forecasts
  <2>2. QED
    BY <1>0, <1>1, <1>5, <2>1, WorkerStatus
<1>6. CASE PersistFailure(e)
  <2>1. doc[b].status # "FAILED"
    BY <1>0, <1>6 DEF PersistFailure, At, Forecasts
  <2>2. exec'[e] = [exec[e] EXCEPT !.pc = "settle"] /\ exec[e] \in Execution
    BY <1>0, <1>6, ExecutionGoes
  <2>3. exec'[e].pc = "settle" /\ exec'[e].verdict = exec[e].verdict
        /\ exec'[e].made = exec[e].made
    BY <2>2 DEF Execution
  <2>4. WillRetry(exec[e])
    BY <2>3 DEF Forecasts, WillRetry
  <2>5. QED
    BY <1>0, <1>1, <1>6, <2>1, <2>4, WorkerStatus
<1>7. QED
  BY <1>1, <1>2, <1>3, <1>4, <1>5, <1>6 DEF ExecutionStep

\* ... and one of somebody else, who cannot make its brief FAILED.
LEMMA FailureStaysForeseen ==
  ASSUME ForecastInv, [Next]_vars
  PROVE  FailureIsForeseen'
<1> SUFFICES ASSUME NEW f \in Executions, Forecasts(exec'[f])
             PROVE  doc'[exec'[f].brief].status # "FAILED"
  BY DEF FailureIsForeseen, Forecasts, WillRetry
<1>0. /\ exec \in [Executions -> Execution] /\ TypeInv
      /\ exec[f].pc # "idle" => exec[f].brief \in Briefs
      /\ Forecasts(exec[f]) => doc[exec[f].brief].status # "FAILED" /\ exec[f].pc # "idle"
  BY DEF ForecastInv, LockInv, TypeInv, SoundExecutions, SoundExecution, FailureIsForeseen,
    Forecasts
<1>1. ASSUME exec'[f] = exec[f],
             \A e \in Executions : PersistFailure(e) => exec[e].brief # exec[f].brief
      PROVE  doc'[exec'[f].brief].status # "FAILED"
  BY <1>0, <1>1, OnlyCatchFails
<1>2. ASSUME NEW e \in Executions, ExecutionStep(e)
      PROVE  doc'[exec'[f].brief].status # "FAILED"
  <2>1. CASE f = e
    BY <1>2, <2>1, ForecastOfExecution
  <2>2. CASE f # e
    <3>1. exec'[f] = exec[f] /\ exec[f].brief # exec[e].brief
          /\ doc'[exec[f].brief] = doc[exec[f].brief]
      BY <1>0, <1>2, <2>2, OnlyOwnBrief DEF ForecastInv
    <3>2. QED
      BY <1>0, <3>1
  <2>3. QED
    BY <2>1, <2>2
<1>3. ASSUME UNCHANGED exec, \A b \in Briefs : doc'[b].status = "FAILED" => doc[b].status = "FAILED"
      PROVE  doc'[exec'[f].brief].status # "FAILED"
  BY <1>0, <1>3
<1>4. CASE ApiNext
  BY <1>3, <1>4, ApiStatus, OthersLeaveAlone DEF ForecastInv, LockInv
<1>5. CASE ReconciliationNext \/ UNCHANGED vars \/ \E b \in Briefs : QueueStep(b)
  BY <1>3, <1>5, OthersLeaveAlone, QueueWritesNothing DEF vars
<1>6. CASE \E e \in Executions, b \in Briefs : TakeJob(e, b)
  <2>1. exec'[f] = exec[f] /\ UNCHANGED doc
    BY <1>0, <1>6 DEF TakeJob, IdleExecution, Forecasts
  <2>2. QED
    BY <1>0, <2>1
<1>7. CASE \E w \in Workers : WorkerCrash(w)
  <2>1. exec'[f] = exec[f] /\ UNCHANGED doc
    BY <1>0, <1>7 DEF WorkerCrash, IdleExecution, Forecasts
  <2>2. QED
    BY <1>0, <2>1
<1>8. QED
  BY <1>2, <1>4, <1>5, <1>6, <1>7, WorkerSteps DEF Next, ForecastInv

\* A job is delayed only by the end of an execution that has a retry.
LEMMA OnlySettleDelays ==
  ASSUME ForecastInv, [Next]_vars, NEW b \in Briefs,
         job[b].state # "delayed", job'[b].state = "delayed"
  PROVE  \E e \in Executions :
           exec[e].brief = b /\ exec[e].pc = "settle" /\ WillRetry(exec[e]) /\ UNCHANGED doc
<1>0. job \in [Briefs -> Job] /\ job[b] \in Job /\ TypeInv
  BY DEF ForecastInv, LockInv, TypeInv, SoundJobs
<1>1. CASE ApiNext \/ ReconciliationNext
  <2>1. job'[b] \in {job[b], Add(job[b]), Remove(job[b])}
    BY <1>0, <1>1, OthersCallQueue
  <2>2. QED
    BY <2>1 DEF Add, Remove, NoJob
<1>2. CASE UNCHANGED vars
  BY <1>2 DEF vars
<1>3. ASSUME NEW e \in Executions, ExecutionStep(e)
      PROVE  exec[e].brief = b /\ exec[e].pc = "settle" /\ WillRetry(exec[e]) /\ UNCHANGED doc
  <2>1. SettleJob(e) /\ exec[e].brief = b
    BY <1>0, <1>3, OnlyOwnBrief, ExecutionGoes DEF ForecastInv
  <2>2. /\ exec[e].pc = "settle" /\ UNCHANGED doc
        /\ job[b].owner = e /\ exec[e].made = job[b].made
    BY <2>1 DEF SettleJob, At, ForecastInv, LockInv, LocksAreHeld, AttemptsAreKnown
  <2>3. job'[b] = IF exec[e].verdict = "ok" THEN Succeeded(job[b])
                  ELSE FailedOnce(job[b], exec[e].verdict = "retryable")
    BY <1>0, <2>1, <2>2 DEF SettleJob
  <2>4. Succeeded(job[b]).state = "completed"
    BY <1>0 DEF Succeeded, Job
  <2>5. FailedOnce(job[b], exec[e].verdict = "retryable").state = "delayed" =>
          exec[e].verdict = "retryable" /\ job[b].made + 1 < MaxAttempts
    BY <1>0 DEF FailedOnce, RetryAllowed, Job
  <2>6. QED
    BY <2>1, <2>2, <2>3, <2>4, <2>5 DEF WillRetry
<1>4. ASSUME NEW e \in Executions, NEW c \in Briefs, TakeJob(e, c) PROVE FALSE
  <2>1. job' = [job EXCEPT ![c] = Take(job[c], e)]
    BY <1>0, <1>4 DEF TakeJob
  <2>2. Take(job[b], e).state = "active"
    BY <1>0 DEF Take, Job
  <2>3. QED
    BY <1>0, <2>1, <2>2
<1>5. ASSUME NEW c \in Briefs, QueueStep(c) PROVE FALSE
  <2>1. /\ [job[b] EXCEPT !.state = "wait"].state # "delayed"
        /\ [job[b] EXCEPT !.owner = NoExecution].state # "delayed"
        /\ Stalled(job[b]).state # "delayed"
        /\ NoJob.state # "delayed"
    BY <1>0 DEF Stalled, NoJob, Job
  <2>2. \/ job'[b] = job[b]
        \/ job'[b] = [job[b] EXCEPT !.state = "wait"]
        \/ job'[b] = [job[b] EXCEPT !.owner = NoExecution]
        \/ job'[b] = Stalled(job[b])
        \/ job'[b] = NoJob
    BY <1>0, <1>5 DEF QueueStep, PromoteJob, OrphanLockExpires, StalledCheck, TrimJob, ReleaseLock
  <2>3. QED
    BY <2>1, <2>2
<1>6. ~\E w \in Workers : WorkerCrash(w)
  BY DEF WorkerCrash
<1>7. QED
  BY <1>1, <1>2, <1>3, <1>4, <1>5, <1>6, WorkerSteps DEF Next, ForecastInv

\* ForecastInv is inductive.
LEMMA ForecastStep == ForecastInv /\ [Next]_vars => ForecastInv'
<1> SUFFICES ASSUME ForecastInv, [Next]_vars PROVE ForecastInv'
  OBVIOUS
<1>1. LockInv'
  BY LockStep DEF ForecastInv
<1>2. NoDatabaseError' /\ NoQueueError'
  BY BoundsOnlyShrink DEF ForecastInv, LockInv, NoDatabaseError, NoQueueError, Kinds
<1>3. ASSUME NEW b \in Briefs, doc'[b].status = "FAILED", job'[b].state = "delayed"
      PROVE  FALSE
  <2>1. doc[b].status # "FAILED" \/ job[b].state # "delayed"
    BY DEF ForecastInv, FailedIsNotDelayed
  <2>2. CASE doc[b].status # "FAILED"
    <3>1. PICK e \in Executions : exec[e].brief = b /\ PersistFailure(e)
      BY <1>3, <2>2, OnlyCatchFails
    <3>2. UNCHANGED job /\ exec[e].pc # "idle"
      BY <3>1 DEF PersistFailure, At
    <3>3. job[b].state = "active"
      BY <3>1, <3>2 DEF ForecastInv, LockInv, LocksAreHeld
    <3>4. QED
      BY <1>3, <3>2, <3>3
  <2>3. CASE doc[b].status = "FAILED" /\ job[b].state # "delayed"
    <3>1. PICK e \in Executions :
            exec[e].brief = b /\ exec[e].pc = "settle" /\ WillRetry(exec[e])
      BY <1>3, <2>3, OnlySettleDelays
    <3>2. QED
      BY <2>3, <3>1 DEF ForecastInv, FailureIsForeseen
  <2>4. QED
    BY <2>1, <2>2, <2>3
<1>4. QED
  BY <1>1, <1>2, <1>3, NothingFails, AttemptsStayKnown, FailureStaysForeseen
  DEF ForecastInv, FailedIsNotDelayed

\* As long as no lock is lost, no MongoDB call of the worker throws and no queue
\* call fails, and whatever crashes: where processBrief stores FAILED, having
\* foreseen that BullMQ will not repeat the job (willRetry), BullMQ does not.
THEOREM ForecastIsRight ==
  ASSUME Bounds["lockLoss"] = 0, Bounds["databaseError"] = 0,
         Bounds["queueError"] = 0, Bounds["lostAnswer"] = 0
  PROVE  Spec => []FailedIsNotDelayed
<1>1. Init => ForecastInv
  BY LockInit DEF Init, ForecastInv, NoDatabaseError, NoQueueError, NothingToCompensate,
    AttemptsAreKnown, FailureIsForeseen, FailedIsNotDelayed, IdleExecution, IdleRequest, Unborn
<1>2. ForecastInv => FailedIsNotDelayed
  BY DEF ForecastInv
<1>3. QED
  BY <1>1, <1>2, ForecastStep, PTL DEF Spec

-----------------------------------------------------------------------------
(* Somebody sees to every PROCESSING brief.                                *)

\* Only a claim makes a brief PROCESSING, and a removed one stays removed.
LEMMA OnlyClaimProcesses ==
  ASSUME LockInv, NoDatabaseError, [Next]_vars, NEW b \in Briefs
  PROVE  /\ doc[b].status = "DELETED" => doc'[b].status = "DELETED"
         /\ doc[b].status # "PROCESSING" /\ doc'[b].status = "PROCESSING" =>
              \E e \in Executions : ExecutionStep(e) /\ ClaimBrief(e) /\ exec[e].brief = b
<1> DEFINE Kept == /\ doc[b].status = "DELETED" => doc'[b].status = "DELETED"
                   /\ doc'[b].status = "PROCESSING" => doc[b].status = "PROCESSING"
<1>1. CASE ApiNext
  BY <1>1, ApiStatus DEF LockInv
<1>2. CASE ReconciliationNext \/ UNCHANGED vars
  BY <1>2, OthersLeaveAlone DEF vars
<1>3. ASSUME NEW e \in Executions, ExecutionStep(e)
      PROVE  /\ doc[b].status = "DELETED" => doc'[b].status = "DELETED"
             /\ doc[b].status # "PROCESSING" /\ doc'[b].status = "PROCESSING" =>
                  ClaimBrief(e) /\ exec[e].brief = b
  <2>0. TypeInv /\ doc[b] \in Document /\ exec[e].brief \in Briefs
    BY <1>3, OnlyOwnBrief DEF LockInv, TypeInv, TypedDocs
  <2>1. CASE exec[e].brief # b
    BY <1>3, <2>1, OnlyOwnBrief
  <2>2. CASE exec[e].brief = b
    <3>1. CASE ClaimBrief(e)
      BY <2>2, <3>1 DEF ClaimBrief, Claimable, Exists, Stored
    <3>2. CASE CompleteBrief(e)
      BY <2>0, <2>2, <3>2, WorkerStatus
    <3>3. CASE PersistFailure(e)
      <4>1. doc'[b].status # "PROCESSING"
        BY <2>0, <2>2, <3>3, WorkerStatus
      <4>2. doc'[b] = FailureWrite(exec[e])
        BY <2>2, <3>3 DEF PersistFailure, Write, LockInv, TypeInv, TypedDocs
      <4>3. doc[b].status = "DELETED" => FailureWrite(exec[e]) = doc[b]
        BY <2>2 DEF FailureWrite, PrepareRetry, Fail, Claimable, Exists, Stored
      <4>4. QED
        BY <4>1, <4>2, <4>3
    <3>4. CASE UNCHANGED doc
      BY <3>4
    <3>5. QED
      BY <1>3, <3>1, <3>2, <3>3, <3>4
      DEF ExecutionStep, MissBrief, RecheckBrief, AnalyzeBrief, SettleJob
  <2>3. QED
    BY <2>1, <2>2
<1>4. CASE WorkerNext
  BY <1>3, <1>4, WorkerSteps, QueueWritesNothing
<1>5. QED
  BY <1>1, <1>2, <1>3, <1>4 DEF Next

\* What the executions of a step of the worker are afterwards.
LEMMA IdleStaysEmpty ==
  ASSUME LockInv, NoDatabaseError, IdleHasNoBrief, [Next]_vars
  PROVE  IdleHasNoBrief'
<1>0. TypeInv /\ exec \in [Executions -> Execution]
  BY DEF LockInv, TypeInv, SoundExecutions
<1>1. ASSUME NEW e \in Executions, ExecutionStep(e) PROVE IdleHasNoBrief'
  <2>1. exec'[e].pc = "idle" => exec'[e].brief = NoBrief
    <3>1. SettleJob(e) => exec'[e] = IdleExecution
      BY <1>0, <1>1, ExecutionGoes
    <3>2. ~SettleJob(e) => exec'[e].pc # "idle"
      BY <1>0, <1>1, ExecutionGoes
    <3>3. QED
      BY <3>1, <3>2 DEF IdleExecution
  <2>2. \A f \in Executions \ {e} : exec'[f] = exec[f]
    BY <1>1, OnlyOwnBrief
  <2>3. QED
    BY <2>1, <2>2 DEF IdleHasNoBrief
<1>2. ASSUME NEW e \in Executions, NEW b \in Briefs, TakeJob(e, b) PROVE IdleHasNoBrief'
  BY <1>0, <1>2 DEF TakeJob, IdleExecution, IdleHasNoBrief
<1>3. ASSUME NEW w \in Workers, WorkerCrash(w) PROVE IdleHasNoBrief'
  BY <1>0, <1>3 DEF WorkerCrash, IdleExecution, IdleHasNoBrief
<1>4. UNCHANGED exec => IdleHasNoBrief'
  BY DEF IdleHasNoBrief
<1>5. QED
  BY <1>1, <1>2, <1>3, <1>4, WorkerSteps, QueueWritesNothing, OthersLeaveAlone DEF Next, vars

\* A brief whose job is being removed after it stays removed.
LEMMA RemovedStaysDeleted ==
  ASSUME LockInv, NoDatabaseError, RemovedIsDeleted, [Next]_vars
  PROVE  RemovedIsDeleted'
<1>0. req \in [Requests -> Request] /\ doc \in [Briefs -> Document] /\ NoBrief \notin Briefs
      /\ \A r \in Requests : SoundRequest(req[r])
  BY StateAssumption DEF LockInv, TypeInv, SoundRequests, TypedDocs, StateAssumption
<1>1. ASSUME NEW r \in Requests, Waits(r, "removeJob"), req'[r] = req[r]
      PROVE  doc'[req'[r].brief].status = "DELETED"
  <2>1. req[r].brief \in Briefs /\ doc[req[r].brief].status = "DELETED"
    BY <1>0, <1>1 DEF RemovedIsDeleted, Waits, SoundRequest
  <2>2. QED
    BY <1>1, <2>1, OnlyClaimProcesses
<1>2. ASSUME NEW r \in Requests, req'[r] # req[r], req'[r].pc = "removeJob"
      PROVE  doc'[req'[r].brief].status = "DELETED"
  <2>1. ApiNext
    BY <1>2, WorkerSteps, OnlyOwnBrief, QueueWritesNothing, OthersLeaveAlone DEF Next, vars
  <2>2. ~ApiCrash
    BY <1>2 DEF ApiCrash, IdleRequest
  <2>3. ASSUME NEW s \in Requests, RequestStep(s) PROVE FALSE
    <3>1. \/ req' = [req EXCEPT ![s] = IdleRequest]
          \/ \E pc \in {"compensateCreate", "retryRemove", "retryAdd", "compensateRetry"} :
               req' = [req EXCEPT ![s].pc = pc]
      BY <2>3 DEF RequestStep, Enqueue, EnqueueThrows, CompensateCreateWrite, RetryWrite,
        RetryRemove, RetryAdd, RetryThrows, CompensateRetryWrite, RemoveJob, Answer, Proceed
    <3>2. QED
      BY <1>0, <1>2, <3>1 DEF IdleRequest, Request
  <2>4. PICK s \in Requests, b \in Briefs :
          CreateBrief(s, b) \/ ReadForRetry(s, b) \/ RemoveBrief(s, b)
    BY <1>2, <2>1, <2>2, <2>3 DEF ApiNext, UpdateBrief, Age
  <2>5. RemoveBrief(s, b) /\ s = r /\ req'[r].brief = b
    BY <1>0, <1>2, <2>4 DEF CreateBrief, ReadForRetry, RemoveBrief, Open
  <2>6. doc'[b] = Deleted
    BY <1>0, <2>5 DEF RemoveBrief, Store
  <2>7. QED
    BY <2>5, <2>6 DEF Deleted, Unborn
<1>3. QED
  BY <1>1, <1>2 DEF RemovedIsDeleted, Waits

\* A brief that its execution left is not PROCESSING before another claims it.
LEMMA ProcessingStaysLeft ==
  ASSUME LockInv, NoDatabaseError, ProcessingIsLeft, [Next]_vars
  PROVE  ProcessingIsLeft'
<1> SUFFICES ASSUME NEW f \in Executions, exec'[f].pc \in {"recheck", "settle"}
             PROVE  doc'[exec'[f].brief].status # "PROCESSING"
  BY DEF ProcessingIsLeft
<1>0. /\ exec \in [Executions -> Execution] /\ TypeInv
      /\ exec[f].pc # "idle" => exec[f].brief \in Briefs
      /\ exec[f].pc \in {"recheck", "settle"} => doc[exec[f].brief].status # "PROCESSING"
  BY DEF LockInv, TypeInv, SoundExecutions, SoundExecution, ProcessingIsLeft
<1>1. ASSUME exec'[f] = exec[f] PROVE doc'[exec'[f].brief].status # "PROCESSING"
  <2>1. exec[f].brief \in Briefs /\ doc[exec[f].brief].status # "PROCESSING"
    BY <1>0, <1>1
  <2>2. ASSUME NEW e \in Executions, ExecutionStep(e), ClaimBrief(e),
               exec[e].brief = exec[f].brief
        PROVE  FALSE
    <3>1. e = f
      BY <1>0, <1>1, <2>2, OnlyOwnBrief
    <3>2. exec'[e].pc = "analyze"
      BY <1>0, <2>2, ExecutionGoes
    <3>3. QED
      BY <3>1, <3>2
  <2>3. QED
    BY <1>1, <2>1, <2>2, OnlyClaimProcesses
<1>2. ASSUME NEW e \in Executions, ExecutionStep(e), exec'[f] # exec[f]
      PROVE  doc'[exec'[f].brief].status # "PROCESSING"
  <2>1. f = e /\ exec[e].brief \in Briefs
    BY <1>2, OnlyOwnBrief
  <2>2. ~SettleJob(e) /\ ~ClaimBrief(e) /\ ~AnalyzeBrief(e)
    <3>1. exec'[e] # IdleExecution
      BY <2>1 DEF IdleExecution
    <3>2. ~SettleJob(e) /\ ~ClaimBrief(e)
      BY <1>0, <1>2, <2>1, <3>1, ExecutionGoes
    <3>3. ~AnalyzeBrief(e)
      BY <1>0, <1>2, <2>1, ExecutionGoes
    <3>4. QED
      BY <3>2, <3>3
  <2>3. exec'[f].brief = exec[e].brief
    BY <1>0, <1>2, <2>1, <2>2, ExecutionGoes
  <2>4. CASE MissBrief(e)
    BY <2>3, <2>4 DEF MissBrief, Claimable, Exists, Stored
  <2>5. CASE RecheckBrief(e)
    BY <1>0, <2>1, <2>3, <2>5 DEF RecheckBrief, At
  <2>6. CASE CompleteBrief(e)
    BY <1>0, <1>2, <2>1, <2>3, <2>6, WorkerStatus
  <2>7. CASE PersistFailure(e)
    BY <1>0, <2>1, <2>3, <2>7, WorkerStatus
  <2>8. QED
    BY <1>2, <2>2, <2>4, <2>5, <2>6, <2>7 DEF ExecutionStep
<1>3. ASSUME NEW e \in Executions, NEW b \in Briefs, TakeJob(e, b) PROVE exec'[f] = exec[f]
  BY <1>0, <1>3 DEF TakeJob, IdleExecution
<1>4. ASSUME NEW w \in Workers, WorkerCrash(w) PROVE exec'[f] = exec[f]
  BY <1>0, <1>4 DEF WorkerCrash, IdleExecution
<1>5. QED
  BY <1>1, <1>2, <1>3, <1>4, WorkerSteps, QueueWritesNothing, OthersLeaveAlone DEF Next, vars

\* Work on a brief ends with its execution or with the process it is in.
LEMMA WorkEnds ==
  ASSUME LockInv, NoDatabaseError, IdleHasNoBrief, [Next]_vars,
         NEW b \in Briefs, WorkedOn(b), ~WorkedOn(b)'
  PROVE  \/ \E e \in Executions : SettleJob(e) /\ exec[e].brief = b
         \/ \E w \in Workers : WorkerCrash(w)
<1> DEFINE e == job[b].owner
<1>0. /\ TypeInv /\ LocksAreHeld' /\ IdleHasNoBrief'
      /\ exec \in [Executions -> Execution] /\ job \in [Briefs -> Job]
  BY LockStep, IdleStaysEmpty DEF LockInv, TypeInv, SoundExecutions, SoundJobs
<1>1. e \in Executions /\ exec[e].brief = b /\ exec[e].pc # "idle"
  <2>1. e \in Executions /\ exec[e].brief = b
    BY <1>0 DEF WorkedOn, Locked, Orphaned, Job
  <2>2. NoBrief # b
    BY StateAssumption DEF StateAssumption
  <2>3. QED
    BY <2>1, <2>2 DEF IdleHasNoBrief
<1>2. exec'[e].brief # b
  <2>1. ASSUME exec'[e].brief = b PROVE FALSE
    <3>1. exec'[e].pc # "idle"
      BY <1>0, <1>1, <2>1, StateAssumption DEF IdleHasNoBrief, StateAssumption
    <3>2. job'[b].owner = e
      BY <1>0, <1>1, <2>1, <3>1 DEF LocksAreHeld
    <3>3. WorkedOn(b)'
      BY <1>1, <2>1, <3>2, AttemptsAssumption
      DEF WorkedOn, Locked, Orphaned, AttemptsAssumption
    <3>4. QED
      BY <3>3
  <2>2. QED
    BY <2>1
<1>3. ASSUME NEW f \in Executions, ExecutionStep(f) PROVE SettleJob(f) /\ exec[f].brief = b
  <2>1. f = e
    BY <1>1, <1>2, <1>3, OnlyOwnBrief
  <2>2. QED
    BY <1>0, <1>1, <1>2, <1>3, <2>1, ExecutionGoes
<1>4. ASSUME NEW f \in Executions, NEW c \in Briefs, TakeJob(f, c) PROVE FALSE
  BY <1>0, <1>1, <1>2, <1>4 DEF TakeJob, At
<1>5. QED
  BY <1>1, <1>2, <1>3, <1>4, WorkerSteps, QueueWritesNothing, OthersLeaveAlone DEF Next, vars

\* What a step other than a crash of a worker makes of the stalls of a job.
LEMMA StallsOfJob ==
  ASSUME LockInv, NoDatabaseError, [Next]_vars, NEW b \in Briefs,
         \A w \in Workers : ~WorkerCrash(w)
  PROVE  \/ job'[b] = job[b]
         \/ job'[b].state # "active" /\ job'[b].stalls <= job[b].stalls
         \/ job'[b].stalls = job[b].stalls /\ Orphaned(b) /\ job[b].state = "active"
         \/ job'[b].stalls = job[b].stalls /\ WorkedOn(b)'
         \/ /\ job'[b].state # "active" /\ job'[b].stalls = job[b].stalls + 1
            /\ job[b].state = "active" /\ ~Locked(job[b])
<1>0. /\ TypeInv /\ job \in [Briefs -> Job] /\ job[b] \in Job
      /\ exec \in [Executions -> Execution]
      /\ Locked(job[b]) => job[b].state = "active"
  BY DEF LockInv, TypeInv, SoundJobs, SoundJob, SoundExecutions
<1>1. CASE ApiNext \/ ReconciliationNext
  <2>1. job'[b] \in {job[b], Add(job[b]), Remove(job[b])}
    BY <1>0, <1>1, OthersCallQueue
  <2>2. Add(job[b]) = job[b] \/ (Add(job[b]).state = "wait" /\ Add(job[b]).stalls = 0)
    BY DEF Add, NoJob
  <2>3. Remove(job[b]) = job[b] \/ (Remove(job[b]).state = "none" /\ Remove(job[b]).stalls = 0)
    BY DEF Remove, NoJob
  <2>4. job[b].stalls >= 0
    BY <1>0 DEF Job
  <2>5. QED
    BY <2>1, <2>2, <2>3, <2>4
<1>2. ASSUME NEW e \in Executions, ExecutionStep(e)
      PROVE  \/ job'[b] = job[b]
             \/ job'[b].state # "active" /\ job'[b].stalls <= job[b].stalls
  <2>1. CASE ~SettleJob(e) \/ exec[e].brief # b
    <3>1. ~SettleJob(e) => job'[b] = job[b]
      BY <1>0, <1>2, ExecutionGoes
    <3>2. exec[e].brief # b => job'[b] = job[b]
      BY <1>2, OnlyOwnBrief
    <3>3. QED
      BY <2>1, <3>1, <3>2
  <2>2. CASE SettleJob(e) /\ exec[e].brief = b
    <3>1. \/ job'[b] = job[b] \/ job'[b] = Succeeded(job[b])
          \/ job'[b] = FailedOnce(job[b], exec[e].verdict = "retryable")
      BY <1>0, <2>2 DEF SettleJob
    <3>2. Succeeded(job[b]).state = "completed" /\ Succeeded(job[b]).stalls = job[b].stalls
      BY <1>0 DEF Succeeded, Job
    <3>3. /\ FailedOnce(job[b], exec[e].verdict = "retryable").state # "active"
          /\ FailedOnce(job[b], exec[e].verdict = "retryable").stalls = job[b].stalls
      BY <1>0 DEF FailedOnce, Job
    <3>4. job[b].stalls <= job[b].stalls
      BY <1>0 DEF Job
    <3>5. QED
      BY <3>1, <3>2, <3>3, <3>4
  <2>3. QED
    BY <2>1, <2>2
<1>3. ASSUME NEW e \in Executions, NEW c \in Briefs, TakeJob(e, c)
      PROVE  job'[b] = job[b] \/ (job'[b].stalls = job[b].stalls /\ WorkedOn(b)')
  <2>1. CASE c # b
    BY <1>0, <1>3, <2>1 DEF TakeJob
  <2>2. CASE c = b
    <3>1. job'[b] = Take(job[b], e) /\ exec'[e].brief = b
      BY <1>0, <1>3, <2>2 DEF TakeJob, IdleExecution
    <3>2. Take(job[b], e).stalls = job[b].stalls /\ Take(job[b], e).owner = e
      BY <1>0 DEF Take, Job
    <3>3. QED
      BY <3>1, <3>2, AttemptsAssumption DEF WorkedOn, Locked, Orphaned, AttemptsAssumption
  <2>3. QED
    BY <2>1, <2>2
<1>4. ASSUME NEW c \in Briefs, QueueStep(c)
      PROVE  \/ job'[b] = job[b]
             \/ job'[b].state # "active" /\ job'[b].stalls <= job[b].stalls
             \/ job'[b].stalls = job[b].stalls /\ Orphaned(b) /\ job[b].state = "active"
             \/ /\ job'[b].state # "active" /\ job'[b].stalls = job[b].stalls + 1
                /\ job[b].state = "active" /\ ~Locked(job[b])
  <2>1. CASE c # b
    BY <1>0, <1>4, <2>1
    DEF QueueStep, PromoteJob, OrphanLockExpires, StalledCheck, TrimJob, ReleaseLock
  <2>2. CASE c = b
    <3>1. CASE PromoteJob(b)
      BY <1>0, <3>1 DEF PromoteJob, Job
    <3>2. CASE OrphanLockExpires(b)
      <4>1. Orphaned(b) /\ Locked(job[b])
        BY <3>2 DEF OrphanLockExpires, Orphaned
      <4>2. job'[b] = [job[b] EXCEPT !.owner = NoExecution]
        BY <1>0, <3>2 DEF OrphanLockExpires, ReleaseLock
      <4>3. QED
        BY <1>0, <4>1, <4>2 DEF Job
    <3>3. CASE StalledCheck(b)
      <4>1. job'[b] = Stalled(job[b]) /\ job[b].state = "active" /\ ~Locked(job[b])
        BY <1>0, <3>3 DEF StalledCheck
      <4>2. Stalled(job[b]).state # "active" /\ Stalled(job[b]).stalls = job[b].stalls + 1
        BY <1>0 DEF Stalled, Job
      <4>3. QED
        BY <4>1, <4>2
    <3>4. CASE TrimJob(b)
      BY <1>0, <3>4 DEF TrimJob, NoJob, Job
    <3>5. QED
      BY <1>4, <2>2, <3>1, <3>2, <3>3, <3>4 DEF QueueStep
  <2>3. QED
    BY <2>1, <2>2
<1>5. CASE UNCHANGED vars
  BY <1>5 DEF vars
<1>6. QED
  BY <1>1, <1>2, <1>3, <1>4, <1>5, WorkerSteps DEF Next

\* What is left of the crashes stays within the stalls that are forgiven.
LEMMA StallsStayForgiven ==
  ASSUME LockInv, NoDatabaseError, IdleHasNoBrief, StallsAreForgiven, [Next]_vars
  PROVE  StallsAreForgiven'
<1> SUFFICES ASSUME NEW b \in Briefs
             PROVE  job'[b].stalls + (IF Abandoned(b)' THEN 1 ELSE 0) + left'["workerCrash"]
                      <= MaxStalledCount
  BY DEF StallsAreForgiven
<1>0. /\ TypeInv /\ LockInv'
      /\ left["workerCrash"] \in Nat /\ job[b].stalls \in Nat /\ MaxStalledCount \in Nat
      /\ left'["workerCrash"] \in Nat /\ job'[b].stalls \in Nat
      /\ left'["workerCrash"] <= left["workerCrash"]
  <2>1. TypeInv /\ LockInv'
    BY LockStep DEF LockInv
  <2>2. TypeInv'
    BY <2>1 DEF LockInv
  <2>3. left'["workerCrash"] \in 0 .. left["workerCrash"]
    BY <2>1, BoundsShrink DEF Kinds
  <2>4. QED
    BY <2>1, <2>2, <2>3, AttemptsAssumption
    DEF TypeInv, TypedBounds, Kinds, SoundJobs, Job, AttemptsAssumption
<1>1. job[b].stalls + (IF Abandoned(b) THEN 1 ELSE 0) + left["workerCrash"] <= MaxStalledCount
  BY DEF StallsAreForgiven
<1>2. CASE \E w \in Workers : WorkerCrash(w)
  <2>1. UNCHANGED job
    BY <1>2, QueueWritesNothing
  <2>2. left'["workerCrash"] = left["workerCrash"] - 1
    BY <1>0, <1>2 DEF WorkerCrash, Spend, TypeInv, TypedBounds, Kinds
  <2>3. QED
    BY <1>0, <1>1, <2>1, <2>2
<1>3. CASE \A w \in Workers : ~WorkerCrash(w)
  <2>1. SUFFICES job'[b].stalls + (IF Abandoned(b)' THEN 1 ELSE 0)
                   <= job[b].stalls + (IF Abandoned(b) THEN 1 ELSE 0)
    BY <1>0, <1>1
  <2>2. CASE job'[b] = job[b]
    <3>1. ASSUME Abandoned(b)' PROVE Abandoned(b)
      <4>1. job[b].state = "active"
        BY <2>2, <3>1 DEF Abandoned
      <4>2. ~WorkedOn(b)'
        BY <3>1 DEF Abandoned, WorkedOn
      <4>3. ASSUME NEW e \in Executions, SettleJob(e), exec[e].brief = b PROVE FALSE
        <5>1. job[b].owner = e /\ job \in [Briefs -> Job] /\ job[b] \in Job
          BY <4>3 DEF SettleJob, At, LockInv, LocksAreHeld, TypeInv, SoundJobs
        <5>2. \/ job'[b] = Succeeded(job[b])
              \/ job'[b] = FailedOnce(job[b], exec[e].verdict = "retryable")
          BY <4>3, <5>1 DEF SettleJob
        <5>3. job'[b].state # "active"
          BY <5>1, <5>2 DEF Succeeded, FailedOnce, Job
        <5>4. QED
          BY <2>2, <4>1, <5>3
      <4>4. ~WorkedOn(b)
        BY <1>3, <4>2, <4>3, WorkEnds
      <4>5. QED
        BY <4>1, <4>4 DEF Abandoned, WorkedOn
    <3>2. QED
      BY <1>0, <2>2, <3>1
  <2>3. CASE job'[b].state # "active" /\ job'[b].stalls <= job[b].stalls
    <3>1. ~Abandoned(b)'
      BY <2>3 DEF Abandoned
    <3>2. QED
      BY <1>0, <2>3, <3>1
  <2>4. CASE job'[b].stalls = job[b].stalls /\ Orphaned(b) /\ job[b].state = "active"
    <3>1. Abandoned(b)
      BY <2>4 DEF Abandoned
    <3>2. QED
      BY <1>0, <2>4, <3>1
  <2>5. CASE job'[b].stalls = job[b].stalls /\ WorkedOn(b)'
    <3>1. ~Abandoned(b)'
      BY <2>5 DEF Abandoned, WorkedOn
    <3>2. QED
      BY <1>0, <2>5, <3>1
  <2>6. CASE /\ job'[b].state # "active" /\ job'[b].stalls = job[b].stalls + 1
             /\ job[b].state = "active" /\ ~Locked(job[b])
    <3>1. Abandoned(b) /\ ~Abandoned(b)'
      BY <2>6 DEF Abandoned
    <3>2. QED
      BY <1>0, <2>6, <3>1
  <2>7. QED
    BY <1>3, <2>2, <2>3, <2>4, <2>5, <2>6, StallsOfJob
<1>4. QED
  BY <1>2, <1>3

\* Where the API is sound, nothing the API or the cycle does leaves a brief
\* without a job for good.
LEMMA OthersTakeCare ==
  ASSUME LockInv, RemovedIsDeleted, ApiIsSound, ApiNext \/ ReconciliationNext,
         NEW b \in Briefs, doc[b].status # "DELETED", TakenCareOf(b)
  PROVE  TakenCareOf(b)'
<1>0. /\ TypeInv /\ job \in [Briefs -> Job] /\ job[b] \in Job
      /\ req \in [Requests -> Request] /\ rec \in Reconciler
  BY DEF LockInv, TypeInv, SoundJobs, SoundRequests, SoundReconciler
<1>1. \A c, j : ~QueueThrows(c, j)
  BY DEF ApiIsSound, QueueThrows, Spend
<1>2. job'[b] \in {job[b], Add(job[b]), Remove(job[b])}
  BY <1>0, OthersCallQueue
<1>3. Add(job[b]).state = IF job[b].state = "none" THEN "wait" ELSE job[b].state
  BY DEF Add, NoJob
<1>4. Remove(job[b]) \in {job[b], NoJob}
  BY DEF Remove
<1>5. CASE job[b].state \in {"wait", "active"}
  <2>1. CASE job'[b].state = job[b].state
    BY <1>5, <2>1 DEF TakenCareOf
  <2>2. CASE job'[b].state # job[b].state
    <3>1. job'[b] = NoJob /\ Remove(job[b]) = NoJob
      BY <1>2, <1>3, <1>4, <1>5, <2>2
    <3>2. job'[b].state = "none" /\ job'[b].state # job[b].state
      BY <1>5, <3>1 DEF NoJob
    <3>3. ~Locked(job[b])
      BY <1>5, <3>1 DEF Remove, NoJob
    <3>4. AboutToAdd(b)'
      <4>1. ASSUME NEW r \in Requests, RequestStep(r)
            PROVE  req[r].brief = b /\ RetryRemove(r)
        <5>1. \A c, j : QueueAnswers(c, j) => c = b /\ j = job'[b]
          BY <1>0, <3>2 DEF QueueAnswers
        <5>2. job' # job
          BY <3>2
        <5>3. Enqueue(r) \/ RetryRemove(r) \/ RetryAdd(r) \/ RemoveJob(r)
          BY <1>1, <4>1, <5>2 DEF RequestStep, EnqueueThrows, CompensateCreateWrite,
            RetryWrite, RetryThrows, CompensateRetryWrite
        <5>4. ~Enqueue(r) /\ ~RetryAdd(r)
          BY <1>3, <1>5, <3>2, <5>1 DEF Enqueue, RetryAdd
        <5>5. ~RemoveJob(r)
          BY <1>1, <5>1 DEF RemoveJob, RemovedIsDeleted
        <5>6. req[r].brief = b
          BY <5>1, <5>3, <5>4, <5>5 DEF RetryRemove
        <5>7. QED
          BY <5>3, <5>4, <5>5, <5>6
      <4>2. CASE ApiNext
        <5>1. PICK r \in Requests : RequestStep(r)
          BY <3>2, <4>2 DEF ApiNext, CreateBrief, ReadForRetry, RemoveBrief, UpdateBrief, Age,
            ApiCrash
        <5>2. req[r].brief = b /\ RetryRemove(r)
          BY <4>1, <5>1
        <5>3. req'[r].pc = "retryAdd" /\ req'[r].brief = b
          BY <1>0, <5>2 DEF RetryRemove, Proceed, Request
        <5>4. QED
          BY <5>3 DEF AboutToAdd, Waits
      <4>3. CASE ReconciliationNext
        <5>0. \A c, j : QueueAnswers(c, j) => c = b /\ j = job'[b]
          BY <1>0, <3>2 DEF QueueAnswers
        <5>1. RemoveTerminalJob \/ AddJob
          BY <1>1, <3>2, <4>3 DEF ReconciliationNext, ListPending, GetJob, FinishCycle, GetState,
            CycleThrows, ApiIsSound, Spend
        <5>2. ~AddJob
          BY <1>3, <1>5, <3>2, <5>0 DEF AddJob
        <5>3. RemoveTerminalJob /\ rec.brief = b
          BY <5>0, <5>1, <5>2 DEF RemoveTerminalJob
        <5>4. rec'.pc = "add" /\ rec'.brief = b
          BY <1>0, <3>3, <5>3 DEF RemoveTerminalJob, Reconciler
        <5>5. QED
          BY <5>4 DEF AboutToAdd, Reached
      <4>4. QED
        BY <4>2, <4>3
    <3>5. QED
      BY <3>2, <3>4 DEF TakenCareOf
  <2>3. QED
    BY <2>1, <2>2
<1>6. CASE job[b].state = "none" /\ AboutToAdd(b)
  <2>0. job'[b].state \in {"none", "wait"}
    BY <1>2, <1>3, <1>4, <1>6 DEF NoJob
  <2>1. CASE Reached("add") /\ rec.brief = b
    <3>1. CASE AddJob
      <4>1. job'[b] = Add(job[b])
        BY <1>0, <2>1, <3>1 DEF AddJob, QueueAnswers
      <4>2. QED
        BY <1>3, <1>6, <4>1 DEF TakenCareOf
    <3>2. CASE UNCHANGED rec
      BY <2>0, <2>1, <3>2 DEF TakenCareOf, AboutToAdd, Reached
    <3>3. ~ApiCrash
      BY DEF ApiCrash, ApiIsSound, Spend
    <3>4. ApiNext => UNCHANGED rec
      BY <3>3 DEF ApiNext, RequestStep, CreateBrief, Enqueue, EnqueueThrows,
        CompensateCreateWrite, ReadForRetry, RetryWrite, RetryRemove, RetryAdd, RetryThrows,
        CompensateRetryWrite, UpdateBrief, RemoveBrief, RemoveJob, Age
    <3>5. ReconciliationNext => AddJob
      BY <1>1, <2>1 DEF ReconciliationNext, ListPending, GetJob, FinishCycle, GetState,
        RemoveTerminalJob, CycleThrows, Reached
    <3>6. QED
      BY <3>1, <3>2, <3>4, <3>5
  <2>2. ASSUME NEW r \in Requests, Waits(r, "retryAdd"), req[r].brief = b
        PROVE  TakenCareOf(b)'
    <3>1. CASE req'[r] = req[r]
      BY <2>0, <2>2, <3>1 DEF TakenCareOf, AboutToAdd, Waits
    <3>2. CASE req'[r] # req[r]
      <4>1. ApiNext /\ ~ApiCrash
        BY <3>2, OthersLeaveAlone DEF ApiCrash, ApiIsSound, Spend
      <4>2. ASSUME NEW s \in Requests, NEW pc, NEW c, NEW read, Open(s, pc, c, read)
            PROVE  FALSE
        BY <1>0, <2>2, <3>2, <4>2 DEF Open, Waits
      <4>3. PICK s \in Requests : RequestStep(s)
        BY <3>2, <4>1, <4>2 DEF ApiNext, CreateBrief, ReadForRetry, RemoveBrief, UpdateBrief, Age
      <4>4. s = r
        BY <1>0, <3>2, <4>3 DEF RequestStep, Enqueue, EnqueueThrows, CompensateCreateWrite,
          RetryWrite, RetryRemove, RetryAdd, RetryThrows, CompensateRetryWrite, RemoveJob,
          Answer, Proceed
      <4>5. RetryAdd(r)
        BY <1>1, <2>2, <4>3, <4>4 DEF RequestStep, Enqueue, EnqueueThrows,
          CompensateCreateWrite, RetryWrite, RetryRemove, RetryThrows, CompensateRetryWrite,
          RemoveJob, Waits
      <4>6. job'[b] = Add(job[b])
        BY <1>0, <2>2, <4>5 DEF RetryAdd, QueueAnswers
      <4>7. QED
        BY <1>3, <1>6, <4>6 DEF TakenCareOf
    <3>3. QED
      BY <3>1, <3>2
  <2>3. QED
    BY <1>6, <2>1, <2>2 DEF AboutToAdd
<1>7. QED
  BY <1>5, <1>6 DEF TakenCareOf

\* Nor does the worker, with the job of a brief that nobody works on.
LEMMA WorkerTakesCare ==
  ASSUME LockInv, NoDatabaseError, StallsAreForgiven, WorkerNext,
         NEW b \in Briefs, ~WorkedOn(b), TakenCareOf(b)
  PROVE  TakenCareOf(b)'
<1>0. /\ TypeInv /\ job \in [Briefs -> Job] /\ job[b] \in Job
      /\ exec \in [Executions -> Execution] /\ NoExecution \notin Executions
      /\ Locked(job[b]) => job[b].state = "active"
  BY AttemptsAssumption
  DEF AttemptsAssumption, LockInv, TypeInv, SoundJobs, SoundJob, SoundExecutions
<1>1. ASSUME UNCHANGED <<req, rec>>, job'[b] = job[b] PROVE TakenCareOf(b)'
  BY <1>1 DEF TakenCareOf, AboutToAdd, Reached, Waits
<1>2. ASSUME NEW e \in Executions, ExecutionStep(e) PROVE TakenCareOf(b)'
  <2>1. exec[e].brief # b
    <3>1. exec[e].pc # "idle" /\ Holds(e, job[exec[e].brief])
      BY <1>2, OnlyOwnBrief
    <3>2. QED
      BY <1>0, <3>1 DEF Holds, WorkedOn, Locked, Orphaned
  <2>2. QED
    BY <1>1, <1>2, <2>1, OnlyOwnBrief
<1>3. ASSUME NEW e \in Executions, NEW c \in Briefs, TakeJob(e, c) PROVE TakenCareOf(b)'
  <2>1. CASE c = b
    <3>1. job'[b] = Take(job[b], e)
      BY <1>0, <1>3, <2>1 DEF TakeJob
    <3>2. Take(job[b], e).state = "active"
      BY <1>0 DEF Take, Job
    <3>3. QED
      BY <3>1, <3>2 DEF TakenCareOf
  <2>2. CASE c # b
    BY <1>0, <1>1, <1>3, <2>2 DEF TakeJob
  <2>3. QED
    BY <2>1, <2>2
<1>4. ASSUME NEW c \in Briefs, QueueStep(c) PROVE TakenCareOf(b)'
  <2>0. UNCHANGED <<req, rec>>
    BY <1>4, QueueWritesNothing
  <2>1. CASE c # b
    <3>1. job'[b] = job[b]
      BY <1>0, <1>4, <2>1
      DEF QueueStep, PromoteJob, OrphanLockExpires, StalledCheck, TrimJob, ReleaseLock
    <3>2. QED
      BY <1>1, <2>0, <3>1
  <2>2. CASE c = b
    <3>0. job[b].state \in {"wait", "active", "none"}
      BY DEF TakenCareOf
    <3>1. ~PromoteJob(b) /\ ~TrimJob(b)
      BY <3>0 DEF PromoteJob, TrimJob, Terminal
    <3>2. CASE OrphanLockExpires(b)
      <4>1. job[b].state = "active"
        BY <1>0, <3>2 DEF OrphanLockExpires, Orphaned
      <4>2. job'[b] = [job[b] EXCEPT !.owner = NoExecution]
        BY <1>0, <3>2 DEF OrphanLockExpires, ReleaseLock
      <4>3. job'[b].state = "active"
        BY <1>0, <4>1, <4>2 DEF Job
      <4>4. QED
        BY <4>3 DEF TakenCareOf
    <3>3. CASE StalledCheck(b)
      <4>1. Abandoned(b) /\ job'[b] = Stalled(job[b])
        BY <1>0, <3>3 DEF StalledCheck, Abandoned
      <4>2. job[b].stalls + 1 + left["workerCrash"] <= MaxStalledCount
        BY <4>1 DEF StallsAreForgiven
      <4>3. job[b].stalls < MaxStalledCount
        BY <1>0, <4>2, AttemptsAssumption
        DEF TypeInv, TypedBounds, Kinds, Job, AttemptsAssumption
      <4>4. Stalled(job[b]).state = "wait"
        BY <1>0, <4>3 DEF Stalled, Job
      <4>5. QED
        BY <4>1, <4>4 DEF TakenCareOf
    <3>4. QED
      BY <1>4, <2>2, <3>1, <3>2, <3>3 DEF QueueStep
  <2>3. QED
    BY <2>1, <2>2
<1>5. ASSUME NEW w \in Workers, WorkerCrash(w) PROVE TakenCareOf(b)'
  BY <1>1, <1>5 DEF WorkerCrash
<1>6. QED
  BY <1>2, <1>3, <1>4, <1>5, WorkerSteps

\* A brief that is PROCESSING after a step is worked on or taken care of.
LEMMA AttendedNext ==
  ASSUME AttendInv, [Next]_vars, NEW b \in Briefs, doc'[b].status = "PROCESSING"
  PROVE  WorkedOn(b)' \/ (ApiIsSound' /\ TakenCareOf(b)')
<1>0. /\ LockInv /\ LockInv' /\ NoDatabaseError /\ IdleHasNoBrief /\ TypeInv
      /\ StallsAreForgiven /\ RemovedIsDeleted
      /\ exec \in [Executions -> Execution] /\ job \in [Briefs -> Job]
  BY LockStep DEF AttendInv, LockInv, TypeInv, SoundExecutions, SoundJobs
<1>s. ApiIsSound => ApiIsSound'
  BY <1>0, BoundsOnlyShrink DEF ApiIsSound, Kinds
<1>1. CASE WorkedOn(b) /\ ~WorkedOn(b)'
  <2>1. ASSUME NEW e \in Executions, SettleJob(e), exec[e].brief = b PROVE FALSE
    <3>1. UNCHANGED doc /\ exec[e].pc = "settle"
      BY <2>1 DEF SettleJob, At
    <3>2. doc[b].status # "PROCESSING"
      BY <2>1, <3>1 DEF AttendInv, ProcessingIsLeft
    <3>3. QED
      BY <3>1, <3>2
  <2>2. PICK w \in Workers : WorkerCrash(w)
    BY <1>0, <1>1, <2>1, WorkEnds
  <2>3. UNCHANGED job /\ left["workerCrash"] # 0
    BY <2>2 DEF WorkerCrash, Spend
  <2>4. ApiIsSound'
    BY <1>s, <2>3 DEF AttendInv, OneSideFails
  <2>5. job[b].state = "active"
    BY <1>0, <1>1 DEF WorkedOn, TypeInv, SoundJobs, SoundJob
  <2>6. TakenCareOf(b)'
    BY <2>3, <2>5 DEF TakenCareOf
  <2>7. QED
    BY <2>4, <2>6
<1>2. CASE doc[b].status # "PROCESSING"
  <2>1. PICK e \in Executions : ExecutionStep(e) /\ ClaimBrief(e) /\ exec[e].brief = b
    BY <1>0, <1>2, OnlyClaimProcesses
  <2>2. exec'[e].pc = "analyze" /\ exec'[e].brief = b
    <3>1. ~SettleJob(e)
      BY <2>1 DEF ClaimBrief, SettleJob, At
    <3>2. QED
      BY <1>0, <2>1, <3>1, ExecutionGoes
  <2>3. job'[b].owner = e
    BY <1>0, <2>2 DEF LockInv, LocksAreHeld
  <2>4. QED
    BY <2>2, <2>3, AttemptsAssumption DEF WorkedOn, Locked, Orphaned, AttemptsAssumption
<1>3. CASE doc[b].status = "PROCESSING" /\ ~WorkedOn(b)
  <2>1. ApiIsSound /\ TakenCareOf(b)
    BY <1>3 DEF AttendInv
  <2>2. ApiNext \/ ReconciliationNext => TakenCareOf(b)'
    BY <1>0, <1>3, <2>1, OthersTakeCare
  <2>3. WorkerNext => TakenCareOf(b)'
    BY <1>0, <1>3, <2>1, WorkerTakesCare
  <2>4. UNCHANGED vars => TakenCareOf(b)'
    BY <2>1 DEF vars, TakenCareOf, AboutToAdd, Reached, Waits
  <2>5. TakenCareOf(b)'
    BY <2>2, <2>3, <2>4 DEF Next
  <2>6. QED
    BY <1>s, <2>1, <2>5
<1>4. QED
  BY <1>1, <1>2, <1>3

\* AttendInv is inductive.
LEMMA AttendStep == AttendInv /\ [Next]_vars => AttendInv'
<1> SUFFICES ASSUME AttendInv, [Next]_vars PROVE AttendInv'
  OBVIOUS
<1>1. LockInv' /\ TypeInv
  BY LockStep DEF AttendInv, LockInv
<1>2. NoDatabaseError'
  BY <1>1, BoundsOnlyShrink DEF AttendInv, NoDatabaseError, Kinds
<1>3. OneSideFails'
  BY <1>1, BoundsOnlyShrink DEF AttendInv, OneSideFails, ApiIsSound, Kinds
<1>4. StallsAreForgiven' /\ IdleHasNoBrief' /\ RemovedIsDeleted' /\ ProcessingIsLeft'
  BY StallsStayForgiven, IdleStaysEmpty, RemovedStaysDeleted, ProcessingStaysLeft DEF AttendInv
<1>5. \A b \in Briefs : doc'[b].status = "PROCESSING" =>
        WorkedOn(b)' \/ (ApiIsSound' /\ TakenCareOf(b)')
  BY AttendedNext
<1>6. QED
  BY <1>1, <1>2, <1>3, <1>4, <1>5 DEF AttendInv

\* As long as no lock is lost and no MongoDB call of the worker throws, and
\* where either no worker process crashes, or not more often than BullMQ
\* forgives a stall and then nothing happens to the API: a brief that is
\* PROCESSING has a job that is waiting or active, or somebody who is about to
\* add one.  What happens to the API, to the queue's answers and to old jobs
\* does not matter otherwise.
THEOREM ProcessingHasAJob ==
  ASSUME Bounds["lockLoss"] = 0, Bounds["databaseError"] = 0,
         \/ Bounds["workerCrash"] = 0
         \/ /\ Bounds["workerCrash"] <= MaxStalledCount
            /\ Bounds["apiCrash"] = 0 /\ Bounds["queueError"] = 0 /\ Bounds["lostAnswer"] = 0
  PROVE  Spec => []ProcessingIsAttended
<1>1. Init => AttendInv
  <2> SUFFICES ASSUME Init PROVE AttendInv
    OBVIOUS
  <2>1. LockInv
    BY LockInit
  <2>2. NoDatabaseError /\ OneSideFails
    BY DEF Init, NoDatabaseError, OneSideFails, ApiIsSound
  <2>3. StallsAreForgiven
    <3>1. left["workerCrash"] \in Nat /\ left["workerCrash"] <= MaxStalledCount
      BY AttemptsAssumption, StateAssumption
      DEF AttemptsAssumption, StateAssumption, Init, Kinds
    <3>2. \A b \in Briefs : job[b].stalls = 0 /\ ~Abandoned(b)
      BY DEF Init, NoJob, Abandoned
    <3>3. QED
      BY <3>1, <3>2 DEF StallsAreForgiven
  <2>4. IdleHasNoBrief /\ RemovedIsDeleted /\ ProcessingIsLeft
    BY DEF Init, IdleHasNoBrief, RemovedIsDeleted, ProcessingIsLeft, IdleExecution,
      IdleRequest, Waits
  <2>5. \A b \in Briefs : doc[b].status # "PROCESSING"
    BY DEF Init, Unborn
  <2>6. QED
    BY <2>1, <2>2, <2>3, <2>4, <2>5 DEF AttendInv
<1>2. AttendInv => ProcessingIsAttended
  BY DEF AttendInv, LockInv, TypeInv, SoundJobs, SoundJob, WorkedOn, TakenCareOf, AboutToAdd,
    ProcessingIsAttended
<1>3. QED
  BY <1>1, <1>2, AttendStep, PTL DEF Spec

=============================================================================
