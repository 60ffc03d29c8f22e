----------------------------- MODULE BriefWorker -----------------------------
(***************************************************************************)
(* The worker: processBrief (worker/src/briefs/brief-processor.ts) run by  *)
(* BullMQ on the jobs of the queue, with what BullMQ does with a job       *)
(* before and after (marked external).  A step ends where the code awaits  *)
(* a call of MongoDB, of the provider or of Redis.                         *)
(***************************************************************************)
EXTENDS BriefState

At(e, pc) == exec[e].pc = pc

\* exec[e] goes on at pc with the verdict of the attempt so far.
Goto(e, pc, verdict) ==
  exec' = [exec EXCEPT ![e].pc = pc, ![e].verdict = verdict]

Write(b, d) == doc' = [doc EXCEPT ![b] = d]

\* mutant: attemptsMade already counts the attempt that is running
WillRetryEarly(x) == x.verdict = "retryable" /\ x.made + 2 < MaxAttempts

\* willRetry: the worker's forecast of what BullMQ will do with the job.
WillRetry(x) == x.verdict = "retryable" /\ x.made + 1 < MaxAttempts

-----------------------------------------------------------------------------
(* BullMQ hands a waiting job to an idle execution.                        *)
TakeJob(e, b) ==
  /\ At(e, "idle") /\ job[b].state = "wait"
  /\ job' = [job EXCEPT ![b] = Take(@, e)]
  /\ exec' = [exec EXCEPT ![e] = [IdleExecution EXCEPT !.pc = "start", !.brief = b,
                                                       !.made = job[b].made]]
  /\ UNCHANGED <<doc, req, rec, left>>

\* startAttempt: the findOneAndUpdate claims the document and returns it...
ClaimBrief(e) ==
  LET b == exec[e].brief IN
  /\ At(e, "start") /\ Claimable(doc[b])
  /\ Write(b, StartAttempt(doc[b]))
  /\ exec' = [exec EXCEPT ![e].pc = "analyze", ![e].seen = doc[b].content]
  /\ UNCHANGED <<job, req, rec, left>>

\* ... or matches nothing, and a findOne tells why.
MissBrief(e) ==
  /\ At(e, "start") /\ ~Claimable(doc[exec[e].brief])
  /\ Goto(e, "recheck", "none")
  /\ UNCHANGED <<doc, job, req, rec, left>>

\* Deleted: BRIEF_NOT_FOUND.  COMPLETED: skipped.  Anything else: the
\* document changed in between, WORKER_INTERNAL_ERROR.
RecheckBrief(e) ==
  LET d == doc[exec[e].brief] IN
  /\ At(e, "recheck")
  /\ Goto(e, "settle", CASE ~Exists(d) -> "final"
                         [] d.status = "COMPLETED" -> "ok"
                         [] OTHER -> "retryable")
  /\ UNCHANGED <<doc, job, req, rec, left>>

\* mutant: an error of the provider is not thrown but returned as a result
AnalyzeUnchecked(e) ==
  /\ At(e, "analyze")
  /\ \E verdict \in Outcomes \cup Errors : Goto(e, "complete", verdict)
  /\ UNCHANGED <<doc, job, req, rec, left>>

\* analyzeBrief: the provider answers, or a ProcessingError is thrown.
AnalyzeBrief(e) ==
  /\ At(e, "analyze")
  /\ \/ \E outcome \in Outcomes : Goto(e, "complete", outcome)
     \/ \E error \in Errors : Goto(e, "catch", error)
  /\ UNCHANGED <<doc, job, req, rec, left>>

\* complete: the result is stored if the brief is PROCESSING; if nothing was
\* modified, WORKER_INTERNAL_ERROR.
CompleteBrief(e) ==
  LET x == exec[e]
      d == doc[x.brief] IN
  /\ At(e, "complete")
  /\ Write(x.brief, Complete(d, x.verdict, x.seen))
  /\ IF d.status = "PROCESSING" THEN Goto(e, "settle", "ok")
                                ELSE Goto(e, "catch", "retryable")
  /\ UNCHANGED <<job, req, rec, left>>

\* mutant: the last failure is not stored
FailureWriteIfRetried(x) ==
  IF WillRetry(x) THEN PrepareRetry(doc[x.brief]) ELSE doc[x.brief]

\* What the catch block writes to the document: prepareRetry or fail.
FailureWrite(x) ==
  IF WillRetry(x) THEN PrepareRetry(doc[x.brief])
                  ELSE Fail(doc[x.brief], x.verdict)

\* catch, after the attempt was started.
PersistFailure(e) ==
  LET x == exec[e] IN
  /\ At(e, "catch")
  /\ Write(x.brief, FailureWrite(x))
  /\ exec' = [exec EXCEPT ![e].pc = "settle"]
  /\ UNCHANGED <<job, req, rec, left>>

(***************************************************************************)
(* A MongoDB call of the attempt throws, with its write applied or not.    *)
(* In startAttempt, attemptStarted is still false and the catch block      *)
(* writes nothing; in complete, the catch block runs with the error        *)
(* normalised to a retryable one; in the catch block itself, what leaves   *)
(* processBrief is the driver's error and no UnrecoverableError, so BullMQ *)
(* sees an error that may be retried.                                      *)
(***************************************************************************)
DatabaseError(e) ==
  LET x == exec[e]
      b == x.brief
      written == CASE x.pc = "start" -> StartAttempt(doc[b])
                   [] x.pc = "complete" -> Complete(doc[b], x.verdict, x.seen)
                   [] x.pc = "catch" -> FailureWrite(x)
                   [] OTHER -> doc[b] IN
  /\ x.pc \in {"start", "recheck", "complete", "catch"}
  /\ Spend("databaseError")
  /\ \E d \in {doc[b], written} : Write(b, d)
  /\ Goto(e, IF x.pc = "complete" THEN "catch" ELSE "settle", "retryable")
  /\ UNCHANGED <<job, req, rec>>

\* BullMQ records the end of the execution if it still holds the lock.
SettleJob(e) ==
  LET x == exec[e]
      j == job[x.brief] IN
  /\ At(e, "settle")
  /\ job' = [job EXCEPT ![x.brief] =
               IF j.owner # e THEN j
               ELSE IF x.verdict = "ok" THEN Succeeded(j)
               ELSE FailedOnce(j, x.verdict = "retryable")]
  /\ exec' = [exec EXCEPT ![e] = IdleExecution]
  /\ UNCHANGED <<doc, req, rec, left>>

-----------------------------------------------------------------------------
(* What happens to a job or to a process between these steps.              *)

\* The backoff of a delayed job is over.
PromoteJob(b) ==
  /\ job[b].state = "delayed"
  /\ job' = [job EXCEPT ![b].state = "wait"]
  /\ UNCHANGED <<doc, exec, req, rec, left>>

\* The execution that took the job is not running it any more.
Orphaned(b) ==
  Locked(job[b]) /\ exec[job[b].owner].brief # b

ReleaseLock(b) == job' = [job EXCEPT ![b].owner = NoExecution]

\* The lock of a job whose process crashed expires: nobody renews it.
OrphanLockExpires(b) ==
  /\ Orphaned(b)
  /\ ReleaseLock(b)
  /\ UNCHANGED <<doc, exec, req, rec, left>>

\* The lock expires although the execution is running: its process was
\* paused, or could not reach Redis, for longer than the lock's duration.
LockLost(b) ==
  /\ Locked(job[b]) /\ ~Orphaned(b)
  /\ Spend("lockLoss")
  /\ ReleaseLock(b)
  /\ UNCHANGED <<doc, exec, req, rec>>

\* The stalled check of some worker finds an active job without a lock.
StalledCheck(b) ==
  /\ job[b].state = "active" /\ ~Locked(job[b])
  /\ job' = [job EXCEPT ![b] = Stalled(@)]
  /\ UNCHANGED <<doc, exec, req, rec, left>>

\* removeOnComplete and removeOnFail: an old terminal job is dropped.
TrimJob(b) ==
  /\ job[b].state \in Terminal
  /\ Spend("trim")
  /\ job' = [job EXCEPT ![b] = NoJob]
  /\ UNCHANGED <<doc, exec, req, rec>>

\* A worker process is killed and started again: all its executions are
\* lost, and their jobs stay active under locks that nobody will renew.
WorkerCrash(w) ==
  /\ \E e \in Executions : ProcessOf[e] = w /\ exec[e].pc # "idle"
  /\ Spend("workerCrash")
  /\ exec' = [e \in Executions |->
                IF ProcessOf[e] = w THEN IdleExecution ELSE exec[e]]
  /\ UNCHANGED <<doc, job, req, rec>>

-----------------------------------------------------------------------------
\* The steps an execution takes by itself.
ExecutionStep(e) ==
  \/ ClaimBrief(e)
  \/ MissBrief(e)
  \/ RecheckBrief(e)
  \/ AnalyzeBrief(e)
  \/ CompleteBrief(e)
  \/ PersistFailure(e)
  \/ SettleJob(e)

WorkerNext ==
  \/ \E e \in Executions : ExecutionStep(e) \/ DatabaseError(e)
  \/ \E e \in Executions, b \in Briefs : TakeJob(e, b)
  \/ \E b \in Briefs : \/ PromoteJob(b) \/ OrphanLockExpires(b) \/ LockLost(b)
                       \/ StalledCheck(b) \/ TrimJob(b)
  \/ \E w \in Workers : WorkerCrash(w)

\* Each execution goes on (the provider call has a timeout), the queue is
\* served in order, and BullMQ's timers fire.
WorkerFairness ==
  /\ \A e \in Executions : WF_vars(ExecutionStep(e))
  /\ \A b \in Briefs :
       /\ SF_vars(\E e \in Executions : TakeJob(e, b))
       /\ WF_vars(PromoteJob(b))
       /\ WF_vars(OrphanLockExpires(b))
       /\ WF_vars(StalledCheck(b))

=============================================================================
