--------------------------- MODULE BriefInvariants ---------------------------
(***************************************************************************)
(* Inductive invariants of BriefSystem: what holds together with TypeOK    *)
(* after every step, and what each conclusion of BriefSystemProofs needs.  *)
(***************************************************************************)
EXTENDS BriefSystem

\* A live job has an attempt left and the stalls BullMQ forgives; only an
\* active one is locked.
SoundJob(j) ==
  /\ j \in Job
  /\ j.state \in Live => j.made < MaxAttempts /\ j.stalls <= MaxStalledCount
  /\ Locked(j) => j.state = "active"

\* What an execution remembers fits the step it stands at.
SoundExecution(x) ==
  /\ x \in Execution
  /\ x.pc # "idle" => x.brief \in Briefs
  /\ x.pc = "complete" => x.verdict \in Outcomes
  /\ x.pc = "catch" => x.verdict \in Errors
  /\ x.pc = "settle" => x.verdict \in Errors \cup {"ok"}

\* A request and a cycle that work on a brief work on one of Briefs.
SoundRequest(q) == q \in Request /\ (q.pc # "idle" => q.brief \in Briefs)

SoundReconciler(c) ==
  c \in Reconciler /\ (c.pc \in {"getState", "remove", "add"} => c.brief \in Briefs)

TypedDocs == doc \in [Briefs -> Document]
SoundJobs == job \in [Briefs -> Job] /\ \A b \in Briefs : SoundJob(job[b])
SoundExecutions ==
  exec \in [Executions -> Execution] /\ \A e \in Executions : SoundExecution(exec[e])
SoundRequests ==
  req \in [Requests -> Request] /\ \A r \in Requests : SoundRequest(req[r])
TypedBounds == left \in [Kinds -> Nat]

\* The inductive strengthening of TypeOK.
TypeInv ==
  /\ TypedDocs /\ SoundJobs /\ SoundExecutions
  /\ SoundRequests /\ SoundReconciler(rec) /\ TypedBounds

-----------------------------------------------------------------------------
\* Each time a job was handed out ended in a counted failure or a stall; the
\* last one is still on, or brought the job to its end.
CountedJob(j) ==
  /\ j.started = j.made + j.stalls + (IF j.state \in {"active", "completed"} THEN 1 ELSE 0)
  /\ j.started <= MaxAttempts + MaxStalledCount

CountedJobs == \A b \in Briefs : CountedJob(job[b])

\* The inductive strengthening of CallsAreBounded.
CountInv == TypeInv /\ CountedJobs

-----------------------------------------------------------------------------
\* Nothing works on b: no job, no execution, no place in the cycle.
Untouched(b) ==
  /\ job[b].state = "none"
  /\ \A e \in Executions : exec[e].brief # b
  /\ b \notin rec.todo
  /\ rec.brief # b

\* An id that was not drawn yet is unknown everywhere.
UnbornIsUnknown ==
  \A b \in Briefs : doc[b].status = "UNBORN" =>
    /\ Untouched(b)
    /\ \A r \in Requests : req[r].brief # b

\* create has stored b, and has not finished its call of the queue.
Creates(r, b) ==
  req[r].brief = b /\ req[r].pc \in {"enqueue", "compensateCreate"}

\* While create has not been answered, its brief is PENDING (or removed) and
\* only that request, or a removal, works on it.
CreateIsAlone ==
  \A b \in Briefs, r \in Requests : Creates(r, b) =>
    /\ doc[b].status \in {"PENDING", "DELETED"}
    /\ ~doc[b].stale
    /\ Untouched(b)
    /\ \A s \in Requests \ {r} : req[s].brief = b => req[s].pc = "removeJob"

NoLostAnswer == left["lostAnswer"] = 0

\* Needs Bounds["lostAnswer"] = 0.
CreateInv == TypeInv /\ NoLostAnswer /\ UnbornIsUnknown /\ CreateIsAlone

-----------------------------------------------------------------------------
\* Every execution holds the lock of its job.
LocksAreHeld ==
  \A e \in Executions : exec[e].pc # "idle" =>
    LET j == job[exec[e].brief] IN j.state = "active" /\ j.owner = e

NoLockLoss == left["lockLoss"] = 0

\* Needs Bounds["lockLoss"] = 0.
LockInv == TypeInv /\ NoLockLoss /\ LocksAreHeld

\* From startAttempt to complete, the text that was read is still there, unless
\* the brief is not PROCESSING any more.
TextIsKept ==
  \A e \in Executions : exec[e].pc \in {"analyze", "complete"} =>
    LET d == doc[exec[e].brief] IN
    d.status = "PROCESSING" => d.content = exec[e].seen

\* Needs Bounds["lockLoss"] = 0.
TextInv == LockInv /\ TextIsKept

\* From startAttempt to complete, the document is as it was claimed.
ClaimIsKept ==
  \A e \in Executions : exec[e].pc \in {"analyze", "complete"} =>
    LET d == doc[exec[e].brief] IN
    d.status = "PROCESSING" /\ d.content = exec[e].seen

\* Needs Bounds["lostAnswer"] = 0 as well.
ClaimInv == CreateInv /\ NoLockLoss /\ LocksAreHeld /\ ClaimIsKept

-----------------------------------------------------------------------------
NoDatabaseError == left["databaseError"] = 0

\* No queue call fails, and the API does not crash.
ApiIsSound ==
  left["apiCrash"] = 0 /\ left["queueError"] = 0 /\ left["lostAnswer"] = 0

\* A worker's crash is only expected where nothing happens to the API.
OneSideFails == left["workerCrash"] = 0 \/ ApiIsSound

\* The job is active and nobody works on it: it will be found stalled.
Abandoned(b) == job[b].state = "active" /\ (~Locked(job[b]) \/ Orphaned(b))

\* The crashes still to come do not exhaust the stalls that BullMQ forgives.
StallsAreForgiven ==
  \A b \in Briefs :
    job[b].stalls + (IF Abandoned(b) THEN 1 ELSE 0) + left["workerCrash"] <= MaxStalledCount

\* An execution works on b.
WorkedOn(b) == Locked(job[b]) /\ ~Orphaned(b)

\* A cycle or a retry is about to add a job of b.
AboutToAdd(b) ==
  \/ Reached("add") /\ rec.brief = b
  \/ \E r \in Requests : Waits(r, "retryAdd") /\ req[r].brief = b

\* The job of b runs or waits, or there is none and one is about to be added.
TakenCareOf(b) ==
  \/ job[b].state \in {"wait", "active"}
  \/ job[b].state = "none" /\ AboutToAdd(b)

\* A PROCESSING brief is left by its execution as something else.
ProcessingIsLeft ==
  \A e \in Executions :
    exec[e].pc \in {"recheck", "settle"} => doc[exec[e].brief].status # "PROCESSING"

IdleHasNoBrief == \A e \in Executions : exec[e].pc = "idle" => exec[e].brief = NoBrief

\* A brief whose job is being removed after it is gone for good.
RemovedIsDeleted ==
  \A r \in Requests : Waits(r, "removeJob") => doc[req[r].brief].status = "DELETED"

\* The inductive strengthening of ProcessingIsAttended.
AttendInv ==
  /\ LockInv /\ NoDatabaseError /\ OneSideFails /\ StallsAreForgiven
  /\ IdleHasNoBrief /\ RemovedIsDeleted /\ ProcessingIsLeft
  /\ \A b \in Briefs : doc[b].status = "PROCESSING" =>
       WorkedOn(b) \/ (ApiIsSound /\ TakenCareOf(b))

-----------------------------------------------------------------------------
\* No queue call fails.
NoQueueError == left["queueError"] = 0 /\ left["lostAnswer"] = 0

\* No request is about to make up for a queue call that failed.
NothingToCompensate ==
  \A r \in Requests : req[r].pc \notin {"compensateCreate", "compensateRetry"}

\* What an execution remembers of the attempts of its job is still right.
AttemptsAreKnown ==
  \A e \in Executions : exec[e].pc # "idle" => exec[e].made = job[exec[e].brief].made

\* While it is worked on a brief is not FAILED, and an execution that leaves it
\* FAILED leaves its job without a retry.
FailureIsForeseen ==
  \A e \in Executions :
    \/ exec[e].pc \in {"recheck", "analyze", "complete", "catch"}
    \/ exec[e].pc = "settle" /\ WillRetry(exec[e])
    => doc[exec[e].brief].status # "FAILED"

\* The inductive strengthening of FailedIsNotDelayed.
ForecastInv ==
  /\ LockInv /\ NoDatabaseError /\ NoQueueError /\ NothingToCompensate
  /\ AttemptsAreKnown /\ FailureIsForeseen /\ FailedIsNotDelayed

=============================================================================
