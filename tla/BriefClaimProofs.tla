--------------------------- MODULE BriefClaimProofs ---------------------------
(***************************************************************************)
(* What the lock of a job protects: as long as no execution loses the lock *)
(* it works under, a brief has one analysis at a time and gets the result  *)
(* of its current text; if no answer of a queue call is lost either, it is *)
(* PROCESSING from claim to completion.                                    *)
(***************************************************************************)
EXTENDS BriefFinalityProofs

\* Execution e holds the lock of j, which is active.
Holds(e, j) == j.state = "active" /\ j.owner = e

\* Nothing but its own execution takes the lock of a job from it.
KeepsLock(e, j, k) == Holds(e, j) => Holds(e, k)

\* The operations of the queue that API and reconciliation call keep locks.
LEMMA CallsKeepLocks ==
  ASSUME NEW e \in Executions, NEW j
  PROVE  KeepsLock(e, j, Add(j)) /\ KeepsLock(e, j, Remove(j)) /\ KeepsLock(e, j, j)
BY AttemptsAssumption
DEF KeepsLock, Holds, Add, Remove, Locked, AttemptsAssumption

\* Steps of the API and of the reconciliation cycle keep all locks.
LEMMA OthersKeepLocks ==
  ASSUME LockInv, ApiNext \/ ReconciliationNext
  PROVE  LocksAreHeld'
<1>0. /\ job \in [Briefs -> Job]
      /\ \A e \in Executions : exec[e].pc # "idle" => exec[e].brief \in Briefs
  BY DEF LockInv, TypeInv, SoundJobs, SoundExecutions, SoundExecution
<1>1. UNCHANGED exec
  BY DEF ApiNext, RequestStep, CreateBrief, Enqueue, EnqueueThrows, CompensateCreateWrite,
    ReadForRetry, RetryWrite, RetryRemove, RetryAdd, RetryThrows, CompensateRetryWrite,
    UpdateBrief, RemoveBrief, RemoveJob, Age, ApiCrash, ReconciliationNext, ListPending,
    GetJob, FinishCycle, GetState, RemoveTerminalJob, AddJob, CycleThrows
<1>2. \A b \in Briefs : job'[b] \in {job[b], Add(job[b]), Remove(job[b])}
  <2>1. CASE ApiNext
    <3>1. \A c, j : QueueAnswers(c, j) \/ QueueThrows(c, j) =>
            \A b \in Briefs : job'[b] = job[b] \/ (b = c /\ job'[b] = j)
      BY <1>0 DEF QueueAnswers, QueueThrows
    <3>2. ASSUME NEW r \in Requests, RequestStep(r)
          PROVE  \A b \in Briefs : job'[b] \in {job[b], Add(job[b]), Remove(job[b])}
      BY <3>1, <3>2 DEF RequestStep, Enqueue, EnqueueThrows, CompensateCreateWrite,
        RetryWrite, RetryRemove, RetryAdd, RetryThrows, CompensateRetryWrite, RemoveJob
    <3>3. CASE UNCHANGED job
      BY <3>3
    <3>4. QED
      BY <2>1, <3>2, <3>3 DEF ApiNext, CreateBrief, ReadForRetry, UpdateBrief, RemoveBrief,
        Age, ApiCrash
  <2>2. CASE ReconciliationNext
    BY <1>0, <2>2 DEF ReconciliationNext, ListPending, GetJob, FinishCycle, GetState,
      RemoveTerminalJob, AddJob, CycleThrows, QueueAnswers, QueueThrows
  <2>3. QED
    BY <2>1, <2>2
<1>3. ASSUME NEW e \in Executions, exec[e].pc # "idle"
      PROVE  Holds(e, job'[exec[e].brief])
  <2>1. exec[e].brief \in Briefs /\ Holds(e, job[exec[e].brief])
    BY <1>0, <1>3 DEF LockInv, LocksAreHeld, Holds
  <2>2. QED
    BY <1>2, <2>1, CallsKeepLocks DEF KeepsLock
<1>4. QED
  BY <1>1, <1>3 DEF LocksAreHeld, Holds

\* Two executions at work are at different briefs.
LEMMA OneExecutionPerBrief ==
  ASSUME LocksAreHeld, NEW e \in Executions, NEW f \in Executions,
         exec[e].pc # "idle", exec[f].pc # "idle", exec[e].brief = exec[f].brief
  PROVE  e = f
BY DEF LocksAreHeld

\* Locks are kept by the steps of executions...
LEMMA ExecutionKeepsLocks ==
  ASSUME LockInv, NEW e \in Executions, ExecutionStep(e) \/ DatabaseError(e)
  PROVE  LocksAreHeld'
<1>0. exec \in [Executions -> Execution] /\ job \in [Briefs -> Job] /\ exec[e].pc # "idle"
  BY DEF LockInv, TypeInv, SoundJobs, SoundExecutions, ExecutionStep, ClaimBrief,
    MissBrief, RecheckBrief, AnalyzeBrief, CompleteBrief, PersistFailure, SettleJob,
    DatabaseError, At
<1>1. CASE SettleJob(e)
  <2>1. /\ exec' = [exec EXCEPT ![e] = IdleExecution]
        /\ \A b \in Briefs \ {exec[e].brief} : job'[b] = job[b]
    BY <1>0, <1>1 DEF SettleJob
  <2>2. ASSUME NEW f \in Executions, exec'[f].pc # "idle"
        PROVE  exec'[f] = exec[f] /\ job'[exec[f].brief] = job[exec[f].brief]
    <3>1. f # e /\ exec'[f] = exec[f]
      BY <1>0, <2>1, <2>2 DEF IdleExecution
    <3>2. exec[f].brief # exec[e].brief
      BY <1>0, <2>2, <3>1, OneExecutionPerBrief DEF LockInv
    <3>3. exec[f].brief \in Briefs
      BY <2>2, <3>1 DEF LockInv, TypeInv, SoundExecutions, SoundExecution
    <3>4. QED
      BY <2>1, <3>1, <3>2, <3>3
  <2>3. QED
    BY <2>2 DEF LockInv, LocksAreHeld
<1>2. CASE ~SettleJob(e)
  <2>1. UNCHANGED job
    BY <1>2 DEF ExecutionStep, ClaimBrief, MissBrief, RecheckBrief, AnalyzeBrief,
      CompleteBrief, PersistFailure, DatabaseError
  <2>2. \A f \in Executions :
          exec'[f].brief = exec[f].brief /\ (exec'[f].pc # "idle" => exec[f].pc # "idle")
    BY <1>0, <1>2 DEF ExecutionStep, ClaimBrief, MissBrief, RecheckBrief, AnalyzeBrief,
      CompleteBrief, PersistFailure, DatabaseError, Goto, Execution
  <2>3. QED
    BY <2>1, <2>2 DEF LockInv, LocksAreHeld
<1>3. QED
  BY <1>1, <1>2

\* ... and those of the queue and of the processes, while none loses a lock.
LEMMA WorkerKeepsLocks ==
  ASSUME LockInv, WorkerNext
  PROVE  LocksAreHeld'
<1>0. /\ exec \in [Executions -> Execution] /\ job \in [Briefs -> Job]
      /\ \A f \in Executions : exec[f].pc # "idle" => exec[f].brief \in Briefs
      /\ \A b \in Briefs : Locked(job[b]) => job[b].state = "active"
      /\ NoExecution \notin Executions
  BY AttemptsAssumption DEF AttemptsAssumption, LockInv, TypeInv, SoundJobs,
    SoundJob, SoundExecutions, SoundExecution
<1>h. \A f \in Executions : exec[f].pc # "idle" => Holds(f, job[exec[f].brief])
  BY DEF LockInv, LocksAreHeld, Holds
<1>1. ASSUME NEW e \in Executions, NEW b \in Briefs, TakeJob(e, b) PROVE LocksAreHeld'
  <2>1. /\ exec' = [exec EXCEPT ![e] = exec'[e]] /\ exec'[e].brief = b
        /\ job' = [job EXCEPT ![b] = Take(job[b], e)] /\ job[b].state = "wait"
    BY <1>0, <1>1 DEF TakeJob, IdleExecution
  <2>2. Holds(e, Take(job[b], e))
    BY <1>0, <2>1 DEF Take, Holds, Job
  <2>3. ASSUME NEW f \in Executions \ {e}, exec[f].pc # "idle"
        PROVE  Holds(f, job'[exec[f].brief]) /\ exec'[f] = exec[f]
    BY <1>0, <1>h, <2>1, <2>3 DEF Holds
  <2>4. QED
    BY <1>0, <2>1, <2>2, <2>3 DEF LocksAreHeld, Holds
<1>2. ASSUME NEW b \in Briefs, \A f \in Executions : exec[f].pc # "idle" => exec[f].brief # b,
             UNCHANGED exec, NEW k, job' = [job EXCEPT ![b] = k]
      PROVE  LocksAreHeld'
  <2>1. ASSUME NEW f \in Executions, exec[f].pc # "idle"
        PROVE  job'[exec[f].brief] = job[exec[f].brief]
    BY <1>0, <1>2, <2>1
  <2>2. QED
    BY <1>2, <1>h, <2>1 DEF LocksAreHeld, Holds
<1>3. ASSUME NEW b \in Briefs,
             \/ PromoteJob(b) \/ OrphanLockExpires(b) \/ LockLost(b)
             \/ StalledCheck(b) \/ TrimJob(b)
      PROVE  LocksAreHeld'
  <2>1. ~LockLost(b)
    BY DEF LockLost, Spend, LockInv, NoLockLoss
  <2>2. \A f \in Executions : exec[f].pc # "idle" => exec[f].brief # b
    BY <1>0, <1>h, <1>3, <2>1 DEF Holds, PromoteJob, OrphanLockExpires, Orphaned, StalledCheck,
      TrimJob, Terminal, Locked
  <2>3. UNCHANGED exec /\ \E k : job' = [job EXCEPT ![b] = k]
    BY <1>3 DEF PromoteJob, OrphanLockExpires, LockLost, StalledCheck, TrimJob, ReleaseLock
  <2>4. QED
    BY <1>2, <2>2, <2>3
<1>4. ASSUME NEW w \in Workers, WorkerCrash(w) PROVE LocksAreHeld'
  <2>1. UNCHANGED job /\ \A f \in Executions : exec'[f].pc # "idle" => exec'[f] = exec[f]
    BY <1>4 DEF WorkerCrash, IdleExecution
  <2>2. QED
    BY <1>h, <2>1 DEF LocksAreHeld, Holds
<1>5. QED
  BY <1>1, <1>3, <1>4, ExecutionKeepsLocks DEF WorkerNext

\* LockInv is inductive.
LEMMA LockStep == LockInv /\ [Next]_vars => LockInv'
<1> SUFFICES ASSUME LockInv, [Next]_vars PROVE LockInv'
  OBVIOUS
<1>1. TypeInv'
  BY TypeStep DEF LockInv
<1>2. NoLockLoss'
  BY BoundsOnlyShrink DEF LockInv, NoLockLoss, Kinds
<1>3. LocksAreHeld'
  <2>1. CASE UNCHANGED vars
    BY <2>1 DEF vars, LockInv, LocksAreHeld
  <2>2. QED
    BY <2>1, WorkerKeepsLocks, OthersKeepLocks DEF Next
<1>4. QED
  BY <1>1, <1>2, <1>3 DEF LockInv

\* Before anything was taken, nothing is locked.
LEMMA LockInit == Init /\ Bounds["lockLoss"] = 0 => LockInv
BY TypeInit DEF Init, LockInv, NoLockLoss, LocksAreHeld, IdleExecution

\* As long as no running execution loses its lock, whatever is retried,
\* crashed, answered too late and published again, a brief is never in two
\* provider calls.
THEOREM OneAnalysis ==
  ASSUME Bounds["lockLoss"] = 0
  PROVE  Spec => []OneAnalysisAtATime
<1>1. LockInv => OneAnalysisAtATime
  BY OneExecutionPerBrief DEF LockInv, OneAnalysisAtATime
<1>2. Init => LockInv
  BY LockInit
<1>3. QED
  BY <1>1, <1>2, LockStep, PTL DEF Spec

-----------------------------------------------------------------------------
(* The text an execution has read.                                         *)

\* What a step of the API can make of a document.
LEMMA ApiWrites ==
  ASSUME TypeInv, ApiNext, NEW b \in Briefs
  PROVE  \/ doc'[b] \in {doc[b], CompensateCreate(doc[b]), CompensateRetry(doc[b]),
                         NewBrief, Deleted, [doc[b] EXCEPT !.stale = TRUE]}
         \/ \E status : doc'[b] = BackToPending(doc[b], status)
         \/ Editable(doc[b]) /\ doc'[b] = Edited(doc[b])
<1>0. doc \in [Briefs -> Document]
  BY DEF TypeInv, TypedDocs
<1>1. ASSUME NEW r \in Requests, RequestStep(r)
      PROVE  \/ doc'[b] \in {doc[b], CompensateCreate(doc[b]), CompensateRetry(doc[b])}
             \/ \E status : doc'[b] = BackToPending(doc[b], status)
  BY <1>0, <1>1 DEF RequestStep, Enqueue, EnqueueThrows, CompensateCreateWrite, RetryWrite,
    RetryRemove, RetryAdd, RetryThrows, CompensateRetryWrite, RemoveJob, Store
<1>2. ASSUME NEW r \in Requests, NEW c \in Briefs,
             CreateBrief(r, c) \/ ReadForRetry(r, c) \/ RemoveBrief(r, c)
      PROVE  doc'[b] \in {doc[b], NewBrief, Deleted}
  BY <1>0, <1>2 DEF CreateBrief, ReadForRetry, RemoveBrief, Store
<1>3. ASSUME NEW c \in Briefs, UpdateBrief(c) \/ Age(c)
      PROVE  \/ doc'[b] \in {doc[b], [doc[b] EXCEPT !.stale = TRUE]}
             \/ Editable(doc[b]) /\ doc'[b] = Edited(doc[b])
  BY <1>0, <1>3 DEF UpdateBrief, Age, Store
<1>4. CASE ApiCrash
  BY <1>4 DEF ApiCrash
<1>5. QED
  BY <1>1, <1>2, <1>3, <1>4 DEF ApiNext

\* None of it makes a document PROCESSING, or writes the text of one that is.
LEMMA ApiKeepsTheText ==
  ASSUME TypeInv, ApiNext, NEW b \in Briefs, doc'[b].status = "PROCESSING"
  PROVE  doc[b].status = "PROCESSING" /\ doc'[b].content = doc[b].content
<1>0. doc[b] \in Document
  BY DEF TypeInv, TypedDocs
<1>1. /\ CompensateCreate(doc[b]).status = "PROCESSING" => CompensateCreate(doc[b]) = doc[b]
      /\ CompensateRetry(doc[b]).status = "PROCESSING" => CompensateRetry(doc[b]) = doc[b]
      /\ \A status : BackToPending(doc[b], status).status = "PROCESSING"
                       => BackToPending(doc[b], status) = doc[b]
  BY <1>0 DEF CompensateCreate, CompensateRetry, BackToPending, Moved, Emptied, Document
<1>2. /\ NewBrief.status # "PROCESSING" /\ Deleted.status # "PROCESSING"
      /\ Editable(doc[b]) => Edited(doc[b]).status # "PROCESSING"
      /\ [doc[b] EXCEPT !.stale = TRUE].status = doc[b].status
      /\ [doc[b] EXCEPT !.stale = TRUE].content = doc[b].content
  BY <1>0 DEF NewBrief, Deleted, Unborn, Editable, Edited, Document
<1>3. QED
  BY <1>1, <1>2, ApiWrites

\* Nor does a step of the worker, but for the execution that claims it.
LEMMA WorkerKeepsTheText ==
  ASSUME TypeInv, NEW e \in Executions, ExecutionStep(e) \/ DatabaseError(e),
         NEW b \in Briefs, doc'[b].status = "PROCESSING"
  PROVE  /\ doc'[b].content = doc[b].content
         /\ \/ doc[b].status = "PROCESSING"
            \/ /\ exec[e].pc = "start"
               /\ exec[e].brief = b
<1>0. doc \in [Briefs -> Document] /\ doc[b] \in Document
  BY DEF TypeInv, TypedDocs
<1>1. \/ doc'[b] = doc[b]
      \/ exec[e].brief = b
         /\ \/ exec[e].pc = "start" /\ doc'[b] = StartAttempt(doc[b])
            \/ doc'[b] = FailureWrite(exec[e])
            \/ doc'[b] = Complete(doc[b], exec[e].verdict, exec[e].seen)
  BY <1>0 DEF ExecutionStep, DatabaseError, ClaimBrief, MissBrief, RecheckBrief,
    AnalyzeBrief, CompleteBrief, PersistFailure, SettleJob, Write, At
<1>2. StartAttempt(doc[b]).content = doc[b].content
  BY <1>0 DEF StartAttempt, Moved, Emptied, Document
<1>3. exec[e].brief = b /\ FailureWrite(exec[e]).status = "PROCESSING"
        => FailureWrite(exec[e]) = doc[b]
  BY <1>0 DEF FailureWrite, PrepareRetry, Fail, Moved, Emptied, Document
<1>4. Complete(doc[b], exec[e].verdict, exec[e].seen).status = "PROCESSING"
        => Complete(doc[b], exec[e].verdict, exec[e].seen) = doc[b]
  BY <1>0 DEF Complete, Moved, Document
<1>5. QED
  BY <1>1, <1>2, <1>3, <1>4

\* TextIsKept is kept by the steps of executions, since they are at different
\* briefs.
LEMMA ExecutionsKeepTheText ==
  ASSUME TextInv, NEW e \in Executions, ExecutionStep(e) \/ DatabaseError(e)
  PROVE  TextIsKept'
<1>0. /\ TypeInv /\ LocksAreHeld
      /\ exec \in [Executions -> Execution] /\ doc \in [Briefs -> Document]
      /\ \A f \in Executions : exec[f].pc # "idle" => exec[f].brief \in Briefs
  BY DEF TextInv, LockInv, TypeInv, TypedDocs, SoundExecutions, SoundExecution
<1>1. exec[e].pc # "idle"
  BY DEF ExecutionStep, ClaimBrief, MissBrief, RecheckBrief, AnalyzeBrief,
    CompleteBrief, PersistFailure, SettleJob, DatabaseError, At
<1>2. ASSUME NEW f \in Executions \ {e}, exec'[f].pc \in {"analyze", "complete"},
             doc'[exec'[f].brief].status = "PROCESSING"
      PROVE  doc'[exec'[f].brief].content = exec'[f].seen
  <2>1. exec'[f] = exec[f]
    BY <1>0 DEF ExecutionStep, ClaimBrief, MissBrief, RecheckBrief, AnalyzeBrief,
      CompleteBrief, PersistFailure, SettleJob, DatabaseError, Goto
  <2>2. exec[f].brief \in Briefs /\ exec[f].brief # exec[e].brief
    BY <1>0, <1>1, <1>2, <2>1, OneExecutionPerBrief
  <2>3. /\ doc'[exec[f].brief].content = doc[exec[f].brief].content
        /\ doc[exec[f].brief].status = "PROCESSING"
    BY <1>0, <1>2, <2>1, <2>2, WorkerKeepsTheText
  <2>4. QED
    BY <1>2, <2>1, <2>3 DEF TextInv, TextIsKept
<1>3. ASSUME exec'[e].pc \in {"analyze", "complete"},
             doc'[exec'[e].brief].status = "PROCESSING"
      PROVE  doc'[exec'[e].brief].content = exec'[e].seen
  <2> DEFINE b == exec[e].brief
  <2>1. b \in Briefs
    BY <1>0, <1>1
  <2>2. ClaimBrief(e) \/ AnalyzeBrief(e)
    BY <1>0, <1>3 DEF ExecutionStep, MissBrief, RecheckBrief, CompleteBrief,
      PersistFailure, SettleJob, DatabaseError, Goto, IdleExecution, Execution
  <2>3. CASE ClaimBrief(e)
    <3>1. exec'[e].brief = b /\ exec'[e].seen = doc[b].content
      BY <1>0, <2>3 DEF ClaimBrief, Execution
    <3>2. doc'[b].content = doc[b].content
      BY <1>0, <1>3, <2>1, <3>1, WorkerKeepsTheText
    <3>3. QED
      BY <3>1, <3>2
  <2>4. CASE AnalyzeBrief(e)
    <3>1. exec'[e].brief = b /\ exec'[e].seen = exec[e].seen /\ doc' = doc
          /\ exec[e].pc = "analyze"
      BY <1>0, <2>4 DEF AnalyzeBrief, Goto, At, Execution
    <3>2. QED
      BY <1>3, <3>1 DEF TextInv, TextIsKept
  <2>5. QED
    BY <2>2, <2>3, <2>4
<1>4. QED
  BY <1>2, <1>3 DEF TextIsKept

\* TextInv is inductive.
LEMMA TextStep == TextInv /\ [Next]_vars => TextInv'
<1> SUFFICES ASSUME TextInv, [Next]_vars PROVE TextInv'
  OBVIOUS
<1>0. /\ exec \in [Executions -> Execution]
      /\ \A f \in Executions : exec[f].pc # "idle" => exec[f].brief \in Briefs
      /\ TypeInv
  BY DEF TextInv, LockInv, TypeInv, SoundExecutions, SoundExecution
<1>1. LockInv'
  BY LockStep DEF TextInv
<1>2. TextIsKept'
  <2>1. CASE \E e \in Executions : ExecutionStep(e) \/ DatabaseError(e)
    BY <2>1, ExecutionsKeepTheText
  <2>2. CASE \E e \in Executions, b \in Briefs : TakeJob(e, b)
    BY <1>0, <2>2 DEF TakeJob, IdleExecution, TextInv, TextIsKept
  <2>3. CASE \E w \in Workers : WorkerCrash(w)
    BY <1>0, <2>3 DEF WorkerCrash, IdleExecution, TextInv, TextIsKept
  <2>4. CASE UNCHANGED <<doc, exec>>
    BY <2>4 DEF TextInv, TextIsKept
  <2>5. CASE ApiNext
    <3>1. UNCHANGED exec
      BY <2>5 DEF ApiNext, RequestStep, CreateBrief, Enqueue, EnqueueThrows,
        CompensateCreateWrite, ReadForRetry, RetryWrite, RetryRemove, RetryAdd, RetryThrows,
        CompensateRetryWrite, UpdateBrief, RemoveBrief, RemoveJob, Age, ApiCrash
    <3>2. \A b \in Briefs : doc'[b].status = "PROCESSING" =>
            doc[b].status = "PROCESSING" /\ doc'[b].content = doc[b].content
      BY <1>0, <2>5, ApiKeepsTheText
    <3>3. QED
      BY <1>0, <3>1, <3>2 DEF TextInv, TextIsKept
  <2>6. QED
    <3>1. ReconciliationNext \/ UNCHANGED vars => UNCHANGED <<doc, exec>>
      BY DEF vars, ReconciliationNext, ListPending, GetJob, FinishCycle, GetState,
        RemoveTerminalJob, AddJob, CycleThrows
    <3>2. ASSUME NEW b \in Briefs, \/ PromoteJob(b) \/ OrphanLockExpires(b) \/ LockLost(b)
                                   \/ StalledCheck(b) \/ TrimJob(b)
          PROVE  UNCHANGED <<doc, exec>>
      BY <3>2 DEF PromoteJob, OrphanLockExpires, LockLost, StalledCheck, TrimJob
    <3>3. QED
      BY <2>1, <2>2, <2>3, <2>4, <2>5, <3>1, <3>2 DEF Next, WorkerNext
<1>3. QED
  BY <1>1, <1>2 DEF TextInv

\* The document becomes COMPLETED only by the complete of an execution, while
\* it is PROCESSING.
LEMMA OnlyCompleteCompletes ==
  ASSUME TypeInv, [Next]_vars, NEW b \in Briefs,
         doc[b].status # "COMPLETED", doc'[b].status = "COMPLETED"
  PROVE  \E e \in Executions :
           /\ exec[e].pc = "complete" /\ exec[e].brief = b
           /\ doc[b].status = "PROCESSING"
           /\ doc'[b].of = exec[e].seen
<1>0. doc \in [Briefs -> Document] /\ doc[b] \in Document
  BY DEF TypeInv, TypedDocs
<1>1. ASSUME NEW e \in Executions, ExecutionStep(e) \/ DatabaseError(e)
      PROVE  /\ exec[e].pc = "complete" /\ exec[e].brief = b
             /\ doc[b].status = "PROCESSING"
             /\ doc'[b].of = exec[e].seen
  <2>1. /\ StartAttempt(doc[b]).status # "COMPLETED"
        /\ FailureWrite(exec[e]).status # "COMPLETED" \/ exec[e].brief # b
    BY <1>0 DEF StartAttempt, FailureWrite, PrepareRetry, Fail, Moved, Emptied, Document
  <2>2. \/ doc'[b] = doc[b]
        \/ exec[e].brief = b
           /\ \/ doc'[b] = StartAttempt(doc[b])
              \/ doc'[b] = FailureWrite(exec[e])
              \/ /\ exec[e].pc = "complete"
                 /\ doc'[b] = Complete(doc[b], exec[e].verdict, exec[e].seen)
    BY <1>0, <1>1 DEF ExecutionStep, DatabaseError, ClaimBrief, MissBrief, RecheckBrief,
      AnalyzeBrief, CompleteBrief, PersistFailure, SettleJob, Write, At
  <2>3. Complete(doc[b], exec[e].verdict, exec[e].seen).status = "COMPLETED" =>
          /\ doc[b].status = "PROCESSING"
          /\ Complete(doc[b], exec[e].verdict, exec[e].seen).of = exec[e].seen
    BY <1>0 DEF Complete, Moved, Document
  <2>4. QED
    BY <2>1, <2>2, <2>3
<1>2. ~ApiNext
  <2>1. /\ CompensateCreate(doc[b]).status # "COMPLETED"
        /\ \A s : BackToPending(doc[b], s).status # "COMPLETED"
        /\ CompensateRetry(doc[b]).status # "COMPLETED"
    BY <1>0 DEF CompensateCreate, BackToPending, CompensateRetry, Moved, Emptied, Document
  <2>2. /\ NewBrief.status # "COMPLETED" /\ Deleted.status # "COMPLETED"
        /\ Edited(doc[b]).status # "COMPLETED"
        /\ [doc[b] EXCEPT !.stale = TRUE].status # "COMPLETED"
    BY <1>0 DEF NewBrief, Deleted, Unborn, Edited, Document
  <2>3. QED
    BY <2>1, <2>2, ApiWrites
<1>3. ~ReconciliationNext /\ ~UNCHANGED vars
  BY DEF vars, ReconciliationNext, ListPending, GetJob, FinishCycle, GetState,
    RemoveTerminalJob, AddJob, CycleThrows
<1>4. QED
  BY <1>1, <1>2, <1>3 DEF Next, WorkerNext, TakeJob, PromoteJob, OrphanLockExpires, LockLost,
    StalledCheck, TrimJob, WorkerCrash

\* Under the same condition, a result is stored only over the text it was
\* computed from: no edit gets between startAttempt and complete, not even one
\* that create's late compensation made possible.  The run paused_worker shows
\* that the lock is needed.
THEOREM ResultIsCurrent ==
  ASSUME Bounds["lockLoss"] = 0
  PROVE  Spec => ResultOfCurrentText
<1>1. TextInv /\ [Next]_vars =>
        [\A b \in Briefs :
           doc[b].status # "COMPLETED" /\ doc'[b].status = "COMPLETED"
             => doc'[b].of = doc[b].content]_vars
  BY OnlyCompleteCompletes DEF TextInv, LockInv, TextIsKept
<1>2. Init => TextInv
  BY LockInit DEF Init, TextInv, TextIsKept, IdleExecution
<1>3. QED
  BY <1>1, <1>2, TextStep, PTL DEF Spec, ResultOfCurrentText

-----------------------------------------------------------------------------
(* The document an execution has claimed.                                  *)

\* d is as an execution that read the text seen has claimed it.
Claimed(d, seen) == d.status = "PROCESSING" /\ d.content = seen

\* Nothing the API does changes a claimed document.
LEMMA ApiKeepsClaims ==
  ASSUME ClaimInv, ApiNext, NEW b \in Briefs, doc[b].status = "PROCESSING"
  PROVE  doc'[b] = doc[b]
<1>0. doc \in [Briefs -> Document]
  BY DEF ClaimInv, CreateInv, TypeInv, TypedDocs
<1>1. ASSUME NEW r \in Requests, RequestStep(r) PROVE doc'[b] = doc[b]
  <2>1. CASE CompensateCreateWrite(r)
    <3>1. req[r].brief # b
      BY <2>1 DEF ClaimInv, CreateInv, CreateIsAlone, Creates, CompensateCreateWrite, Waits
    <3>2. QED
      BY <1>0, <2>1, <3>1 DEF CompensateCreateWrite, Store
  <2>2. CASE RetryWrite(r) \/ CompensateRetryWrite(r)
    BY <1>0, <2>2 DEF RetryWrite, CompensateRetryWrite, Store, BackToPending, RetryMatches,
      Retryable, CompensateRetry
  <2>3. CASE UNCHANGED doc
    BY <2>3
  <2>4. QED
    BY <1>1, <2>1, <2>2, <2>3 DEF RequestStep, Enqueue, EnqueueThrows, RetryRemove,
      RetryAdd, RetryThrows, RemoveJob
<1>2. ASSUME NEW r \in Requests, NEW c \in Briefs,
             CreateBrief(r, c) \/ ReadForRetry(r, c) \/ RemoveBrief(r, c)
      PROVE  doc'[b] = doc[b]
  BY <1>0, <1>2 DEF CreateBrief, ReadForRetry, RemoveBrief, Store, Editable
<1>3. ASSUME NEW c \in Briefs, UpdateBrief(c) \/ Age(c) PROVE doc'[b] = doc[b]
  BY <1>0, <1>3 DEF UpdateBrief, Age, Store, Editable
<1>4. CASE ApiCrash
  BY <1>4 DEF ApiCrash
<1>5. QED
  BY <1>1, <1>2, <1>3, <1>4 DEF ApiNext

\* A step of the API leaves the claims of the executions alone.
LEMMA ApiKeepsClaimed ==
  ASSUME ClaimInv, ApiNext
  PROVE  ClaimIsKept'
<1>1. UNCHANGED exec
  BY DEF ApiNext, RequestStep, CreateBrief, Enqueue, EnqueueThrows, CompensateCreateWrite,
    ReadForRetry, RetryWrite, RetryRemove, RetryAdd, RetryThrows, CompensateRetryWrite,
    UpdateBrief, RemoveBrief, RemoveJob, Age, ApiCrash
<1>2. ASSUME NEW e \in Executions, exec[e].pc \in {"analyze", "complete"}
      PROVE  Claimed(doc'[exec[e].brief], exec[e].seen)
  <2>1. exec[e].brief \in Briefs /\ Claimed(doc[exec[e].brief], exec[e].seen)
    BY <1>2 DEF ClaimInv, ClaimIsKept, Claimed, CreateInv, TypeInv, SoundExecutions,
      SoundExecution
  <2>2. QED
    BY <2>1, ApiKeepsClaims DEF Claimed
<1>3. QED
  BY <1>1, <1>2 DEF ClaimIsKept, Claimed

\* So does a step of the worker: its executions are at different briefs.
LEMMA WorkerKeepsClaimed ==
  ASSUME ClaimInv, WorkerNext
  PROVE  ClaimIsKept'
<1>0. /\ exec \in [Executions -> Execution] /\ doc \in [Briefs -> Document]
      /\ \A f \in Executions : exec[f].pc # "idle" => exec[f].brief \in Briefs
  BY DEF ClaimInv, CreateInv, TypeInv, TypedDocs, SoundExecutions, SoundExecution
<1>k. \A f \in Executions : exec[f].pc \in {"analyze", "complete"} =>
        Claimed(doc[exec[f].brief], exec[f].seen)
  BY DEF ClaimInv, ClaimIsKept, Claimed
<1>1. ASSUME NEW e \in Executions, ExecutionStep(e) \/ DatabaseError(e)
      PROVE  ClaimIsKept'
  <2> DEFINE c == exec[e].brief
  <2>1. exec[e].pc # "idle" /\ c \in Briefs
    BY <1>0, <1>1 DEF ExecutionStep, ClaimBrief, MissBrief, RecheckBrief, AnalyzeBrief,
      CompleteBrief, PersistFailure, SettleJob, DatabaseError, At
  <2>2. \A b \in Briefs \ {c} : doc'[b] = doc[b]
    BY <1>0, <1>1 DEF ExecutionStep, ClaimBrief, MissBrief, RecheckBrief, AnalyzeBrief,
      CompleteBrief, PersistFailure, SettleJob, DatabaseError, Write
  <2>3. \A f \in Executions \ {e} : exec'[f] = exec[f]
    BY <1>0, <1>1 DEF ExecutionStep, ClaimBrief, MissBrief, RecheckBrief, AnalyzeBrief,
      CompleteBrief, PersistFailure, SettleJob, DatabaseError, Goto
  <2>4. ASSUME NEW f \in Executions \ {e}, exec[f].pc \in {"analyze", "complete"}
        PROVE  Claimed(doc'[exec[f].brief], exec[f].seen)
    <3>1. exec[f].brief # c /\ exec[f].brief \in Briefs
      BY <1>0, <2>1, <2>4, OneExecutionPerBrief DEF ClaimInv
    <3>2. QED
      BY <1>k, <2>2, <2>4, <3>1
  <2>5. ASSUME exec'[e].pc \in {"analyze", "complete"}
        PROVE  Claimed(doc'[exec'[e].brief], exec'[e].seen)
    <3>1. ClaimBrief(e) \/ AnalyzeBrief(e)
      BY <1>0, <1>1, <2>5 DEF ExecutionStep, MissBrief, RecheckBrief, CompleteBrief,
        PersistFailure, SettleJob, DatabaseError, Goto, IdleExecution, Execution
    <3>2. CASE ClaimBrief(e)
      <4>1. /\ exec'[e].brief = c /\ exec'[e].seen = doc[c].content
            /\ doc'[c] = StartAttempt(doc[c]) /\ Claimable(doc[c])
        BY <1>0, <2>1, <3>2 DEF ClaimBrief, Write, Execution
      <4>2. doc[c] \in Document
        BY <1>0, <2>1
      <4>3. Claimed(StartAttempt(doc[c]), doc[c].content)
        BY <4>1, <4>2 DEF Claimed, StartAttempt, Moved, Emptied, Document
      <4>4. QED
        BY <4>1, <4>3
    <3>3. CASE AnalyzeBrief(e)
      <4>1. /\ exec'[e].brief = c /\ exec'[e].seen = exec[e].seen
            /\ doc' = doc /\ exec[e].pc = "analyze"
        BY <1>0, <2>1, <3>3 DEF AnalyzeBrief, Goto, At, Execution
      <4>2. QED
        BY <1>k, <4>1
    <3>4. QED
      BY <3>1, <3>2, <3>3
  <2>6. QED
    BY <2>3, <2>4, <2>5 DEF ClaimIsKept, Claimed
<1>2. CASE \E e \in Executions, b \in Briefs : TakeJob(e, b)
  BY <1>0, <1>k, <1>2 DEF TakeJob, IdleExecution, ClaimIsKept, Claimed
<1>3. CASE \E b \in Briefs : \/ PromoteJob(b) \/ OrphanLockExpires(b) \/ LockLost(b)
                             \/ StalledCheck(b) \/ TrimJob(b)
  BY <1>k, <1>3 DEF PromoteJob, OrphanLockExpires, LockLost, StalledCheck, TrimJob,
    ClaimIsKept, Claimed
<1>4. CASE \E w \in Workers : WorkerCrash(w)
  BY <1>k, <1>4 DEF WorkerCrash, IdleExecution, ClaimIsKept, Claimed
<1>5. QED
  BY <1>1, <1>2, <1>3, <1>4 DEF WorkerNext

\* ClaimInv is inductive.
LEMMA ClaimStep == ClaimInv /\ [Next]_vars => ClaimInv'
<1> SUFFICES ASSUME ClaimInv, [Next]_vars PROVE ClaimInv'
  OBVIOUS
<1>1. CreateInv'
  BY CreateStep DEF ClaimInv
<1>2. LockInv /\ LockInv'
  BY LockStep DEF ClaimInv, CreateInv, LockInv
<1>3. ClaimIsKept'
  <2>1. CASE WorkerNext
    BY <2>1, WorkerKeepsClaimed
  <2>2. CASE ApiNext
    BY <2>2, ApiKeepsClaimed
  <2>3. CASE ReconciliationNext
    BY <2>3 DEF ReconciliationNext, ListPending, GetJob, FinishCycle, GetState,
      RemoveTerminalJob, AddJob, CycleThrows, ClaimInv, ClaimIsKept
  <2>4. CASE UNCHANGED vars
    BY <2>4 DEF vars, ClaimInv, ClaimIsKept
  <2>5. QED
    BY <2>1, <2>2, <2>3, <2>4 DEF Next
<1>4. QED
  BY <1>1, <1>2, <1>3 DEF ClaimInv, LockInv

\* Before anything was taken, nothing is locked or claimed.
LEMMA ClaimInit ==
  Init /\ Bounds["lostAnswer"] = 0 /\ Bounds["lockLoss"] = 0 => ClaimInv
BY CreateInit DEF Init, ClaimInv, NoLockLoss, LocksAreHeld, ClaimIsKept, IdleExecution

=============================================================================
