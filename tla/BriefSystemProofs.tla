-------------------------- MODULE BriefSystemProofs --------------------------
(***************************************************************************)
(* Theorems about BriefSystem for every value of its constants.            *)
(***************************************************************************)
EXTENDS BriefInvariants, TLAPS

-----------------------------------------------------------------------------
(* The updates of a document and of a job keep their types.                *)

\* Every update of MongoBriefRepository and BriefsService yields a document.
LEMMA DocumentUpdates ==
  ASSUME NEW d \in Document
  PROVE  /\ StartAttempt(d) \in Document
         /\ \A o \in Outcomes, v \in Nat : Complete(d, o, v) \in Document
         /\ PrepareRetry(d) \in Document
         /\ \A err \in Errors : Fail(d, err) \in Document
         /\ \A s : BackToPending(d, s) \in Document
         /\ CompensateCreate(d) \in Document
         /\ CompensateRetry(d) \in Document
         /\ Edited(d) \in Document
         /\ [d EXCEPT !.stale = TRUE] \in Document
<1>1. \A s \in Stored, x \in Errors \cup {"none"} :
        /\ Moved(d, s, x) \in Document
        /\ Emptied(Moved(d, s, x)) \in Document
  BY ZenonT(40) DEF Document, Moved, Emptied, Stored, Absent, Errors, Outcomes
<1>2. \A o \in Outcomes, v \in Nat : Complete(d, o, v) \in Document
  BY DEF Complete, Document, Moved, Stored, Absent, Errors, Outcomes
<1>3. Edited(d) \in Document /\ [d EXCEPT !.stale = TRUE] \in Document
  <2>1. d.content + 1 \in Nat
    BY DEF Document
  <2>2. QED
    BY <2>1 DEF Edited, Document
<1>4. QED
  BY <1>1, <1>2, <1>3 DEF StartAttempt, PrepareRetry, Fail, BackToPending,
    CompensateCreate, CompensateRetry, Stored, Errors

\* The documents of a brief that is created and of one that is removed.
LEMMA NewDocuments ==
  Unborn \in Document /\ NewBrief \in Document /\ Deleted \in Document
BY DEF Unborn, NewBrief, Deleted, Document, Stored, Absent, Errors, Outcomes

\* Every operation of the queue keeps a job sound; the last three are applied
\* to jobs that are active, delayed and terminal or unlocked.
LEMMA JobUpdates ==
  ASSUME NEW j, SoundJob(j)
  PROVE  /\ SoundJob(NoJob)
         /\ SoundJob(Add(j))
         /\ SoundJob(Remove(j))
         /\ \A e \in Executions : j.state = "wait" => SoundJob(Take(j, e))
         /\ Locked(j) => SoundJob(Succeeded(j))
         /\ \A x \in BOOLEAN : Locked(j) => SoundJob(FailedOnce(j, x))
         /\ j.state = "delayed" => SoundJob([j EXCEPT !.state = "wait"])
         /\ SoundJob([j EXCEPT !.owner = NoExecution])
         /\ j.state = "active" /\ ~Locked(j) => SoundJob(Stalled(j))
<1> USE AttemptsAssumption DEF AttemptsAssumption, SoundJob, Job, Live, Terminal, Locked
<1>0. /\ j.started + 1 \in Nat
      /\ j.made < MaxAttempts => j.made + 1 \in 0 .. MaxAttempts
      /\ j.stalls <= MaxStalledCount => j.stalls + 1 \in 0 .. MaxStalledCount + 1
      /\ j.stalls < MaxStalledCount => j.stalls + 1 <= MaxStalledCount
      /\ j.made + 1 < MaxAttempts => j.made + 1 \in 0 .. MaxAttempts
  OBVIOUS
<1>1. SoundJob(NoJob) /\ SoundJob([NoJob EXCEPT !.state = "wait"])
  BY DEF NoJob
<1>2. SoundJob(Add(j)) /\ SoundJob(Remove(j))
  BY <1>1 DEF Add, Remove
<1>3. \A e \in Executions : j.state = "wait" => SoundJob(Take(j, e))
  BY <1>0 DEF Take
<1>4. Locked(j) => SoundJob(Succeeded(j))
  BY DEF Succeeded
<1>5. ASSUME NEW x \in BOOLEAN, Locked(j) PROVE SoundJob(FailedOnce(j, x))
  BY <1>0, <1>5 DEF FailedOnce, RetryAllowed
<1>6. j.state = "delayed" => SoundJob([j EXCEPT !.state = "wait"])
  OBVIOUS
<1>7. SoundJob([j EXCEPT !.owner = NoExecution])
  OBVIOUS
<1>8. j.state = "active" /\ ~Locked(j) => SoundJob(Stalled(j))
  BY <1>0 DEF Stalled
<1>9. QED
  BY <1>1, <1>2, <1>3, <1>4, <1>5, <1>6, <1>7, <1>8

-----------------------------------------------------------------------------
(* A step that changes one entry of a variable keeps the variable sound.   *)

\* ... doc, by a write of one document;
LEMMA OneDocument ==
  ASSUME TypedDocs, NEW b, NEW d \in Document, doc' = [doc EXCEPT ![b] = d]
  PROVE  TypedDocs'
BY DEF TypedDocs

\* ... job, by a queue call for one brief;
LEMMA OneJob ==
  ASSUME SoundJobs, NEW b, NEW j, SoundJob(j), job' = [job EXCEPT ![b] = j]
  PROVE  SoundJobs'
BY DEF SoundJobs, SoundJob

\* ... exec, by a step of one execution;
LEMMA OneExecution ==
  ASSUME SoundExecutions, NEW e, NEW x, SoundExecution(x),
         exec' = [exec EXCEPT ![e] = x]
  PROVE  SoundExecutions'
BY DEF SoundExecutions, SoundExecution

\* ... req, by a step of one request;
LEMMA OneRequest ==
  ASSUME SoundRequests, NEW r, NEW q, SoundRequest(q), req' = [req EXCEPT ![r] = q]
  PROVE  SoundRequests'
BY DEF SoundRequests, SoundRequest

\* ... left, by one event of a bounded kind.
LEMMA OneEvent ==
  ASSUME TypedBounds, NEW kind \in Kinds, Spend(kind)
  PROVE  TypedBounds'
BY DEF TypedBounds, Spend

-----------------------------------------------------------------------------
\* A system that has just been started is type correct.
LEMMA TypeInit == Init => TypeInv
<1> SUFFICES ASSUME Init PROVE TypeInv
  OBVIOUS
<1> USE DEF Init
<1>1. TypedDocs
  BY NewDocuments DEF TypedDocs
<1>2. SoundJobs
  BY AttemptsAssumption DEF SoundJobs, SoundJob, Job, NoJob, Live, Terminal, Locked,
    AttemptsAssumption
<1>3. SoundExecutions
  BY DEF SoundExecutions, SoundExecution, Execution, IdleExecution
<1>4. SoundRequests
  BY DEF SoundRequests, SoundRequest, Request, IdleRequest
<1>5. SoundReconciler(rec)
  BY DEF SoundReconciler, Reconciler, IdleReconciler
<1>6. TypedBounds
  BY StateAssumption DEF TypedBounds, StateAssumption
<1>7. QED
  BY <1>1, <1>2, <1>3, <1>4, <1>5, <1>6 DEF TypeInv

\* What a step leaves unchanged stays sound.
LEMMA Unchanged ==
  /\ TypedDocs /\ UNCHANGED doc => TypedDocs'
  /\ SoundJobs /\ UNCHANGED job => SoundJobs'
  /\ SoundExecutions /\ UNCHANGED exec => SoundExecutions'
  /\ SoundRequests /\ UNCHANGED req => SoundRequests'
  /\ SoundReconciler(rec) /\ UNCHANGED rec => SoundReconciler(rec)'
  /\ TypedBounds /\ UNCHANGED left => TypedBounds'
<1>1. TypedDocs /\ UNCHANGED doc => TypedDocs'
  BY DEF TypedDocs
<1>2. SoundJobs /\ UNCHANGED job => SoundJobs'
  BY DEF SoundJobs
<1>3. SoundExecutions /\ UNCHANGED exec => SoundExecutions'
  BY DEF SoundExecutions
<1>4. SoundRequests /\ UNCHANGED req => SoundRequests'
  BY DEF SoundRequests
<1>5. SoundReconciler(rec) /\ UNCHANGED rec => SoundReconciler(rec)'
  BY DEF SoundReconciler
<1>6. TypedBounds /\ UNCHANGED left => TypedBounds'
  BY DEF TypedBounds
<1>7. QED
  BY <1>1, <1>2, <1>3, <1>4, <1>5, <1>6

\* The steps of an execution keep every variable sound.
LEMMA TypeExecution ==
  ASSUME TypeInv, NEW e \in Executions, ExecutionStep(e) \/ DatabaseError(e)
  PROVE  TypeInv'
<1> USE Unchanged DEF TypeInv
<1> DEFINE x == exec[e]
<1>x. SoundExecution(x) /\ (x.pc # "idle" => doc[x.brief] \in Document /\ SoundJob(job[x.brief]))
  BY DEF SoundExecutions, SoundExecution, TypedDocs, SoundJobs
<1> DEFINE y(pc, verdict) == [exec[e] EXCEPT !.pc = pc, !.verdict = verdict]
<1>y. ASSUME NEW pc, NEW verdict, SoundExecution(y(pc, verdict)), Goto(e, pc, verdict)
      PROVE  SoundExecutions'
  <2>1. exec' = [exec EXCEPT ![e] = y(pc, verdict)]
    BY <1>y DEF Goto, SoundExecutions
  <2>2. QED
    BY <1>y, <2>1, OneExecution
<1>z. /\ x.pc # "idle" => \A v \in Errors \cup {"ok"} : SoundExecution(y("settle", v))
      /\ x.pc # "idle" => \A v \in Errors : SoundExecution(y("catch", v))
      /\ x.pc # "idle" => \A v \in Outcomes : SoundExecution(y("complete", v))
      /\ x.pc # "idle" => SoundExecution(y("recheck", "none"))
  BY <1>x DEF SoundExecution, Execution, Outcomes, Errors
<1>1. CASE ClaimBrief(e)
  <2> DEFINE z == [x EXCEPT !.pc = "analyze", !.seen = doc[x.brief].content]
  <2>1. TypedDocs'
    BY <1>1, <1>x, DocumentUpdates, OneDocument DEF ClaimBrief, At, Write
  <2>2. SoundExecution(z)
    BY <1>1, <1>x DEF ClaimBrief, At, SoundExecution, Execution, Document
  <2>3. exec' = [exec EXCEPT ![e] = z]
    BY <1>1 DEF ClaimBrief, SoundExecutions
  <2>4. SoundExecutions'
    BY <2>2, <2>3, OneExecution
  <2>5. QED
    BY <1>1, <2>1, <2>4 DEF ClaimBrief
<1>2. CASE MissBrief(e)
  BY <1>2, <1>y, <1>z DEF MissBrief, At
<1>3. CASE RecheckBrief(e)
  BY <1>3, <1>y, <1>z DEF RecheckBrief, At, Errors
<1>4. CASE AnalyzeBrief(e)
  <2>1. SoundExecutions'
    BY <1>4, <1>y, <1>z DEF AnalyzeBrief, At
  <2>2. QED
    BY <1>4, <2>1 DEF AnalyzeBrief
<1>5. CASE CompleteBrief(e)
  <2>1. TypedDocs'
    BY <1>5, <1>x, DocumentUpdates, OneDocument
    DEF CompleteBrief, At, Write, SoundExecution, Execution
  <2>2. SoundExecutions'
    BY <1>5, <1>y, <1>z DEF CompleteBrief, At, Errors
  <2>3. QED
    BY <1>5, <2>1, <2>2 DEF CompleteBrief
<1>6. x.pc = "catch" => FailureWrite(x) \in Document
  BY <1>x, DocumentUpdates DEF FailureWrite, SoundExecution
<1>7. CASE PersistFailure(e)
  <2> DEFINE z == [x EXCEPT !.pc = "settle"]
  <2>1. TypedDocs'
    BY <1>6, <1>7, OneDocument DEF PersistFailure, At, Write
  <2>2. SoundExecution(z)
    BY <1>7, <1>x DEF PersistFailure, At, SoundExecution, Execution
  <2>3. exec' = [exec EXCEPT ![e] = z]
    BY <1>7 DEF PersistFailure, SoundExecutions
  <2>4. SoundExecutions'
    BY <2>2, <2>3, OneExecution
  <2>5. QED
    BY <1>7, <2>1, <2>4 DEF PersistFailure
<1>8. CASE SettleJob(e)
  <2> DEFINE j == job[x.brief]
             k == IF j.owner # e THEN j
                  ELSE IF x.verdict = "ok" THEN Succeeded(j)
                  ELSE FailedOnce(j, x.verdict = "retryable")
  <2>1. SoundJob(j)
    BY <1>8, <1>x DEF SettleJob, At
  <2>2. SoundJob(k)
    <3>1. CASE j.owner # e
      BY <2>1, <3>1
    <3>2. CASE j.owner = e
      <4>1. Locked(j)
        BY <3>2, AttemptsAssumption DEF Locked, AttemptsAssumption
      <4>2. SoundJob(Succeeded(j)) /\ SoundJob(FailedOnce(j, x.verdict = "retryable"))
        BY <2>1, <4>1, JobUpdates
      <4>3. QED
        BY <3>2, <4>2
    <3>3. QED
      BY <3>1, <3>2
  <2>3. SoundJobs'
    BY <1>8, <2>2, OneJob DEF SettleJob
  <2>4. SoundExecution(IdleExecution)
    BY DEF SoundExecution, Execution, IdleExecution
  <2>5. SoundExecutions'
    BY <1>8, <2>4, OneExecution DEF SettleJob
  <2>6. QED
    BY <1>8, <2>3, <2>5 DEF SettleJob
<1>9. CASE DatabaseError(e)
  <2> DEFINE b == x.brief
             written == CASE x.pc = "start" -> StartAttempt(doc[b])
                          [] x.pc = "complete" -> Complete(doc[b], x.verdict, x.seen)
                          [] x.pc = "catch" -> FailureWrite(x)
                          [] OTHER -> doc[b]
  <2>1. x.pc # "idle"
    BY <1>9 DEF DatabaseError
  <2>2. written \in Document
    <3>1. x.pc = "complete" => Complete(doc[b], x.verdict, x.seen) \in Document
      BY <1>x, DocumentUpdates DEF SoundExecution, Execution
    <3>2. StartAttempt(doc[b]) \in Document
      BY <1>x, <2>1, DocumentUpdates
    <3>3. QED
      BY <1>x, <1>6, <2>1, <3>1, <3>2
  <2>3. PICK d \in {doc[b], written} : doc' = [doc EXCEPT ![b] = d]
    BY <1>9 DEF DatabaseError, Write
  <2>4. TypedDocs'
    BY <1>x, <2>1, <2>2, <2>3, OneDocument
  <2>5. SoundExecutions'
    BY <1>9, <1>y, <1>z, <2>1 DEF DatabaseError, Errors
  <2>6. TypedBounds'
    BY <1>9, OneEvent DEF DatabaseError, Kinds
  <2>7. QED
    BY <1>9, <2>4, <2>5, <2>6 DEF DatabaseError
<1>10. QED
  BY <1>1, <1>2, <1>3, <1>4, <1>5, <1>7, <1>8, <1>9 DEF ExecutionStep

\* So do the steps that BullMQ and the processes take around it.
LEMMA TypeQueue ==
  ASSUME TypeInv,
         NEW b \in Briefs,
         \/ \E e \in Executions : TakeJob(e, b)
         \/ PromoteJob(b) \/ OrphanLockExpires(b) \/ LockLost(b)
         \/ StalledCheck(b) \/ TrimJob(b)
  PROVE  TypeInv'
<1> USE Unchanged DEF TypeInv
<1>b. SoundJob(job[b])
  BY DEF SoundJobs
<1>1. ASSUME NEW e \in Executions, TakeJob(e, b) PROVE TypeInv'
  <2> DEFINE x == [IdleExecution EXCEPT !.pc = "start", !.brief = b, !.made = job[b].made]
  <2>1. SoundJobs'
    BY <1>1, <1>b, JobUpdates, OneJob DEF TakeJob, SoundJobs
  <2>0. job[b].made \in Nat
    BY <1>b, AttemptsAssumption DEF SoundJob, Job, AttemptsAssumption
  <2>2. SoundExecution(x)
    BY <2>0 DEF SoundExecution, Execution, IdleExecution
  <2>3. SoundExecutions'
    BY <1>1, <2>2, OneExecution DEF TakeJob
  <2>4. QED
    BY <1>1, <2>1, <2>3 DEF TakeJob
<1>2. CASE PromoteJob(b)
  <2> DEFINE j == [job[b] EXCEPT !.state = "wait"]
  <2>1. job' = [job EXCEPT ![b] = j]
    BY <1>2 DEF PromoteJob, SoundJobs
  <2>2. SoundJob(j)
    BY <1>2, <1>b, JobUpdates DEF PromoteJob
  <2>3. SoundJobs'
    BY <2>1, <2>2, OneJob
  <2>4. QED
    BY <1>2, <2>3 DEF PromoteJob
<1>3. ReleaseLock(b) => SoundJobs'
  <2> DEFINE j == [job[b] EXCEPT !.owner = NoExecution]
  <2>1. ReleaseLock(b) => job' = [job EXCEPT ![b] = j]
    BY DEF ReleaseLock, SoundJobs
  <2>2. SoundJob(j)
    BY <1>b, JobUpdates
  <2>3. QED
    BY <2>1, <2>2, OneJob
<1>4. CASE OrphanLockExpires(b)
  BY <1>3, <1>4 DEF OrphanLockExpires
<1>5. CASE LockLost(b)
  <2>1. TypedBounds'
    BY <1>5, OneEvent DEF LockLost, Kinds
  <2>2. QED
    BY <1>3, <1>5, <2>1 DEF LockLost
<1>6. CASE StalledCheck(b)
  <2>1. SoundJob(Stalled(job[b]))
    BY <1>6, <1>b, JobUpdates DEF StalledCheck
  <2>2. job' = [job EXCEPT ![b] = Stalled(job[b])]
    BY <1>6 DEF StalledCheck, SoundJobs
  <2>3. SoundJobs'
    BY <2>1, <2>2, OneJob
  <2>4. QED
    BY <1>6, <2>3 DEF StalledCheck
<1>7. CASE TrimJob(b)
  <2>1. SoundJobs'
    BY <1>7, <1>b, JobUpdates, OneJob DEF TrimJob
  <2>2. TypedBounds'
    BY <1>7, OneEvent DEF TrimJob, Kinds
  <2>3. QED
    BY <1>7, <2>1, <2>2 DEF TrimJob
<1>8. QED
  BY <1>1, <1>2, <1>4, <1>5, <1>6, <1>7

\* Every step of the worker keeps every variable sound.
LEMMA TypeWorker == TypeInv /\ WorkerNext => TypeInv'
<1> SUFFICES ASSUME TypeInv, WorkerNext PROVE TypeInv'
  OBVIOUS
<1>1. ASSUME NEW w \in Workers, WorkerCrash(w) PROVE TypeInv'
  <2>1. SoundExecution(IdleExecution)
    BY DEF SoundExecution, Execution, IdleExecution
  <2>2. SoundExecutions'
    BY <1>1, <2>1 DEF WorkerCrash, TypeInv, SoundExecutions, SoundExecution
  <2>3. TypedBounds'
    BY <1>1, OneEvent DEF WorkerCrash, TypeInv, Kinds
  <2>4. QED
    BY <1>1, <2>2, <2>3, Unchanged DEF WorkerCrash, TypeInv
<1>2. QED
  BY <1>1, TypeExecution, TypeQueue DEF WorkerNext

-----------------------------------------------------------------------------
\* A queue call that answers or throws leaves sound jobs.
LEMMA TypeQueueCall ==
  ASSUME SoundJobs, TypedBounds, NEW b, NEW j, SoundJob(j),
         QueueAnswers(b, j) \/ QueueThrows(b, j)
  PROVE  SoundJobs' /\ TypedBounds'
BY Unchanged, OneJob, OneEvent DEF QueueAnswers, QueueThrows, Kinds

\* The steps of an accepted request keep every variable sound.
LEMMA TypeRequest ==
  ASSUME TypeInv, NEW r \in Requests, RequestStep(r)
  PROVE  TypeInv'
<1> USE Unchanged DEF TypeInv
<1> DEFINE q == req[r]
           b == q.brief
<1>q. SoundRequest(q) /\ (q.pc # "idle" => doc[b] \in Document /\ SoundJob(job[b]))
  BY DEF SoundRequests, SoundRequest, TypedDocs, SoundJobs
<1>a. Answer(r) => SoundRequests'
  <2>1. SoundRequest(IdleRequest)
    BY DEF SoundRequest, Request, IdleRequest
  <2>2. QED
    BY <2>1, OneRequest DEF Answer
<1>p. ASSUME NEW pc \in {"compensateCreate", "retryRemove", "retryAdd", "compensateRetry"},
             q.pc # "idle", Proceed(r, pc)
      PROVE  SoundRequests'
  <2> DEFINE p == [q EXCEPT !.pc = pc]
  <2>1. SoundRequest(p)
    BY <1>p, <1>q DEF SoundRequest, Request
  <2>2. req' = [req EXCEPT ![r] = p]
    BY <1>p DEF Proceed, SoundRequests
  <2>3. QED
    BY <2>1, <2>2, OneRequest
<1>j. q.pc # "idle" => SoundJob(Add(job[b])) /\ SoundJob(Remove(job[b]))
  BY <1>q, JobUpdates
<1>1. CASE Enqueue(r)
  BY <1>1, <1>a, <1>j, TypeQueueCall DEF Enqueue, Waits
<1>2. CASE EnqueueThrows(r)
  BY <1>2, <1>p, <1>j, TypeQueueCall DEF EnqueueThrows, Waits
<1>3. CASE CompensateCreateWrite(r)
  BY <1>3, <1>a, <1>q, DocumentUpdates, OneDocument DEF CompensateCreateWrite, Waits, Store
<1>4. CASE RetryWrite(r)
  <2>1. TypedDocs'
    BY <1>4, <1>q, DocumentUpdates, OneDocument DEF RetryWrite, Waits, Store
  <2>2. SoundRequests'
    BY <1>4, <1>a, <1>p DEF RetryWrite, Waits
  <2>3. QED
    BY <1>4, <2>1, <2>2 DEF RetryWrite
<1>5. CASE RetryRemove(r)
  BY <1>5, <1>p, <1>j, TypeQueueCall DEF RetryRemove, Waits
<1>6. CASE RetryAdd(r)
  BY <1>6, <1>a, <1>j, TypeQueueCall DEF RetryAdd, Waits
<1>7. CASE RetryThrows(r)
  <2>1. SoundJobs' /\ TypedBounds'
    BY <1>7, <1>j, TypeQueueCall DEF RetryThrows, Waits
  <2>2. SoundRequests'
    BY <1>7, <1>p DEF RetryThrows, Waits
  <2>3. QED
    BY <1>7, <2>1, <2>2 DEF RetryThrows
<1>8. CASE CompensateRetryWrite(r)
  BY <1>8, <1>a, <1>q, DocumentUpdates, OneDocument DEF CompensateRetryWrite, Waits, Store
<1>9. CASE RemoveJob(r)
  BY <1>9, <1>a, <1>j, TypeQueueCall DEF RemoveJob, Waits
<1>10. QED
  BY <1>1, <1>2, <1>3, <1>4, <1>5, <1>6, <1>7, <1>8, <1>9 DEF RequestStep

\* Every step of the API keeps every variable sound.
LEMMA TypeApi == TypeInv /\ ApiNext => TypeInv'
<1> SUFFICES ASSUME TypeInv, ApiNext PROVE TypeInv'
  OBVIOUS
<1> USE Unchanged DEF TypeInv
<1>o. ASSUME NEW r, NEW pc \in {"enqueue", "retryWrite", "removeJob"},
             NEW b \in Briefs, NEW s \in Stored \cup {"none"}, Open(r, pc, b, s)
      PROVE  SoundRequests'
  <2>1. SoundRequest([pc |-> pc, brief |-> b, read |-> s])
    BY DEF SoundRequest, Request
  <2>2. QED
    BY <1>o, <2>1, OneRequest DEF Open
<1>1. ASSUME NEW r \in Requests, NEW b \in Briefs, CreateBrief(r, b) PROVE TypeInv'
  BY <1>1, <1>o, NewDocuments, OneDocument DEF CreateBrief, Store
<1>2. ASSUME NEW r \in Requests, NEW b \in Briefs, ReadForRetry(r, b) PROVE TypeInv'
  <2>1. doc[b].status \in Stored
    BY <1>2 DEF ReadForRetry, Retryable, Stored
  <2>2. SoundRequests' /\ TypedBounds'
    BY <1>2, <1>o, <2>1, OneEvent DEF ReadForRetry, Kinds
  <2>3. QED
    BY <1>2, <2>2 DEF ReadForRetry
<1>3. ASSUME NEW r \in Requests, NEW b \in Briefs, RemoveBrief(r, b) PROVE TypeInv'
  BY <1>3, <1>o, NewDocuments, OneDocument DEF RemoveBrief, Store
<1>4. ASSUME NEW b \in Briefs, UpdateBrief(b) PROVE TypeInv'
  <2>1. TypedDocs'
    BY <1>4, DocumentUpdates, OneDocument DEF UpdateBrief, Store, TypedDocs
  <2>2. TypedBounds'
    BY <1>4, OneEvent DEF UpdateBrief, Kinds
  <2>3. QED
    BY <1>4, <2>1, <2>2 DEF UpdateBrief
<1>5. ASSUME NEW b \in Briefs, Age(b) PROVE TypeInv'
  BY <1>5, DocumentUpdates, OneDocument DEF Age, Store, TypedDocs
<1>6. CASE ApiCrash
  <2>1. SoundRequests'
    BY <1>6 DEF ApiCrash, SoundRequests, SoundRequest, Request, IdleRequest
  <2>2. SoundReconciler(rec)'
    BY <1>6 DEF ApiCrash, SoundReconciler, Reconciler, IdleReconciler
  <2>3. TypedBounds'
    BY <1>6, OneEvent DEF ApiCrash, Kinds
  <2>4. QED
    BY <1>6, <2>1, <2>2, <2>3 DEF ApiCrash
<1>7. QED
  BY <1>1, <1>2, <1>3, <1>4, <1>5, <1>6, TypeRequest DEF ApiNext

-----------------------------------------------------------------------------
\* Every step of the reconciliation cycle keeps every variable sound.
LEMMA TypeReconciliation == TypeInv /\ ReconciliationNext => TypeInv'
<1> SUFFICES ASSUME TypeInv, ReconciliationNext PROVE TypeInv'
  OBVIOUS
<1> USE Unchanged DEF TypeInv
<1> USE DEF SoundReconciler, Reconciler, Reached
<1>n. NextBrief => SoundReconciler(rec)'
  BY DEF NextBrief
<1>i. rec' = IdleReconciler => SoundReconciler(rec)'
  BY DEF IdleReconciler
<1>j. rec.pc \in {"getState", "remove", "add"} =>
        SoundJob(Add(job[rec.brief])) /\ SoundJob(Remove(job[rec.brief]))
  BY JobUpdates DEF SoundJobs
<1>1. CASE ListPending
  BY <1>1 DEF ListPending, Listable
<1>2. ASSUME NEW b \in Briefs, GetJob(b) PROVE TypeInv'
  BY <1>2 DEF GetJob
<1>3. CASE FinishCycle
  BY <1>3, <1>i DEF FinishCycle
<1>4. CASE GetState
  BY <1>4, <1>n DEF GetState
<1>5. CASE RemoveTerminalJob
  <2>1. SoundJobs' /\ TypedBounds'
    BY <1>5, <1>j, TypeQueueCall DEF RemoveTerminalJob
  <2>2. SoundReconciler(rec)'
    BY <1>5, <1>i DEF RemoveTerminalJob
  <2>3. QED
    BY <1>5, <2>1, <2>2 DEF RemoveTerminalJob
<1>6. CASE AddJob
  BY <1>6, <1>j, <1>n, TypeQueueCall DEF AddJob
<1>7. CASE CycleThrows
  <2>1. SoundJobs' /\ TypedBounds'
    BY <1>7, <1>j, TypeQueueCall, OneEvent DEF CycleThrows, Kinds
  <2>2. QED
    BY <1>7, <1>i, <2>1 DEF CycleThrows
<1>8. QED
  BY <1>1, <1>2, <1>3, <1>4, <1>5, <1>6, <1>7 DEF ReconciliationNext

\* TypeInv is inductive.
LEMMA TypeStep == TypeInv /\ [Next]_vars => TypeInv'
BY Unchanged, TypeWorker, TypeApi, TypeReconciliation DEF Next, vars, TypeInv

\* Every reachable state is type correct; with it, a job's attempts and stalls
\* stay within what is configured, and every step works on a brief that it
\* has: worker, API and reconciliation never confuse "no brief" with one.
THEOREM TypeCorrect == Spec => []TypeOK
<1>1. TypeInv => TypeOK
  BY DEF TypeInv, TypeOK, TypedDocs, SoundJobs, SoundExecutions, SoundRequests,
    SoundReconciler, TypedBounds
<1>2. QED
  BY <1>1, TypeInit, TypeStep, PTL DEF Spec

-----------------------------------------------------------------------------
(* How often a job is handed to a worker.                                  *)

\* Every operation of the queue keeps the count.
LEMMA JobCounts ==
  ASSUME NEW j, SoundJob(j), CountedJob(j)
  PROVE  /\ CountedJob(NoJob)
         /\ CountedJob(Add(j))
         /\ CountedJob(Remove(j))
         /\ \A e : j.state = "wait" => CountedJob(Take(j, e))
         /\ Locked(j) => CountedJob(Succeeded(j))
         /\ \A x \in BOOLEAN : Locked(j) => CountedJob(FailedOnce(j, x))
         /\ j.state = "delayed" => CountedJob([j EXCEPT !.state = "wait"])
         /\ CountedJob([j EXCEPT !.owner = NoExecution])
         /\ j.state = "active" => CountedJob(Stalled(j))
<1> USE AttemptsAssumption DEF AttemptsAssumption, SoundJob, CountedJob, Job
<1>0. /\ j.made \in Nat /\ j.stalls \in Nat /\ j.started \in Nat
      /\ j.state \in Live => j.made + 1 <= MaxAttempts /\ j.stalls <= MaxStalledCount
  OBVIOUS
<1>1. CountedJob(NoJob) /\ CountedJob([NoJob EXCEPT !.state = "wait"])
  BY DEF NoJob
<1>2. CountedJob(Add(j)) /\ CountedJob(Remove(j))
  BY <1>1 DEF Add, Remove
<1>3. \A e : j.state = "wait" => CountedJob(Take(j, e))
  BY <1>0 DEF Take, Live
<1>4. Locked(j) => CountedJob(Succeeded(j))
  BY <1>0 DEF Succeeded
<1>5. ASSUME NEW x \in BOOLEAN, Locked(j) PROVE CountedJob(FailedOnce(j, x))
  BY <1>0, <1>5 DEF FailedOnce
<1>6. j.state = "delayed" => CountedJob([j EXCEPT !.state = "wait"])
  OBVIOUS
<1>7. CountedJob([j EXCEPT !.owner = NoExecution])
  OBVIOUS
<1>8. j.state = "active" => CountedJob(Stalled(j))
  BY <1>0 DEF Stalled
<1>9. QED
  BY <1>1, <1>2, <1>3, <1>4, <1>5, <1>6, <1>7, <1>8

\* A step changes the job of a brief by an operation of the queue, if at all.
LEMMA JobSteps ==
  ASSUME CountInv, [Next]_vars, NEW b \in Briefs
  PROVE  CountedJob(job'[b])
<1>0. job \in [Briefs -> Job] /\ SoundJob(job[b]) /\ CountedJob(job[b])
  BY DEF CountInv, TypeInv, SoundJobs, CountedJobs
<1>j. \A k : k \in {job[b], Add(job[b]), Remove(job[b])} => CountedJob(k)
  BY <1>0, JobCounts
<1>q. \A c, k : QueueAnswers(c, k) \/ QueueThrows(c, k) =>
        job'[b] = job[b] \/ (b = c /\ job'[b] = k)
  BY <1>0 DEF QueueAnswers, QueueThrows
<1>1. ASSUME NEW e \in Executions, ExecutionStep(e) \/ DatabaseError(e)
      PROVE  CountedJob(job'[b])
  <2> DEFINE x == exec[e]
             j == job[b]
  <2>1. CASE SettleJob(e)
    <3>1. \/ job'[b] = j
          \/ j.owner = e /\ job'[b] = Succeeded(j)
          \/ j.owner = e /\ job'[b] = FailedOnce(j, x.verdict = "retryable")
      BY <1>0, <2>1 DEF SettleJob
    <3>2. j.owner = e => Locked(j)
      BY AttemptsAssumption DEF AttemptsAssumption, Locked
    <3>3. QED
      BY <1>0, <3>1, <3>2, JobCounts, ZenonT(40)
  <2>2. CASE ~SettleJob(e)
    <3>1. UNCHANGED job
      BY <1>1, <2>2 DEF ExecutionStep, ClaimBrief, MissBrief, RecheckBrief, AnalyzeBrief,
        CompleteBrief, PersistFailure, DatabaseError
    <3>2. QED
      BY <1>0, <3>1
  <2>3. QED
    BY <2>1, <2>2
<1>2. ASSUME NEW c \in Briefs,
             \/ \E e \in Executions : TakeJob(e, c)
             \/ PromoteJob(c) \/ OrphanLockExpires(c) \/ LockLost(c)
             \/ StalledCheck(c) \/ TrimJob(c)
      PROVE  CountedJob(job'[b])
  <2>1. \/ job'[b] = job[b] \/ job'[b] = NoJob
        \/ job[b].state = "wait" /\ \E e : job'[b] = Take(job[b], e)
        \/ job[b].state = "delayed" /\ job'[b] = [job[b] EXCEPT !.state = "wait"]
        \/ job'[b] = [job[b] EXCEPT !.owner = NoExecution]
        \/ job[b].state = "active" /\ job'[b] = Stalled(job[b])
    BY <1>0, <1>2 DEF TakeJob, PromoteJob, OrphanLockExpires, LockLost, StalledCheck,
      TrimJob, ReleaseLock
  <2>2. QED
    BY <1>0, <2>1, JobCounts
<1>3. CASE WorkerNext
  <2>1. CASE \E w \in Workers : WorkerCrash(w)
    BY <1>0, <2>1 DEF WorkerCrash
  <2>2. QED
    BY <1>1, <1>2, <1>3, <2>1 DEF WorkerNext
<1>4. CASE ApiNext
  <2>1. ASSUME NEW r \in Requests, RequestStep(r) PROVE CountedJob(job'[b])
    BY <1>0, <1>j, <1>q, <2>1 DEF RequestStep, Enqueue, EnqueueThrows, CompensateCreateWrite,
      RetryWrite, RetryRemove, RetryAdd, RetryThrows, CompensateRetryWrite, RemoveJob
  <2>2. CASE UNCHANGED job
    BY <1>0, <2>2
  <2>3. QED
    BY <1>4, <2>1, <2>2 DEF ApiNext, CreateBrief, ReadForRetry, RemoveBrief, UpdateBrief,
      Age, ApiCrash
<1>5. CASE ReconciliationNext
  <2>1. CASE RemoveTerminalJob \/ AddJob \/ CycleThrows
    BY <1>0, <1>j, <1>q, <2>1 DEF RemoveTerminalJob, AddJob, CycleThrows
  <2>2. CASE UNCHANGED job
    BY <1>0, <2>2
  <2>3. QED
    BY <1>5, <2>1, <2>2 DEF ReconciliationNext, ListPending, GetJob, FinishCycle, GetState
<1>6. CASE UNCHANGED vars
  BY <1>0, <1>6 DEF vars
<1>7. QED
  BY <1>3, <1>4, <1>5, <1>6 DEF Next

\* One published job is handed to a worker at most as often as it has attempts
\* and forgiven stalls: a crash or a lost lock costs a stall, never an attempt
\* that is not counted.
THEOREM CallsBounded == Spec => []CallsAreBounded
<1>1. Init => CountInv
  BY TypeInit, AttemptsAssumption
  DEF Init, CountInv, CountedJobs, CountedJob, NoJob, AttemptsAssumption
<1>2. CountInv /\ [Next]_vars => CountInv'
  BY TypeStep, JobSteps DEF CountInv, CountedJobs
<1>3. CountInv => CallsAreBounded
  BY DEF CountInv, CountedJobs, CountedJob, CallsAreBounded
<1>4. QED
  BY <1>1, <1>2, <1>3, PTL DEF Spec

=============================================================================
