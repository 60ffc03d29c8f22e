------------------------- MODULE BriefFinalityProofs -------------------------
(***************************************************************************)
(* What is final stays final: an ANALYZED result (as long as no answer of  *)
(* a queue call is lost) and the text a result was computed from (as long  *)
(* as, besides, no running execution loses its lock).                      *)
(***************************************************************************)
EXTENDS BriefSystemProofs

-----------------------------------------------------------------------------
(* CreateInv is inductive.                                                 *)

\* How often an event may still happen only goes down...
LEMMA BoundsShrink ==
  ASSUME TypeInv, [Next]_vars, NEW kind \in Kinds
  PROVE  left'[kind] \in 0 .. left[kind]
<1> USE DEF Spend, TypeInv, TypedBounds, QueueAnswers, QueueThrows
<1>0. \A k \in Kinds : Spend(k) => left'[kind] \in 0 .. left[kind]
  OBVIOUS
<1>1. UNCHANGED left => left'[kind] \in 0 .. left[kind]
  OBVIOUS
<1> QED
  BY <1>0, <1>1 DEF Next, vars, WorkerNext, ApiNext, ReconciliationNext, ExecutionStep,
    ClaimBrief, MissBrief, RecheckBrief, AnalyzeBrief, CompleteBrief,
    PersistFailure, SettleJob, DatabaseError, TakeJob, PromoteJob,
    OrphanLockExpires, LockLost, StalledCheck, TrimJob, WorkerCrash,
    RequestStep, CreateBrief, Enqueue, EnqueueThrows, CompensateCreateWrite,
    ReadForRetry, RetryWrite, RetryRemove, RetryAdd, RetryThrows,
    CompensateRetryWrite, UpdateBrief, RemoveBrief, RemoveJob, Age, ApiCrash,
    ListPending, GetJob, FinishCycle, GetState, RemoveTerminalJob, AddJob,
    CycleThrows, Kinds

\* ... so the kinds of events that may not happen cannot begin to.
LEMMA BoundsOnlyShrink ==
  ASSUME TypeInv, [Next]_vars, NEW kind \in Kinds, left[kind] = 0
  PROVE  left'[kind] = 0
BY BoundsShrink

\* A step that leaves alone the documents of briefs that nothing works on,
\* and begins no work on them.
LeavesAlone ==
  \A b \in Briefs :
    /\ Untouched(b) /\ ~StalePending(doc[b]) => doc'[b] = doc[b] /\ Untouched(b)'
    /\ doc'[b].status = "UNBORN" => doc[b].status = "UNBORN"

\* Such a step keeps the invariant, if it is not one of a request.
LEMMA LeavingAloneSuffices ==
  ASSUME UnbornIsUnknown, CreateIsAlone, LeavesAlone, UNCHANGED req
  PROVE  UnbornIsUnknown' /\ CreateIsAlone'
<1>1. UnbornIsUnknown'
  BY DEF UnbornIsUnknown, LeavesAlone, StalePending
<1>2. CreateIsAlone'
  BY DEF CreateIsAlone, LeavesAlone, StalePending, Creates
<1>3. QED
  BY <1>1, <1>2

\* No update of the worker brings a document back to UNBORN.
LEMMA NeverUnborn ==
  ASSUME NEW d \in Document
  PROVE  /\ StartAttempt(d).status = "UNBORN" => d.status = "UNBORN"
         /\ \A o, v : Complete(d, o, v).status = "UNBORN" => d.status = "UNBORN"
         /\ PrepareRetry(d).status = "UNBORN" => d.status = "UNBORN"
         /\ \A err : Fail(d, err).status = "UNBORN" => d.status = "UNBORN"
BY DEF Document, StartAttempt, Complete, PrepareRetry, Fail, Moved, Emptied

\* An execution works on a brief that is not untouched, and on no other.
LEMMA ExecutionLeavesAlone ==
  ASSUME TypeInv, NEW e \in Executions, ExecutionStep(e) \/ DatabaseError(e)
  PROVE  LeavesAlone /\ UNCHANGED <<req, rec>>
<1> DEFINE x == exec[e]
           c == x.brief
<1>0. doc \in [Briefs -> Document] /\ job \in [Briefs -> Job]
      /\ exec \in [Executions -> Execution] /\ NoBrief \notin Briefs
  BY StateAssumption DEF StateAssumption, TypeInv, TypedDocs, SoundJobs, SoundExecutions
<1>1. c \in Briefs
  <2>1. x.pc # "idle"
    BY DEF ExecutionStep, DatabaseError, ClaimBrief, MissBrief, RecheckBrief,
      AnalyzeBrief, CompleteBrief, PersistFailure, SettleJob, At
  <2>2. QED
    BY <2>1 DEF TypeInv, SoundExecutions, SoundExecution
<1>2. UNCHANGED <<req, rec>>
  BY DEF ExecutionStep, DatabaseError, ClaimBrief, MissBrief, RecheckBrief,
    AnalyzeBrief, CompleteBrief, PersistFailure, SettleJob
<1>3. \A b \in Briefs \ {c} : doc'[b] = doc[b] /\ job'[b] = job[b]
  BY <1>0 DEF ExecutionStep, DatabaseError, ClaimBrief, MissBrief, RecheckBrief,
    AnalyzeBrief, CompleteBrief, PersistFailure, SettleJob, Write
<1>4. \A f \in Executions : exec'[f].brief \in {exec[f].brief, NoBrief}
  BY <1>0 DEF ExecutionStep, DatabaseError, ClaimBrief, MissBrief, RecheckBrief,
    AnalyzeBrief, CompleteBrief, PersistFailure, SettleJob, Goto, IdleExecution, Execution
<1>5. doc'[c].status = "UNBORN" => doc[c].status = "UNBORN"
  <2>1. FailureWrite(x).status = "UNBORN" => doc[c].status = "UNBORN"
    BY <1>0, <1>1, NeverUnborn DEF FailureWrite
  <2>2. QED
    BY <1>0, <1>1, <2>1, NeverUnborn
    DEF ExecutionStep, DatabaseError, ClaimBrief, MissBrief, RecheckBrief,
      AnalyzeBrief, CompleteBrief, PersistFailure, SettleJob, Write
<1>6. ~Untouched(c)
  BY DEF Untouched
<1>7. QED
  BY <1>0, <1>1, <1>2, <1>3, <1>4, <1>5, <1>6 DEF LeavesAlone, Untouched

\* So do the queue and its timers.
LEMMA QueueLeavesAlone ==
  ASSUME TypeInv, NEW c \in Briefs,
         \/ \E e \in Executions : TakeJob(e, c)
         \/ PromoteJob(c) \/ OrphanLockExpires(c) \/ LockLost(c)
         \/ StalledCheck(c) \/ TrimJob(c)
  PROVE  LeavesAlone /\ UNCHANGED <<req, rec>>
<1>0. job \in [Briefs -> Job] /\ exec \in [Executions -> Execution]
  BY DEF TypeInv, SoundJobs, SoundExecutions
<1>1. UNCHANGED <<doc, req, rec>>
  BY DEF TakeJob, PromoteJob, OrphanLockExpires, LockLost, StalledCheck, TrimJob
<1>2. \A b \in Briefs \ {c} :
        job'[b] = job[b] /\ \A f \in Executions : exec'[f].brief = b => exec[f].brief = b
  BY <1>0, ZenonT(40) DEF TakeJob, PromoteJob, OrphanLockExpires, LockLost, StalledCheck, TrimJob,
    ReleaseLock, IdleExecution
<1>3. ~Untouched(c)
  <2>1. Locked(job[c]) => job[c].state = "active"
    BY DEF TypeInv, SoundJobs, SoundJob
  <2>2. QED
    BY <2>1 DEF Untouched, TakeJob, PromoteJob, OrphanLockExpires, LockLost,
      StalledCheck, TrimJob, Terminal, Orphaned
<1>4. QED
  BY <1>1, <1>2, <1>3 DEF LeavesAlone, Untouched

\* So the worker leaves alone what nothing works on.
LEMMA WorkerLeavesAlone ==
  ASSUME TypeInv, WorkerNext
  PROVE  LeavesAlone /\ UNCHANGED <<req, rec>>
<1>1. ASSUME NEW w \in Workers, WorkerCrash(w)
      PROVE  LeavesAlone /\ UNCHANGED <<req, rec>>
  BY <1>1, StateAssumption
  DEF WorkerCrash, LeavesAlone, Untouched, IdleExecution, StateAssumption
<1>2. QED
  BY <1>1, ExecutionLeavesAlone, QueueLeavesAlone DEF WorkerNext

\* A cycle begins to work only on briefs it finds PENDING and old.
LEMMA ReconciliationLeavesAlone ==
  ASSUME TypeInv, ReconciliationNext
  PROVE  LeavesAlone /\ UNCHANGED req
<1>0. /\ job \in [Briefs -> Job] /\ rec \in Reconciler /\ NoBrief \notin Briefs
      /\ rec.pc \in {"getState", "remove", "add"} => rec.brief \in Briefs
  BY StateAssumption DEF StateAssumption, TypeInv, SoundJobs, SoundReconciler
<1>1. UNCHANGED <<doc, exec, req>>
  BY DEF ReconciliationNext, ListPending, GetJob, FinishCycle, GetState,
    RemoveTerminalJob, AddJob, CycleThrows
<1>2. \A b \in Briefs \ {rec.brief} : job'[b] = job[b]
  BY <1>0 DEF ReconciliationNext, ListPending, GetJob, FinishCycle, GetState,
    RemoveTerminalJob, AddJob, CycleThrows, QueueAnswers, QueueThrows, Reached
<1>3. \A b \in Briefs :
        Untouched(b) /\ ~StalePending(doc[b]) => b \notin rec'.todo /\ rec'.brief # b
  <2> USE <1>0 DEF Untouched, Reconciler
  <2>1. CASE ListPending
    <3>1. PICK list \in SUBSET Listable :
            rec' = IF list = {} THEN rec ELSE [rec EXCEPT !.pc = "next", !.todo = list]
      BY <2>1 DEF ListPending
    <3>2. QED
      BY <3>1 DEF Listable
  <2>2. ASSUME NEW c \in Briefs, GetJob(c)
        PROVE  \A b \in Briefs : Untouched(b) => b \notin rec'.todo /\ rec'.brief # b
    BY <2>2 DEF GetJob
  <2>3. CASE FinishCycle \/ GetState \/ RemoveTerminalJob \/ AddJob \/ CycleThrows
    <3>1. \/ rec' = IdleReconciler
          \/ NextBrief
          \/ rec' = [rec EXCEPT !.pc = "remove"]
          \/ rec' = [rec EXCEPT !.pc = "add"]
      BY <2>3 DEF FinishCycle, GetState, RemoveTerminalJob, AddJob, CycleThrows
    <3>2. rec'.todo \subseteq rec.todo /\ rec'.brief \in {rec.brief, NoBrief}
      <4>1. CASE rec' = IdleReconciler
        BY <4>1 DEF IdleReconciler
      <4>2. CASE NextBrief
        BY <4>2 DEF NextBrief
      <4>3. QED
        BY <3>1, <4>1, <4>2
    <3>3. ASSUME NEW b \in Briefs, Untouched(b)
          PROVE  b \notin rec'.todo /\ rec'.brief # b
      <4>1. b \notin rec.todo /\ rec.brief # b /\ NoBrief # b
        BY <3>3
      <4>2. QED
        BY <3>2, <4>1
    <3>4. QED
      BY <3>3
  <2>4. QED
    BY <2>1, <2>2, <2>3 DEF ReconciliationNext
<1>4. QED
  BY <1>1, <1>2, <1>3 DEF LeavesAlone, Untouched

\* The steps of an accepted request keep the invariant.
LEMMA RequestKeepsCreate ==
  ASSUME CreateInv, NEW r \in Requests, RequestStep(r)
  PROVE  UnbornIsUnknown' /\ CreateIsAlone'
<1> DEFINE c == req[r].brief
<1>0. /\ doc \in [Briefs -> Document] /\ job \in [Briefs -> Job]
      /\ req \in [Requests -> Request] /\ NoBrief \notin Briefs
      /\ left["lostAnswer"] = 0
  BY StateAssumption DEF CreateInv, StateAssumption, TypeInv, TypedDocs, SoundJobs,
    SoundRequests, NoLostAnswer
<1>1. req[r].pc # "idle" /\ c \in Briefs
  <2>1. req[r].pc # "idle"
    BY DEF RequestStep, Enqueue, EnqueueThrows, CompensateCreateWrite, RetryWrite,
      RetryRemove, RetryAdd, RetryThrows, CompensateRetryWrite, RemoveJob, Waits
  <2>2. QED
    BY <2>1 DEF CreateInv, TypeInv, SoundRequests, SoundRequest
<1>2. UNCHANGED <<exec, rec>>
  BY DEF RequestStep, Enqueue, EnqueueThrows, CompensateCreateWrite, RetryWrite,
    RetryRemove, RetryAdd, RetryThrows, CompensateRetryWrite, RemoveJob
<1>3. \A b \in Briefs \ {c} : doc'[b] = doc[b] /\ job'[b] = job[b]
  BY <1>0 DEF RequestStep, Enqueue, EnqueueThrows, CompensateCreateWrite, RetryWrite,
    RetryRemove, RetryAdd, RetryThrows, CompensateRetryWrite, RemoveJob, Store,
    QueueAnswers, QueueThrows
<1>4. \A s \in Requests \ {r} : req'[s] = req[s]
  BY <1>0 DEF RequestStep, Enqueue, EnqueueThrows, CompensateCreateWrite, RetryWrite,
    RetryRemove, RetryAdd, RetryThrows, CompensateRetryWrite, RemoveJob, Answer, Proceed
<1>5. /\ req'[r].brief \in {c, NoBrief}
      /\ \A b \in Briefs : Creates(r, b)' => b = c /\ EnqueueThrows(r)
  BY <1>0 DEF RequestStep, Enqueue, EnqueueThrows, CompensateCreateWrite, RetryWrite,
    RetryRemove, RetryAdd, RetryThrows, CompensateRetryWrite, RemoveJob, Answer, Proceed,
    IdleRequest, Creates, Request
<1>6. doc[c].status # "UNBORN" /\ doc'[c].status # "UNBORN"
  <2>1. doc[c].status # "UNBORN"
    BY <1>1 DEF CreateInv, UnbornIsUnknown
  <2>2. \/ doc'[c] = doc[c]
        \/ doc'[c] = CompensateCreate(doc[c])
        \/ doc'[c] = BackToPending(doc[c], req[r].read)
        \/ doc'[c] = CompensateRetry(doc[c])
    BY <1>0, <1>1 DEF RequestStep, Enqueue, EnqueueThrows, CompensateCreateWrite,
      RetryWrite, RetryRemove, RetryAdd, RetryThrows, CompensateRetryWrite, RemoveJob, Store
  <2>3. doc[c] \in Document
    BY <1>0, <1>1
  <2>4. /\ CompensateCreate(doc[c]).status # "UNBORN"
        /\ BackToPending(doc[c], req[r].read).status # "UNBORN"
        /\ CompensateRetry(doc[c]).status # "UNBORN"
    BY <2>1, <2>3 DEF CompensateCreate, BackToPending, CompensateRetry, Moved, Emptied,
      Document
  <2>5. QED
    BY <2>1, <2>2, <2>4
<1>7. UnbornIsUnknown'
  BY <1>0, <1>2, <1>3, <1>4, <1>5, <1>6 DEF CreateInv, UnbornIsUnknown, Untouched
<1>8. ASSUME NEW b \in Briefs, NEW s \in Requests, Creates(s, b)'
      PROVE  /\ doc'[b] = doc[b] /\ job'[b].state = "none"
             /\ Creates(s, b)
             /\ \A t \in Requests : req'[t].brief = b => req'[t] = req[t] \/ t = s
  <2>1. CASE s = r
    <3>1. b = c /\ EnqueueThrows(r)
      BY <1>5, <1>8, <2>1
    <3>2. Creates(r, c) /\ UNCHANGED <<doc, job>>
      BY <1>0, <3>1 DEF EnqueueThrows, Creates, Waits, QueueThrows, Spend
    <3>3. job[c].state = "none"
      BY <1>1, <3>2 DEF CreateInv, CreateIsAlone, Untouched
    <3>4. QED
      BY <1>4, <2>1, <3>1, <3>2, <3>3
  <2>2. CASE s # r
    <3>1. Creates(s, b)
      BY <1>4, <1>8, <2>2 DEF Creates
    <3>2. /\ job[b].state = "none"
          /\ req[r].brief = b => req[r].pc = "removeJob"
      BY <2>2, <3>1 DEF CreateInv, CreateIsAlone, Untouched
    <3>3. CASE b = c
      <4>1. RemoveJob(r)
        BY <3>2, <3>3 DEF RequestStep, Enqueue, EnqueueThrows, CompensateCreateWrite,
          RetryWrite, RetryRemove, RetryAdd, RetryThrows, CompensateRetryWrite, Waits
      <4>2. UNCHANGED doc /\ req'[r].brief = NoBrief
        BY <1>0, <4>1 DEF RemoveJob, Answer, IdleRequest
      <4>3. job'[c].state = "none"
        BY <1>0, <1>1, <3>2, <3>3, <4>1
        DEF RemoveJob, QueueAnswers, QueueThrows, Remove, NoJob
      <4>4. QED
        BY <1>0, <1>4, <3>1, <3>3, <4>2, <4>3
    <3>4. CASE b # c
      BY <1>0, <1>3, <1>4, <1>5, <3>1, <3>2, <3>4
    <3>5. QED
      BY <3>3, <3>4
  <2>3. QED
    BY <2>1, <2>2
<1>9. CreateIsAlone'
  <2>1. SUFFICES ASSUME NEW b \in Briefs, NEW s \in Requests, Creates(s, b)'
                 PROVE  /\ doc'[b].status \in {"PENDING", "DELETED"}
                        /\ ~doc'[b].stale
                        /\ Untouched(b)'
                        /\ \A t \in Requests \ {s} :
                             req'[t].brief = b => req'[t].pc = "removeJob"
    BY DEF CreateIsAlone
  <2>2. QED
    BY <1>2, <1>8, <2>1 DEF CreateInv, CreateIsAlone, Untouched
<1>10. QED
  BY <1>7, <1>9

\* So do the steps that begin a request, those of the users and the crash.
LEMMA ApiKeepsCreate ==
  ASSUME CreateInv, ApiNext
  PROVE  UnbornIsUnknown' /\ CreateIsAlone'
<1>0. /\ doc \in [Briefs -> Document] /\ req \in [Requests -> Request]
      /\ NoBrief \notin Briefs
  BY StateAssumption DEF CreateInv, StateAssumption, TypeInv, TypedDocs, SoundRequests
<1> USE DEF CreateInv, UnbornIsUnknown, CreateIsAlone, Creates, Untouched, Waits
<1>1. ASSUME NEW r \in Requests, NEW b \in Briefs, CreateBrief(r, b)
      PROVE  UnbornIsUnknown' /\ CreateIsAlone'
  <2>1. /\ doc' = [doc EXCEPT ![b] = NewBrief]
        /\ req' = [req EXCEPT ![r] = [pc |-> "enqueue", brief |-> b, read |-> "none"]]
        /\ req[r].pc = "idle" /\ doc[b].status = "UNBORN"
        /\ UNCHANGED <<job, exec, rec>>
    BY <1>1 DEF CreateBrief, Open, Store
  <2>2. NewBrief.status = "PENDING" /\ ~NewBrief.stale
    BY DEF NewBrief, Unborn
  <2>3. QED
    BY <1>0, <2>1, <2>2
<1>2. ASSUME NEW r \in Requests, NEW b \in Briefs, ReadForRetry(r, b)
      PROVE  UnbornIsUnknown' /\ CreateIsAlone'
  <2>1. /\ req' = [req EXCEPT ![r] = [pc |-> "retryWrite", brief |-> b,
                                     read |-> doc[b].status]]
        /\ doc[b].status \in {"FAILED", "COMPLETED"}
        /\ UNCHANGED <<doc, job, exec, rec>>
    BY <1>2 DEF ReadForRetry, Open, Retryable
  <2>2. QED
    BY <1>0, <2>1
<1>3. ASSUME NEW r \in Requests, NEW b \in Briefs, RemoveBrief(r, b)
      PROVE  UnbornIsUnknown' /\ CreateIsAlone'
  <2>1. /\ doc' = [doc EXCEPT ![b] = Deleted]
        /\ req' = [req EXCEPT ![r] = [pc |-> "removeJob", brief |-> b, read |-> "none"]]
        /\ req[r].pc = "idle" /\ doc[b].status # "UNBORN"
        /\ UNCHANGED <<job, exec, rec>>
    BY <1>3 DEF RemoveBrief, Open, Store, Editable, Exists, Stored
  <2>2. Deleted.status = "DELETED" /\ ~Deleted.stale
    BY DEF Deleted, Unborn
  <2>3. QED
    BY <1>0, <2>1, <2>2
<1>4. ASSUME NEW b \in Briefs, UpdateBrief(b)
      PROVE  UnbornIsUnknown' /\ CreateIsAlone'
  <2>1. /\ doc' = [doc EXCEPT ![b] = Edited(doc[b])]
        /\ UNCHANGED <<job, exec, rec, req>>
    BY <1>4 DEF UpdateBrief, Store
  <2>2. Edited(doc[b]).status = doc[b].status /\ ~Edited(doc[b]).stale
    BY <1>0 DEF Edited, Document
  <2>3. QED
    BY <1>0, <2>1, <2>2
<1>5. ASSUME NEW b \in Briefs, Age(b)
      PROVE  UnbornIsUnknown' /\ CreateIsAlone'
  <2>1. /\ doc' = [doc EXCEPT ![b] = [doc[b] EXCEPT !.stale = TRUE]]
        /\ UNCHANGED <<job, exec, rec, req>>
        /\ \A r \in Requests : ~Creates(r, b)
    BY <1>5 DEF Age, Store, Publishing
  <2>2. [doc[b] EXCEPT !.stale = TRUE].status = doc[b].status
    BY <1>0 DEF Document
  <2>3. QED
    BY <1>0, <2>1, <2>2
<1>6. CASE ApiCrash
  <2>1. /\ req' = [r \in Requests |-> IdleRequest]
        /\ rec' = IdleReconciler
        /\ UNCHANGED <<doc, job, exec>>
    BY <1>6 DEF ApiCrash
  <2>2. QED
    BY <1>0, <2>1 DEF IdleRequest, IdleReconciler
<1>7. QED
  BY <1>1, <1>2, <1>3, <1>4, <1>5, <1>6, RequestKeepsCreate DEF ApiNext

\* Before anything was created, nothing is known.
LEMMA CreateInit == Init /\ Bounds["lostAnswer"] = 0 => CreateInv
<1> SUFFICES ASSUME Init, Bounds["lostAnswer"] = 0 PROVE CreateInv
  OBVIOUS
<1>1. TypeInv /\ NoLostAnswer
  BY TypeInit DEF Init, NoLostAnswer
<1>2. UnbornIsUnknown /\ CreateIsAlone
  BY StateAssumption
  DEF Init, StateAssumption, UnbornIsUnknown, CreateIsAlone, Creates, Untouched,
    NoJob, IdleExecution, IdleRequest, IdleReconciler
<1>3. QED
  BY <1>1, <1>2 DEF CreateInv

\* CreateInv is inductive.
LEMMA CreateStep == CreateInv /\ [Next]_vars => CreateInv'
<1> SUFFICES ASSUME CreateInv, [Next]_vars PROVE CreateInv'
  OBVIOUS
<1>1. TypeInv'
  BY TypeStep DEF CreateInv
<1>2. NoLostAnswer'
  BY BoundsOnlyShrink DEF CreateInv, NoLostAnswer, Kinds
<1>3. UnbornIsUnknown' /\ CreateIsAlone'
  <2>1. CASE WorkerNext
    BY <2>1, WorkerLeavesAlone, LeavingAloneSuffices DEF CreateInv
  <2>2. CASE ApiNext
    BY <2>2, ApiKeepsCreate
  <2>3. CASE ReconciliationNext
    BY <2>3, ReconciliationLeavesAlone, LeavingAloneSuffices DEF CreateInv
  <2>4. CASE UNCHANGED vars
    BY <2>4 DEF vars, CreateInv, UnbornIsUnknown, CreateIsAlone, Creates, Untouched
  <2>5. QED
    BY <2>1, <2>2, <2>3, <2>4 DEF Next
<1>4. QED
  BY <1>1, <1>2, <1>3 DEF CreateInv

-----------------------------------------------------------------------------
(* An ANALYZED result is final.                                            *)

\* The document e replaces d: it is gone, or still has the result d has.
KeepsAnalyzed(d, e) ==
  d.status = "COMPLETED" /\ d.outcome = "ANALYZED" /\ e.status # "DELETED" =>
    e.status = "COMPLETED" /\ e.outcome = "ANALYZED" /\ e.of = d.of

\* Every update but create's compensation has a filter that spares such a
\* document, or fields that do not concern it.
LEMMA UpdatesKeepAnalyzed ==
  ASSUME NEW d \in Document
  PROVE  /\ KeepsAnalyzed(d, d)
         /\ KeepsAnalyzed(d, StartAttempt(d))
         /\ \A o, v : KeepsAnalyzed(d, Complete(d, o, v))
         /\ KeepsAnalyzed(d, PrepareRetry(d))
         /\ \A err : KeepsAnalyzed(d, Fail(d, err))
         /\ \A s : KeepsAnalyzed(d, BackToPending(d, s))
         /\ KeepsAnalyzed(d, CompensateRetry(d))
         /\ KeepsAnalyzed(d, Edited(d))
<1> USE DEF KeepsAnalyzed
<1>1. KeepsAnalyzed(d, StartAttempt(d)) /\ \A err : KeepsAnalyzed(d, Fail(d, err))
  BY DEF StartAttempt, Fail, Claimable
<1>2. /\ \A o, v : KeepsAnalyzed(d, Complete(d, o, v))
      /\ KeepsAnalyzed(d, PrepareRetry(d))
      /\ KeepsAnalyzed(d, CompensateRetry(d))
  BY DEF Complete, PrepareRetry, CompensateRetry
<1>3. \A s : KeepsAnalyzed(d, BackToPending(d, s))
  BY DEF BackToPending, RetryMatches, Retryable
<1>4. KeepsAnalyzed(d, Edited(d))
  BY DEF Edited, Document
<1>5. QED
  BY <1>1, <1>2, <1>3, <1>4

\* No step of the system takes the result of an ANALYZED document away.
LEMMA StepKeepsAnalyzed ==
  ASSUME CreateInv, [Next]_vars, NEW b \in Briefs
  PROVE  KeepsAnalyzed(doc[b], doc'[b])
<1>0. doc \in [Briefs -> Document] /\ doc[b] \in Document
  BY DEF CreateInv, TypeInv, TypedDocs
<1>k. KeepsAnalyzed(doc[b], doc[b])
  BY <1>0, UpdatesKeepAnalyzed
<1>1. ASSUME NEW e \in Executions, ExecutionStep(e) \/ DatabaseError(e)
      PROVE  KeepsAnalyzed(doc[b], doc'[b])
  <2>1. KeepsAnalyzed(doc[b], FailureWrite(exec[e])) \/ exec[e].brief # b
    BY <1>0, UpdatesKeepAnalyzed DEF FailureWrite
  <2>2. \/ doc'[b] = doc[b]
        \/ exec[e].brief = b
           /\ \/ doc'[b] = StartAttempt(doc[b])
              \/ \E o, v : doc'[b] = Complete(doc[b], o, v)
              \/ doc'[b] = FailureWrite(exec[e])
    BY <1>0, <1>1 DEF ExecutionStep, DatabaseError, ClaimBrief, MissBrief, RecheckBrief,
      AnalyzeBrief, CompleteBrief, PersistFailure, SettleJob, Write
  <2>3. QED
    BY <1>0, <1>k, <2>1, <2>2, UpdatesKeepAnalyzed
<1>2. CASE WorkerNext
  <2>1. CASE \E e \in Executions : ExecutionStep(e) \/ DatabaseError(e)
    BY <1>1, <2>1
  <2>2. CASE UNCHANGED doc
    BY <1>k, <2>2
  <2>3. QED
    BY <1>2, <2>1, <2>2 DEF WorkerNext, TakeJob, PromoteJob, OrphanLockExpires, LockLost,
      StalledCheck, TrimJob, WorkerCrash
<1>3. ASSUME NEW r \in Requests, RequestStep(r)
      PROVE  KeepsAnalyzed(doc[b], doc'[b])
  <2>1. CASE CompensateCreateWrite(r)
    <3>1. doc' = [doc EXCEPT ![req[r].brief] = CompensateCreate(doc[req[r].brief])]
      BY <2>1 DEF CompensateCreateWrite, Store
    <3>2. CASE req[r].brief = b
      <4>1. doc[b].status # "COMPLETED"
        BY <2>1, <3>2 DEF CreateInv, CreateIsAlone, Creates, CompensateCreateWrite, Waits
      <4>2. QED
        BY <4>1 DEF KeepsAnalyzed
    <3>3. CASE req[r].brief # b
      BY <1>0, <1>k, <3>1, <3>3
    <3>4. QED
      BY <3>2, <3>3
  <2>2. CASE RetryWrite(r) \/ CompensateRetryWrite(r)
    <3>1. \/ doc'[b] = doc[b]
          \/ \E s : doc'[b] = BackToPending(doc[b], s)
          \/ doc'[b] = CompensateRetry(doc[b])
      BY <1>0, <2>2 DEF RetryWrite, CompensateRetryWrite, Store
    <3>2. QED
      BY <1>0, <1>k, <3>1, UpdatesKeepAnalyzed
  <2>3. CASE UNCHANGED doc
    BY <1>k, <2>3
  <2>4. QED
    BY <1>3, <2>1, <2>2, <2>3 DEF RequestStep, Enqueue, EnqueueThrows, RetryRemove,
      RetryAdd, RetryThrows, RemoveJob
<1>4. ASSUME NEW r \in Requests, NEW c \in Briefs,
             CreateBrief(r, c) \/ ReadForRetry(r, c) \/ RemoveBrief(r, c)
      PROVE  KeepsAnalyzed(doc[b], doc'[b])
  BY <1>0, <1>k, <1>4 DEF KeepsAnalyzed, CreateBrief, ReadForRetry, RemoveBrief, Store,
    Deleted, Unborn
<1>5. ASSUME NEW c \in Briefs, UpdateBrief(c) \/ Age(c)
      PROVE  KeepsAnalyzed(doc[b], doc'[b])
  <2>1. \/ doc'[b] = doc[b]
        \/ doc'[b] = Edited(doc[b])
        \/ doc[b].status = "PENDING"
    BY <1>0, <1>5 DEF UpdateBrief, Age, Store
  <2>2. QED
    BY <1>0, <1>k, <2>1, UpdatesKeepAnalyzed DEF KeepsAnalyzed
<1>6. CASE ApiNext
  <2>1. CASE ApiCrash
    BY <1>k, <2>1 DEF ApiCrash
  <2>2. QED
    BY <1>3, <1>4, <1>5, <1>6, <2>1 DEF ApiNext
<1>7. CASE ReconciliationNext \/ UNCHANGED vars
  <2>1. UNCHANGED doc
    BY <1>7 DEF vars, ReconciliationNext, ListPending, GetJob, FinishCycle, GetState,
      RemoveTerminalJob, AddJob, CycleThrows
  <2>2. QED
    BY <1>k, <2>1
<1>8. QED
  BY <1>2, <1>6, <1>7 DEF Next

\* As long as no applied queue call loses its answer, an ANALYZED brief keeps
\* its status and its result until it is removed: neither a late execution nor
\* a repeated job nor a compensation of the API replaces them.  The run
\* lost_answer shows that the condition is needed.
THEOREM AnalyzedStays ==
  ASSUME Bounds["lostAnswer"] = 0
  PROVE  Spec => AnalyzedIsFinal
<1>1. CreateInv /\ [Next]_vars =>
        [\A b \in Briefs :
           /\ doc[b].status = "COMPLETED"
           /\ doc[b].outcome = "ANALYZED"
           /\ doc'[b].status # "DELETED"
           => /\ doc'[b].status = "COMPLETED"
              /\ doc'[b].outcome = "ANALYZED"
              /\ doc'[b].of = doc[b].of]_vars
  BY StepKeepsAnalyzed DEF KeepsAnalyzed
<1>2. Init => CreateInv
  BY CreateInit
<1>3. QED
  BY <1>1, <1>2, CreateStep, PTL DEF Spec, AnalyzedIsFinal

-----------------------------------------------------------------------------
(* The optional fields of a document agree with its status.                *)

Agree(d) ==
  /\ d.status = "COMPLETED" <=> d.outcome # "none"
  /\ d.status = "FAILED" => d.error # "none"
  /\ d.status = "PENDING" => d.error # "final"
  /\ d.status \in {"PROCESSING", "COMPLETED"} => d.error = "none"

\* Every update keeps them in agreement; create's compensation, which does
\* not unset the result, only if the document is PENDING or removed.
LEMMA UpdatesKeepAgreement ==
  ASSUME NEW d \in Document, Agree(d)
  PROVE  /\ Agree(StartAttempt(d))
         /\ \A o \in Outcomes : \A v : Agree(Complete(d, o, v))
         /\ Agree(PrepareRetry(d))
         /\ \A err \in Errors : Agree(Fail(d, err))
         /\ \A s : Agree(BackToPending(d, s))
         /\ Agree(CompensateRetry(d))
         /\ d.status \in {"PENDING", "DELETED"} => Agree(CompensateCreate(d))
         /\ Agree(Edited(d))
         /\ Agree([d EXCEPT !.stale = TRUE])
<1> USE DEF Agree, Document
<1>1. /\ Agree(Emptied(Moved(d, "PROCESSING", "none")))
      /\ Agree(Emptied(Moved(d, "PENDING", "retryable")))
      /\ Agree(Emptied(Moved(d, "PENDING", "none")))
      /\ \A err \in Errors : Agree(Emptied(Moved(d, "FAILED", err)))
  BY DEF Moved, Emptied, Errors
<1>2. /\ Agree(StartAttempt(d)) /\ Agree(PrepareRetry(d))
      /\ \A err \in Errors : Agree(Fail(d, err))
      /\ \A s : Agree(BackToPending(d, s))
  BY <1>1 DEF StartAttempt, PrepareRetry, Fail, BackToPending
<1>3. \A o \in Outcomes : \A v : Agree(Complete(d, o, v))
  BY DEF Complete, Moved, Outcomes
<1>4. d.status = "PENDING" => Agree(Moved(d, "FAILED", "retryable"))
  BY DEF Moved
<1>5. /\ Agree(CompensateRetry(d))
      /\ d.status \in {"PENDING", "DELETED"} => Agree(CompensateCreate(d))
  BY <1>4 DEF CompensateRetry, CompensateCreate, Exists, Stored
<1>6. Agree(Edited(d)) /\ Agree([d EXCEPT !.stale = TRUE])
  BY DEF Edited
<1>7. QED
  BY <1>2, <1>3, <1>5, <1>6

\* The steps of the worker keep the agreement.
LEMMA WorkerAgrees ==
  ASSUME CreateInv, FieldsAgree, WorkerNext
  PROVE  FieldsAgree'
<1>0. /\ doc \in [Briefs -> Document]
      /\ \A b \in Briefs : Agree(doc[b])
      /\ \A e \in Executions : SoundExecution(exec[e])
  BY DEF CreateInv, TypeInv, TypedDocs, SoundExecutions, FieldsAgree, Agree
<1>1. ASSUME NEW e \in Executions, ExecutionStep(e) \/ DatabaseError(e), NEW b \in Briefs
      PROVE  Agree(doc'[b])
  <2> DEFINE x == exec[e]
  <2>1. /\ x.pc = "catch" => x.verdict \in Errors
        /\ x.pc = "complete" => x.verdict \in Outcomes
    BY <1>0 DEF SoundExecution
  <2>2. x.pc = "catch" /\ x.brief = b => Agree(FailureWrite(x))
    BY <1>0, <2>1, UpdatesKeepAgreement DEF FailureWrite
  <2>3. \/ doc'[b] = doc[b]
        \/ doc'[b] = StartAttempt(doc[b])
        \/ x.pc = "complete" /\ doc'[b] = Complete(doc[b], x.verdict, x.seen)
        \/ x.pc = "catch" /\ x.brief = b /\ doc'[b] = FailureWrite(x)
    BY <1>0, <1>1 DEF ExecutionStep, DatabaseError, ClaimBrief, MissBrief, RecheckBrief,
      AnalyzeBrief, CompleteBrief, PersistFailure, SettleJob, Write, At
  <2>4. QED
    BY <1>0, <2>1, <2>2, <2>3, UpdatesKeepAgreement
<1>2. CASE UNCHANGED doc
  BY <1>2 DEF FieldsAgree
<1>3. QED
  BY <1>1, <1>2 DEF WorkerNext, TakeJob, PromoteJob, OrphanLockExpires, LockLost,
    StalledCheck, TrimJob, WorkerCrash, FieldsAgree, Agree

\* So do those of the API, create's compensation because its brief is PENDING.
LEMMA ApiAgrees ==
  ASSUME CreateInv, FieldsAgree, ApiNext
  PROVE  FieldsAgree'
<1>0. /\ doc \in [Briefs -> Document]
      /\ \A b \in Briefs : Agree(doc[b])
  BY DEF CreateInv, TypeInv, TypedDocs, FieldsAgree, Agree
<1>1. ASSUME NEW r \in Requests, RequestStep(r), NEW b \in Briefs
      PROVE  Agree(doc'[b])
  <2>1. CASE CompensateCreateWrite(r)
    <3>1. \/ doc'[b] = doc[b]
          \/ req[r].brief = b /\ doc'[b] = CompensateCreate(doc[b])
      BY <1>0, <2>1 DEF CompensateCreateWrite, Store
    <3>2. req[r].brief = b => doc[b].status \in {"PENDING", "DELETED"}
      BY <2>1 DEF CreateInv, CreateIsAlone, Creates, CompensateCreateWrite, Waits
    <3>3. QED
      BY <1>0, <3>1, <3>2, UpdatesKeepAgreement
  <2>2. CASE ~CompensateCreateWrite(r)
    <3>1. doc'[b] \in {doc[b], BackToPending(doc[b], req[r].read), CompensateRetry(doc[b])}
      BY <1>0, <1>1, <2>2 DEF RequestStep, Enqueue, EnqueueThrows, RetryWrite, RetryRemove,
        RetryAdd, RetryThrows, CompensateRetryWrite, RemoveJob, Store
    <3>2. QED
      BY <1>0, <3>1, UpdatesKeepAgreement
  <2>3. QED
    BY <2>1, <2>2
<1>2. ASSUME NEW r \in Requests, NEW c \in Briefs, NEW b \in Briefs,
             CreateBrief(r, c) \/ ReadForRetry(r, c) \/ RemoveBrief(r, c)
      PROVE  Agree(doc'[b])
  <2>1. doc'[b] \in {doc[b], NewBrief, Deleted}
    BY <1>0, <1>2 DEF CreateBrief, ReadForRetry, RemoveBrief, Store
  <2>2. Agree(NewBrief) /\ Agree(Deleted)
    BY DEF Agree, NewBrief, Deleted, Unborn
  <2>3. QED
    BY <1>0, <2>1, <2>2
<1>3. ASSUME NEW c \in Briefs, NEW b \in Briefs, UpdateBrief(c) \/ Age(c)
      PROVE  Agree(doc'[b])
  <2>1. doc'[b] \in {doc[b], Edited(doc[b]), [doc[b] EXCEPT !.stale = TRUE]}
    BY <1>0, <1>3 DEF UpdateBrief, Age, Store
  <2>2. QED
    BY <1>0, <2>1, UpdatesKeepAgreement
<1>4. ASSUME ApiCrash, NEW b \in Briefs PROVE Agree(doc'[b])
  BY <1>0, <1>4 DEF ApiCrash
<1>5. \A b \in Briefs : Agree(doc'[b])
  BY <1>1, <1>2, <1>3, <1>4 DEF ApiNext
<1>6. QED
  BY <1>5 DEF FieldsAgree, Agree

\* As long as no applied queue call loses its answer, every stored document is
\* one the schema means: a result on COMPLETED and only there, an error on
\* FAILED, on PENDING only one that allows a retry.
THEOREM FieldsAlwaysAgree ==
  ASSUME Bounds["lostAnswer"] = 0
  PROVE  Spec => []FieldsAgree
<1>1. Init => CreateInv /\ FieldsAgree
  BY CreateInit DEF Init, FieldsAgree, Unborn
<1>2. CreateInv /\ FieldsAgree /\ [Next]_vars => CreateInv' /\ FieldsAgree'
  <2> SUFFICES ASSUME CreateInv, FieldsAgree, [Next]_vars PROVE CreateInv' /\ FieldsAgree'
    OBVIOUS
  <2>1. ReconciliationNext \/ UNCHANGED vars => FieldsAgree'
    BY DEF vars, FieldsAgree, ReconciliationNext, ListPending, GetJob, FinishCycle, GetState,
      RemoveTerminalJob, AddJob, CycleThrows
  <2>2. QED
    BY <2>1, CreateStep, WorkerAgrees, ApiAgrees DEF Next
<1>3. QED
  BY <1>1, <1>2, PTL DEF Spec

=============================================================================
