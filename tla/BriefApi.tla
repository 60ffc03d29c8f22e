------------------------------- MODULE BriefApi -------------------------------
(***************************************************************************)
(* The API: the operations of BriefsService that change state              *)
(* (backend/src/briefs/briefs.service.ts) and their calls of               *)
(* BriefsQueueService.  A request occupies an element of Requests from its *)
(* first call to its last; between two calls anything else may happen.     *)
(***************************************************************************)
EXTENDS BriefState

Waits(r, pc) == req[r].pc = pc

\* Request r goes on at pc, or is answered.
Proceed(r, pc) == req' = [req EXCEPT ![r].pc = pc]
Answer(r) == req' = [req EXCEPT ![r] = IdleRequest]

Open(r, pc, b, read) ==
  /\ Waits(r, "idle")
  /\ req' = [req EXCEPT ![r] = [pc |-> pc, brief |-> b, read |-> read]]

Store(b, d) == doc' = [doc EXCEPT ![b] = d]

-----------------------------------------------------------------------------
\* create: the document is stored before the job is published.
CreateBrief(r, b) ==
  /\ doc[b].status = "UNBORN"
  /\ Open(r, "enqueue", b, "none")
  /\ Store(b, NewBrief)
  /\ UNCHANGED <<job, exec, rec, left>>

Enqueue(r) ==
  /\ Waits(r, "enqueue")
  /\ QueueAnswers(req[r].brief, Add(job[req[r].brief]))
  /\ Answer(r)
  /\ UNCHANGED <<doc, exec, rec>>

EnqueueThrows(r) ==
  /\ Waits(r, "enqueue")
  /\ QueueThrows(req[r].brief, Add(job[req[r].brief]))
  /\ Proceed(r, "compensateCreate")
  /\ UNCHANGED <<doc, exec, rec>>

CompensateCreateWrite(r) ==
  LET b == req[r].brief IN
  /\ Waits(r, "compensateCreate")
  /\ Store(b, CompensateCreate(doc[b]))
  /\ Answer(r)
  /\ UNCHANGED <<job, exec, rec, left>>

-----------------------------------------------------------------------------
\* retry: the brief is read, and is refused unless it can be retried...
ReadForRetry(r, b) ==
  /\ Retryable(doc[b])
  /\ Spend("retry")
  /\ Open(r, "retryWrite", b, doc[b].status)
  /\ UNCHANGED <<doc, job, exec, rec>>

\* ... the guarded findOneAndUpdate moves it back to PENDING, or matches
\* nothing and the request is refused ...
RetryWrite(r) ==
  LET b == req[r].brief IN
  /\ Waits(r, "retryWrite")
  /\ Store(b, BackToPending(doc[b], req[r].read))
  /\ IF RetryMatches(doc[b], req[r].read)
       THEN Proceed(r, "retryRemove")
       ELSE Answer(r)
  /\ UNCHANGED <<job, exec, rec, left>>

\* mutant: the previous job is removed even if an execution holds its lock
RetryRemoveForced(r) ==
  /\ Waits(r, "retryRemove")
  /\ QueueAnswers(req[r].brief, NoJob)
  /\ Proceed(r, "retryAdd")
  /\ UNCHANGED <<doc, exec, rec>>

\* ... retryAnalysis removes the previous job and adds a new one ...
RetryRemove(r) ==
  /\ Waits(r, "retryRemove")
  /\ QueueAnswers(req[r].brief, Remove(job[req[r].brief]))
  /\ Proceed(r, "retryAdd")
  /\ UNCHANGED <<doc, exec, rec>>

RetryAdd(r) ==
  /\ Waits(r, "retryAdd")
  /\ QueueAnswers(req[r].brief, Add(job[req[r].brief]))
  /\ Answer(r)
  /\ UNCHANGED <<doc, exec, rec>>

RetryThrows(r) ==
  LET j == job[req[r].brief] IN
  /\ \/ Waits(r, "retryRemove") /\ QueueThrows(req[r].brief, Remove(j))
     \/ Waits(r, "retryAdd") /\ QueueThrows(req[r].brief, Add(j))
  /\ Proceed(r, "compensateRetry")
  /\ UNCHANGED <<doc, exec, rec>>

\* ... and if one of the two throws, a brief that is still PENDING is FAILED.
CompensateRetryWrite(r) ==
  LET b == req[r].brief IN
  /\ Waits(r, "compensateRetry")
  /\ Store(b, CompensateRetry(doc[b]))
  /\ Answer(r)
  /\ UNCHANGED <<job, exec, rec, left>>

-----------------------------------------------------------------------------
\* update: one guarded findOneAndUpdate.
UpdateBrief(b) ==
  /\ Editable(doc[b])
  /\ Spend("edit")
  /\ Store(b, Edited(doc[b]))
  /\ UNCHANGED <<job, exec, req, rec>>

\* remove: one guarded findOneAndDelete, then the job is removed if possible.
RemoveBrief(r, b) ==
  /\ Editable(doc[b])
  /\ Open(r, "removeJob", b, "none")
  /\ Store(b, Deleted)
  /\ UNCHANGED <<job, exec, rec, left>>

RemoveJob(r) ==
  LET b == req[r].brief IN
  /\ Waits(r, "removeJob")
  /\ QueueAnswers(b, Remove(job[b])) \/ QueueThrows(b, Remove(job[b]))
  /\ Answer(r)
  /\ UNCHANGED <<doc, exec, rec>>

-----------------------------------------------------------------------------
\* Some request is between the write that published b and its last queue call.
Publishing(b) ==
  \E r \in Requests :
    /\ req[r].brief = b
    /\ req[r].pc \in {"enqueue", "compensateCreate", "retryRemove", "retryAdd",
                      "compensateRetry"}

(***************************************************************************)
(* MIN_PENDING_AGE_MS pass without a write to a PENDING brief.  A request  *)
(* that is publishing it is answered before: the producer's Redis          *)
(* connection gives up after 3 s and one retry (app.module.ts:57-58).      *)
(***************************************************************************)
Age(b) ==
  /\ doc[b].status = "PENDING" /\ ~doc[b].stale
  /\ ~Publishing(b)
  /\ Store(b, [doc[b] EXCEPT !.stale = TRUE])
  /\ UNCHANGED <<job, exec, req, rec, left>>

\* The API process is killed and started again: the requests it held are
\* lost, and so is its reconciliation cycle.
ApiCrash ==
  /\ rec # IdleReconciler \/ \E r \in Requests : ~Waits(r, "idle")
  /\ Spend("apiCrash")
  /\ req' = [r \in Requests |-> IdleRequest]
  /\ rec' = IdleReconciler
  /\ UNCHANGED <<doc, job, exec>>

-----------------------------------------------------------------------------
\* The steps an accepted request takes by itself.
RequestStep(r) ==
  \/ Enqueue(r)
  \/ EnqueueThrows(r)
  \/ CompensateCreateWrite(r)
  \/ RetryWrite(r)
  \/ RetryRemove(r)
  \/ RetryAdd(r)
  \/ RetryThrows(r)
  \/ CompensateRetryWrite(r)
  \/ RemoveJob(r)

ApiNext ==
  \/ \E r \in Requests : RequestStep(r)
  \/ \E r \in Requests, b \in Briefs :
       CreateBrief(r, b) \/ ReadForRetry(r, b) \/ RemoveBrief(r, b)
  \/ \E b \in Briefs : UpdateBrief(b) \/ Age(b)
  \/ ApiCrash

\* Every accepted request runs to its end, and time passes.
ApiFairness ==
  /\ \A r \in Requests : WF_vars(RequestStep(r))
  /\ \A b \in Briefs : WF_vars(Age(b))

=============================================================================
