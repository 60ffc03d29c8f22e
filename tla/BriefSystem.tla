----------------------------- MODULE BriefSystem -----------------------------
(***************************************************************************)
(* The pipeline of a brief: the API publishes it, the worker analyses it,  *)
(* the reconciliation cycle publishes again what was lost.  The three      *)
(* share only the documents in MongoDB and the jobs in Redis, and no       *)
(* transaction spans the two.                                              *)
(***************************************************************************)
EXTENDS BriefWorker, BriefApi, BriefReconciliation

Next == WorkerNext \/ ApiNext \/ ReconciliationNext

Spec == Init /\ [][Next]_vars

FairSpec ==
  Spec /\ WorkerFairness /\ ApiFairness /\ ReconciliationFairness

-----------------------------------------------------------------------------
(***************************************************************************)
(* Safety.                                                                 *)
(***************************************************************************)

\* The optional fields of a document agree with its status, although four
\* programs' updates set and unset them: a result on COMPLETED and only
\* there, an error on FAILED, on PENDING only one that allows a retry
\* (brief-repository.ts, briefs.service.ts create and retry).
FieldsAgree ==
  \A b \in Briefs : LET d == doc[b] IN
    /\ d.status = "COMPLETED" <=> d.outcome # "none"
    /\ d.status = "FAILED" => d.error # "none"
    /\ d.status = "PENDING" => d.error # "final"
    /\ d.status \in {"PROCESSING", "COMPLETED"} => d.error = "none"

\* At most one execution is between startAttempt and complete of a brief: two
\* provider calls for one brief never overlap, whatever retries, restarts and
\* the reconciliation cycle do to its job.
OneAnalysisAtATime ==
  \A e, f \in Executions :
    /\ exec[e].pc \in {"analyze", "complete"}
    /\ exec[f].pc \in {"analyze", "complete"}
    /\ exec[e].brief = exec[f].brief
    => e = f

\* A brief shown as PROCESSING has a job that will be worked on again, or one
\* that a cycle or a retry is about to add: nobody else moves such a brief on
\* (reconcile looks at PENDING, retry at FAILED and COMPLETED, update and
\* remove refuse).
ProcessingIsAttended ==
  \A b \in Briefs : doc[b].status = "PROCESSING" =>
    \/ job[b].state \in {"wait", "active"}
    \/ Reached("add") /\ rec.brief = b
    \/ \E r \in Requests : Waits(r, "retryAdd") /\ req[r].brief = b

\* The worker's forecast of BullMQ's decision (willRetry) is right: a brief it
\* has declared FAILED has no attempt left in the queue's backoff.
FailedIsNotDelayed ==
  \A b \in Briefs : doc[b].status = "FAILED" => job[b].state # "delayed"

\* One published job costs at most as many provider calls as it has attempts,
\* and one more for each stall BullMQ forgives (app.module.ts attempts: 3).
CallsAreBounded ==
  \A b \in Briefs : job[b].started <= MaxAttempts + MaxStalledCount

\* A result is stored only over the text it was computed from: the brief was
\* not edited between startAttempt and complete (update refuses PROCESSING).
ResultOfCurrentText ==
  [][\A b \in Briefs :
       doc[b].status # "COMPLETED" /\ doc'[b].status = "COMPLETED"
         => doc'[b].of = doc[b].content]_vars

\* An ANALYZED brief keeps its status and its result until it is removed: no
\* late execution, no repeated job and no compensation replaces them.
AnalyzedIsFinal ==
  [][\A b \in Briefs :
       /\ doc[b].status = "COMPLETED"
       /\ doc[b].outcome = "ANALYZED"
       /\ doc'[b].status # "DELETED"
       => /\ doc'[b].status = "COMPLETED"
          /\ doc'[b].outcome = "ANALYZED"
          /\ doc'[b].of = doc[b].of]_vars

\* A brief that failed for good is not worked on again.
FinalFailureIsFinal ==
  [][\A b \in Briefs :
       doc[b].status = "FAILED" /\ doc[b].error = "final"
         => doc'[b].status # "PROCESSING"]_vars

-----------------------------------------------------------------------------
(***************************************************************************)
(* The promise, brief by brief.                                            *)
(***************************************************************************)

\* The text that some execution has claimed and not yet brought to an end.
UnderAnalysis(b) ==
  LET at == {e \in Executions : /\ exec[e].pc \in {"analyze", "complete"}
                                /\ exec[e].brief = b} IN
  IF at = {} THEN 0 ELSE exec[CHOOSE e \in at : TRUE].seen

Lifecycle(b) == INSTANCE BriefLifecycle WITH
  brief <- [doc[b] EXCEPT !.stale = FALSE],
  analysing <- UnderAnalysis(b)

\* Whatever jobs, requests, crashes and cycles do, what a user can see of a
\* brief follows BriefLifecycle: one analysis at a time, of the current text,
\* whose result stays.  Needs that no lock and no answer is lost.
ImplementsLifecycle ==
  /\ \A b \in Briefs : Lifecycle(b)!Init
  /\ [][\A b \in Briefs : Lifecycle(b)!Step]_vars

-----------------------------------------------------------------------------
(***************************************************************************)
(* Liveness, under FairSpec.                                               *)
(***************************************************************************)

\* A PENDING brief is worked on (or removed), even if the job that was to
\* bring it to the worker was never added or is gone.
PendingIsServed ==
  \A b \in Briefs : doc[b].status = "PENDING" ~> doc[b].status # "PENDING"

\* A PROCESSING brief does not stay so.
ProcessingEnds ==
  \A b \in Briefs : doc[b].status = "PROCESSING" ~> doc[b].status # "PROCESSING"

=============================================================================
