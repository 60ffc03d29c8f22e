------------------------- MODULE BriefReconciliation -------------------------
(***************************************************************************)
(* The reconciliation cycle that the API runs at its start and then every  *)
(* minute (backend/src/briefs/brief-reconciliation.service.ts), with       *)
(* ensureAnalysis (backend/src/briefs/queue/briefs-queue.service.ts).      *)
(* The flag running keeps two cycles of a process from overlapping.        *)
(***************************************************************************)
EXTENDS BriefState

Reached(pc) == rec.pc = pc

\* ensureAnalysis is done with the current brief: on to the next of the list.
NextBrief == rec' = [rec EXCEPT !.pc = "next", !.brief = NoBrief]

Listable == {b \in Briefs : StalePending(doc[b])}

\* reconcile: the list of old PENDING briefs is read once.
ListPending ==
  /\ Reached("idle")
  /\ \E list \in SUBSET Listable :
       /\ Cardinality(list) = IF Cardinality(Listable) < ReconcileLimit
                                THEN Cardinality(Listable) ELSE ReconcileLimit
       /\ rec' = IF list = {} THEN rec
                 ELSE [rec EXCEPT !.pc = "next", !.todo = list]
  /\ UNCHANGED <<doc, job, exec, req, left>>

\* mutant: a brief without a job is taken for one that was just published
GetJobSkippingAbsent(b) ==
  /\ Reached("next") /\ b \in rec.todo
  /\ rec' = IF job[b].state = "none"
              THEN [rec EXCEPT !.todo = @ \ {b}]
              ELSE [pc |-> "getState", brief |-> b, todo |-> rec.todo \ {b}]
  /\ UNCHANGED <<doc, job, exec, req, left>>

\* getJob of the next brief of the list.
GetJob(b) ==
  /\ Reached("next") /\ b \in rec.todo
  /\ rec' = [pc |-> IF job[b].state = "none" THEN "add" ELSE "getState",
             brief |-> b, todo |-> rec.todo \ {b}]
  /\ UNCHANGED <<doc, job, exec, req, left>>

FinishCycle ==
  /\ Reached("next") /\ rec.todo = {}
  /\ rec' = IdleReconciler
  /\ UNCHANGED <<doc, job, exec, req, left>>

\* mutant: a failed job is taken for a live one
GetStateCompletedOnly ==
  /\ Reached("getState")
  /\ IF job[rec.brief].state = "completed"
       THEN rec' = [rec EXCEPT !.pc = "remove"] ELSE NextBrief
  /\ UNCHANGED <<doc, job, exec, req, left>>

\* getState: a job that is not completed or failed is left alone.
GetState ==
  /\ Reached("getState")
  /\ IF job[rec.brief].state \in Terminal
       THEN rec' = [rec EXCEPT !.pc = "remove"] ELSE NextBrief
  /\ UNCHANGED <<doc, job, exec, req, left>>

\* Job.remove, which unlike Queue.remove throws if the job is locked; the
\* exception ends the whole cycle.
RemoveTerminalJob ==
  /\ Reached("remove")
  /\ QueueAnswers(rec.brief, Remove(job[rec.brief]))
  /\ rec' = IF Locked(job[rec.brief]) THEN IdleReconciler
                                      ELSE [rec EXCEPT !.pc = "add"]
  /\ UNCHANGED <<doc, exec, req>>

\* enqueueAnalysis.
AddJob ==
  /\ Reached("add")
  /\ QueueAnswers(rec.brief, Add(job[rec.brief]))
  /\ NextBrief
  /\ UNCHANGED <<doc, exec, req>>

\* A queue call throws: reconcile catches it, and the cycle is over.
CycleThrows ==
  /\ \/ /\ Reached("getState") \/ (Reached("next") /\ rec.todo # {})
        /\ Spend("queueError") /\ UNCHANGED job
     \/ Reached("remove") /\ QueueThrows(rec.brief, Remove(job[rec.brief]))
     \/ Reached("add") /\ QueueThrows(rec.brief, Add(job[rec.brief]))
  /\ rec' = IdleReconciler
  /\ UNCHANGED <<doc, exec, req>>

ReconciliationNext ==
  \/ ListPending
  \/ \E b \in Briefs : GetJob(b)
  \/ FinishCycle
  \/ GetState
  \/ RemoveTerminalJob
  \/ AddJob
  \/ CycleThrows

\* The interval timer fires, and a cycle that started goes on.
ReconciliationFairness == WF_vars(ReconciliationNext)

=============================================================================
