------------------------------ MODULE BriefState ------------------------------
(***************************************************************************)
(* The state shared by the three programs that move a brief: the documents *)
(* in MongoDB, the jobs in Redis, the executions of the worker processes,  *)
(* the HTTP requests of the API that wait between two of their calls, and  *)
(* the reconciliation cycle.                                               *)
(***************************************************************************)
EXTENDS BriefDocuments, BriefJobs, FiniteSets

CONSTANTS
  Briefs,         \* the ids a create can draw
  NoBrief,        \* the brief of something idle
  Workers,        \* worker processes
  ProcessOf,      \* the process an execution belongs to
  Requests,       \* HTTP requests the API can hold at once
  ReconcileLimit, \* limit() of the find of a reconciliation cycle
  Bounds          \* how often each kind of event below may happen

(***************************************************************************)
(* What is bounded: edits and retries asked by users; crashes of a worker  *)
(* or of the API process; a lock lost by an execution that still runs; a   *)
(* queue call that fails, and one that was applied and whose answer is     *)
(* lost; a MongoDB call of the worker that throws, applied or not; a       *)
(* terminal job dropped because 100 newer ones are kept.                   *)
(***************************************************************************)
Kinds == {"edit", "retry", "workerCrash", "apiCrash", "lockLoss",
          "queueError", "lostAnswer", "databaseError", "trim"}

ASSUME StateAssumption ==
  /\ NoBrief \notin Briefs
  /\ IsFiniteSet(Briefs)
  /\ ReconcileLimit \in Nat \ {0}
  /\ ProcessOf \in [Executions -> Workers]
  /\ Bounds \in [Kinds -> Nat]

VARIABLES
  doc,   \* the document of each brief
  job,   \* the job of each brief
  exec,  \* where each execution of processBrief stands
  req,   \* where each API request stands
  rec,   \* where the reconciliation cycle stands
  left   \* how many events of each bounded kind may still happen

vars == <<doc, job, exec, req, rec, left>>

-----------------------------------------------------------------------------
(***************************************************************************)
(* An execution of processBrief: the brief of its job, attemptsMade as the *)
(* job had it when it was taken, the text startAttempt returned (seen),    *)
(* and what the attempt came to.                                           *)
(***************************************************************************)
Execution ==
  [pc      : {"idle", "start", "recheck", "analyze", "complete", "catch", "settle"},
   brief   : Briefs \cup {NoBrief},
   made    : Nat,
   seen    : Nat,
   verdict : Outcomes \cup Errors \cup {"none", "ok"}]

IdleExecution == [pc |-> "idle", brief |-> NoBrief, made |-> 0, seen |-> 0,
                  verdict |-> "none"]

(***************************************************************************)
(* A request waits before a queue call (enqueue, retryRemove, retryAdd,    *)
(* removeJob), before a write that compensates a failed one, or before     *)
(* retry's guarded write, whose filter is on the status read before.       *)
(***************************************************************************)
Request ==
  [pc    : {"idle", "enqueue", "compensateCreate", "retryWrite", "retryRemove",
            "retryAdd", "compensateRetry", "removeJob"},
   brief : Briefs \cup {NoBrief},
   read  : Stored \cup {"none"}]

IdleRequest == [pc |-> "idle", brief |-> NoBrief, read |-> "none"]

(***************************************************************************)
(* A reconciliation cycle: idle is running = FALSE; todo is what is left   *)
(* of the list read at its start, brief the one ensureAnalysis works on.   *)
(***************************************************************************)
Reconciler ==
  [pc    : {"idle", "next", "getState", "remove", "add"},
   brief : Briefs \cup {NoBrief},
   todo  : SUBSET Briefs]

IdleReconciler == [pc |-> "idle", brief |-> NoBrief, todo |-> {}]

\* Every variable keeps to the type it is declared with above.
TypeOK ==
  /\ doc \in [Briefs -> Document]
  /\ job \in [Briefs -> Job]
  /\ exec \in [Executions -> Execution]
  /\ req \in [Requests -> Request]
  /\ rec \in Reconciler
  /\ left \in [Kinds -> Nat]

Init ==
  /\ doc = [b \in Briefs |-> Unborn]
  /\ job = [b \in Briefs |-> NoJob]
  /\ exec = [e \in Executions |-> IdleExecution]
  /\ req = [r \in Requests |-> IdleRequest]
  /\ rec = IdleReconciler
  /\ left = Bounds

\* One event of a bounded kind happens.
Spend(kind) == left[kind] > 0 /\ left' = [left EXCEPT ![kind] = @ - 1]

\* A queue call that leaves j as the job of b answers...
QueueAnswers(b, j) == job' = [job EXCEPT ![b] = j] /\ UNCHANGED left

\* ... or throws: it was not applied, or its answer was lost.
QueueThrows(b, j) ==
  \/ Spend("queueError") /\ UNCHANGED job
  \/ Spend("lostAnswer") /\ job' = [job EXCEPT ![b] = j]

=============================================================================
