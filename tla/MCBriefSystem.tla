---------------------------- MODULE MCBriefSystem ----------------------------
(***************************************************************************)
(* Small instances of BriefSystem for TLC: each Bounds says which events   *)
(* happen in a run, and how often.                                         *)
(***************************************************************************)
EXTENDS BriefInvariants, TLC

CONSTANTS b1, b2, e1, e2, w1, w2, r1, r2, none

\* Two worker processes with one execution each, and one process with one.
TwoProcesses == e1 :> w1 @@ e2 :> w2
OneProcess == e1 :> w1

Only(bounds) == bounds @@ [kind \in Kinds |-> 0]

\* A worker process crashes; users edit and retry.
WorkerCrashBounds == Only([edit |-> 1, retry |-> 1, workerCrash |-> 1, trim |-> 1])

\* The API crashes and a queue call fails; users edit and retry.
ApiFaultBounds ==
  Only([edit |-> 1, retry |-> 1, apiCrash |-> 1, queueError |-> 1, trim |-> 1])

\* Locks are lost under running executions and a MongoDB call throws.
LostLockBounds ==
  Only([retry |-> 1, lockLoss |-> 2, databaseError |-> 1])

\* The API crashes twice, a queue call fails and one loses its answer.
BatchBounds == Only([apiCrash |-> 2, queueError |-> 1, lostAnswer |-> 1])

\* The events that the violation runs need, and no other.
LostAnswerBounds == Only([lostAnswer |-> 1])
NoFaultBounds == [kind \in Kinds |-> 0]
PausedWorkerBounds == Only([edit |-> 1, lockLoss |-> 1])
TwoCrashesBounds == Only([workerCrash |-> 2])

\* Requests are alike, and so are the two processes with their executions.
Swaps == {[x \in {e1, e2, w1, w2} |-> x],
          e1 :> e2 @@ e2 :> e1 @@ w1 :> w2 @@ w2 :> w1}
Symmetric == {p @@ q : p \in Permutations({r1, r2}), q \in Swaps}

=============================================================================
