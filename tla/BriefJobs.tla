------------------------------ MODULE BriefJobs ------------------------------
(***************************************************************************)
(* The queue brief-analysis, kept by BullMQ in Redis, as the code uses it. *)
(* The job id is the brief id (briefs-queue.service.ts:23), so a brief has *)
(* at most one job.  BullMQ is not part of the repository: its operations  *)
(* are modelled by what the code relies on.                                *)
(*                                                                         *)
(* made is attemptsMade, stalls the stalled counter, started the number of *)
(* times the job was handed to a worker (attemptsStarted), owner the       *)
(* execution that holds the job's lock.                                    *)
(***************************************************************************)
EXTENDS Naturals

CONSTANTS
  MaxAttempts,       \* attempts of defaultJobOptions
  MaxStalledCount,   \* BullMQ's maxStalledCount, left at its default
  Executions,        \* the executions a worker process can hold
  NoExecution        \* the owner of a job whose lock nobody holds

ASSUME AttemptsAssumption ==
  /\ MaxAttempts \in Nat \ {0}
  /\ MaxStalledCount \in Nat
  /\ NoExecution \notin Executions

Live == {"wait", "active", "delayed"}
Terminal == {"completed", "failed"}

Job == [state   : Live \cup Terminal \cup {"none"},
        made    : 0 .. MaxAttempts,
        stalls  : 0 .. MaxStalledCount + 1,
        started : Nat,
        owner   : Executions \cup {NoExecution}]

NoJob == [state |-> "none", made |-> 0, stalls |-> 0, started |-> 0,
          owner |-> NoExecution]

Locked(j) == j.owner # NoExecution

\* Queue.add under an id: a job that exists, even a terminal one, is kept.
Add(j) == IF j.state = "none" THEN [NoJob EXCEPT !.state = "wait"] ELSE j

\* Queue.remove: without an error, a locked job stays.
Remove(j) == IF Locked(j) THEN j ELSE NoJob

\* A worker takes a waiting job and its lock.
Take(j, e) == [j EXCEPT !.state = "active", !.owner = e, !.started = @ + 1]

\* mutant: one attempt more than configured
RetryAllowedOnceMore(made) == made < MaxAttempts

\* An attempt that failed after made earlier ones may be followed by another.
RetryAllowed(made) == made + 1 < MaxAttempts

\* The processor returned, or threw an error that allows a retry or does not.
Succeeded(j) == [j EXCEPT !.state = "completed", !.owner = NoExecution]

FailedOnce(j, retryable) ==
  [j EXCEPT !.state = IF retryable /\ RetryAllowed(j.made) THEN "delayed" ELSE "failed",
            !.made = @ + 1,
            !.owner = NoExecution]

\* The stalled check, on an active job without a lock.
Stalled(j) == [j EXCEPT !.state = IF j.stalls < MaxStalledCount THEN "wait" ELSE "failed",
                        !.stalls = @ + 1]

=============================================================================
