--------------------------- MODULE BriefDocuments ---------------------------
(***************************************************************************)
(* The brief document and the filtered updates that MongoDB applies to it  *)
(* atomically: backend/src/briefs/schemas/brief.schema.ts and              *)
(* worker/src/briefs/brief-repository.ts.                                  *)
(*                                                                         *)
(* A text (title and brief) is a version number: 1 when the brief is       *)
(* created, one more after each edit.  A result is its outcome and the     *)
(* version it was computed from.  An error is whether it is retryable.     *)
(* updatedAt is the flag stale: at least MIN_PENDING_AGE_MS have passed    *)
(* since the last write; every write clears it.                            *)
(***************************************************************************)
EXTENDS Naturals

\* BriefStatus, and the two ways a brief has no document.
Stored == {"PENDING", "PROCESSING", "COMPLETED", "FAILED"}
Absent == {"UNBORN", "DELETED"}

\* BriefAnalysisOutcome; "none" is an unset field.
Outcomes == {"ANALYZED", "INSUFFICIENT_BRIEF"}

\* A BriefProcessingError by its field retryable; "none" is an unset field.
Errors == {"retryable", "final"}

Document == [status  : Stored \cup Absent,
             content : Nat,
             outcome : Outcomes \cup {"none"},
             of      : Nat,
             error   : Errors \cup {"none"},
             stale   : BOOLEAN]

Unborn == [status |-> "UNBORN", content |-> 0, outcome |-> "none", of |-> 0,
           error |-> "none", stale |-> FALSE]

NewBrief == [Unborn EXCEPT !.status = "PENDING", !.content = 1]

Deleted == [Unborn EXCEPT !.status = "DELETED"]

Exists(d) == d.status \in Stored

\* The document d after a write that sets its status, and one that also
\* unsets result (with completedAt).
Moved(d, status, error) == [d EXCEPT !.status = status, !.error = error,
                                     !.stale = FALSE]
Emptied(d) == [d EXCEPT !.outcome = "none", !.of = 0]

-----------------------------------------------------------------------------
(* The updates of MongoBriefRepository: filter, then set and unset.        *)

Claimable(d) == Exists(d) /\ d.status # "COMPLETED"

\* mutant: the result and the error of an earlier attempt are not unset
StartAttemptKeepingFields(d) ==
  IF Claimable(d) THEN Moved(d, "PROCESSING", d.error) ELSE d

StartAttempt(d) ==
  IF Claimable(d) THEN Emptied(Moved(d, "PROCESSING", "none")) ELSE d

Complete(d, outcome, of) ==
  IF d.status = "PROCESSING"
    THEN [Moved(d, "COMPLETED", "none") EXCEPT !.outcome = outcome, !.of = of]
    ELSE d

PrepareRetry(d) ==
  IF d.status = "PROCESSING"
    THEN Emptied(Moved(d, "PENDING", "retryable"))
    ELSE d

\* mutant: the filter that protects COMPLETED is dropped
FailAnyStatus(d, error) ==
  IF Exists(d) THEN Emptied(Moved(d, "FAILED", error)) ELSE d

Fail(d, error) ==
  IF Claimable(d) THEN Emptied(Moved(d, "FAILED", error)) ELSE d

-----------------------------------------------------------------------------
(* The updates of BriefsService.                                           *)

Retryable(d) ==
  \/ d.status = "FAILED" /\ d.error = "retryable"
  \/ d.status = "COMPLETED" /\ d.outcome = "INSUFFICIENT_BRIEF"

\* retry: back to PENDING, under the filter that was chosen when d was read.
RetryMatches(d, status) == Retryable(d) /\ d.status = status

BackToPending(d, status) ==
  IF RetryMatches(d, status)
    THEN Emptied(Moved(d, "PENDING", "none"))
    ELSE d

\* create's compensation: no filter on the status, and result is not unset.
CompensateCreate(d) ==
  IF Exists(d) THEN Moved(d, "FAILED", "retryable") ELSE d

\* mutant: as in create, without a filter on the status
CompensateRetryAnyStatus(d) ==
  IF Exists(d) THEN Moved(d, "FAILED", "retryable") ELSE d

\* retry's compensation: only while the brief is still PENDING.
CompensateRetry(d) ==
  IF d.status = "PENDING" THEN Moved(d, "FAILED", "retryable") ELSE d

\* mutant: an edit is accepted in every status
EditableAnyStatus(d) == Exists(d)

\* The filter of update and of remove: anything but PROCESSING.
Editable(d) == Exists(d) /\ d.status # "PROCESSING"

Edited(d) == [d EXCEPT !.content = @ + 1, !.stale = FALSE]

\* find of reconcile: PENDING and not written for MIN_PENDING_AGE_MS.
StalePending(d) == d.status = "PENDING" /\ d.stale

=============================================================================
