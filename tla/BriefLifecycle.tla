--------------------------- MODULE BriefLifecycle ---------------------------
(***************************************************************************)
(* What the service promises about one brief to those who use it: the      *)
(* document they can read, and whether an analysis of one of its texts is  *)
(* under way.  There are no jobs, executions, requests or cycles here, and *)
(* every step is one a user asked for or could be told about.              *)
(***************************************************************************)
EXTENDS BriefDocuments

VARIABLES
  brief,     \* the document, as far as a user can tell
  analysing  \* the text that is being analysed, or Nothing

Nothing == 0

\* A document without its age, which no user sees.
Visible(d) == [d EXCEPT !.stale = FALSE]

Init == brief = Unborn /\ analysing = Nothing

\* The brief is written, and nothing begins or ends.
Becomes(d) == brief' = Visible(d) /\ UNCHANGED analysing

-----------------------------------------------------------------------------
(* What users do.                                                          *)

Submit == brief = Unborn /\ Becomes(NewBrief)

\* While an analysis is under way, its brief is neither edited nor removed.
Edit == Editable(brief) /\ analysing = Nothing /\ Becomes(Edited(brief))
Remove == Editable(brief) /\ analysing = Nothing /\ Becomes(Deleted)

\* An ANALYZED brief is never analysed again.
Resubmit == Retryable(brief) /\ Becomes(BackToPending(brief, brief.status))

-----------------------------------------------------------------------------
(* What the service does.                                                  *)

\* The brief is claimed, and the analysis of its current text begins (or its
\* process dies first): only one at a time.
Claim ==
  /\ Claimable(brief) /\ analysing = Nothing
  /\ brief' = Visible(StartAttempt(brief))
  /\ analysing' \in {Nothing, brief.content}

\* An analysis ends without a result: the provider failed, or the process.
Abandon == analysing # Nothing /\ analysing' = Nothing /\ UNCHANGED brief

\* An analysis ends with a result of the text the brief still has.
Finish ==
  /\ brief.status = "PROCESSING" /\ analysing = brief.content
  /\ \E outcome \in Outcomes :
       brief' = Visible(Complete(brief, outcome, analysing))
  /\ analysing' = Nothing

\* The brief waits for another attempt, or is given up.
GiveBack ==
  brief.status = "PROCESSING" /\ analysing = Nothing /\ Becomes(PrepareRetry(brief))

GiveUp ==
  /\ Claimable(brief) /\ analysing = Nothing
  /\ \E error \in Errors : Becomes(Fail(brief, error))

\* The brief could not be published, and the user may ask again.
Unpublished == brief.status = "PENDING" /\ Becomes(CompensateRetry(brief))

Next ==
  \/ Submit \/ Edit \/ Remove \/ Resubmit
  \/ Claim \/ Abandon \/ Finish \/ GiveBack \/ GiveUp \/ Unpublished

\* A step of a system that keeps the promise: one of the above, or one that
\* no user can see.
Step == Next \/ UNCHANGED <<brief, analysing>>

Spec == Init /\ [][Next]_<<brief, analysing>>

=============================================================================
