------------------------ MODULE BriefLifecycleProofs ------------------------
(***************************************************************************)
(* The pipeline keeps the promise of BriefLifecycle, brief by brief, as    *)
(* long as no answer of a queue call and no lock of a running execution is *)
(* lost: every step of every program is one of the steps a user was        *)
(* promised, or one that no user sees.                                     *)
(***************************************************************************)
EXTENDS BriefClaimProofs

-----------------------------------------------------------------------------
(* The text under analysis.                                                *)

\* In the executions x, f has claimed b and not yet brought it to an end.
Claims(x, f, b) == x[f].pc \in {"analyze", "complete"} /\ x[f].brief = b

\* UnderAnalysis of the executions x.
AnalysisOf(x, b) ==
  LET at == {f \in Executions : Claims(x, f, b)} IN
  IF at = {} THEN 0 ELSE x[CHOOSE f \in at : TRUE].seen

\* UnderAnalysis is about the executions alone, now and after a step.
LEMMA AnalysisNowAndNext ==
  ASSUME NEW b
  PROVE  UnderAnalysis(b) = AnalysisOf(exec, b) /\ UnderAnalysis(b)' = AnalysisOf(exec', b)
BY DEF UnderAnalysis, AnalysisOf, Claims

\* If a single execution has claimed b, it is the one whose text counts.
LEMMA AnalysisOfTheClaim ==
  ASSUME NEW x, NEW b, NEW e \in Executions, Claims(x, e, b),
         \A f \in Executions : Claims(x, f, b) => f = e
  PROVE  AnalysisOf(x, b) = x[e].seen
<1>1. {f \in Executions : Claims(x, f, b)} = {e}
  OBVIOUS
<1>2. (CHOOSE f \in {e} : TRUE) = e
  OBVIOUS
<1>3. QED
  BY <1>1, <1>2 DEF AnalysisOf

\* If none has, none counts.
LEMMA AnalysisOfNone ==
  ASSUME NEW x, NEW b, \A f \in Executions : ~Claims(x, f, b)
  PROVE  AnalysisOf(x, b) = 0
BY DEF AnalysisOf

\* As long as locks are held, a brief is claimed once.
LEMMA ClaimedOnce ==
  ASSUME LocksAreHeld, NEW b, NEW e \in Executions, NEW f \in Executions,
         exec[e].pc # "idle", exec[e].brief = b, Claims(exec, f, b)
  PROVE  f = e
BY OneExecutionPerBrief DEF Claims

\* And so after a step.
LEMMA ClaimedOnceNext ==
  ASSUME LocksAreHeld', NEW b, NEW e \in Executions, NEW f \in Executions,
         Claims(exec', e, b), Claims(exec', f, b)
  PROVE  f = e
BY DEF Claims, LocksAreHeld

\* The text of a claim is that of the brief, which is PROCESSING; the text of an
\* execution at any other place does not count.
LEMMA AnalysisNow ==
  ASSUME ClaimInv, NEW b \in Briefs
  PROVE  /\ \A e \in Executions : Claims(exec, e, b) =>
              /\ UnderAnalysis(b) = exec[e].seen
              /\ doc[b].status = "PROCESSING" /\ doc[b].content = exec[e].seen
         /\ \A e \in Executions :
              exec[e].brief = b /\ exec[e].pc \notin {"idle", "analyze", "complete"}
                => UnderAnalysis(b) = 0
         /\ doc[b].status # "PROCESSING" => UnderAnalysis(b) = 0
<1>1. LocksAreHeld /\ ClaimIsKept
  BY DEF ClaimInv
<1>2. ASSUME NEW e \in Executions, Claims(exec, e, b)
      PROVE  /\ UnderAnalysis(b) = exec[e].seen
             /\ doc[b].status = "PROCESSING" /\ doc[b].content = exec[e].seen
  <2>1. \A f \in Executions : Claims(exec, f, b) => f = e
    BY <1>1, <1>2, ClaimedOnce DEF Claims
  <2>2. AnalysisOf(exec, b) = exec[e].seen
    BY <1>2, <2>1, AnalysisOfTheClaim
  <2>3. QED
    BY <1>1, <1>2, <2>2, AnalysisNowAndNext DEF ClaimIsKept, Claims
<1>3. ASSUME \A e \in Executions : ~Claims(exec, e, b)
      PROVE  UnderAnalysis(b) = 0
  BY <1>3, AnalysisOfNone, AnalysisNowAndNext
<1>4. ASSUME NEW e \in Executions, exec[e].brief = b,
             exec[e].pc \notin {"idle", "analyze", "complete"}
      PROVE  UnderAnalysis(b) = 0
  <2>1. ASSUME NEW f \in Executions, Claims(exec, f, b) PROVE FALSE
    <3>1. f = e
      BY <1>1, <1>4, <2>1, ClaimedOnce
    <3>2. QED
      BY <1>4, <2>1, <3>1 DEF Claims
  <2>2. QED
    BY <1>3, <2>1
<1>5. doc[b].status # "PROCESSING" => UnderAnalysis(b) = 0
  BY <1>2, <1>3
<1>6. QED
  BY <1>2, <1>4, <1>5

\* A step after which e has claimed b, or after which every claim of b is an
\* earlier one.
LEMMA AnalysisNext ==
  ASSUME ClaimInv, ClaimInv', NEW b \in Briefs
  PROVE  /\ \A e \in Executions : Claims(exec', e, b) => UnderAnalysis(b)' = exec'[e].seen
         /\ (\A f \in Executions : Claims(exec', f, b) =>
               Claims(exec, f, b) /\ exec'[f].seen = exec[f].seen)
              => UnderAnalysis(b)' \in {UnderAnalysis(b), 0}
         /\ (\A f \in Executions : ~Claims(exec', f, b)) => UnderAnalysis(b)' = 0
<1>1. LocksAreHeld'
  BY DEF ClaimInv
<1>2. ASSUME NEW e \in Executions, Claims(exec', e, b)
      PROVE  UnderAnalysis(b)' = exec'[e].seen
  <2>1. \A f \in Executions : Claims(exec', f, b) => f = e
    BY <1>1, <1>2, ClaimedOnceNext
  <2>2. AnalysisOf(exec', b) = exec'[e].seen
    BY <1>2, <2>1, AnalysisOfTheClaim
  <2>3. QED
    BY <2>2, AnalysisNowAndNext
<1>3. (\A f \in Executions : ~Claims(exec', f, b)) => UnderAnalysis(b)' = 0
  BY AnalysisOfNone, AnalysisNowAndNext
<1>4. ASSUME NEW e \in Executions, Claims(exec', e, b),
             Claims(exec, e, b), exec'[e].seen = exec[e].seen
      PROVE  UnderAnalysis(b)' = UnderAnalysis(b)
  BY <1>2, <1>4, AnalysisNow
<1>5. QED
  BY <1>2, <1>3, <1>4

-----------------------------------------------------------------------------
(* The steps that a brief can make.                                        *)

\* The steps of BriefLifecycle, of a document with its age.
Moves(d, d1, a, a1) ==
  \/ d1 = d /\ a1 \in {a, 0}
  \/ d.status = "PENDING" /\ d1 = [d EXCEPT !.stale = TRUE] /\ a1 = a
  \/ d.status = "UNBORN" /\ d1 = NewBrief /\ a1 = a
  \/ Editable(d) /\ a = 0 /\ d1 \in {Edited(d), Deleted} /\ a1 = a
  \/ Retryable(d) /\ d1 = BackToPending(d, d.status) /\ a1 = a
  \/ Claimable(d) /\ a = 0 /\ d1 = StartAttempt(d) /\ a1 \in {0, d.content}
  \/ /\ d.status = "PROCESSING" /\ a = d.content /\ a1 = 0
     /\ \E outcome \in Outcomes : d1 = Complete(d, outcome, a)
  \/ d.status = "PROCESSING" /\ a = 0 /\ d1 = PrepareRetry(d) /\ a1 = a
  \/ Claimable(d) /\ a = 0 /\ (\E error \in Errors : d1 = Fail(d, error)) /\ a1 = a
  \/ d.status = "PENDING" /\ d1 = CompensateRetry(d) /\ a1 = a

\* The document as a user sees it.
Seen(d) == [d EXCEPT !.stale = FALSE]

\* What a user sees after an update is the update of what was seen.
LEMMA UpdatesAreSeen ==
  ASSUME NEW d \in Document
  PROVE  /\ Seen([d EXCEPT !.stale = TRUE]) = Seen(d)
         /\ Seen(NewBrief) = NewBrief /\ Seen(Deleted) = Deleted
         /\ Seen(Edited(d)) = Seen(Edited(Seen(d)))
         /\ \A s : Seen(BackToPending(d, s)) = Seen(BackToPending(Seen(d), s))
         /\ Seen(StartAttempt(d)) = Seen(StartAttempt(Seen(d)))
         /\ \A o, v : Seen(Complete(d, o, v)) = Seen(Complete(Seen(d), o, v))
         /\ Seen(PrepareRetry(d)) = Seen(PrepareRetry(Seen(d)))
         /\ \A err : Seen(Fail(d, err)) = Seen(Fail(Seen(d), err))
         /\ Seen(CompensateRetry(d)) = Seen(CompensateRetry(Seen(d)))
<1>1. Seen([d EXCEPT !.stale = TRUE]) = Seen(d)
  BY DEF Document, Seen
<1>2. Seen(NewBrief) = NewBrief /\ Seen(Deleted) = Deleted
  <2>1. Unborn \in Document /\ Unborn.stale = FALSE
    BY DEF Unborn, Document, Absent
  <2>2. ASSUME NEW u \in Document, u.stale = FALSE
        PROVE  Seen([u EXCEPT !.status = "PENDING", !.content = 1])
                 = [u EXCEPT !.status = "PENDING", !.content = 1]
    BY <2>2 DEF Seen, Document
  <2>3. ASSUME NEW u \in Document, u.stale = FALSE
        PROVE  Seen([u EXCEPT !.status = "DELETED"]) = [u EXCEPT !.status = "DELETED"]
    BY <2>3 DEF Seen, Document
  <2>4. QED
    BY <2>1, <2>2, <2>3 DEF NewBrief, Deleted
<1>3. Seen(Edited(d)) = Seen(Edited(Seen(d)))
  BY DEF Document, Seen, Edited
<1>4. ASSUME NEW s PROVE Seen(BackToPending(d, s)) = Seen(BackToPending(Seen(d), s))
  <2>1. RetryMatches(Seen(d), s) = RetryMatches(d, s)
    BY DEF Document, Seen, RetryMatches, Retryable
  <2>2. Seen(Seen(d)) = Seen(d)
    BY DEF Document, Seen
  <2>3. Seen(Emptied(Moved(d, "PENDING", "none"))) = Seen(Emptied(Moved(Seen(d), "PENDING", "none")))
    BY DEF Document, Seen, Moved, Emptied
  <2>4. QED
    BY <2>1, <2>2, <2>3 DEF BackToPending
<1>5. Seen(StartAttempt(d)) = Seen(StartAttempt(Seen(d)))
  BY DEF Document, Seen, StartAttempt, Claimable, Exists, Moved, Emptied
<1>6. ASSUME NEW o, NEW v PROVE Seen(Complete(d, o, v)) = Seen(Complete(Seen(d), o, v))
  BY DEF Document, Seen, Complete, Moved
<1>7. Seen(PrepareRetry(d)) = Seen(PrepareRetry(Seen(d)))
  BY DEF Document, Seen, PrepareRetry, Moved, Emptied
<1>8. ASSUME NEW err PROVE Seen(Fail(d, err)) = Seen(Fail(Seen(d), err))
  BY DEF Document, Seen, Fail, Claimable, Exists, Moved, Emptied
<1>9. Seen(CompensateRetry(d)) = Seen(CompensateRetry(Seen(d)))
  BY DEF Document, Seen, CompensateRetry, Moved
<1>10. QED
  BY <1>1, <1>2, <1>3, <1>4, <1>5, <1>6, <1>7, <1>8, <1>9

\* Nor does the age make a difference to what may be done.
LEMMA SeenConditions ==
  ASSUME NEW d \in Document
  PROVE  /\ Seen(d) \in Document
         /\ Seen(d).status = d.status /\ Seen(d).content = d.content
         /\ Editable(Seen(d)) = Editable(d)
         /\ Retryable(Seen(d)) = Retryable(d)
         /\ Claimable(Seen(d)) = Claimable(d)
BY DEF Document, Seen, Editable, Retryable, Claimable, Exists

-----------------------------------------------------------------------------
(* Every such step keeps the promise.                                      *)

\* The operators of BriefDocuments are the same on both sides.
LEMMA SameUpdates ==
  ASSUME NEW b
  PROVE  /\ Lifecycle(b)!Unborn = Unborn /\ Lifecycle(b)!NewBrief = NewBrief
         /\ Lifecycle(b)!Deleted = Deleted
         /\ Lifecycle(b)!Outcomes = Outcomes /\ Lifecycle(b)!Errors = Errors
         /\ \A d : /\ Lifecycle(b)!Visible(d) = Seen(d)
                  /\ Lifecycle(b)!Editable(d) = Editable(d)
                  /\ Lifecycle(b)!Retryable(d) = Retryable(d)
                  /\ Lifecycle(b)!Claimable(d) = Claimable(d)
                  /\ Lifecycle(b)!Edited(d) = Edited(d)
                  /\ Lifecycle(b)!StartAttempt(d) = StartAttempt(d)
                  /\ Lifecycle(b)!PrepareRetry(d) = PrepareRetry(d)
                  /\ Lifecycle(b)!CompensateRetry(d) = CompensateRetry(d)
         /\ \A d, s : Lifecycle(b)!BackToPending(d, s) = BackToPending(d, s)
         /\ \A d, err : Lifecycle(b)!Fail(d, err) = Fail(d, err)
         /\ \A d, o, v : Lifecycle(b)!Complete(d, o, v) = Complete(d, o, v)
<1> USE DEF Lifecycle!Stored, Stored, Lifecycle!Exists, Exists,
      Lifecycle!Claimable, Claimable, Lifecycle!Moved, Moved, Lifecycle!Emptied, Emptied
<1>1. /\ Lifecycle(b)!Unborn = Unborn /\ Lifecycle(b)!NewBrief = NewBrief
      /\ Lifecycle(b)!Deleted = Deleted
      /\ Lifecycle(b)!Outcomes = Outcomes /\ Lifecycle(b)!Errors = Errors
  BY DEF Lifecycle!Unborn, Unborn, Lifecycle!NewBrief, NewBrief, Lifecycle!Deleted, Deleted,
    Lifecycle!Outcomes, Outcomes, Lifecycle!Errors, Errors
<1>2. ASSUME NEW d
      PROVE  /\ Lifecycle(b)!Visible(d) = Seen(d)
             /\ Lifecycle(b)!Editable(d) = Editable(d)
             /\ Lifecycle(b)!Retryable(d) = Retryable(d)
             /\ Lifecycle(b)!Claimable(d) = Claimable(d)
             /\ Lifecycle(b)!Edited(d) = Edited(d)
  BY DEF Lifecycle!Visible, Seen, Lifecycle!Editable, Editable, Lifecycle!Retryable, Retryable,
    Lifecycle!Edited, Edited
<1>3. ASSUME NEW d
      PROVE  /\ Lifecycle(b)!StartAttempt(d) = StartAttempt(d)
             /\ Lifecycle(b)!PrepareRetry(d) = PrepareRetry(d)
             /\ Lifecycle(b)!CompensateRetry(d) = CompensateRetry(d)
  BY DEF Lifecycle!StartAttempt, StartAttempt, Lifecycle!PrepareRetry, PrepareRetry,
    Lifecycle!CompensateRetry, CompensateRetry
<1>4. ASSUME NEW d, NEW s PROVE Lifecycle(b)!BackToPending(d, s) = BackToPending(d, s)
  BY DEF Lifecycle!BackToPending, BackToPending, Lifecycle!RetryMatches, RetryMatches,
    Lifecycle!Retryable, Retryable
<1>5. ASSUME NEW d, NEW err PROVE Lifecycle(b)!Fail(d, err) = Fail(d, err)
  BY DEF Lifecycle!Fail, Fail
<1>6. ASSUME NEW d, NEW o, NEW v PROVE Lifecycle(b)!Complete(d, o, v) = Complete(d, o, v)
  BY DEF Lifecycle!Complete, Complete
<1>7. QED
  BY <1>1, <1>2, <1>3, <1>4, <1>5, <1>6

\* What a user sees of a move is a step of BriefLifecycle, or nothing.
LEMMA MovesAreSteps ==
  ASSUME NEW b \in Briefs, doc[b] \in Document, doc[b].status = "UNBORN" => doc[b] = Unborn,
         Moves(doc[b], doc'[b], UnderAnalysis(b), UnderAnalysis(b)')
  PROVE  Lifecycle(b)!Step
<1> DEFINE d == doc[b]
           d1 == doc'[b]
           a == UnderAnalysis(b)
           a1 == UnderAnalysis(b)'
           D == [d EXCEPT !.stale = FALSE]
           D1 == [d1 EXCEPT !.stale = FALSE]
<1>0. D = Seen(d) /\ D1 = Seen(d1)
  BY DEF Seen
<1>1. /\ D.status = d.status /\ D.content = d.content
      /\ Editable(D) = Editable(d) /\ Retryable(D) = Retryable(d)
      /\ Claimable(D) = Claimable(d)
  BY <1>0, SeenConditions
<1>u. /\ Seen(Edited(d)) = Seen(Edited(D))
      /\ Seen(StartAttempt(d)) = Seen(StartAttempt(D))
      /\ Seen(PrepareRetry(d)) = Seen(PrepareRetry(D))
      /\ Seen(CompensateRetry(d)) = Seen(CompensateRetry(D))
  <2>1. /\ Seen(Edited(d)) = Seen(Edited(Seen(d)))
        /\ Seen(StartAttempt(d)) = Seen(StartAttempt(Seen(d)))
        /\ Seen(PrepareRetry(d)) = Seen(PrepareRetry(Seen(d)))
        /\ Seen(CompensateRetry(d)) = Seen(CompensateRetry(Seen(d)))
    BY UpdatesAreSeen
  <2>2. QED
    BY <1>0, <2>1
<1>2. CASE d1 = d /\ a1 \in {a, 0}
  BY <1>2 DEF Lifecycle!Step, Lifecycle!Next, Lifecycle!Abandon, Lifecycle!Nothing
<1>3. CASE d.status = "PENDING" /\ d1 = [d EXCEPT !.stale = TRUE] /\ a1 = a
  <2>1. D1 = D
    BY <1>0, <1>3, UpdatesAreSeen
  <2>2. QED
    BY <1>3, <2>1 DEF Lifecycle!Step
<1>4. CASE d.status = "UNBORN" /\ d1 = NewBrief /\ a1 = a
  <2>1. D = Unborn
    <3>1. d = Unborn
      BY <1>4
    <3>2. Unborn \in Document /\ Unborn.stale = FALSE
      BY NewDocuments DEF Unborn
    <3>3. ASSUME NEW u \in Document, u.stale = FALSE PROVE [u EXCEPT !.stale = FALSE] = u
      BY <3>3 DEF Document
    <3>4. QED
      BY <3>1, <3>2, <3>3
  <2>2. D1 = Seen(NewBrief)
    BY <1>0, <1>4
  <2>3. Lifecycle(b)!Submit
    BY <1>4, <2>1, <2>2, SameUpdates DEF Lifecycle!Submit, Lifecycle!Becomes
  <2>4. QED
    BY <2>3 DEF Lifecycle!Step, Lifecycle!Next
<1>5. CASE Editable(d) /\ a = 0 /\ d1 \in {Edited(d), Deleted} /\ a1 = a
  <2>1. D1 \in {Seen(Edited(D)), Seen(Deleted)}
    BY <1>0, <1>u, <1>5
  <2>2. D1 = Seen(Edited(D)) => Lifecycle(b)!Edit
    BY <1>1, <1>5, SameUpdates
    DEF Lifecycle!Edit, Lifecycle!Becomes, Lifecycle!Nothing
  <2>3. D1 = Seen(Deleted) => Lifecycle(b)!Remove
    BY <1>1, <1>5, SameUpdates
    DEF Lifecycle!Remove, Lifecycle!Becomes, Lifecycle!Nothing
  <2>4. QED
    BY <2>1, <2>2, <2>3 DEF Lifecycle!Step, Lifecycle!Next
<1>6. CASE Retryable(d) /\ d1 = BackToPending(d, d.status) /\ a1 = a
  <2>1. D1 = Seen(BackToPending(D, D.status))
    <3>1. \A s : Seen(BackToPending(d, s)) = Seen(BackToPending(Seen(d), s))
      BY UpdatesAreSeen
    <3>2. QED
      BY <1>0, <1>1, <1>6, <3>1
  <2>2. Lifecycle(b)!BackToPending(D, D.status) = BackToPending(D, D.status)
    BY SameUpdates
  <2>3. Lifecycle(b)!Resubmit
    BY <1>1, <1>6, <2>1, <2>2, SameUpdates DEF Lifecycle!Resubmit, Lifecycle!Becomes
  <2>4. QED
    BY <2>3 DEF Lifecycle!Step, Lifecycle!Next
<1>7. CASE Claimable(d) /\ a = 0 /\ d1 = StartAttempt(d) /\ a1 \in {0, d.content}
  <2>1. D1 = Seen(StartAttempt(D))
    BY <1>0, <1>u, <1>7
  <2>2. Lifecycle(b)!Claim
    BY <1>1, <1>7, <2>1, SameUpdates DEF Lifecycle!Claim, Lifecycle!Nothing
  <2>3. QED
    BY <2>2 DEF Lifecycle!Step, Lifecycle!Next
<1>8. CASE /\ d.status = "PROCESSING" /\ a = d.content /\ a1 = 0
           /\ \E outcome \in Outcomes : d1 = Complete(d, outcome, a)
  <2>1. PICK outcome \in Outcomes : d1 = Complete(d, outcome, a)
    BY <1>8
  <2>2. D1 = Seen(Complete(D, outcome, a))
    <3>1. \A o, v : Seen(Complete(d, o, v)) = Seen(Complete(Seen(d), o, v))
      BY UpdatesAreSeen
    <3>2. QED
      BY <1>0, <2>1, <3>1
  <2>3. Lifecycle(b)!Finish
    BY <1>1, <1>8, <2>2, SameUpdates DEF Lifecycle!Finish, Lifecycle!Nothing
  <2>4. QED
    BY <2>3 DEF Lifecycle!Step, Lifecycle!Next
<1>9. CASE d.status = "PROCESSING" /\ a = 0 /\ d1 = PrepareRetry(d) /\ a1 = a
  <2>1. D1 = Seen(PrepareRetry(D))
    BY <1>0, <1>u, <1>9
  <2>2. Lifecycle(b)!GiveBack
    BY <1>1, <1>9, <2>1, SameUpdates DEF Lifecycle!GiveBack, Lifecycle!Becomes, Lifecycle!Nothing
  <2>3. QED
    BY <2>2 DEF Lifecycle!Step, Lifecycle!Next
<1>10. CASE /\ Claimable(d) /\ a = 0 /\ a1 = a
            /\ \E error \in Errors : d1 = Fail(d, error)
  <2>1. PICK error \in Errors : d1 = Fail(d, error)
    BY <1>10
  <2>2. D1 = Seen(Fail(D, error))
    <3>1. \A err : Seen(Fail(d, err)) = Seen(Fail(Seen(d), err))
      BY UpdatesAreSeen
    <3>2. QED
      BY <1>0, <2>1, <3>1
  <2>3. Lifecycle(b)!Fail(D, error) = Fail(D, error) /\ error \in Lifecycle(b)!Errors
    BY <2>1, SameUpdates
  <2>4. Lifecycle(b)!GiveUp
    BY <1>1, <1>10, <2>2, <2>3, SameUpdates DEF Lifecycle!GiveUp, Lifecycle!Becomes, Lifecycle!Nothing
  <2>5. QED
    BY <2>4 DEF Lifecycle!Step, Lifecycle!Next
<1>11. CASE d.status = "PENDING" /\ d1 = CompensateRetry(d) /\ a1 = a
  <2>1. D1 = Seen(CompensateRetry(D))
    BY <1>0, <1>u, <1>11
  <2>2. Lifecycle(b)!Unpublished
    BY <1>1, <1>11, <2>1, SameUpdates DEF Lifecycle!Unpublished, Lifecycle!Becomes
  <2>3. QED
    BY <2>2 DEF Lifecycle!Step, Lifecycle!Next
<1>12. QED
  BY <1>2, <1>3, <1>4, <1>5, <1>6, <1>7, <1>8, <1>9, <1>10, <1>11 DEF Moves

\* No move undoes the creation of a brief.
LEMMA MovesFromUnborn ==
  ASSUME NEW d \in Document, NEW d1, NEW a, NEW a1, Moves(d, d1, a, a1),
         d1.status = "UNBORN"
  PROVE  d1 = d
<1>1. /\ NewBrief.status # "UNBORN" /\ Deleted.status # "UNBORN"
      /\ Edited(d).status = d.status /\ [d EXCEPT !.stale = TRUE].status = d.status
  BY DEF NewBrief, Deleted, Unborn, Edited, Document
<1>2. /\ StartAttempt(d).status \in {"PROCESSING", d.status}
      /\ PrepareRetry(d).status \in {"PENDING", d.status}
      /\ CompensateRetry(d).status \in {"FAILED", d.status}
      /\ \A s : BackToPending(d, s).status \in {"PENDING", d.status}
      /\ \A error : Fail(d, error).status \in {"FAILED", d.status}
      /\ \A o, v : Complete(d, o, v).status \in {"COMPLETED", d.status}
  BY DEF StartAttempt, PrepareRetry, CompensateRetry, BackToPending, Fail, Complete,
    Moved, Emptied, Document
<1>3. /\ Editable(d) \/ Claimable(d) \/ Retryable(d) => d.status # "UNBORN"
  BY DEF Editable, Claimable, Retryable, Exists, Stored
<1>4. CASE d.status = "UNBORN"
  BY <1>1, <1>3, <1>4 DEF Moves
<1>5. CASE d.status # "UNBORN"
  <2>1. ~(\E outcome \in Outcomes : d1 = Complete(d, outcome, a))
    BY <1>2, <1>5
  <2>2. ~(\E error \in Errors : d1 = Fail(d, error))
    BY <1>2, <1>5
  <2>3. /\ d1 # StartAttempt(d) /\ d1 # PrepareRetry(d) /\ d1 # CompensateRetry(d)
        /\ d1 # BackToPending(d, d.status)
    BY <1>2, <1>5
  <2>4. QED
    BY <1>1, <1>5, <2>1, <2>2, <2>3 DEF Moves
<1>6. QED
  BY <1>4, <1>5

-----------------------------------------------------------------------------
(* Every step of the pipeline moves every brief.                           *)

\* When an execution at work on b makes a step, its claim is the only one of b.
LEMMA AnalysisAfterStep ==
  ASSUME ClaimInv, ClaimInv', NEW e \in Executions, NEW b \in Briefs,
         exec[e].pc # "idle", exec[e].brief = b,
         \A f \in Executions \ {e} : exec'[f] = exec[f]
  PROVE  /\ Claims(exec', e, b) => UnderAnalysis(b)' = exec'[e].seen
         /\ ~Claims(exec', e, b) => UnderAnalysis(b)' = 0
<1>1. \A f \in Executions \ {e} : ~Claims(exec', f, b)
  BY ClaimedOnce DEF ClaimInv, Claims
<1>2. QED
  BY <1>1, AnalysisNext

\* Of a brief that an execution does not work on, its step changes nothing.
LEMMA ExecutionMovesNoOther ==
  ASSUME ClaimInv, ClaimInv', NEW e \in Executions, NEW b \in Briefs,
         ExecutionStep(e) \/ DatabaseError(e)
  PROVE  /\ exec[e].pc # "idle"
         /\ \A f \in Executions \ {e} : exec'[f] = exec[f]
         /\ exec[e].brief # b =>
              Moves(doc[b], doc'[b], UnderAnalysis(b), UnderAnalysis(b)')
<1>0. exec \in [Executions -> Execution] /\ doc \in [Briefs -> Document]
  BY DEF ClaimInv, CreateInv, TypeInv, TypedDocs, SoundExecutions
<1>1. exec[e].pc # "idle"
  BY DEF ExecutionStep, ClaimBrief, MissBrief, RecheckBrief, AnalyzeBrief, CompleteBrief,
    PersistFailure, SettleJob, DatabaseError, At
<1>2. \A f \in Executions \ {e} : exec'[f] = exec[f]
  BY <1>0 DEF ExecutionStep, ClaimBrief, MissBrief, RecheckBrief, AnalyzeBrief,
    CompleteBrief, PersistFailure, SettleJob, DatabaseError, Goto
<1>3. ASSUME exec[e].brief # b
      PROVE  Moves(doc[b], doc'[b], UnderAnalysis(b), UnderAnalysis(b)')
  <2>1. doc'[b] = doc[b]
    BY <1>0, <1>3 DEF ExecutionStep, ClaimBrief, MissBrief, RecheckBrief, AnalyzeBrief,
      CompleteBrief, PersistFailure, SettleJob, DatabaseError, Write
  <2>2. ~Claims(exec', e, b)
    BY <1>0, <1>3 DEF ExecutionStep, ClaimBrief, MissBrief, RecheckBrief, AnalyzeBrief,
      CompleteBrief, PersistFailure, SettleJob, DatabaseError, Goto, Execution,
      IdleExecution, Claims
  <2>3. \A f \in Executions : Claims(exec', f, b) =>
          Claims(exec, f, b) /\ exec'[f].seen = exec[f].seen
    BY <1>2, <2>2 DEF Claims
  <2>4. UnderAnalysis(b)' \in {UnderAnalysis(b), 0}
    BY <2>3, AnalysisNext
  <2>5. QED
    BY <2>1, <2>4 DEF Moves
<1>4. QED
  BY <1>1, <1>2, <1>3

\* startAttempt claims a brief that is not under analysis.
LEMMA ClaimMoves ==
  ASSUME ClaimInv, ClaimInv', NEW e \in Executions, NEW b \in Briefs,
         exec[e].brief = b, exec[e].pc = "start",
         doc'[b] \in {doc[b], StartAttempt(doc[b])},
         UnderAnalysis(b)' \in {0, doc[b].content},
         doc'[b] = doc[b] => UnderAnalysis(b)' = 0
  PROVE  Moves(doc[b], doc'[b], UnderAnalysis(b), UnderAnalysis(b)')
<1>1. UnderAnalysis(b) = 0
  BY AnalysisNow
<1>2. ~Claimable(doc[b]) => StartAttempt(doc[b]) = doc[b]
  BY DEF StartAttempt
<1>3. CASE doc'[b] = doc[b]
  BY <1>3 DEF Moves
<1>4. CASE Claimable(doc[b]) /\ doc'[b] = StartAttempt(doc[b])
  BY <1>1, <1>4 DEF Moves
<1>5. QED
  BY <1>2, <1>3, <1>4

\* The catch block gives up or gives back a brief that is not under analysis.
LEMMA FailureMoves ==
  ASSUME ClaimInv, NEW e \in Executions, NEW b \in Briefs,
         exec[e].brief = b, exec[e].pc = "catch",
         doc'[b] \in {doc[b], FailureWrite(exec[e])}, UnderAnalysis(b)' = 0
  PROVE  Moves(doc[b], doc'[b], UnderAnalysis(b), UnderAnalysis(b)')
<1>1. UnderAnalysis(b) = 0
  BY AnalysisNow
<1>2. exec[e].verdict \in Errors
  BY DEF ClaimInv, CreateInv, TypeInv, SoundExecutions, SoundExecution
<1>3. FailureWrite(exec[e]) \in {PrepareRetry(doc[b]), Fail(doc[b], exec[e].verdict)}
  BY DEF FailureWrite
<1>4. /\ doc[b].status # "PROCESSING" => PrepareRetry(doc[b]) = doc[b]
      /\ ~Claimable(doc[b]) => Fail(doc[b], exec[e].verdict) = doc[b]
  BY DEF PrepareRetry, Fail
<1>5. CASE doc'[b] = doc[b]
  BY <1>5 DEF Moves
<1>6. CASE doc[b].status = "PROCESSING" /\ doc'[b] = PrepareRetry(doc[b])
  BY <1>1, <1>6 DEF Moves
<1>7. CASE Claimable(doc[b]) /\ doc'[b] = Fail(doc[b], exec[e].verdict)
  BY <1>1, <1>2, <1>7 DEF Moves
<1>8. QED
  BY <1>3, <1>4, <1>5, <1>6, <1>7

\* complete brings the analysis it ends, and no other, to the document.
LEMMA CompleteMoves ==
  ASSUME ClaimInv, NEW e \in Executions, NEW b \in Briefs,
         exec[e].brief = b, exec[e].pc = "complete",
         doc'[b] \in {doc[b], Complete(doc[b], exec[e].verdict, exec[e].seen)},
         UnderAnalysis(b)' = 0
  PROVE  Moves(doc[b], doc'[b], UnderAnalysis(b), UnderAnalysis(b)')
<1>1. /\ UnderAnalysis(b) = exec[e].seen
      /\ doc[b].status = "PROCESSING" /\ doc[b].content = exec[e].seen
  BY AnalysisNow DEF Claims
<1>2. exec[e].verdict \in Outcomes
  BY DEF ClaimInv, CreateInv, TypeInv, SoundExecutions, SoundExecution
<1>3. CASE doc'[b] = doc[b]
  BY <1>3 DEF Moves
<1>4. CASE doc'[b] = Complete(doc[b], exec[e].verdict, exec[e].seen)
  BY <1>1, <1>2, <1>4 DEF Moves
<1>5. QED
  BY <1>3, <1>4

\* Every step of an execution moves the brief it works on.
LEMMA ExecutionMoves ==
  ASSUME ClaimInv, ClaimInv', NEW e \in Executions, NEW b \in Briefs,
         ExecutionStep(e) \/ DatabaseError(e)
  PROVE  Moves(doc[b], doc'[b], UnderAnalysis(b), UnderAnalysis(b)')
<1>0. exec \in [Executions -> Execution] /\ doc \in [Briefs -> Document]
  BY DEF ClaimInv, CreateInv, TypeInv, TypedDocs, SoundExecutions
<1>1. SUFFICES ASSUME exec[e].brief = b
               PROVE  Moves(doc[b], doc'[b], UnderAnalysis(b), UnderAnalysis(b)')
  BY ExecutionMovesNoOther
<1>2. /\ Claims(exec', e, b) => UnderAnalysis(b)' = exec'[e].seen
      /\ ~Claims(exec', e, b) => UnderAnalysis(b)' = 0
  BY <1>1, ExecutionMovesNoOther, AnalysisAfterStep
<1>3. CASE ClaimBrief(e)
  <2>1. /\ exec[e].pc = "start" /\ doc'[b] = StartAttempt(doc[b]) /\ Claimable(doc[b])
        /\ exec'[e].seen = doc[b].content
        /\ exec'[e].pc = "analyze" /\ exec'[e].brief = b
    BY <1>0, <1>1, <1>3 DEF ClaimBrief, At, Write, Execution
  <2>2. UnderAnalysis(b)' = doc[b].content /\ UnderAnalysis(b) = 0
    BY <1>1, <1>2, <2>1, AnalysisNow DEF Claims
  <2>3. QED
    BY <2>1, <2>2 DEF Moves
<1>4. CASE AnalyzeBrief(e)
  <2>1. /\ doc' = doc /\ Claims(exec, e, b) /\ exec'[e].seen = exec[e].seen
    BY <1>0, <1>1, <1>4 DEF AnalyzeBrief, At, Goto, Execution, Claims
  <2>2. UnderAnalysis(b)' \in {UnderAnalysis(b), 0}
    BY <1>2, <2>1, AnalysisNow
  <2>3. QED
    BY <2>1, <2>2 DEF Moves
<1>5. CASE MissBrief(e) \/ RecheckBrief(e) \/ SettleJob(e)
  <2>1. doc' = doc /\ ~Claims(exec', e, b)
    BY <1>0, <1>1, <1>5 DEF MissBrief, RecheckBrief, SettleJob, Goto, IdleExecution,
      Execution, Claims
  <2>2. QED
    BY <1>2, <2>1 DEF Moves
<1>6. CASE CompleteBrief(e)
  <2>1. /\ exec[e].pc = "complete" /\ ~Claims(exec', e, b)
        /\ doc'[b] = Complete(doc[b], exec[e].verdict, exec[e].seen)
    BY <1>0, <1>1, <1>6 DEF CompleteBrief, At, Write, Goto, Execution, Claims
  <2>2. QED
    BY <1>1, <1>2, <2>1, CompleteMoves
<1>7. CASE PersistFailure(e)
  <2>1. /\ exec[e].pc = "catch" /\ ~Claims(exec', e, b)
        /\ doc'[b] = FailureWrite(exec[e])
    BY <1>0, <1>1, <1>7 DEF PersistFailure, At, Write, Execution, Claims
  <2>2. QED
    BY <1>1, <1>2, <2>1, FailureMoves
<1>8. CASE DatabaseError(e)
  <2>1. ~Claims(exec', e, b)
    BY <1>0, <1>1, <1>8 DEF DatabaseError, Goto, Execution, Claims
  <2>2. UnderAnalysis(b)' = 0
    BY <1>2, <2>1
  <2>3. CASE exec[e].pc = "start"
    <3>1. doc'[b] \in {doc[b], StartAttempt(doc[b])}
      BY <1>0, <1>1, <1>8, <2>3 DEF DatabaseError, Write
    <3>2. QED
      BY <1>1, <2>2, <2>3, <3>1, ClaimMoves
  <2>4. CASE exec[e].pc = "complete"
    <3>1. doc'[b] \in {doc[b], Complete(doc[b], exec[e].verdict, exec[e].seen)}
      BY <1>0, <1>1, <1>8, <2>4 DEF DatabaseError, Write
    <3>2. QED
      BY <1>1, <2>2, <2>4, <3>1, CompleteMoves
  <2>5. CASE exec[e].pc = "catch"
    <3>1. doc'[b] \in {doc[b], FailureWrite(exec[e])}
      BY <1>0, <1>1, <1>8, <2>5 DEF DatabaseError, Write
    <3>2. QED
      BY <1>1, <2>2, <2>5, <3>1, FailureMoves
  <2>6. CASE exec[e].pc = "recheck"
    <3>1. doc'[b] = doc[b]
      BY <1>0, <1>1, <1>8, <2>6 DEF DatabaseError, Write
    <3>2. QED
      BY <2>2, <3>1 DEF Moves
  <2>7. QED
    BY <1>8, <2>3, <2>4, <2>5, <2>6 DEF DatabaseError
<1>9. QED
  BY <1>3, <1>4, <1>5, <1>6, <1>7, <1>8 DEF ExecutionStep

\* The queue and the crashes of a worker change no document, and begin no
\* analysis.
LEMMA WorkerMoves ==
  ASSUME ClaimInv, ClaimInv', WorkerNext, NEW b \in Briefs
  PROVE  Moves(doc[b], doc'[b], UnderAnalysis(b), UnderAnalysis(b)')
<1>0. exec \in [Executions -> Execution]
  BY DEF ClaimInv, CreateInv, TypeInv, SoundExecutions
<1>1. ASSUME doc' = doc,
             \A f \in Executions : exec'[f] = exec[f] \/ exec'[f].pc \in {"idle", "start"}
      PROVE  Moves(doc[b], doc'[b], UnderAnalysis(b), UnderAnalysis(b)')
  <2>1. \A f \in Executions : Claims(exec', f, b) =>
          Claims(exec, f, b) /\ exec'[f].seen = exec[f].seen
    BY <1>1 DEF Claims
  <2>2. QED
    BY <1>1, <2>1, AnalysisNext DEF Moves
<1>2. CASE \E e \in Executions, c \in Briefs : TakeJob(e, c)
  <2>1. doc' = doc
    BY <1>2 DEF TakeJob
  <2>2. \A f \in Executions : exec'[f] = exec[f] \/ exec'[f].pc \in {"idle", "start"}
    BY <1>0, <1>2 DEF TakeJob, IdleExecution
  <2>3. QED
    BY <1>1, <2>1, <2>2
<1>3. CASE \E c \in Briefs : \/ PromoteJob(c) \/ OrphanLockExpires(c) \/ LockLost(c)
                             \/ StalledCheck(c) \/ TrimJob(c)
  BY <1>1, <1>3 DEF PromoteJob, OrphanLockExpires, LockLost, StalledCheck, TrimJob
<1>4. CASE \E w \in Workers : WorkerCrash(w)
  <2>1. doc' = doc
    BY <1>4 DEF WorkerCrash
  <2>2. \A f \in Executions : exec'[f] = exec[f] \/ exec'[f].pc \in {"idle", "start"}
    BY <1>4 DEF WorkerCrash, IdleExecution
  <2>3. QED
    BY <1>1, <2>1, <2>2
<1>5. QED
  BY <1>2, <1>3, <1>4, ExecutionMoves DEF WorkerNext

\* The requests of users, the compensations of the API and the passing of time
\* move a brief only when it is not under analysis.
LEMMA ApiMoves ==
  ASSUME ClaimInv, ApiNext, NEW b \in Briefs
  PROVE  Moves(doc[b], doc'[b], UnderAnalysis(b), UnderAnalysis(b)')
<1>0. doc \in [Briefs -> Document]
  BY DEF ClaimInv, CreateInv, TypeInv, TypedDocs
<1>1. UNCHANGED exec
  BY DEF ApiNext, RequestStep, CreateBrief, Enqueue, EnqueueThrows, CompensateCreateWrite,
    ReadForRetry, RetryWrite, RetryRemove, RetryAdd, RetryThrows, CompensateRetryWrite,
    UpdateBrief, RemoveBrief, RemoveJob, Age, ApiCrash
<1>2. UnderAnalysis(b)' = UnderAnalysis(b)
  BY <1>1, AnalysisNowAndNext
<1>3. Editable(doc[b]) => UnderAnalysis(b) = 0
  BY AnalysisNow DEF Editable
<1>4. doc'[b] = doc[b] => Moves(doc[b], doc'[b], UnderAnalysis(b), UnderAnalysis(b)')
  BY <1>2 DEF Moves
<1>5. ASSUME NEW r \in Requests, RequestStep(r)
      PROVE  Moves(doc[b], doc'[b], UnderAnalysis(b), UnderAnalysis(b)')
  <2>1. CASE CompensateCreateWrite(r) /\ req[r].brief = b
    <3>1. doc[b].status \in {"PENDING", "DELETED"}
      BY <2>1 DEF ClaimInv, CreateInv, CreateIsAlone, Creates, CompensateCreateWrite, Waits
    <3>2. doc'[b] = CompensateCreate(doc[b])
      BY <1>0, <2>1 DEF CompensateCreateWrite, Store
    <3>3. /\ doc[b].status = "PENDING" => CompensateCreate(doc[b]) = CompensateRetry(doc[b])
          /\ doc[b].status = "DELETED" => CompensateCreate(doc[b]) = doc[b]
      BY DEF CompensateCreate, CompensateRetry, Exists, Stored
    <3>4. QED
      BY <1>2, <1>4, <3>1, <3>2, <3>3 DEF Moves
  <2>2. CASE RetryWrite(r) /\ req[r].brief = b
    <3>1. doc'[b] = BackToPending(doc[b], req[r].read)
      BY <1>0, <2>2 DEF RetryWrite, Store
    <3>2. CASE RetryMatches(doc[b], req[r].read)
      <4>1. Retryable(doc[b]) /\ doc'[b] = BackToPending(doc[b], doc[b].status)
        BY <3>1, <3>2 DEF RetryMatches
      <4>2. QED
        BY <1>2, <4>1 DEF Moves
    <3>3. CASE ~RetryMatches(doc[b], req[r].read)
      BY <1>4, <3>1, <3>3 DEF BackToPending
    <3>4. QED
      BY <3>2, <3>3
  <2>3. CASE CompensateRetryWrite(r) /\ req[r].brief = b
    <3>1. doc'[b] = CompensateRetry(doc[b])
      BY <1>0, <2>3 DEF CompensateRetryWrite, Store
    <3>2. doc[b].status # "PENDING" => CompensateRetry(doc[b]) = doc[b]
      BY DEF CompensateRetry
    <3>3. QED
      BY <1>2, <1>4, <3>1, <3>2 DEF Moves
  <2>4. CASE req[r].brief # b \/ UNCHANGED doc
    <3>1. doc'[b] = doc[b]
      BY <1>0, <1>5, <2>4 DEF RequestStep, Enqueue, EnqueueThrows, CompensateCreateWrite,
        RetryWrite, RetryRemove, RetryAdd, RetryThrows, CompensateRetryWrite, RemoveJob, Store
    <3>2. QED
      BY <1>4, <3>1
  <2>5. QED
    BY <1>5, <2>1, <2>2, <2>3, <2>4 DEF RequestStep, Enqueue, EnqueueThrows, RetryRemove,
      RetryAdd, RetryThrows, RemoveJob
<1>6. ASSUME NEW r \in Requests, NEW c \in Briefs,
             CreateBrief(r, c) \/ ReadForRetry(r, c) \/ RemoveBrief(r, c)
      PROVE  Moves(doc[b], doc'[b], UnderAnalysis(b), UnderAnalysis(b)')
  <2>1. \/ doc'[b] = doc[b]
        \/ doc[b].status = "UNBORN" /\ doc'[b] = NewBrief
        \/ Editable(doc[b]) /\ doc'[b] = Deleted
    BY <1>0, <1>6 DEF CreateBrief, ReadForRetry, RemoveBrief, Store
  <2>2. QED
    BY <1>2, <1>3, <1>4, <2>1 DEF Moves
<1>7. ASSUME NEW c \in Briefs, UpdateBrief(c) \/ Age(c)
      PROVE  Moves(doc[b], doc'[b], UnderAnalysis(b), UnderAnalysis(b)')
  <2>1. \/ doc'[b] = doc[b]
        \/ Editable(doc[b]) /\ doc'[b] = Edited(doc[b])
        \/ doc[b].status = "PENDING" /\ doc'[b] = [doc[b] EXCEPT !.stale = TRUE]
    BY <1>0, <1>7 DEF UpdateBrief, Age, Store
  <2>2. QED
    BY <1>2, <1>3, <1>4, <2>1 DEF Moves
<1>8. CASE ApiCrash
  BY <1>4, <1>8 DEF ApiCrash
<1>9. QED
  BY <1>5, <1>6, <1>7, <1>8 DEF ApiNext

\* Every step of the pipeline moves every brief as BriefLifecycle allows.
LEMMA PipelineMoves ==
  ASSUME ClaimInv, ClaimInv', [Next]_vars, NEW b \in Briefs
  PROVE  Moves(doc[b], doc'[b], UnderAnalysis(b), UnderAnalysis(b)')
<1>1. CASE UNCHANGED <<doc, exec>>
  BY <1>1, AnalysisNowAndNext DEF Moves
<1>2. CASE ReconciliationNext \/ UNCHANGED vars
  BY <1>1, <1>2 DEF vars, ReconciliationNext, ListPending, GetJob, FinishCycle, GetState,
    RemoveTerminalJob, AddJob, CycleThrows
<1>3. QED
  BY <1>2, WorkerMoves, ApiMoves DEF Next

-----------------------------------------------------------------------------
\* An id that no create has drawn yet has no document.
UnbornIsEmpty == \A b \in Briefs : doc[b].status = "UNBORN" => doc[b] = Unborn

\* What the proof of the refinement carries from step to step.
LifecycleInv == ClaimInv /\ UnbornIsEmpty

\* LifecycleInv is inductive.
LEMMA LifecycleStep == LifecycleInv /\ [Next]_vars => LifecycleInv'
<1> SUFFICES ASSUME LifecycleInv, [Next]_vars PROVE LifecycleInv'
  OBVIOUS
<1>1. ClaimInv /\ ClaimInv'
  BY ClaimStep DEF LifecycleInv
<1>2. \A b \in Briefs : doc[b] \in Document
  BY <1>1 DEF ClaimInv, CreateInv, TypeInv, TypedDocs
<1>3. ASSUME NEW b \in Briefs, doc'[b].status = "UNBORN" PROVE doc'[b] = Unborn
  <2>1. doc'[b] = doc[b]
    BY <1>1, <1>2, <1>3, PipelineMoves, MovesFromUnborn
  <2>2. QED
    BY <1>3, <2>1 DEF LifecycleInv, UnbornIsEmpty
<1>4. QED
  BY <1>1, <1>3 DEF LifecycleInv, UnbornIsEmpty

\* The pipeline implements BriefLifecycle for every brief: whatever requests,
\* executions, jobs, cycles, crashes and failing calls do, what a user sees
\* follows its steps.
THEOREM LifecycleImplemented ==
  ASSUME Bounds["lostAnswer"] = 0, Bounds["lockLoss"] = 0
  PROVE  Spec => ImplementsLifecycle
<1>1. Init => LifecycleInv
  BY ClaimInit DEF Init, LifecycleInv, UnbornIsEmpty
<1>2. Init => \A b \in Briefs : Lifecycle(b)!Init
  <2> SUFFICES ASSUME Init, NEW b \in Briefs PROVE Lifecycle(b)!Init
    OBVIOUS
  <2>1. UnderAnalysis(b) = 0
    BY DEF Init, UnderAnalysis, IdleExecution
  <2>2. Unborn \in Document /\ Unborn.stale = FALSE
    BY NewDocuments DEF Unborn
  <2>3. ASSUME NEW u \in Document, u.stale = FALSE PROVE [u EXCEPT !.stale = FALSE] = u
    BY <2>3 DEF Document
  <2>4. [doc[b] EXCEPT !.stale = FALSE] = Unborn
    BY <2>2, <2>3 DEF Init
  <2>5. QED
    BY <2>1, <2>4, SameUpdates DEF Lifecycle!Init, Lifecycle!Nothing
<1>3. LifecycleInv /\ [Next]_vars => [\A b \in Briefs : Lifecycle(b)!Step]_vars
  <2> SUFFICES ASSUME LifecycleInv, [Next]_vars, NEW b \in Briefs PROVE Lifecycle(b)!Step
    OBVIOUS
  <2>1. ClaimInv /\ ClaimInv' /\ (doc[b].status = "UNBORN" => doc[b] = Unborn)
    BY ClaimStep DEF LifecycleInv, UnbornIsEmpty
  <2>2. doc[b] \in Document
    BY <2>1 DEF ClaimInv, CreateInv, TypeInv, TypedDocs
  <2>3. QED
    BY <2>1, <2>2, PipelineMoves, MovesAreSteps
<1>4. QED
  BY <1>1, <1>2, <1>3, LifecycleStep, PTL DEF Spec, ImplementsLifecycle

=============================================================================
