--------------------------- MODULE BriefDetailPage ---------------------------
(***************************************************************************)
(* The page of one brief (frontend/src/pages/BriefDetailPage.tsx), whose   *)
(* calls (frontend/src/api.ts) may be answered in any order and may be     *)
(* answered after the page was left.                                       *)
(***************************************************************************)
EXTENDS BriefEvents

CONSTANT Shown  \* the brief whose page it is

Acts == {"save", "remove", "retry"}

ASSUME PageAssumption == Shown \in Briefs /\ Loads \cap Acts = {}

VARIABLES
  view,       \* the brief the page has, or Unborn if it has none
  loading,    \* whether the page shows that it loads
  refreshing, \* whether its button to refresh is disabled
  error,      \* whether it shows an error
  editing,    \* whether the form is open
  call        \* its calls of the API

detailVars == <<view, loading, refreshing, error, editing, call>>

\* A call: what it asks for, where it stands, the brief it was answered with,
\* whether a retry follows (shouldReprocess), and whether its page is still open.
Call == [asks  : {"none", "mount", "load", "update", "retry", "remove"},
         state : {"sent", "answered", "failed"},
         doc   : Document,
         again : BOOLEAN,
         here  : BOOLEAN]

NoCall == [asks |-> "none", state |-> "sent", doc |-> Unborn, again |-> FALSE,
           here |-> FALSE]

DetailTypeOK ==
  /\ view \in Document
  /\ {loading, refreshing, error, editing} \subseteq BOOLEAN
  /\ call \in [Loads \cup Acts -> Call]

DetailInit ==
  /\ view = Unborn
  /\ loading = TRUE /\ refreshing = FALSE /\ error = FALSE /\ editing = FALSE
  /\ call = [c \in Loads \cup Acts |-> NoCall]

Free(c) == call[c].asks = "none"
Ask(asks, again) == [NoCall EXCEPT !.asks = asks, !.again = again, !.here = TRUE]
Sends(c, asks, again) == Free(c) /\ call' = [call EXCEPT ![c] = Ask(asks, again)]
Ended(c) == [call EXCEPT ![c] = NoCall]

\* A load that is not in flight, if there is one.
NextLoad ==
  IF \E c \in Loads : Free(c) THEN CHOOSE c \in Loads : Free(c)
                             ELSE CHOOSE c \in Loads : TRUE

-----------------------------------------------------------------------------
(* The API.                                                                *)

Answers(c, d) == call' = [call EXCEPT ![c].state = "answered", ![c].doc = d]
Refuses(c) == call' = [call EXCEPT ![c].state = "failed"] /\ UNCHANGED doc

\* An update that is applied to a brief d under a condition makes it after.
Update(c, condition, after) ==
  IF condition THEN Writes(Shown, after) /\ Answers(c, after) ELSE Refuses(c)

\* findOne, update, retry and remove of BriefsService.
ApiAnswers(c) ==
  /\ ~Free(c) /\ call[c].state = "sent"
  /\ LET d == doc[Shown] IN
     CASE call[c].asks \in {"mount", "load"} -> Update(c, Exists(d), d)
       [] call[c].asks = "update" -> Update(c, Editable(d), Edited(d))
       [] call[c].asks = "retry" -> Update(c, Retryable(d), BackToPending(d, d.status))
       [] call[c].asks = "remove" -> Update(c, Editable(d), Deleted)
  /\ UNCHANGED <<page, due, socketVars, left, view, loading, refreshing, error, editing>>

\* A call is aborted after ten seconds, or fails on the way: it has been applied
\* by then or never is.
CallFails(c) ==
  /\ ~Free(c) /\ call[c].state # "failed"
  /\ Spend("event") /\ Refuses(c)
  /\ UNCHANGED <<page, due, socketVars, view, loading, refreshing, error, editing>>

-----------------------------------------------------------------------------
(* What the page does by itself.                                           *)

\* What no step of the page alone changes.
unseen == <<page, doc, due>>
InProgress(d) == d.status \in {"PENDING", "PROCESSING"}

\* The effect of the first render.
Mounts == Sends(NextLoad, "mount", FALSE)

\* loadBrief(true): on the button, on an event of this brief, on the interval.
LoadBrief ==
  /\ Sends(NextLoad, "load", FALSE)
  /\ refreshing' = TRUE

\* mutant: nothing is loaded while a load is in flight
FollowsEventUnlessRefreshing ==
  IF Head(inbox) = Shown /\ ~refreshing THEN LoadBrief ELSE UNCHANGED <<call, refreshing>>

\* handleBriefUpdate.
FollowsEvent ==
  IF Head(inbox) = Shown THEN LoadBrief ELSE UNCHANGED <<call, refreshing>>

EventArrives ==
  /\ page = "detail" /\ inbox # <<>>
  /\ inbox' = Tail(inbox)
  /\ FollowsEvent
  /\ UNCHANGED <<unseen, socket, room, left, view, loading, error, editing>>

\* mutant: the page polls only if the gateway refused its socket
PollsIfRefused == socket = "refused" /\ InProgress(view)

\* The interval, while no socket is connected and the view is in progress.
Polls == socket # "connected" /\ InProgress(view)

Poll ==
  /\ page = "detail" /\ Polls
  /\ LoadBrief
  /\ UNCHANGED <<unseen, socketVars, left, view, loading, error, editing>>

\* mutant: a load that fails leaves the button to refresh disabled
LoadLandsWithoutFinally(c) ==
  /\ c \in Loads /\ ~Free(c) /\ call[c].state # "sent"
  /\ LET answered == call[c].state = "answered" IN
     /\ view' = IF answered THEN call[c].doc ELSE view
     /\ error' = ~answered
     /\ loading' = FALSE
     /\ refreshing' = IF call[c].asks = "load" /\ answered THEN FALSE ELSE refreshing
  /\ call' = Ended(c)
  /\ UNCHANGED <<unseen, socketVars, left, editing>>

\* A load is over: the last answer to come in is the one the page keeps.
LoadLands(c) ==
  /\ c \in Loads /\ ~Free(c) /\ call[c].state # "sent"
  /\ LET answered == call[c].state = "answered" IN
     /\ view' = IF answered THEN call[c].doc ELSE view
     /\ error' = ~answered
     /\ loading' = FALSE
     /\ refreshing' = IF call[c].asks = "load" THEN FALSE ELSE refreshing
  /\ call' = Ended(c)
  /\ UNCHANGED <<unseen, socketVars, left, editing>>

\* What an act that is over does to a page that is still open.
Shows(c) == IF call[c].here THEN view' = call[c].doc ELSE UNCHANGED view
Reports(c) == error' = (error \/ call[c].here)
ClosesForm(c) == editing' = (editing /\ ~call[c].here)

\* saveChanges: a result that asked for more context is followed by a retry,
\* and if either call fails by a load.
SaveLands ==
  /\ ~Free("save") /\ call["save"].state # "sent"
  /\ \/ /\ call["save"].state = "answered"
        /\ \/ /\ call["save"].asks = "update" /\ call["save"].again
              /\ call' = [call EXCEPT !["save"] = [@ EXCEPT !.asks = "retry", !.state = "sent"]]
              /\ UNCHANGED <<view, editing>>
           \/ /\ call["save"].asks = "retry" \/ ~call["save"].again
              /\ call' = Ended("save")
              /\ Shows("save") /\ ClosesForm("save")
        /\ UNCHANGED <<error, refreshing>>
     \/ /\ call["save"].state = "failed"
        /\ Reports("save")
        /\ IF call["save"].again /\ call["save"].here
             THEN /\ Free(NextLoad) /\ refreshing' = TRUE
                  /\ call' = [Ended("save") EXCEPT ![NextLoad] = Ask("load", FALSE)]
             ELSE call' = Ended("save") /\ UNCHANGED refreshing
        /\ UNCHANGED <<view, editing>>
  /\ UNCHANGED <<unseen, socketVars, left, loading>>

\* retryProcessing.
RetryLands ==
  /\ ~Free("retry") /\ call["retry"].state # "sent"
  /\ call' = Ended("retry")
  /\ IF call["retry"].state = "answered"
       THEN Shows("retry") /\ UNCHANGED error
       ELSE Reports("retry") /\ UNCHANGED view
  /\ UNCHANGED <<unseen, socketVars, left, loading, refreshing, editing>>

\* removeBrief failed; onDeleted is an action of Frontend.
RemoveFails ==
  /\ call["remove"].state = "failed"
  /\ call' = Ended("remove") /\ Reports("remove")
  /\ UNCHANGED <<unseen, socketVars, left, view, loading, refreshing, editing>>

-----------------------------------------------------------------------------
(* What the user does on the page, once it has a brief.                    *)

Rendered == page = "detail" /\ ~loading /\ view # Unborn

StartEditing ==
  /\ Rendered /\ ~editing /\ Free("remove")
  /\ editing' = TRUE /\ error' = FALSE
  /\ UNCHANGED <<unseen, socketVars, left, view, loading, refreshing, call>>

CancelEditing ==
  /\ Rendered /\ editing /\ Free("save")
  /\ editing' = FALSE
  /\ UNCHANGED <<unseen, socketVars, left, view, loading, refreshing, error, call>>

\* What asks the API for something.
Clicks ==
  /\ Rendered /\ Spend("event")
  /\ UNCHANGED <<unseen, socketVars, view, loading>>

Refresh ==
  Clicks /\ ~refreshing /\ LoadBrief /\ UNCHANGED <<error, editing>>

Begins(act, asks, again) ==
  Sends(act, asks, again) /\ error' = FALSE /\ UNCHANGED <<refreshing, editing>>

SaveChanges ==
  Clicks /\ editing /\ Begins("save", "update", view.outcome = "INSUFFICIENT_BRIEF")

RemoveBrief == Clicks /\ Begins("remove", "remove", FALSE)

RetryProcessing ==
  /\ Clicks /\ view.status = "FAILED" /\ view.error = "retryable"
  /\ Begins("retry", "retry", FALSE)

\* The page is left: its loads have nobody to answer to, its acts go on.
Unmounted ==
  [c \in Loads \cup Acts |->
     IF c \in Loads THEN NoCall ELSE [call[c] EXCEPT !.here = FALSE]]

CallStep(c) == ApiAnswers(c) \/ CallFails(c) \/ LoadLands(c)
ActLands == SaveLands \/ RetryLands \/ RemoveFails

DetailNext ==
  \/ \E c \in Loads \cup Acts : CallStep(c)
  \/ ActLands \/ EventArrives \/ Poll
  \/ Refresh \/ StartEditing \/ CancelEditing
  \/ SaveChanges \/ RemoveBrief \/ RetryProcessing

=============================================================================
