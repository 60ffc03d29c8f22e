------------------------------ MODULE Frontend ------------------------------
(***************************************************************************)
(* A browser with the pages of the briefs, and what they show of briefs    *)
(* that the worker and other users write meanwhile                         *)
(* (frontend/src/App.tsx).                                                 *)
(***************************************************************************)
EXTENDS BriefDetailPage, BriefListPage

frontVars == <<page, briefVars, socketVars, left, detailVars, listVars>>

\* Every variable keeps to its type.
FrontTypeOK == EventsTypeOK /\ DetailTypeOK /\ ListTypeOK

Init == EventsInit /\ DetailInit /\ ListInit

-----------------------------------------------------------------------------
(* The page that is left loses its state, and its socket is closed; the    *)
(* one that is opened begins with its first load and its own socket.       *)

ListReset ==
  /\ filter' = "all" /\ number' = 1 /\ response' = NoListing
  /\ waiting' = TRUE /\ reloading' = FALSE /\ failed' = FALSE

DetailReset ==
  /\ view' = Unborn
  /\ loading' = TRUE /\ refreshing' = FALSE /\ error' = FALSE /\ editing' = FALSE

OpenList ==
  /\ page = "none" /\ page' = "list" /\ Spend("visit")
  /\ Requests("all", 1) /\ OpenSocket
  /\ UNCHANGED <<briefVars, response, failed, detailVars>>

OpenDetail ==
  /\ page = "none" /\ page' = "detail" /\ Spend("visit")
  /\ Mounts /\ OpenSocket
  /\ UNCHANGED <<briefVars, view, loading, refreshing, error, editing, listVars>>

Leave ==
  /\ page # "none" /\ page' = "none"
  /\ ListReset /\ load' = [l \in Loads |-> NoLoad]
  /\ DetailReset /\ call' = Unmounted
  /\ CloseSocket
  /\ UNCHANGED <<briefVars, left>>

\* onDeleted: wherever the user is by now, the list is opened.
RemoveLands ==
  /\ ~Free("remove") /\ call["remove"].state = "answered"
  /\ IF page = "list"
       THEN call' = Ended("remove") /\ UNCHANGED <<page, socketVars, view, loading, refreshing, error, editing, listVars>>
       ELSE /\ page' = "list"
            /\ DetailReset /\ call' = [Unmounted EXCEPT !["remove"] = NoCall]
            /\ Requests("all", 1) /\ UNCHANGED <<response, failed>>
            /\ socket' = "connecting" /\ room' = "none" /\ inbox' = <<>>
  /\ UNCHANGED <<briefVars, left>>

Navigates == OpenList \/ OpenDetail \/ Leave \/ RemoveLands

\* Steps that leave the pages, the list or the page of the brief alone.
Outside(A) == A /\ UNCHANGED <<page, detailVars, listVars>>
OnDetail(A) == A /\ UNCHANGED listVars
OnList(A) == A /\ UNCHANGED detailVars

Next ==
  \/ Outside(EventsNext)
  \/ OnDetail(DetailNext)
  \/ OnList(ListNext)
  \/ Navigates

Spec == Init /\ [][Next]_frontVars

\* What happens to a load and to an act until it is over, unless it fails.
LoadsMove ==
  \/ OnDetail(\E l \in Loads : ApiAnswers(l) \/ LoadLands(l))
  \/ OnList(\E l \in Loads : ApiReads(l) \/ ListLands(l))
ActsMove == OnDetail((\E c \in Acts : ApiAnswers(c)) \/ ActLands) \/ RemoveLands

\* Intervals fire, the API answers, the page handles what comes in, and a
\* connection that broke is noticed.  No socket need connect, and no event need
\* be published.
FairSpec ==
  /\ Spec
  /\ WF_frontVars(OnDetail(Poll) \/ OnList(PollList))
  /\ WF_frontVars(OnDetail(EventArrives) \/ OnList(ListEventArrives))
  /\ WF_frontVars(Outside(BreakIsNoticed))
  /\ WF_frontVars(ActsMove)
  /\ WF_frontVars(LoadsMove)

\* Besides, the worker publishes what it wrote, a socket connects, and the
\* gateway ends its authentication.
UndisturbedSpec ==
  /\ FairSpec
  /\ WF_frontVars(Outside(\E b \in Briefs : Publish(b)))
  /\ WF_frontVars(Outside(SocketConnects))
  /\ WF_frontVars(Outside(JoinsRoom \/ JoinFails))

-----------------------------------------------------------------------------
\* A page that shows that it loads, or has disabled its button to refresh, has
\* a load in flight that will end that, whatever loads were over before it,
\* failed, or were dropped when a page was left: there is no spinner for ever.
SpinnersHaveALoad ==
  /\ page = "detail" /\ loading => \E l \in Loads : ~Free(l)
  /\ refreshing => \E l \in Loads : call[l].asks = "load"
  /\ page = "list" /\ (waiting \/ reloading) => \E l \in Loads : load[l].state # "none"

Over(d) == d.status \in {"COMPLETED", "FAILED"}
Settled == Over(doc[Shown])

\* The page shows a brief in progress that is not in progress any more.
ShowsOldProgress == page = "detail" /\ InProgress(view) /\ Settled

\* A page without a socket that shows a brief in progress does not do so for
\* ever: whichever load is answered last, polling goes on until one brings the
\* end of the analysis.
PolledViewCatchesUp ==
  ShowsOldProgress ~> (~ShowsOldProgress \/ socket = "connected")

\* An answer that shows no end has yet to land on the page: a load's, or that
\* of an act of a page that is still open.
Outdated ==
  \E c \in Loads \cup Acts :
    /\ call[c].state = "answered"
    /\ c \in Loads \/ call[c].here
    /\ ~Over(call[c].doc)

\* What an event is for: the page shows an end, and nothing in flight undoes that.
UpToDate == Over(view) /\ ~Outdated

\* The page shows an end, but an older answer was overtaken and has yet to land.
Overtaken == Over(view) /\ Outdated

\* The page of a brief that is not in progress any more has an event of it.
EventAfterEnd ==
  page = "detail" /\ Settled /\ Shown \in {inbox[i] : i \in DOMAIN inbox}

\* The brief is in progress again or gone, the page is left, the connection
\* broke, or a load failed.
FollowsNothing ==
  \/ ~Settled \/ page # "detail"
  \/ socket # "connected" \/ room = "gone"
  \/ \E l \in Loads : call[l].state = "failed"

\* A page that is up to date shows an end for as long as it is open and the
\* brief is not in progress: no load, no event and no act of the user undoes it.
EndsStay ==
  [][page' = "detail" /\ UpToDate /\ Settled /\ Settled' => UpToDate']_frontVars

\* An event that reaches the page after an analysis ended makes it show an end,
\* also if a load is in flight already; and the end stays, unless that load was
\* answered before the end and is overtaken: then it lands on top of the end,
\* and a connected page shows the old progress from then on.
EventsAreFollowed ==
  /\ EventAfterEnd ~> (UpToDate \/ Overtaken \/ FollowsNothing)
  /\ EndsStay

ListIsRight ==
  /\ response.filter = filter /\ response.number = number
  /\ response.rows = Rows(filter, number) /\ response.total = Total(filter)

\* Each time a list without a socket shows other than what its filter and its
\* page select, it comes to show that again, in whatever order its loads are
\* answered.  It need not stay so: a load that was answered earlier may land
\* after the right one, until the interval loads again.
PolledListCatchesUp ==
  (page = "list" /\ ~ListIsRight) ~> (page # "list" \/ ListIsRight \/ socket = "connected")

-----------------------------------------------------------------------------
(* BriefDetailPage.tsx:371, under a brief in progress: this page will be   *)
(* updated automatically.                                                  *)

\* The page of a brief whose analysis ended comes to show that.
UpdatedAutomatically == ShowsOldProgress ~> ~ShowsOldProgress

=============================================================================
