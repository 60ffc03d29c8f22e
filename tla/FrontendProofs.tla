---------------------------- MODULE FrontendProofs ----------------------------
(***************************************************************************)
(* What holds of a browser with the pages of the briefs, for any number of *)
(* briefs, loads, filters and events: its types, and that nothing it shows *)
(* as loading goes on for ever without a load.                             *)
(***************************************************************************)
EXTENDS Frontend, FiniteSetTheorems, TLAPS

-----------------------------------------------------------------------------
(* The updates keep the types.                                             *)

\* Every update of a brief yields a document.
LEMMA DocumentUpdates ==
  ASSUME NEW d \in Document
  PROVE  /\ StartAttempt(d) \in Document
         /\ \A o \in Outcomes, v \in Nat : Complete(d, o, v) \in Document
         /\ PrepareRetry(d) \in Document
         /\ \A err \in Errors : Fail(d, err) \in Document
         /\ \A s : BackToPending(d, s) \in Document
         /\ CompensateRetry(d) \in Document
         /\ Edited(d) \in Document
<1>1. \A s \in Stored, x \in Errors \cup {"none"} :
        /\ Moved(d, s, x) \in Document
        /\ Emptied(Moved(d, s, x)) \in Document
  BY ZenonT(40) DEF Document, Moved, Emptied, Stored, Absent, Errors, Outcomes
<1>2. \A o \in Outcomes, v \in Nat : Complete(d, o, v) \in Document
  BY DEF Complete, Document, Moved, Stored, Absent, Errors, Outcomes
<1>3. Edited(d) \in Document
  <2>1. d.content + 1 \in Nat
    BY DEF Document
  <2>2. QED
    BY <2>1 DEF Edited, Document
<1>4. QED
  BY <1>1, <1>2, <1>3 DEF StartAttempt, PrepareRetry, Fail, BackToPending,
    CompensateRetry, Stored, Errors

\* So do a creation and a removal.
LEMMA NewDocuments ==
  Unborn \in Document /\ NewBrief \in Document /\ Deleted \in Document
BY DEF Unborn, NewBrief, Deleted, Document, Stored, Absent, Errors, Outcomes

\* What is bounded stays a number.
LEMMA SpendsNumbers ==
  ASSUME EventsTypeOK, NEW k \in Kinds, Spend(k) PROVE left' \in [Kinds -> Nat]
BY DEF EventsTypeOK, Spend

\* The worker, other users and the socket.
LEMMA EventsTypes ==
  ASSUME EventsTypeOK, EventsNext, UNCHANGED page
  PROVE  EventsTypeOK'
<1> USE DEF EventsTypeOK
<1>0. Kinds = {"claim", "event", "visit"}
  BY DEF Kinds
<1>1. ASSUME NEW b \in Briefs, NEW d \in Document, Writes(b, d)
      PROVE  doc' \in [Briefs -> Document]
  BY <1>1 DEF Writes
<1>2. ASSUME NEW b \in Briefs, NEW d \in Document, Changes(b, d)
      PROVE  doc' \in [Briefs -> Document] /\ due' \in [Briefs -> BOOLEAN]
  BY <1>2 DEF Changes, Writes
<1>3. ASSUME NEW b \in Briefs, WorkerWrites(b) PROVE EventsTypeOK'
  <2>1. doc[b] \in Document /\ doc[b].content \in Nat
    BY DEF Document
  <2>2. \E d \in Document : Changes(b, d)
    BY <1>3, <2>1, DocumentUpdates DEF WorkerWrites, Claim, Settle
  <2>3. left' \in [Kinds -> Nat]
    BY <1>0, <1>3, SpendsNumbers DEF WorkerWrites, Claim, Settle
  <2>4. QED
    BY <1>2, <1>3, <2>2, <2>3 DEF WorkerWrites, socketVars
<1>4. ASSUME NEW b \in Briefs, Publish(b) PROVE EventsTypeOK'
  BY <1>4 DEF Publish
<1>5. ASSUME NEW b \in Briefs, LosePublish(b) PROVE EventsTypeOK'
  <2>1. left' \in [Kinds -> Nat]
    BY <1>0, <1>5, SpendsNumbers DEF LosePublish
  <2>2. QED
    BY <1>5, <2>1 DEF LosePublish, socketVars
<1>6. ASSUME NEW b \in Briefs, OthersWrite(b) PROVE EventsTypeOK'
  <2>1. \E d \in Document : Writes(b, d)
    BY <1>6, DocumentUpdates, NewDocuments DEF OthersWrite
  <2>2. left' \in [Kinds -> Nat]
    BY <1>0, <1>6, SpendsNumbers DEF OthersWrite
  <2>3. QED
    BY <1>1, <1>6, <2>1, <2>2 DEF OthersWrite, socketVars
<1>7. CASE SocketBreaks
  <2>1. left' \in [Kinds -> Nat]
    BY <1>0, <1>7, SpendsNumbers DEF SocketBreaks
  <2>2. QED
    BY <1>7, <2>1 DEF SocketBreaks, briefVars
<1>8. CASE SocketConnects \/ JoinsRoom \/ JoinFails \/ BreakIsNoticed
  BY <1>8 DEF SocketConnects, JoinsRoom, JoinFails, BreakIsNoticed, briefVars
<1>9. QED
  BY <1>3, <1>4, <1>5, <1>6, <1>7, <1>8 DEF EventsNext, SocketStep

-----------------------------------------------------------------------------
(* The page of a brief.                                                    *)

\* A call that begins, and none.
LEMMA CallTypes ==
  /\ NoCall \in Call
  /\ \A asks \in {"mount", "load", "update", "retry", "remove"}, again \in BOOLEAN :
       Ask(asks, again) \in Call
BY NewDocuments DEF NoCall, Ask, Call

\* The load that a page sends next is one of its loads, and no act.
LEMMA NextLoadIsOne == NextLoad \in Loads /\ Loads \cap Acts = {}
BY EventsAssumption, PageAssumption DEF NextLoad, EventsAssumption, PageAssumption

\* A call that goes on stays one.
LEMMA CallsGoOn ==
  ASSUME NEW x \in Call
  PROVE  /\ \A d \in Document : [x EXCEPT !.state = "answered", !.doc = d] \in Call
         /\ [x EXCEPT !.state = "failed"] \in Call
         /\ [x EXCEPT !.here = FALSE] \in Call
         /\ [x EXCEPT !.asks = "retry", !.state = "sent"] \in Call
BY DEF Call

\* How a call is sent, answered, refused and ended.
LEMMA CallUpdates ==
  ASSUME call \in [Loads \cup Acts -> Call], NEW c \in Loads \cup Acts
  PROVE  /\ \A asks \in {"mount", "load", "update", "retry", "remove"}, again \in BOOLEAN :
              Sends(c, asks, again) => call' \in [Loads \cup Acts -> Call]
         /\ Ended(c) \in [Loads \cup Acts -> Call]
         /\ \A d \in Document : Answers(c, d) => call' \in [Loads \cup Acts -> Call]
         /\ Refuses(c) => call' \in [Loads \cup Acts -> Call]
         /\ Unmounted \in [Loads \cup Acts -> Call]
<1>1. \A x \in Call : [call EXCEPT ![c] = x] \in [Loads \cup Acts -> Call]
  OBVIOUS
<1>2. ASSUME NEW asks \in {"mount", "load", "update", "retry", "remove"},
             NEW again \in BOOLEAN, Sends(c, asks, again)
      PROVE  call' \in [Loads \cup Acts -> Call]
  <2>1. Ask(asks, again) \in Call
    BY CallTypes
  <2>2. call' = [call EXCEPT ![c] = Ask(asks, again)]
    BY <1>2 DEF Sends
  <2>3. QED
    BY <1>1, <2>1, <2>2
<1>3. Ended(c) \in [Loads \cup Acts -> Call]
  BY <1>1, CallTypes DEF Ended
<1>4. ASSUME NEW d \in Document, Answers(c, d) PROVE call' \in [Loads \cup Acts -> Call]
  <2>1. call' = [call EXCEPT ![c] = [call[c] EXCEPT !.state = "answered", !.doc = d]]
    BY <1>4 DEF Answers
  <2>2. QED
    BY <1>1, <2>1, CallsGoOn
<1>5. ASSUME Refuses(c) PROVE call' \in [Loads \cup Acts -> Call]
  <2>1. call' = [call EXCEPT ![c] = [call[c] EXCEPT !.state = "failed"]]
    BY <1>5 DEF Refuses
  <2>2. QED
    BY <1>1, <2>1, CallsGoOn
<1>6. Unmounted \in [Loads \cup Acts -> Call]
  <2>1. \A k \in Loads \cup Acts :
          (IF k \in Loads THEN NoCall ELSE [call[k] EXCEPT !.here = FALSE]) \in Call
    BY CallTypes, CallsGoOn
  <2>2. QED
    BY <2>1 DEF Unmounted
<1>7. QED
  BY <1>2, <1>3, <1>4, <1>5, <1>6

\* What the API and the network do to a call of the page.
LEMMA CallStepTypes ==
  ASSUME EventsTypeOK, DetailTypeOK, NEW c \in Loads \cup Acts, CallStep(c)
  PROVE  EventsTypeOK' /\ DetailTypeOK'
<1>0. call \in [Loads \cup Acts -> Call] /\ call[c] \in Call /\ call[c].doc \in Document
      /\ doc[Shown] \in Document /\ doc \in [Briefs -> Document] /\ Shown \in Briefs
  BY PageAssumption DEF EventsTypeOK, DetailTypeOK, Call, PageAssumption
<1>1. CASE ApiAnswers(c)
  <2>1. Refuses(c) \/ \E d \in Document : Writes(Shown, d) /\ Answers(c, d)
    <3>1. call[c].asks \in {"mount", "load", "update", "retry", "remove"}
      BY <1>0, <1>1 DEF ApiAnswers, Free, Call
    <3>2. \/ Update(c, Exists(doc[Shown]), doc[Shown])
          \/ Update(c, Editable(doc[Shown]), Edited(doc[Shown]))
          \/ Update(c, Retryable(doc[Shown]), BackToPending(doc[Shown], doc[Shown].status))
          \/ Update(c, Editable(doc[Shown]), Deleted)
      BY <1>1, <3>1, Zenon DEF ApiAnswers
    <3>3. \A cond, d : Update(c, cond, d) =>
            Refuses(c) \/ (Writes(Shown, d) /\ Answers(c, d))
      BY DEF Update
    <3>4. QED
      BY <1>0, <3>2, <3>3, DocumentUpdates, NewDocuments
  <2>2. doc' \in [Briefs -> Document] /\ call' \in [Loads \cup Acts -> Call]
    <3>1. Refuses(c) => UNCHANGED doc
      BY DEF Refuses
    <3>2. \A d \in Document : Writes(Shown, d) => doc' \in [Briefs -> Document]
      BY <1>0 DEF Writes
    <3>3. QED
      BY <1>0, <2>1, <3>1, <3>2, CallUpdates
  <2>3. QED
    BY <1>1, <2>2 DEF ApiAnswers, EventsTypeOK, DetailTypeOK, socketVars
<1>2. CASE CallFails(c)
  <2>1. left' \in [Kinds -> Nat]
    BY <1>2, SpendsNumbers DEF CallFails, Kinds
  <2>2. call' \in [Loads \cup Acts -> Call] /\ UNCHANGED doc
    BY <1>0, <1>2, CallUpdates DEF CallFails, Refuses
  <2>3. QED
    BY <1>2, <2>1, <2>2 DEF CallFails, EventsTypeOK, DetailTypeOK, socketVars
<1>3. CASE LoadLands(c)
  <2>1. call' \in [Loads \cup Acts -> Call]
    BY <1>0, <1>3, CallUpdates DEF LoadLands
  <2>2. view' \in Document /\ {loading', refreshing', error'} \subseteq BOOLEAN
    BY <1>0, <1>3 DEF LoadLands, DetailTypeOK
  <2>3. QED
    BY <1>3, <2>1, <2>2 DEF LoadLands, EventsTypeOK, DetailTypeOK, socketVars, unseen
<1>4. QED
  BY <1>1, <1>2, <1>3 DEF CallStep

\* What becomes of the page once an act is over.
LEMMA ActTypes ==
  ASSUME EventsTypeOK, DetailTypeOK, ActLands
  PROVE  EventsTypeOK' /\ DetailTypeOK'
<1>0. /\ call \in [Loads \cup Acts -> Call]
      /\ \A c \in Acts : call[c] \in Call /\ call[c].doc \in Document
                         /\ call[c].here \in BOOLEAN
      /\ Acts = {"save", "remove", "retry"}
  BY DEF EventsTypeOK, DetailTypeOK, Call, Acts
<1>1. UNCHANGED <<unseen, socketVars, left, loading>> => EventsTypeOK'
  BY DEF EventsTypeOK, unseen, socketVars
<1>2. \A c \in Acts : /\ Shows(c) => view' \in Document
                      /\ Reports(c) => error' \in BOOLEAN
                      /\ ClosesForm(c) => editing' \in BOOLEAN
  BY <1>0 DEF Shows, Reports, ClosesForm, DetailTypeOK
<1>3. CASE SaveLands
  <2>1. CASE call["save"].state = "answered"
    <3>1. view' \in Document /\ editing' \in BOOLEAN
      BY <1>0, <1>2, <1>3, <2>1 DEF SaveLands, DetailTypeOK
    <3>2. call' \in [Loads \cup Acts -> Call]
      <4>1. \/ call' = Ended("save")
            \/ call' = [call EXCEPT !["save"] =
                          [call["save"] EXCEPT !.asks = "retry", !.state = "sent"]]
        BY <1>3, <2>1 DEF SaveLands
      <4>2. [call["save"] EXCEPT !.asks = "retry", !.state = "sent"] \in Call
        BY <1>0, CallsGoOn
      <4>3. QED
        BY <1>0, <4>1, <4>2, CallUpdates
    <3>3. UNCHANGED <<error, refreshing, loading>>
      BY <1>3, <2>1 DEF SaveLands
    <3>4. QED
      BY <1>1, <1>3, <3>1, <3>2, <3>3 DEF SaveLands, DetailTypeOK
  <2>2. CASE call["save"].state = "failed"
    <3>1. error' \in BOOLEAN /\ refreshing' \in BOOLEAN
      BY <1>0, <1>2, <1>3, <2>2 DEF SaveLands, DetailTypeOK
    <3>2. call' \in [Loads \cup Acts -> Call]
      <4>1. \/ call' = Ended("save")
            \/ call' = [Ended("save") EXCEPT ![NextLoad] = Ask("load", FALSE)]
        BY <1>3, <2>2 DEF SaveLands
      <4>2. Ended("save") \in [Loads \cup Acts -> Call]
        BY <1>0, CallUpdates
      <4>3. QED
        BY <4>1, <4>2, CallTypes
    <3>3. UNCHANGED <<view, editing, loading>>
      BY <1>3, <2>2 DEF SaveLands
    <3>4. QED
      BY <1>1, <1>3, <3>1, <3>2, <3>3 DEF SaveLands, DetailTypeOK
  <2>3. QED
    BY <1>3, <2>1, <2>2 DEF SaveLands
<1>4. CASE RetryLands
  <2>1. call' \in [Loads \cup Acts -> Call]
    BY <1>0, <1>4, CallUpdates DEF RetryLands
  <2>2. view' \in Document /\ error' \in BOOLEAN
    BY <1>0, <1>2, <1>4 DEF RetryLands, DetailTypeOK
  <2>3. QED
    BY <1>1, <1>4, <2>1, <2>2 DEF RetryLands, DetailTypeOK
<1>5. CASE RemoveFails
  <2>1. call' \in [Loads \cup Acts -> Call]
    BY <1>0, <1>5, CallUpdates DEF RemoveFails
  <2>2. error' \in BOOLEAN
    BY <1>0, <1>2, <1>5 DEF RemoveFails
  <2>3. QED
    BY <1>1, <1>5, <2>1, <2>2 DEF RemoveFails, DetailTypeOK
<1>6. QED
  BY <1>3, <1>4, <1>5 DEF ActLands

\* The page, its user and its socket.
LEMMA DetailTypes ==
  ASSUME EventsTypeOK, DetailTypeOK, DetailNext
  PROVE  EventsTypeOK' /\ DetailTypeOK'
<1>0. /\ call \in [Loads \cup Acts -> Call]
      /\ {loading, refreshing, error, editing} \subseteq BOOLEAN
      /\ NextLoad \in Loads /\ Kinds = {"claim", "event", "visit"}
  BY NextLoadIsOne DEF DetailTypeOK, Kinds
<1>l. LoadBrief => call' \in [Loads \cup Acts -> Call] /\ refreshing' \in BOOLEAN
  BY <1>0, CallUpdates DEF LoadBrief
<1>1. CASE EventArrives
  <2>1. call' \in [Loads \cup Acts -> Call] /\ refreshing' \in BOOLEAN
    BY <1>0, <1>1, <1>l DEF EventArrives, FollowsEvent
  <2>2. inbox' \in Seq(Briefs)
    BY <1>1 DEF EventArrives, EventsTypeOK
  <2>3. QED
    BY <1>1, <2>1, <2>2 DEF EventArrives, EventsTypeOK, DetailTypeOK, unseen
<1>2. CASE Poll
  BY <1>2, <1>l DEF Poll, EventsTypeOK, DetailTypeOK, unseen, socketVars
<1>3. CASE StartEditing \/ CancelEditing
  BY <1>3 DEF StartEditing, CancelEditing, EventsTypeOK, DetailTypeOK, unseen, socketVars
<1>c. ASSUME Clicks, call' \in [Loads \cup Acts -> Call],
             {refreshing', error', editing'} \subseteq BOOLEAN
      PROVE  EventsTypeOK' /\ DetailTypeOK'
  <2>1. left' \in [Kinds -> Nat]
    BY <1>0, <1>c, SpendsNumbers DEF Clicks
  <2>2. QED
    BY <1>c, <2>1 DEF Clicks, EventsTypeOK, DetailTypeOK, unseen, socketVars
<1>4. CASE Refresh
  BY <1>0, <1>4, <1>c, <1>l DEF Refresh
<1>b. \A act \in Acts, asks \in {"update", "retry", "remove"}, again \in BOOLEAN :
        Begins(act, asks, again) =>
          call' \in [Loads \cup Acts -> Call] /\ {refreshing', error', editing'} \subseteq BOOLEAN
  BY <1>0, CallUpdates DEF Begins
<1>5. CASE SaveChanges \/ RemoveBrief \/ RetryProcessing
  <2>1. (view.outcome = "INSUFFICIENT_BRIEF") \in BOOLEAN
    OBVIOUS
  <2>2. Clicks /\ \E act \in Acts, asks \in {"update", "retry", "remove"}, again \in BOOLEAN :
          Begins(act, asks, again)
    BY <1>5, <2>1 DEF SaveChanges, RemoveBrief, RetryProcessing, Acts
  <2>3. QED
    BY <1>b, <1>c, <2>2
<1>6. QED
  BY <1>1, <1>2, <1>3, <1>4, <1>5, CallStepTypes, ActTypes DEF DetailNext

-----------------------------------------------------------------------------
(* The page with the list.                                                 *)

\* A listing is one whatever is read for it.
LEMMA ListingTypes ==
  /\ \A f \in Filters, n \in Nat : Asked(f, n) \in Listing
  /\ NoListing \in Listing /\ NoLoad \in Load
<1>1. "all" \in Filters
  BY ListAssumption DEF ListAssumption
<1>2. \A f \in Filters, n \in Nat : Asked(f, n) \in Listing
  BY DEF Asked, Listing
<1>3. QED
  BY <1>1, <1>2 DEF NoListing, NoLoad, Load

\* findAll answers with briefs that there are, and counts them.
LEMMA ReadTypes ==
  ASSUME EventsTypeOK, NEW x \in Listing
  PROVE  Read(x) \in Listing
<1>1. \A f : Total(f) \in Nat
  <2>1. \A f : Selected(f) \subseteq Briefs
    BY DEF Selected
  <2>2. \A f : IsFiniteSet(Selected(f))
    BY <2>1, FS_Subset, ListAssumption DEF ListAssumption
  <2>3. QED
    BY <2>2, FS_CardinalityType DEF Total
<1>2. \A f, n : Rows(f, n) \subseteq Briefs \X Stored
  BY DEF Rows, Selected, Exists
<1>3. QED
  BY <1>1, <1>2 DEF Read, Listing

\* The list, its user and its loads.
LEMMA ListTypes ==
  ASSUME EventsTypeOK, ListTypeOK, ListNext
  PROVE  EventsTypeOK' /\ ListTypeOK'
<1>0. /\ load \in [Loads -> Load] /\ {waiting, reloading, failed} \subseteq BOOLEAN
      /\ Kinds = {"claim", "event", "visit"}
      /\ \A l \in Loads : load[l].listing \in Listing
      /\ Loads # {}
  BY EventsAssumption DEF ListTypeOK, Kinds, Load, EventsAssumption
<1>1. ASSUME NEW l \in Loads, NEW x \in Load, load' = [load EXCEPT ![l] = x]
      PROVE  load' \in [Loads -> Load]
  BY <1>0, <1>1
<1>2. ASSUME NEW f \in Filters, NEW n \in Nat, SendsList(f, n)
      PROVE  load' \in [Loads -> Load]
  <2> DEFINE l == CHOOSE l \in Loads : load[l].state = "none"
             x == [state |-> "sent", listing |-> Asked(f, n)]
  <2>1. l \in Loads /\ load' = [load EXCEPT ![l] = x]
    BY <1>2 DEF SendsList
  <2>2. x \in Load
    BY ListingTypes DEF Load
  <2>3. QED
    BY <1>1, <2>1, <2>2
<1>3. ASSUME NEW l \in Loads, ApiReads(l) PROVE EventsTypeOK' /\ ListTypeOK'
  <2>1. [state |-> "answered", listing |-> Read(load[l].listing)] \in Load
    BY <1>0, ReadTypes DEF Load
  <2>2. load' \in [Loads -> Load]
    BY <1>1, <1>3, <2>1 DEF ApiReads
  <2>3. QED
    BY <1>3, <2>2 DEF ApiReads, EventsTypeOK, ListTypeOK, briefVars, socketVars, listPageVars
<1>4. ASSUME NEW l \in Loads, LoadFails(l) PROVE EventsTypeOK' /\ ListTypeOK'
  <2>1. [NoLoad EXCEPT !.state = "failed"] \in Load
    BY ListingTypes DEF Load
  <2>2. load' \in [Loads -> Load]
    BY <1>1, <1>4, <2>1 DEF LoadFails
  <2>3. left' \in [Kinds -> Nat]
    BY <1>0, <1>4, SpendsNumbers DEF LoadFails
  <2>4. QED
    BY <1>4, <2>2, <2>3
    DEF LoadFails, EventsTypeOK, ListTypeOK, briefVars, socketVars, listPageVars
<1>5. ASSUME NEW l \in Loads, ListLands(l) PROVE EventsTypeOK' /\ ListTypeOK'
  <2>1. load' \in [Loads -> Load]
    BY <1>1, <1>5, ListingTypes DEF ListLands
  <2>2. response' \in Listing /\ {waiting', reloading', failed'} \subseteq BOOLEAN
    BY <1>0, <1>5 DEF ListLands, ListTypeOK
  <2>3. QED
    BY <1>5, <2>1, <2>2 DEF ListLands, EventsTypeOK, ListTypeOK, briefVars, socketVars
<1>l. LoadBriefs => load' \in [Loads -> Load] /\ reloading' \in BOOLEAN
  BY <1>2 DEF LoadBriefs, ListTypeOK
<1>6. CASE ListEventArrives
  <2>1. inbox' \in Seq(Briefs)
    BY <1>6 DEF ListEventArrives, EventsTypeOK
  <2>2. QED
    BY <1>6, <1>l, <2>1 DEF ListEventArrives, EventsTypeOK, ListTypeOK, briefVars
<1>7. CASE PollList
  BY <1>7, <1>l DEF PollList, EventsTypeOK, ListTypeOK, briefVars, socketVars
<1>c. ASSUME ListClicks, load' \in [Loads -> Load], filter' \in Filters, number' \in Nat \ {0},
             {waiting', reloading'} \subseteq BOOLEAN
      PROVE  EventsTypeOK' /\ ListTypeOK'
  <2>1. left' \in [Kinds -> Nat]
    BY <1>0, <1>c, SpendsNumbers DEF ListClicks
  <2>2. QED
    BY <1>c, <2>1 DEF ListClicks, EventsTypeOK, ListTypeOK, briefVars, socketVars
<1>8. CASE RefreshList
  BY <1>0, <1>8, <1>l, <1>c DEF RefreshList, ListTypeOK
<1>9. ASSUME ListClicks, NEW f \in Filters, NEW n \in Nat \ {0}, Requests(f, n)
      PROVE  EventsTypeOK' /\ ListTypeOK'
  BY <1>0, <1>2, <1>9, <1>c DEF Requests
<1>10. CASE ApplyFilter
  BY <1>9, <1>10 DEF ApplyFilter
<1>11. CASE TurnPage
  <2>1. number \in Nat \ {0} /\ filter \in Filters
    BY DEF ListTypeOK
  <2>2. \E n \in Nat \ {0} : Requests(filter, n)
    BY <1>11, <2>1 DEF TurnPage
  <2>3. ListClicks
    BY <1>11 DEF TurnPage
  <2>4. QED
    BY <1>9, <2>1, <2>2, <2>3
<1>12. QED
  BY <1>3, <1>4, <1>5, <1>6, <1>7, <1>8, <1>10, <1>11 DEF ListNext

-----------------------------------------------------------------------------
(* The pages together.                                                     *)

\* Pages are opened and left, and a removal leads to the list.
LEMMA NavigationTypes ==
  ASSUME FrontTypeOK, Navigates
  PROVE  FrontTypeOK'
<1>0. /\ EventsTypeOK /\ DetailTypeOK /\ ListTypeOK
      /\ call \in [Loads \cup Acts -> Call] /\ load \in [Loads -> Load]
      /\ Kinds = {"claim", "event", "visit"} /\ Acts = {"save", "remove", "retry"}
      /\ "all" \in Filters /\ NextLoad \in Loads
  BY ListAssumption, NextLoadIsOne DEF FrontTypeOK, DetailTypeOK, ListTypeOK, Kinds, Acts,
    ListAssumption
<1>r. Requests("all", 1) =>
        /\ filter' = "all" /\ number' = 1 /\ waiting' = TRUE /\ UNCHANGED reloading
        /\ load' \in [Loads -> Load]
  <2> DEFINE l == CHOOSE l \in Loads : load[l].state = "none"
             x == [state |-> "sent", listing |-> Asked("all", 1)]
  <2>1. ASSUME Requests("all", 1) PROVE l \in Loads /\ load' = [load EXCEPT ![l] = x]
    BY <2>1 DEF Requests, SendsList
  <2>2. x \in Load
    BY <1>0, ListingTypes DEF Load
  <2>3. QED
    BY <1>0, <2>1, <2>2 DEF Requests
<1>d. DetailReset => view' \in Document /\ {loading', refreshing', error', editing'} \subseteq BOOLEAN
  BY NewDocuments DEF DetailReset
<1>u. Unmounted \in [Loads \cup Acts -> Call]
  BY <1>0, CallUpdates
<1>1. CASE OpenList
  <2>1. left' \in [Kinds -> Nat]
    BY <1>0, <1>1, SpendsNumbers DEF OpenList
  <2>2. QED
    BY <1>0, <1>1, <1>r, <2>1 DEF OpenList, OpenSocket, FrontTypeOK, EventsTypeOK, DetailTypeOK,
      ListTypeOK, briefVars, detailVars
<1>2. CASE OpenDetail
  <2>1. left' \in [Kinds -> Nat]
    BY <1>0, <1>2, SpendsNumbers DEF OpenDetail
  <2>2. call' \in [Loads \cup Acts -> Call]
    BY <1>0, <1>2, CallUpdates DEF OpenDetail, Mounts
  <2>3. QED
    BY <1>2, <2>1, <2>2 DEF OpenDetail, OpenSocket, FrontTypeOK, EventsTypeOK, DetailTypeOK,
      ListTypeOK, briefVars, listVars
<1>3. CASE Leave
  <2>1. EventsTypeOK'
    BY <1>3 DEF Leave, CloseSocket, FrontTypeOK, EventsTypeOK, briefVars
  <2>2. DetailTypeOK'
    BY <1>3, <1>d, <1>u DEF Leave, DetailTypeOK
  <2>3. ListTypeOK'
    <3>1. filter' \in Filters /\ number' \in Nat \ {0} /\ response' \in Listing
      BY <1>0, <1>3, ListingTypes DEF Leave, ListReset
    <3>2. {waiting', reloading', failed'} \subseteq BOOLEAN /\ load' \in [Loads -> Load]
      BY <1>3, ListingTypes DEF Leave, ListReset
    <3>3. QED
      BY <3>1, <3>2 DEF ListTypeOK
  <2>4. QED
    BY <2>1, <2>2, <2>3 DEF FrontTypeOK
<1>4. CASE RemoveLands
  <2>1. CASE page = "list"
    <3>1. call' \in [Loads \cup Acts -> Call]
      BY <1>0, <1>4, <2>1, CallUpdates DEF RemoveLands
    <3>2. QED
      BY <1>4, <2>1, <3>1 DEF RemoveLands, FrontTypeOK, EventsTypeOK, DetailTypeOK, ListTypeOK,
        briefVars, socketVars, listVars
  <2>2. CASE page # "list"
    <3>1. EventsTypeOK'
      BY <1>4, <2>2 DEF RemoveLands, FrontTypeOK, EventsTypeOK, briefVars
    <3>2. call' = [Unmounted EXCEPT !["remove"] = NoCall] /\ DetailReset /\ Requests("all", 1)
          /\ UNCHANGED <<response, failed>>
      BY <1>4, <2>2 DEF RemoveLands
    <3>3. DetailTypeOK'
      BY <1>d, <1>u, <3>2, CallTypes DEF DetailTypeOK
    <3>4. ListTypeOK'
      <4>1. filter' \in Filters /\ number' \in Nat \ {0} /\ waiting' \in BOOLEAN
        BY <1>0, <1>r, <3>2
      <4>2. response' \in Listing /\ {reloading', failed'} \subseteq BOOLEAN
        BY <1>0, <1>r, <3>2 DEF ListTypeOK
      <4>3. {waiting', reloading', failed'} \subseteq BOOLEAN /\ load' \in [Loads -> Load]
        BY <1>r, <3>2, <4>1, <4>2
      <4>4. QED
        BY <4>1, <4>2, <4>3 DEF ListTypeOK
    <3>5. QED
      BY <3>1, <3>3, <3>4 DEF FrontTypeOK
  <2>3. QED
    BY <2>1, <2>2
<1>5. QED
  BY <1>1, <1>2, <1>3, <1>4 DEF Navigates

\* FrontTypeOK is inductive.
LEMMA FrontTypeStep == FrontTypeOK /\ [Next]_frontVars => FrontTypeOK'
<1> SUFFICES ASSUME FrontTypeOK, [Next]_frontVars PROVE FrontTypeOK'
  OBVIOUS
<1>d. UNCHANGED detailVars => DetailTypeOK'
  BY DEF FrontTypeOK, DetailTypeOK, detailVars
<1>l. UNCHANGED listVars => ListTypeOK'
  BY DEF FrontTypeOK, ListTypeOK, listVars
<1>1. CASE Outside(EventsNext)
  BY <1>1, <1>d, <1>l, EventsTypes DEF Outside, FrontTypeOK
<1>2. CASE OnDetail(DetailNext)
  BY <1>2, <1>l, DetailTypes DEF OnDetail, FrontTypeOK
<1>3. CASE OnList(ListNext)
  BY <1>3, <1>d, ListTypes DEF OnList, FrontTypeOK
<1>4. CASE UNCHANGED frontVars
  <2>1. EventsTypeOK'
    BY <1>4 DEF frontVars, FrontTypeOK, EventsTypeOK, briefVars, socketVars
  <2>2. QED
    BY <1>4, <1>d, <1>l, <2>1 DEF frontVars, FrontTypeOK
<1>5. QED
  BY <1>1, <1>2, <1>3, <1>4, NavigationTypes DEF Next

\* The first state has its types.
LEMMA FrontTypeInit == Init => FrontTypeOK
<1> SUFFICES ASSUME Init PROVE FrontTypeOK
  OBVIOUS
<1>1. EventsTypeOK
  BY EventsAssumption DEF EventsAssumption, Init, EventsInit, EventsTypeOK
<1>2. DetailTypeOK
  BY NewDocuments, CallTypes DEF Init, DetailInit, DetailTypeOK
<1>3. ListTypeOK
  <2>1. filter \in Filters /\ number \in Nat \ {0} /\ response \in Listing
    BY ListAssumption, ListingTypes DEF ListAssumption, Init, ListInit
  <2>2. {waiting, reloading, failed} \subseteq BOOLEAN
    BY DEF Init, ListInit
  <2>3. load \in [Loads -> Load]
    BY ListingTypes DEF Init, ListInit
  <2>4. QED
    BY <2>1, <2>2, <2>3 DEF ListTypeOK
<1>4. QED
  BY <1>1, <1>2, <1>3 DEF FrontTypeOK

\* For any briefs, loads in flight, filters and events, whatever order the API
\* answers in and whenever pages are left: the state of the pages is typed, and
\* in particular the number of the page of the list stays positive.
THEOREM PagesTypeCorrect == Spec => []FrontTypeOK
BY FrontTypeInit, FrontTypeStep, PTL DEF Spec

-----------------------------------------------------------------------------
(* Spinners.                                                               *)

\* A load that is sent is in flight, and those that were stay.
LEMMA SentLoads ==
  ASSUME DetailTypeOK, NEW asks \in {"mount", "load"}, Sends(NextLoad, asks, FALSE)
  PROVE  /\ NextLoad \in Loads /\ call'[NextLoad].asks = asks
         /\ \A l \in Loads : ~Free(l) => call'[l].asks = call[l].asks
BY NextLoadIsOne DEF DetailTypeOK, Sends, Ask, NoCall, Free

\* The other steps of a page take no load but the one that lands.
LEMMA KeptLoads ==
  ASSUME DetailTypeOK
  PROVE  /\ \A c \in Loads \cup Acts : ApiAnswers(c) \/ CallFails(c) =>
              \A l \in Loads : call'[l].asks = call[l].asks
         /\ \A c \in Acts : call' = Ended(c) =>
              \A l \in Loads : call'[l].asks = call[l].asks
         /\ \A c \in Loads : call' = Ended(c) =>
              \A l \in Loads \ {c} : call'[l].asks = call[l].asks
         /\ \A c \in Acts : \A asks, again : Sends(c, asks, again) =>
              \A l \in Loads : call'[l].asks = call[l].asks
<1>0. /\ call \in [Loads \cup Acts -> Call]
      /\ \A l \in Loads : l \notin Acts
  BY NextLoadIsOne DEF DetailTypeOK
<1>1. ASSUME NEW c \in Loads \cup Acts, ApiAnswers(c) \/ CallFails(c)
      PROVE  \A l \in Loads : call'[l].asks = call[l].asks
  <2>1. ApiAnswers(c) =>
          Refuses(c) \/ \E d : Answers(c, d)
    <3>1. \A k, d : Update(c, k, d) => Refuses(c) \/ Answers(c, d)
      BY DEF Update
    <3>2. \A asks : /\ call[c].asks = asks /\ asks # "none" /\ call[c] \in Call =>
                       asks \in {"mount", "load", "update", "retry", "remove"}
      BY DEF Call
    <3>3. QED
      BY <1>0, <3>1, <3>2, Zenon DEF ApiAnswers, Free
  <2>2. Refuses(c) \/ \E d : Answers(c, d)
    BY <1>1, <2>1 DEF CallFails
  <2>3. QED
    BY <1>0, <2>2 DEF Refuses, Answers, Call
<1>2. \A c, l : c \in Loads \cup Acts /\ l \in Loads \ {c} /\ call' = Ended(c) =>
        call'[l].asks = call[l].asks
  BY <1>0 DEF Ended
<1>3. \A c \in Acts : \A asks, again : Sends(c, asks, again) =>
        \A l \in Loads : call'[l].asks = call[l].asks
  BY <1>0 DEF Sends
<1>4. QED
  BY <1>0, <1>1, <1>2, <1>3

\* A page of a brief, and its user.
LEMMA DetailSpins ==
  ASSUME DetailTypeOK, SpinnersHaveALoad, DetailNext, UNCHANGED listVars
  PROVE  SpinnersHaveALoad'
<1>0. /\ \A l \in Loads : Free(l) <=> call[l].asks = "none"
      /\ \A l \in Loads : Free(l)' <=> call'[l].asks = "none"
      /\ \A l \in Loads : l \notin Acts
      /\ Acts = {"save", "remove", "retry"}
  BY NextLoadIsOne DEF Free, Acts
<1>p. UNCHANGED page
  BY DEF DetailNext, CallStep, ApiAnswers, CallFails, LoadLands, ActLands, SaveLands, RetryLands,
    RemoveFails, EventArrives, Poll, Refresh, StartEditing, CancelEditing, SaveChanges,
    RemoveBrief, RetryProcessing, Clicks, unseen
<1>k. ASSUME \A l \in Loads : call'[l].asks = call[l].asks,
             loading' => loading, refreshing' => refreshing
      PROVE  SpinnersHaveALoad'
  BY <1>0, <1>p, <1>k DEF SpinnersHaveALoad, listVars
<1>s. ASSUME LoadBrief, UNCHANGED loading PROVE SpinnersHaveALoad'
  <2>1. NextLoad \in Loads /\ call'[NextLoad].asks = "load"
    BY <1>s, SentLoads DEF LoadBrief
  <2>2. QED
    BY <1>0, <1>p, <2>1 DEF SpinnersHaveALoad, listVars
<1>1. ASSUME NEW c \in Loads \cup Acts, ApiAnswers(c) \/ CallFails(c)
      PROVE  SpinnersHaveALoad'
  <2>1. \A l \in Loads : call'[l].asks = call[l].asks
    BY <1>1, KeptLoads
  <2>2. UNCHANGED <<loading, refreshing>>
    BY <1>1 DEF ApiAnswers, CallFails
  <2>3. QED
    BY <1>k, <2>1, <2>2
<1>2. ASSUME NEW c \in Loads \cup Acts, LoadLands(c) PROVE SpinnersHaveALoad'
  <2>1. /\ c \in Loads /\ call' = Ended(c) /\ loading' = FALSE
        /\ refreshing' = IF call[c].asks = "load" THEN FALSE ELSE refreshing
    BY <1>2 DEF LoadLands
  <2>2. \A l \in Loads \ {c} : call'[l].asks = call[l].asks
    BY <2>1, KeptLoads
  <2>3. QED
    BY <1>p, <2>1, <2>2 DEF SpinnersHaveALoad, listVars
<1>3. CASE ActLands
  <2>1. ASSUME NEW c \in Acts, call' = Ended(c), UNCHANGED <<loading, refreshing>>
        PROVE  SpinnersHaveALoad'
    BY <1>k, <2>1, KeptLoads
  <2>2. CASE call' = [Ended("save") EXCEPT ![NextLoad] = Ask("load", FALSE)]
    <3>1. NextLoad \in Loads /\ call'[NextLoad].asks = "load"
      BY <2>2, NextLoadIsOne DEF Ended, Ask, NoCall, DetailTypeOK
    <3>2. QED
      BY <1>0, <1>p, <3>1 DEF SpinnersHaveALoad, listVars
  <2>3. CASE call' = [call EXCEPT !["save"] =
                        [call["save"] EXCEPT !.asks = "retry", !.state = "sent"]]
             /\ UNCHANGED <<loading, refreshing>>
    <3>1. \A l \in Loads : call'[l].asks = call[l].asks
      BY <1>0, <2>3 DEF DetailTypeOK
    <3>2. QED
      BY <1>k, <2>3, <3>1
  <2>4. QED
    BY <1>0, <1>3, <2>1, <2>2, <2>3 DEF ActLands, SaveLands, RetryLands, RemoveFails
<1>4. CASE EventArrives
  <2>1. LoadBrief \/ UNCHANGED <<call, refreshing>>
    BY <1>4 DEF EventArrives, FollowsEvent
  <2>2. UNCHANGED loading
    BY <1>4 DEF EventArrives
  <2>3. QED
    BY <1>k, <1>s, <2>1, <2>2
<1>5. CASE Poll \/ Refresh
  BY <1>5, <1>s DEF Poll, Refresh, Clicks
<1>6. CASE StartEditing \/ CancelEditing
  BY <1>6, <1>k DEF StartEditing, CancelEditing
<1>7. CASE SaveChanges \/ RemoveBrief \/ RetryProcessing
  <2>1. \E act \in Acts : \E asks, again : Sends(act, asks, again)
    BY <1>0, <1>7 DEF SaveChanges, RemoveBrief, RetryProcessing, Begins
  <2>2. UNCHANGED <<loading, refreshing>>
    BY <1>7 DEF SaveChanges, RemoveBrief, RetryProcessing, Begins, Clicks
  <2>3. QED
    BY <1>k, <2>1, <2>2, KeptLoads
<1>8. QED
  BY <1>1, <1>2, <1>3, <1>4, <1>5, <1>6, <1>7 DEF DetailNext, CallStep

\* A load of the list that is sent is in flight.
LEMMA SentListLoads ==
  ASSUME ListTypeOK, NEW f, NEW n, SendsList(f, n)
  PROVE  \E l \in Loads : load'[l].state # "none"
<1> DEFINE k == CHOOSE l \in Loads : load[l].state = "none"
<1>1. k \in Loads /\ load' = [load EXCEPT ![k] = [state |-> "sent", listing |-> Asked(f, n)]]
  BY DEF SendsList
<1>2. load'[k].state = "sent"
  BY <1>1 DEF ListTypeOK
<1>3. QED
  BY <1>1, <1>2

\* The list and its user.
LEMMA ListSpins ==
  ASSUME ListTypeOK, SpinnersHaveALoad, ListNext, UNCHANGED detailVars
  PROVE  SpinnersHaveALoad'
<1>p. UNCHANGED page
  BY DEF ListNext, ApiReads, LoadFails, ListLands, ListEventArrives, PollList, RefreshList,
    ApplyFilter, TurnPage, ListClicks
<1>d. /\ (page = "detail" /\ loading => \E l \in Loads : ~Free(l))'
      /\ (refreshing => \E l \in Loads : call[l].asks = "load")'
  BY <1>p DEF SpinnersHaveALoad, detailVars, Free
<1>1. ASSUME NEW l \in Loads, ApiReads(l) \/ LoadFails(l)
      PROVE  page' = "list" /\ (waiting' \/ reloading') => \E k \in Loads : load'[k].state # "none"
  <2>1. ApiReads(l) => load'[l].state = "answered"
    BY DEF ApiReads, ListTypeOK
  <2>2. LoadFails(l) => load'[l].state = "failed"
    BY DEF LoadFails, NoLoad, ListTypeOK
  <2>3. load'[l].state # "none"
    BY <1>1, <2>1, <2>2
  <2>4. QED
    BY <2>3
<1>2. ASSUME NEW l \in Loads, ListLands(l) PROVE ~waiting' /\ ~reloading'
  BY <1>2 DEF ListLands
<1>3. CASE ListEventArrives \/ PollList \/ RefreshList \/ ApplyFilter \/ TurnPage
  <2>1. \E f, n : SendsList(f, n)
    BY <1>3 DEF ListEventArrives, PollList, RefreshList, ApplyFilter, TurnPage, LoadBriefs, Requests
  <2>2. QED
    BY <1>d, <2>1, SentListLoads DEF SpinnersHaveALoad
<1>4. QED
  BY <1>d, <1>1, <1>2, <1>3 DEF ListNext, SpinnersHaveALoad

\* Pages that are opened and left.
LEMMA NavigationSpins ==
  ASSUME DetailTypeOK, ListTypeOK, SpinnersHaveALoad, Navigates
  PROVE  SpinnersHaveALoad'
<1>1. CASE OpenList
  <2>1. \E l \in Loads : load'[l].state # "none"
    BY <1>1, SentListLoads DEF OpenList, Requests
  <2>2. page' = "list" /\ UNCHANGED detailVars
    BY <1>1 DEF OpenList
  <2>3. QED
    BY <2>1, <2>2 DEF SpinnersHaveALoad, detailVars
<1>2. CASE OpenDetail
  <2>1. /\ NextLoad \in Loads /\ call'[NextLoad].asks = "mount"
        /\ \A l \in Loads : ~Free(l) => call'[l].asks = call[l].asks
    BY <1>2, SentLoads DEF OpenDetail, Mounts
  <2>2. page' = "detail" /\ UNCHANGED refreshing
    BY <1>2 DEF OpenDetail
  <2>3. refreshing => \E l \in Loads : call'[l].asks = "load"
    BY <2>1 DEF SpinnersHaveALoad, Free
  <2>4. \E l \in Loads : call'[l].asks # "none"
    BY <2>1
  <2>5. QED
    BY <2>2, <2>3, <2>4 DEF SpinnersHaveALoad, Free
<1>3. CASE Leave
  BY <1>3 DEF Leave, DetailReset, SpinnersHaveALoad
<1>4. CASE RemoveLands
  <2>1. CASE page = "list"
    <3>1. call' = Ended("remove") /\ UNCHANGED <<page, refreshing, waiting, reloading, load>>
      BY <1>4, <2>1 DEF RemoveLands, listVars
    <3>2. \A l \in Loads : call'[l].asks = call[l].asks
      BY <3>1, KeptLoads DEF Acts
    <3>3. QED
      BY <2>1, <3>1, <3>2 DEF SpinnersHaveALoad
  <2>2. CASE page # "list"
    <3>1. page' = "list" /\ refreshing' = FALSE /\ Requests("all", 1)
      BY <1>4, <2>2 DEF RemoveLands, DetailReset
    <3>2. \E l \in Loads : load'[l].state # "none"
      BY <3>1, SentListLoads DEF Requests
    <3>3. QED
      BY <3>1, <3>2 DEF SpinnersHaveALoad
  <2>3. QED
    BY <2>1, <2>2
<1>5. QED
  BY <1>1, <1>2, <1>3, <1>4 DEF Navigates

\* Whatever fails, is answered late or is left behind: a page that shows that
\* it loads, or that its button to refresh is disabled, has a load in flight
\* whose end, by an answer or a failure, ends that.
THEOREM NoSpinnerForEver == Spec => []SpinnersHaveALoad
<1>1. Init => SpinnersHaveALoad
  BY DEF Init, EventsInit, DetailInit, SpinnersHaveALoad
<1>2. FrontTypeOK /\ SpinnersHaveALoad /\ [Next]_frontVars => SpinnersHaveALoad'
  <2> SUFFICES ASSUME FrontTypeOK, SpinnersHaveALoad, [Next]_frontVars
               PROVE  SpinnersHaveALoad'
    OBVIOUS
  <2>0. DetailTypeOK /\ ListTypeOK
    BY DEF FrontTypeOK
  <2>1. CASE UNCHANGED <<page, detailVars, listVars>>
    BY <2>1 DEF detailVars, listVars, SpinnersHaveALoad, Free
  <2>2. CASE Outside(EventsNext) \/ UNCHANGED frontVars
    BY <2>1, <2>2 DEF Outside, frontVars
  <2>3. CASE OnDetail(DetailNext)
    BY <2>0, <2>3, DetailSpins DEF OnDetail
  <2>4. CASE OnList(ListNext)
    BY <2>0, <2>4, ListSpins DEF OnList
  <2>5. CASE Navigates
    BY <2>0, <2>5, NavigationSpins
  <2>6. QED
    BY <2>2, <2>3, <2>4, <2>5 DEF Next
<1>3. QED
  BY <1>1, <1>2, PagesTypeCorrect, PTL DEF Spec

-----------------------------------------------------------------------------
(* What a page that is up to date goes on to show.                         *)

\* Of the updates the API makes, an edit leaves an ended brief ended; a retry
\* and a removal do not.
LEMMA UpdatesOfEnds ==
  ASSUME NEW d \in Document, Over(d)
  PROVE  /\ Over(Edited(d)) /\ ~Over(Deleted)
         /\ Retryable(d) => ~Over(BackToPending(d, d.status))
<1>1. Over(Edited(d)) /\ ~Over(Deleted)
  BY DEF Over, Edited, Document, Deleted, Unborn
<1>2. ASSUME Retryable(d) PROVE ~Over(BackToPending(d, d.status))
  <2>1. BackToPending(d, d.status) = Emptied(Moved(d, "PENDING", "none"))
    BY <1>2 DEF BackToPending, RetryMatches
  <2>2. Emptied(Moved(d, "PENDING", "none")).status = "PENDING"
    BY DEF Emptied, Moved, Document
  <2>3. QED
    BY <2>1, <2>2 DEF Over
<1>3. QED
  BY <1>1, <1>2

\* While the brief has ended, what the API answers with is an end.
LEMMA AnswersShowEnds ==
  ASSUME EventsTypeOK, DetailTypeOK, NEW c \in Loads \cup Acts, ApiAnswers(c),
         Settled, Settled'
  PROVE  Refuses(c) \/ \E x : Answers(c, x) /\ Over(x)
<1> DEFINE d == doc[Shown]
<1>0. /\ call[c] \in Call /\ d \in Document /\ Shown \in Briefs
      /\ doc \in [Briefs -> Document] /\ Over(d) /\ Over(doc'[Shown])
  BY PageAssumption DEF EventsTypeOK, DetailTypeOK, PageAssumption, Settled
<1>1. call[c].asks \in {"mount", "load", "update", "retry", "remove"}
  BY <1>0 DEF ApiAnswers, Free, Call
<1>2. \/ Update(c, Exists(d), d)
      \/ Update(c, Editable(d), Edited(d))
      \/ Update(c, Retryable(d), BackToPending(d, d.status))
      \/ Update(c, Editable(d), Deleted)
  BY <1>1, Zenon DEF ApiAnswers
<1>3. ASSUME NEW k, NEW x, Update(c, k, x), ~Refuses(c)
      PROVE  Answers(c, x) /\ Over(x)
  BY <1>0, <1>3 DEF Update, Writes
<1>4. QED
  BY <1>2, <1>3

\* A page keeps what it shows, and no answer without an end is added.
LEMMA NothingOutdated ==
  ASSUME UpToDate, Over(view'),
         \A c \in Loads \cup Acts :
           \/ call'[c] = call[c]
           \/ call'[c].state # "answered"
           \/ Over(call'[c].doc)
           \/ c \notin Loads /\ ~call'[c].here
  PROVE  UpToDate'
BY DEF UpToDate, Outdated, Over

\* The page of a brief, its user and the API.
LEMMA DetailStaysUpToDate ==
  ASSUME EventsTypeOK, DetailTypeOK, UpToDate, Settled, Settled', DetailNext
  PROVE  UpToDate'
<1>0. /\ call \in [Loads \cup Acts -> Call]
      /\ \A l \in Loads : l \notin Acts
      /\ Acts = {"save", "remove", "retry"} /\ NextLoad \in Loads
      /\ NoCall.state # "answered" /\ Over(view)
      /\ \A asks, again : Ask(asks, again).state # "answered"
  BY NextLoadIsOne DEF DetailTypeOK, Acts, Ask, NoCall, UpToDate
<1> DEFINE Quiet == \A k \in Loads \cup Acts : call'[k] = call[k] \/ call'[k].state # "answered"
<1>q. ASSUME Quiet, Over(view') PROVE UpToDate'
  BY <1>q, NothingOutdated
<1>e. ASSUME NEW c \in Loads \cup Acts, call' = Ended(c) PROVE Quiet
  BY <1>0, <1>e DEF Ended
<1>s. ASSUME NEW c \in Loads \cup Acts, NEW asks, NEW again, Sends(c, asks, again) PROVE Quiet
  BY <1>0, <1>s DEF Sends
<1>a. ASSUME NEW c \in Loads \cup Acts, call[c].state = "answered", c \in Loads \/ call[c].here
      PROVE  Over(call[c].doc)
  BY <1>a DEF UpToDate, Outdated
<1>1. ASSUME NEW c \in Loads \cup Acts, ApiAnswers(c) PROVE UpToDate'
  <2>1. ASSUME Refuses(c) PROVE Quiet
    BY <1>0, <2>1 DEF Refuses, Call
  <2>2. ASSUME NEW x, Answers(c, x), Over(x)
        PROVE  \A k \in Loads \cup Acts : call'[k] = call[k] \/ Over(call'[k].doc)
    BY <1>0, <2>2 DEF Answers, Call
  <2>3. UNCHANGED view
    BY <1>1 DEF ApiAnswers
  <2>4. QED
    BY <1>0, <1>1, <1>q, <2>1, <2>2, <2>3, AnswersShowEnds, NothingOutdated
<1>2. ASSUME NEW c \in Loads \cup Acts, CallFails(c) PROVE UpToDate'
  <2>1. Quiet
    BY <1>0, <1>2 DEF CallFails, Refuses, Call
  <2>2. QED
    BY <1>0, <1>2, <1>q, <2>1 DEF CallFails
<1>3. ASSUME NEW c \in Loads \cup Acts, LoadLands(c) PROVE UpToDate'
  <2>1. /\ c \in Loads /\ call' = Ended(c)
        /\ view' = IF call[c].state = "answered" THEN call[c].doc ELSE view
    BY <1>3 DEF LoadLands
  <2>2. Over(view')
    BY <1>0, <1>a, <2>1
  <2>3. QED
    BY <1>e, <1>q, <2>1, <2>2
<1>h. ASSUME NEW c \in Acts, call[c].state = "answered", Shows(c) PROVE Over(view')
  BY <1>0, <1>a, <1>h DEF Shows
<1>4. CASE ActLands
  <2>1. Over(view')
    BY <1>0, <1>4, <1>h DEF ActLands, SaveLands, RetryLands, RemoveFails
  <2>2. ASSUME NEW c \in Acts, call' = Ended(c) PROVE Quiet
    BY <1>e, <2>2
  <2>3. ASSUME call' = [Ended("save") EXCEPT ![NextLoad] = Ask("load", FALSE)] PROVE Quiet
    <3>1. Ask("load", FALSE).state # "answered"
      BY <1>0
    <3>2. \A k \in Loads \cup Acts :
            call'[k] \in {call[k], NoCall, Ask("load", FALSE)}
      BY <1>0, <2>3 DEF Ended
    <3>3. QED
      BY <1>0, <3>1, <3>2
  <2>4. ASSUME call' = [call EXCEPT !["save"] =
                          [call["save"] EXCEPT !.asks = "retry", !.state = "sent"]]
        PROVE  Quiet
    <3>1. call["save"] \in Call
      BY <1>0
    <3>2. [call["save"] EXCEPT !.asks = "retry", !.state = "sent"].state # "answered"
      BY <3>1 DEF Call
    <3>3. QED
      BY <1>0, <2>4, <3>2
  <2>5. CASE SaveLands
    <3>1. \/ call' = Ended("save")
          \/ call' = [Ended("save") EXCEPT ![NextLoad] = Ask("load", FALSE)]
          \/ call' = [call EXCEPT !["save"] =
                        [call["save"] EXCEPT !.asks = "retry", !.state = "sent"]]
      BY <2>5 DEF SaveLands
    <3>2. QED
      BY <1>0, <1>q, <2>1, <2>2, <2>3, <2>4, <3>1
  <2>6. CASE RetryLands \/ RemoveFails
    <3>1. \E c \in Acts : call' = Ended(c)
      BY <1>0, <2>6 DEF RetryLands, RemoveFails
    <3>2. QED
      BY <1>q, <2>1, <2>2, <3>1
  <2>7. QED
    BY <1>4, <2>5, <2>6 DEF ActLands
<1>l. LoadBrief => Quiet
  BY <1>0, <1>s DEF LoadBrief
<1>5. CASE EventArrives
  <2>1. LoadBrief \/ UNCHANGED call
    BY <1>5 DEF EventArrives, FollowsEvent
  <2>2. QED
    BY <1>0, <1>5, <1>l, <1>q, <2>1 DEF EventArrives
<1>6. CASE Poll \/ Refresh
  BY <1>0, <1>6, <1>l, <1>q DEF Poll, Refresh, Clicks
<1>7. CASE StartEditing \/ CancelEditing
  BY <1>0, <1>7, <1>q DEF StartEditing, CancelEditing
<1>8. CASE SaveChanges \/ RemoveBrief \/ RetryProcessing
  <2>1. \E act \in Acts : \E asks, again : Sends(act, asks, again)
    BY <1>0, <1>8 DEF SaveChanges, RemoveBrief, RetryProcessing, Begins
  <2>2. UNCHANGED view
    BY <1>8 DEF SaveChanges, RemoveBrief, RetryProcessing, Clicks
  <2>3. QED
    BY <1>0, <1>q, <1>s, <2>1, <2>2
<1>9. QED
  BY <1>1, <1>2, <1>3, <1>4, <1>5, <1>6, <1>7, <1>8 DEF DetailNext, CallStep

\* Whatever events arrive, loads land and calls of the user are answered: once
\* a page shows the end of an analysis with no older answer on its way, it shows
\* an end for as long as it is open and the brief is not in progress.
THEOREM ShownEndsStay == Spec => EndsStay
<1>1. ASSUME FrontTypeOK, [Next]_frontVars, page' = "detail", UpToDate, Settled, Settled'
      PROVE  UpToDate'
  <2>1. EventsTypeOK /\ DetailTypeOK
    BY <1>1 DEF FrontTypeOK
  <2>2. CASE UNCHANGED detailVars
    BY <1>1, <2>2 DEF detailVars, UpToDate, Outdated, Over
  <2>3. CASE Outside(EventsNext) \/ OnList(ListNext) \/ UNCHANGED frontVars
    BY <2>2, <2>3 DEF Outside, OnList, frontVars
  <2>4. CASE OnDetail(DetailNext)
    BY <1>1, <2>1, <2>4, DetailStaysUpToDate DEF OnDetail
  <2>5. CASE Navigates
    <3>1. OpenDetail
      BY <1>1, <2>5 DEF Navigates, OpenList, Leave, RemoveLands
    <3>2. call' = [call EXCEPT ![NextLoad] = Ask("mount", FALSE)] /\ UNCHANGED view
      BY <3>1 DEF OpenDetail, Mounts, Sends
    <3>3. Ask("mount", FALSE).state # "answered"
      BY DEF Ask, NoCall
    <3>4. \A c \in Loads \cup Acts : call'[c] = call[c] \/ call'[c].state # "answered"
      BY <2>1, <3>2, <3>3 DEF DetailTypeOK
    <3>5. QED
      BY <1>1, <3>2, <3>4, NothingOutdated DEF UpToDate
  <2>6. QED
    BY <1>1, <2>3, <2>4, <2>5 DEF Next
<1>2. FrontTypeOK /\ [Next]_frontVars =>
        [page' = "detail" /\ UpToDate /\ Settled /\ Settled' => UpToDate']_frontVars
  BY <1>1
<1>3. QED
  BY <1>2, PagesTypeCorrect, PTL DEF Spec, EndsStay

=============================================================================
