---------------------------- MODULE BriefListPage ----------------------------
(***************************************************************************)
(* The page that lists the briefs (frontend/src/pages/BriefListPage.tsx),  *)
(* and the listing behind it (findAll in                                   *)
(* backend/src/briefs/briefs.service.ts).                                  *)
(*                                                                         *)
(* Of the filters there is the status, which stands for all.  The order is *)
(* the one the page begins with, the newest brief first.                   *)
(***************************************************************************)
EXTENDS BriefEvents, Integers, FiniteSets

CONSTANTS
  PageSize, \* limit of a request
  Filters   \* the statuses a user filters by, and all

ASSUME ListAssumption ==
  /\ IsFiniteSet(Briefs)
  /\ PageSize \in Nat \ {0}
  /\ "all" \in Filters /\ Filters \subseteq Stored \cup {"all"}

VARIABLES
  filter,    \* the status applied, or all
  number,    \* the number of the page of the listing
  response,  \* the listing the page shows
  waiting,   \* whether the page shows that it loads
  reloading, \* whether its button to refresh is disabled
  failed,    \* whether it shows an error
  load       \* its loads

listVars == <<filter, number, response, waiting, reloading, failed, load>>

\* A listing: what it was asked for, and what was read for it; the rows are
\* briefs with their status, the total is over all pages.
Listing == [filter : Filters, number : Nat, rows : SUBSET (Briefs \X Stored), total : Nat]

Asked(f, n) == [filter |-> f, number |-> n, rows |-> {}, total |-> 0]
NoListing == Asked("all", 0)

\* A load.
Load == [state : {"none", "sent", "answered", "failed"}, listing : Listing]
NoLoad == [state |-> "none", listing |-> NoListing]

ListTypeOK ==
  /\ filter \in Filters /\ number \in Nat \ {0}
  /\ response \in Listing
  /\ {waiting, reloading, failed} \subseteq BOOLEAN
  /\ load \in [Loads -> Load]

ListInit ==
  /\ filter = "all" /\ number = 1 /\ response = NoListing
  /\ waiting = TRUE /\ reloading = FALSE /\ failed = FALSE
  /\ load = [l \in Loads |-> NoLoad]

-----------------------------------------------------------------------------
(* findAll.  Its reads, which run at once, are made at one moment here; the *)
(* third of them, which counts the briefs per status, is left out.         *)

Selected(f) == {b \in Briefs : Exists(doc[b]) /\ f \in {"all", doc[b].status}}

\* The place of a brief in the listing.
Place(f, b) == Cardinality({c \in Selected(f) : c >= b})

\* sort, skip and limit.
Rows(f, n) ==
  {<<b, doc[b].status>> :
     b \in {c \in Selected(f) : Place(f, c) \in (n - 1) * PageSize + 1 .. n * PageSize}}

Total(f) == Cardinality(Selected(f))

Pages(listing) == (listing.total + PageSize - 1) \div PageSize

Read(listing) ==
  [listing EXCEPT !.rows = Rows(listing.filter, listing.number), !.total = Total(listing.filter)]

listPageVars == <<filter, number, response, waiting, reloading, failed>>

ApiReads(l) ==
  /\ load[l].state = "sent"
  /\ load' = [load EXCEPT ![l] = [state |-> "answered", listing |-> Read(@.listing)]]
  /\ UNCHANGED <<page, briefVars, socketVars, left, listPageVars>>

\* The call is aborted after ten seconds, or fails on the way.
LoadFails(l) ==
  /\ load[l].state \in {"sent", "answered"} /\ Spend("event")
  /\ load' = [load EXCEPT ![l] = [NoLoad EXCEPT !.state = "failed"]]
  /\ UNCHANGED <<page, briefVars, socketVars, listPageVars>>

-----------------------------------------------------------------------------
(* The page.                                                               *)

SendsList(f, n) ==
  /\ \E l \in Loads : load[l].state = "none"
  /\ LET l == CHOOSE l \in Loads : load[l].state = "none" IN
     load' = [load EXCEPT ![l] = [state |-> "sent", listing |-> Asked(f, n)]]

\* loadBriefs(true).
LoadBriefs == SendsList(filter, number) /\ reloading' = TRUE

\* The last answer to come in is shown, whatever it was asked for.
ListLands(l) ==
  /\ \/ /\ load[l].state = "answered"
        /\ response' = load[l].listing /\ failed' = FALSE
     \/ /\ load[l].state = "failed"
        /\ failed' = TRUE /\ UNCHANGED response
  /\ waiting' = FALSE /\ reloading' = FALSE
  /\ load' = [load EXCEPT ![l] = NoLoad]
  /\ UNCHANGED <<page, briefVars, socketVars, left, filter, number>>

\* Any event reloads the list.
ListEventArrives ==
  /\ page = "list" /\ inbox # <<>>
  /\ inbox' = Tail(inbox)
  /\ LoadBriefs
  /\ UNCHANGED <<page, briefVars, socket, room, left, filter, number, response, waiting, failed>>

\* mutant: the interval goes on loading what the page was opened with
PollListAsOpened ==
  /\ page = "list" /\ socket # "connected"
  /\ SendsList("all", 1) /\ reloading' = TRUE
  /\ UNCHANGED <<page, briefVars, socketVars, left, filter, number, response, waiting, failed>>

\* The interval, while no socket is connected.
PollList ==
  /\ page = "list" /\ socket # "connected"
  /\ LoadBriefs
  /\ UNCHANGED <<page, briefVars, socketVars, left, filter, number, response, waiting, failed>>

\* The effect of the first render, and of a render with another request.
Requests(f, n) ==
  /\ filter' = f /\ number' = n
  /\ SendsList(f, n) /\ waiting' = TRUE
  /\ UNCHANGED reloading

-----------------------------------------------------------------------------
(* The user.                                                               *)

ListClicks ==
  /\ page = "list" /\ Spend("event")
  /\ UNCHANGED <<page, briefVars, socketVars, response, failed>>

RefreshList ==
  ListClicks /\ ~reloading /\ LoadBriefs /\ UNCHANGED <<filter, number, waiting>>

\* applyFilters, clearFilters and filterByStatus go back to the first page.
ApplyFilter == ListClicks /\ \E f \in Filters : Requests(f, 1)

\* mutant: the button to the page before is not disabled on the first page
TurnPageBeforeTheFirst ==
  /\ ListClicks /\ ~waiting
  /\ response.rows # {} /\ Pages(response) > 1
  /\ \/ Requests(filter, number - 1)
     \/ number < Pages(response) /\ Requests(filter, number + 1)

\* The buttons are there if the listing on show has rows and several pages.
TurnPage ==
  /\ ListClicks /\ ~waiting
  /\ response.rows # {} /\ Pages(response) > 1
  /\ \/ number > 1 /\ Requests(filter, number - 1)
     \/ number < Pages(response) /\ Requests(filter, number + 1)

ListNext ==
  \/ \E l \in Loads : ApiReads(l) \/ LoadFails(l) \/ ListLands(l)
  \/ ListEventArrives \/ PollList
  \/ RefreshList \/ ApplyFilter \/ TurnPage

=============================================================================
