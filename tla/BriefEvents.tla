----------------------------- MODULE BriefEvents -----------------------------
(***************************************************************************)
(* The way of a change to a browser: the worker writes a brief and then    *)
(* publishes the change on a Redis channel (publishUpdate in               *)
(* worker/src/briefs/brief-processor.ts), the gateway passes it to the     *)
(* room of the tenant (backend/src/realtime/brief-events.gateway.ts), and  *)
(* the socket of the page that is open hears of it                         *)
(* (frontend/src/brief-events.ts).  The API publishes none of its writes.  *)
(*                                                                         *)
(* There is one browser with one page open at a time.  Jobs, executions    *)
(* and requests are those of BriefSystem: of them only the writes count    *)
(* here, in every order the filters of the updates allow.                  *)
(***************************************************************************)
EXTENDS BriefDocuments, Sequences

CONSTANTS
  Briefs,  \* the briefs, numbered in the order of their creation
  Before,  \* their documents at first
  Loads,   \* the loads that a page can have in flight at once
  Bounds   \* how often each kind of event below may happen

(***************************************************************************)
(* What is bounded: claims of a brief by the worker; events of all of the  *)
(* following kinds together: what other users ask for, what the user of    *)
(* the browser asks the API for, calls that fail, changes that are lost    *)
(* and connections that break; and pages opened.                           *)
(***************************************************************************)
Kinds == {"claim", "event", "visit"}

ASSUME EventsAssumption ==
  /\ Briefs \subseteq Nat \ {0}
  /\ Before \in [Briefs -> Document]
  /\ Loads # {}
  /\ Bounds \in [Kinds -> Nat]

VARIABLES
  page,   \* the page that is open: none, list or detail
  doc,    \* the document of each brief
  due,    \* whether the worker has an event of each brief to publish
  socket, \* the socket, as the page sees it
  room,   \* the socket, as the gateway sees it
  inbox,  \* the events on their way to the page: the briefs they name
  left    \* how many events of each bounded kind may still happen

briefVars == <<doc, due>>
socketVars == <<socket, room, inbox>>

EventsTypeOK ==
  /\ page \in {"none", "list", "detail"}
  /\ doc \in [Briefs -> Document]
  /\ due \in [Briefs -> BOOLEAN]
  /\ socket \in {"none", "connecting", "connected", "refused"}
  /\ room \in {"none", "authenticating", "joined", "gone"}
  /\ inbox \in Seq(Briefs)
  /\ left \in [Kinds -> Nat]

EventsInit ==
  /\ page = "none"
  /\ doc = Before
  /\ due = [b \in Briefs |-> FALSE]
  /\ socket = "none" /\ room = "none" /\ inbox = <<>>
  /\ left = Bounds

Spend(kind) == left[kind] > 0 /\ left' = [left EXCEPT ![kind] = @ - 1]

Writes(b, d) == doc' = [doc EXCEPT ![b] = d]

-----------------------------------------------------------------------------
(* The worker.                                                             *)

\* A write of the worker that was applied; its event is published next.
Changes(b, d) == Writes(b, d) /\ due' = [due EXCEPT ![b] = TRUE]

\* The worker publishes an event before it goes on.
Claim(b) ==
  /\ ~due[b] /\ Claimable(doc[b])
  /\ Spend("claim") /\ Changes(b, StartAttempt(doc[b]))

Settle(b) ==
  /\ ~due[b] /\ doc[b].status = "PROCESSING"
  /\ \/ \E outcome \in Outcomes : Changes(b, Complete(doc[b], outcome, doc[b].content))
     \/ Changes(b, PrepareRetry(doc[b]))
     \/ \E error \in Errors : Changes(b, Fail(doc[b], error))
  /\ UNCHANGED left

WorkerWrites(b) == (Claim(b) \/ Settle(b)) /\ UNCHANGED socketVars

\* publishUpdate and handleRedisMessage: the event goes to who is in the room.
Publish(b) ==
  /\ due[b] /\ due' = [due EXCEPT ![b] = FALSE]
  /\ inbox' = IF room = "joined" THEN Append(inbox, b) ELSE inbox
  /\ UNCHANGED <<doc, socket, room, left>>

\* Redis refuses the event (which is only logged), the worker dies, or the
\* subscription of the gateway is down.
LosePublish(b) ==
  /\ due[b] /\ due' = [due EXCEPT ![b] = FALSE]
  /\ Spend("event")
  /\ UNCHANGED <<doc, socketVars>>

-----------------------------------------------------------------------------
\* Other users create, edit, remove and retry; a retry that cannot be
\* published is undone.
OthersWrite(b) ==
  /\ Spend("event")
  /\ \/ doc[b] = Unborn /\ Writes(b, NewBrief)
     \/ Editable(doc[b]) /\ (Writes(b, Edited(doc[b])) \/ Writes(b, Deleted))
     \/ Retryable(doc[b]) /\ Writes(b, BackToPending(doc[b], doc[b].status))
     \/ doc[b].status = "PENDING" /\ Writes(b, CompensateRetry(doc[b]))
  /\ UNCHANGED <<due, socketVars>>

-----------------------------------------------------------------------------
(* The socket.                                                             *)

\* A page is opened (useBriefUpdates), or closed.
OpenSocket == socket' = "connecting" /\ UNCHANGED <<room, inbox>>
CloseSocket == socket' = "none" /\ room' = "none" /\ inbox' = <<>>

\* handleConnection begins to authenticate, and the page already counts the
\* socket as connected.
SocketConnects ==
  /\ socket = "connecting"
  /\ socket' = "connected" /\ room' = "authenticating"
  /\ UNCHANGED <<briefVars, inbox, left>>

JoinsRoom ==
  /\ room = "authenticating" /\ room' = "joined"
  /\ UNCHANGED <<briefVars, socket, inbox, left>>

\* The gateway disconnects the socket, which does not come back by itself.
JoinFails ==
  /\ room = "authenticating"
  /\ socket' = "refused" /\ room' = "none"
  /\ UNCHANGED <<briefVars, inbox, left>>

\* The connection breaks, and what was on its way is lost...
SocketBreaks ==
  /\ socket = "connected" /\ room # "gone"
  /\ Spend("event")
  /\ room' = "gone" /\ inbox' = <<>>
  /\ UNCHANGED <<briefVars, socket>>

\* ... which the page notices later, and connects again.
BreakIsNoticed ==
  /\ room = "gone"
  /\ socket' = "connecting" /\ room' = "none"
  /\ UNCHANGED <<briefVars, inbox, left>>

SocketStep == SocketConnects \/ JoinsRoom \/ JoinFails \/ SocketBreaks \/ BreakIsNoticed

EventsNext ==
  \/ \E b \in Briefs : WorkerWrites(b) \/ Publish(b) \/ LosePublish(b) \/ OthersWrite(b)
  \/ SocketStep

=============================================================================
