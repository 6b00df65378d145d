------------------------------- MODULE WebInbox -------------------------------
(***************************************************************************)
(* The web client of the realtime inbox (App.tsx, useInboxStream.ts) and   *)
(* the stream it follows, in the view that shows everything.               *)
(*                                                                         *)
(* The client asks for the counts and for the list at once and opens the   *)
(* stream when it has the counts, with their latest id as its cursor.  A   *)
(* publish may commit between the two answers; what repairs that is the    *)
(* list being asked for again on every ready and state event.  Deliveries  *)
(* that arrive while a list is under way stay pending and survive it.      *)
(*                                                                         *)
(* A request may fail, and a connection break.  A browser's EventSource    *)
(* reconnects after a break, but an answer other than 200 closes it for    *)
(* good; only going offline and online again creates another.              *)
(***************************************************************************)
EXTENDS InboxStream

CONSTANTS
    PageSize,     \* inboxPageSize
    Marks,        \* TRUE: the user marks deliveries as read in this client
    MaxFaults     \* bound: requests failed, connections lost, times offline

ASSUME PageAssumption == PageSize \in Nat \ {0}
ASSUME MarksAssumption == Marks \in BOOLEAN
ASSUME FaultAssumption == MaxFaults \in Nat

VARIABLES
    client,    \* the client
    faults     \* how much of the bound is used

vars == <<serverVars, client, faults>>

Nothing == <<>>    \* no deliveries: the function on no ids

(* at is the stream state shown, once the counts are there; source is the  *)
(* EventSource.  list and mark are requests under way: asked, read by the  *)
(* server, or none.  page is the list that was read last (by id, the       *)
(* note), unless another was asked for; inbox is what is displayed.        *)
NoClient ==
    [at |-> "loading", source |-> "none", cursor |-> 0, state |-> NoState,
     list |-> "asked", page |-> Nothing, inbox |-> Nothing, pending |-> {},
     error |-> FALSE, mark |-> "none", marked |-> NoState]

SignedOut == [NoClient EXCEPT !.at = "signedOut", !.list = "none"]

Init ==
    /\ ServerInit
    /\ client = NoClient
    /\ faults = 0

(* realtimeRefresh: the list is asked for (again). *)
Refetch(c) == [c EXCEPT !.list = "asked", !.page = Nothing, !.error = FALSE]

(* upsert: one delivery more, or another version of it. *)
Showing(shown, id, note) ==
    [i \in {id} \cup DOMAIN shown |-> IF i = id THEN note ELSE shown[i]]

Fault == faults < MaxFaults /\ faults' = faults + 1

(* The generator of a connection that is gone stops; what it sent is lost. *)
Disconnected == stream' = Idle /\ wire' = <<>>

(* handleUnauthorized: everything is reset, and the stream closed. *)
SignOut ==
    /\ session = "revoked"
    /\ client' = SignedOut
    /\ Disconnected
    /\ UNCHANGED <<dbVars, session, count, late, faults>>

-----------------------------------------------------------------------------
(* The first request for the counts.  (That the answer comes in the step   *)
(* that reads them is no loss: only Connect waits for it, and ready brings *)
(* newer counts.)                                                          *)
LoadState ==
    /\ client.at = "loading"
    /\ \/ SignOut
       \/ /\ session = "active"
          /\ client' = [client EXCEPT !.at = "connecting", !.source = "trying",
                                      !.cursor = InboxState(rows, Me).latest,
                                      !.state = InboxState(rows, Me)]
          /\ UNCHANGED <<serverVars, faults>>

(* It is made once per user: after a failure no stream is ever opened. *)
StateFails ==
    /\ client.at = "loading"
    /\ Fault
    /\ client' = [client EXCEPT !.at = "failed", !.error = TRUE]
    /\ UNCHANGED serverVars

(* Mutant of IsPage: a page of one row too many. *)
PageOfOneMore(ids) ==
    /\ ids \subseteq Mine
    /\ \A i \in ids, j \in Mine \ ids : i > j
    /\ IF Cardinality(Mine) <= PageSize THEN ids = Mine ELSE Cardinality(ids) = PageSize + 1

(* list_inbox: the newest PageSize rows. *)
IsPage(ids) ==
    /\ ids \subseteq Mine
    /\ \A i \in ids, j \in Mine \ ids : i > j
    /\ IF Cardinality(Mine) < PageSize THEN ids = Mine ELSE Cardinality(ids) = PageSize

(* The list is read; it arrives in a step of its own. *)
ReadList ==
    /\ client.list = "asked"
    /\ \/ SignOut
       \/ /\ session = "active"
          /\ \E ids \in SUBSET Mine :
                /\ IsPage(ids)
                /\ client' = [client EXCEPT !.list = "read",
                                            !.page = [i \in ids |-> rows[i].note]]
          /\ UNCHANGED <<serverVars, faults>>

(* What is displayed after applyPage: the page, and of what was displayed, *)
(* the deliveries of the stream that the page does not have.               *)
Merged(c) ==
    [i \in DOMAIN c.page \cup (DOMAIN c.inbox \cap c.pending) |->
        IF i \in DOMAIN c.page THEN c.page[i] ELSE c.inbox[i]]

(* Mutant of ApplyPage: the page replaces what is displayed. *)
ReplacePage ==
    /\ client.list = "read"
    /\ client' = [client EXCEPT !.list = "none", !.inbox = client.page, !.pending = {}]
    /\ UNCHANGED <<serverVars, faults>>

ApplyPage ==
    /\ client.list = "read"
    /\ client' = [client EXCEPT !.list = "none", !.inbox = Merged(client),
                                !.pending = @ \ DOMAIN client.page]
    /\ UNCHANGED <<serverVars, faults>>

ListFails ==
    /\ client.list # "none"
    /\ Fault
    /\ client' = [client EXCEPT !.list = "none", !.page = Nothing, !.error = TRUE]
    /\ UNCHANGED serverVars

-----------------------------------------------------------------------------
(* mutateDelivery: an unread delivery is marked as read, and the counts    *)
(* are asked for; when they are there, they are shown and the list is      *)
(* asked for again.  One that is gone is answered 404.                     *)
MarkShown(id) ==
    /\ Marks /\ client.mark = "none" /\ id \in DOMAIN client.inbox
    /\ \/ SignOut
       \/ /\ session = "active" /\ id \in Mine
          /\ MarkRead(id)
          /\ client' = [client EXCEPT !.mark = "asked", !.error = FALSE,
                                      !.pending = @ \ {id},
                                      !.inbox = Showing(@, id, rows[id].note)]
          /\ UNCHANGED faults
       \/ /\ session = "active" /\ id \notin Mine
          /\ client' = [client EXCEPT !.error = TRUE]
          /\ UNCHANGED <<serverVars, faults>>

ReadCounts ==
    /\ client.mark = "asked"
    /\ \/ SignOut
       \/ /\ session = "active"
          /\ client' = [client EXCEPT !.mark = "read", !.marked = InboxState(rows, Me)]
          /\ UNCHANGED <<serverVars, faults>>

ShowCounts ==
    /\ client.mark = "read"
    /\ client' = Refetch([client EXCEPT !.mark = "none", !.marked = NoState,
                                        !.state = client.marked])
    /\ UNCHANGED <<serverVars, faults>>

CountsFail ==
    /\ client.mark # "none"
    /\ Fault
    /\ client' = [client EXCEPT !.mark = "none", !.marked = NoState, !.error = TRUE]
    /\ UNCHANGED serverVars

-----------------------------------------------------------------------------
(* The stream *)

(* onerror: the browser tries again by itself ("trying"), or never.        *)
Reconnecting(source) == [client EXCEPT !.at = "reconnecting", !.source = source]

(* The EventSource's request: the first time with after_id, afterwards     *)
(* with Last-Event-ID, which is the same.  401 closes it like any answer   *)
(* that is not 200: a full pool, a locked database, the proxy.             *)
Connect ==
    /\ client.source = "trying"
    /\ \/ /\ session = "active"
          /\ client' = [client EXCEPT !.source = "open"]
          /\ stream' = Opened(client.cursor)
          /\ UNCHANGED faults
       \/ /\ (session = "revoked" /\ UNCHANGED faults) \/ Fault
          /\ client' = Reconnecting("closed")
          /\ UNCHANGED stream
    /\ UNCHANGED <<dbVars, session, wire, count, late>>

(* What the client makes of an event.  Before ready nothing else counts.   *)
Handled(e) ==
    CASE e.kind = "ready" ->
           Refetch([client EXCEPT !.at = "live", !.state = e.state])
      [] e.kind # "ready" /\ client.at # "live" -> client
      [] e.kind = "state" /\ client.at = "live" ->
           Refetch([client EXCEPT !.state = e.state])
      [] e.kind = "inbox" /\ client.at = "live" ->
           [client EXCEPT
               !.cursor = IF e.id > @ THEN e.id ELSE @,
               !.inbox = Showing(@, e.id, e.note),
               !.pending = @ \cup {e.id}]

(* Mutant of Receive: ready does not ask for the list. *)
ReceiveWithoutRefetch ==
    /\ client.source = "open"
    /\ wire # <<>>
    /\ wire' = Tail(wire)
    /\ client' = IF Head(wire).kind = "ready"
                   THEN [client EXCEPT !.at = "live", !.state = Head(wire).state]
                   ELSE Handled(Head(wire))
    /\ UNCHANGED <<dbVars, session, stream, count, late, faults>>

Receive ==
    /\ client.source = "open"
    /\ wire # <<>>
    /\ wire' = Tail(wire)
    /\ client' = Handled(Head(wire))
    /\ UNCHANGED <<dbVars, session, stream, count, late, faults>>

(* The server ended the stream and the client has read it to the end. *)
EndOfStream ==
    /\ client.source = "open"
    /\ stream.at = "none"
    /\ wire = <<>>
    /\ client' = Reconnecting("trying")
    /\ UNCHANGED <<serverVars, faults>>

(* The connection breaks, or cannot be made. *)
Drop ==
    /\ client.source \in {"trying", "open"}
    /\ Fault
    /\ client' = Reconnecting("trying")
    /\ Disconnected
    /\ UNCHANGED <<dbVars, session, count, late>>

(* The browser is offline: the EventSource is closed, and a new one is     *)
(* created when it is online again.                                        *)
Offline ==
    /\ client.at \in {"connecting", "live", "reconnecting"}
    /\ Fault
    /\ client' = [client EXCEPT !.at = "offline", !.source = "none"]
    /\ Disconnected
    /\ UNCHANGED <<dbVars, session, count, late>>

Online ==
    /\ client.at = "offline"
    /\ client' = [client EXCEPT !.at = "connecting", !.source = "trying"]
    /\ UNCHANGED <<serverVars, faults>>

(* GET /me, while the stream is reconnecting.  Only a 401 matters. *)
Poll == client.at = "reconnecting" /\ SignOut

-----------------------------------------------------------------------------
Client ==
    \/ LoadState \/ ReadList \/ ApplyPage \/ ReadCounts \/ ShowCounts
    \/ Connect \/ Receive \/ EndOfStream \/ Poll
Network == StateFails \/ ListFails \/ CountsFail \/ Drop \/ Offline \/ Online

Next ==
    \/ (TableChanges \/ Generator) /\ UNCHANGED <<client, faults>>
    \/ Client
    \/ \E id \in DOMAIN client.inbox : MarkShown(id)
    \/ Network

Spec == Init /\ [][Next]_vars

(* The event loop goes on, an answer that is not lost arrives, and the     *)
(* browser reads, reconnects and polls by its timers.  Nothing is assumed  *)
(* of publishers, users or the network: online again is never owed.        *)
FairSpec ==
    Spec /\ WF_vars(Generator /\ UNCHANGED <<client, faults>>) /\ WF_vars(Client)
         /\ SF_vars(CountsComeDue /\ UNCHANGED <<client, faults>>)

-----------------------------------------------------------------------------
TypeOK ==
    /\ ServerTypeOK
    /\ client.at \in {"loading", "failed", "connecting", "live", "reconnecting",
                      "offline", "signedOut"}
    /\ client.source \in {"none", "trying", "open", "closed"}
    /\ client.cursor \in 0 .. issued
    /\ client.list \in {"none", "asked", "read"}
    /\ client.mark \in {"none", "asked", "read"}
    /\ DOMAIN client.page \cup client.pending \cup DOMAIN client.inbox \subseteq 1 .. issued
    /\ Cardinality(DOMAIN client.page) <= PageSize

(* What a page of the list with these ids speaks for: everything when it   *)
(* is not full, and otherwise what is not older than all of it.            *)
Covers(ids, i) == Cardinality(ids) < PageSize \/ \E j \in ids : j <= i

Displayed(i, note) == i \in DOMAIN client.inbox /\ client.inbox[i] = note

(* A client that shows "live" and has neither an error to show nor a       *)
(* request under way shows every delivery at or below its cursor, but for  *)
(* those a full page leaves to "load more": although its cursor was read   *)
(* apart from its list, lists overtake deliveries, and connections break.  *)
(* The one exception is a row whose id had been used before: the last row  *)
(* of the table is deleted, and SQLite gives its id to the next one, which *)
(* a client whose cursor is that id is never sent.                         *)
ViewIsComplete ==
    client.at = "live" /\ client.list = "none" /\ client.mark = "none" /\ ~client.error
        => \A i \in Mine :
              i <= client.cursor /\ Covers(DOMAIN client.page, i) =>
                  Displayed(i, rows[i].note) \/ rows[i].note \in reused

(* README.md:23, "persisted replay cursors": however often the client has  *)
(* reconnected, each of its deliveries between its cursor and that of the  *)
(* open stream is on the wire.  What is above is still to be listed, and   *)
(* ViewIsComplete speaks of what is below.                                 *)
ReconnectReplays ==
    client.source = "open" /\ stream.at \notin {"none", "ready"} =>
        \A i \in Mine :
            client.cursor < i /\ i <= stream.cursor =>
                \/ \E k \in DOMAIN wire : /\ wire[k].kind = "inbox"
                                          /\ wire[k].id = i /\ wire[k].note = rows[i].note
                \/ rows[i].note \in reused

(* Across reconnects and batches, the inbox events a client receives have  *)
(* ascending ids above its cursor: no delivery is replayed to a client     *)
(* that has it, which is what keeps system alerts from repeating.          *)
NothingIsReplayed ==
    \A k \in DOMAIN wire : wire[k].kind = "inbox" =>
        /\ wire[k].id > client.cursor
        /\ \A j \in 1 .. k - 1 : wire[j].kind = "inbox" => wire[j].id < wire[k].id

(* The client waits for something that only the network or a new session   *)
(* can give: it says "reconnecting" or "offline", or shows an error.       *)
Stranded == client.at \in {"failed", "offline"} \/ client.source = "closed"

(* In the end every delivery of the user whose id is new is displayed, and *)
(* stays so, if the session does not end and unless the client says that   *)
(* it may not be: by its state, an error or "load more".                   *)
EveryDeliveryIsShown ==
    <>[](\/ session = "revoked" \/ Stranded \/ client.error
         \/ \A i \in Mine : \/ Displayed(i, rows[i].note)
                            \/ rows[i].note \in reused
                            \/ ~Covers(DOMAIN client.page, i))

(* The counts a client shows agree with the table once the table stops     *)
(* changing: a count read before a change, or an event lost with its       *)
(* connection, is corrected (README.md:23, "authoritative counts").  This  *)
(* is for a client whose user marks nothing.                               *)
CountsConverge ==
    <>[](session = "revoked" \/ Stranded \/ client.state = InboxState(rows, Me))

(* The client of a revoked session is signed out in the end, even one      *)
(* whose EventSource is closed for good.                                   *)
RevokedClientSignsOut ==
    session = "revoked" ~> client.at \in {"signedOut", "failed", "offline"}
==============================================================================
