----------------------------- MODULE InboxStream -----------------------------
(***************************************************************************)
(* The server's side of the realtime inbox: the deliveries of one user,    *)
(* the session of one client, and the server-sent event stream that        *)
(* follows the table for it.                                               *)
(*                                                                         *)
(* _inbox_event_stream (routers/inbox.py) runs on the event loop.  On each *)
(* turn it revalidates the session, lists rows above its cursor, perhaps   *)
(* reads the counts, and then yields what it read, event by event.  Every  *)
(* query sees the rows committed at that moment; requests in the thread    *)
(* pool commit between any two of them and between any two events.  The    *)
(* modules of the clients extend this one: they open the stream, read the  *)
(* wire and make the other requests.                                       *)
(***************************************************************************)
EXTENDS DeliveryTable

CONSTANTS
    Me, Others,       \* the user of this client, and the other users
    BatchLimit,       \* STREAM_BATCH_LIMIT
    MaxNotes,         \* bound: notifications published
    MaxChanges        \* bound: deliveries deleted or marked read

ASSUME UserAssumption == Me \notin Others
ASSUME LimitAssumption == BatchLimit \in Nat \ {0}
ASSUME BoundAssumption == MaxNotes \in Nat /\ MaxChanges \in Nat

VARIABLES
    rows,      \* the deliveries table
    session,   \* "active" or "revoked" (logout, reset, expiry, deactivation)
    stream,    \* the generator of the open connection
    wire,      \* events sent and not yet received
    count,     \* how much of each bound is used
    reused,    \* history: notes whose row got an id that was used before
    issued,    \* history: the largest id given out so far
    late       \* history: inbox events sent since the session was revoked

dbVars == <<rows, issued, reused>>
serverVars == <<dbVars, session, stream, wire, count, late>>

NoCursor == -1      \* no after_id, no Last-Event-ID
NoState == [latest |-> 0, total |-> 0, unread |-> 0, acked |-> 0]

(* An event on the wire: ready and state carry the counts, inbox carries a *)
(* delivery.                                                               *)
Event(kind, id, note, state) ==
    [kind |-> kind, id |-> id, note |-> note, state |-> state]

(* No stream is open, and one that has been opened with a cursor.  (GET    *)
(* /inbox/stream authenticates in a session of its own and takes the       *)
(* cursor from Last-Event-ID or after_id.)                                 *)
Blank(place, cursor) ==
    [at |-> place, cursor |-> cursor, batch |-> <<>>, due |-> FALSE,
     next |-> NoState, last |-> NoState]
Idle == Blank("none", 0)
Opened(cursor) == Blank("ready", cursor)

ServerInit ==
    /\ rows = NoRows
    /\ session = "active"
    /\ stream = Idle
    /\ wire = <<>>
    /\ count = [notes |-> 0, changes |-> 0]
    /\ reused = {}
    /\ issued = 0
    /\ late = 0

-----------------------------------------------------------------------------
(* Requests of the thread pool, as they commit *)

(* fanout commits rows for the audience of a new notification.  SQLite's   *)
(* write lock makes ids ascend in commit order.                            *)
Publish(users) ==
    LET note == count.notes + 1
        ids  == {i \in DOMAIN InsertAll(rows, note, users) : i \notin DOMAIN rows}
    IN  /\ count.notes < MaxNotes
        /\ count' = [count EXCEPT !.notes = note]
        /\ rows' = InsertAll(rows, note, users)
        /\ reused' = reused \cup {note : i \in {j \in ids : j <= issued}}
        /\ issued' = MaxId(ids \cup {issued})
        /\ UNCHANGED <<session, stream, wire, late>>

(* delete_inbox_delivery, by either user *)
Delete(id) ==
    /\ count.changes < MaxChanges
    /\ count' = [count EXCEPT !.changes = @ + 1]
    /\ rows' = Without(rows, id)
    /\ UNCHANGED <<issued, reused, session, stream, wire, late>>

(* mark_delivery_read *)
MarkRead(id) ==
    /\ ~rows[id].read
    /\ count.changes < MaxChanges
    /\ count' = [count EXCEPT !.changes = @ + 1]
    /\ rows' = [rows EXCEPT ![id].read = TRUE]
    /\ UNCHANGED <<issued, reused, session, stream, wire, late>>

(* Logout, password reset, expiry or deactivation commits. *)
Revoke ==
    /\ session = "active"
    /\ session' = "revoked"
    /\ UNCHANGED <<dbVars, stream, wire, count, late>>

-----------------------------------------------------------------------------
(* The generator *)

Send(e) ==
    /\ wire' = Append(wire, e)
    /\ late' = IF e.kind = "inbox" /\ session = "revoked" THEN late + 1 ELSE late

(* The generator returns and the server ends the response. *)
Close == stream' = Idle

(* Mutant of Ready: the client's cursor is ignored. *)
ReadyAtLatest ==
    /\ stream.at = "ready"
    /\ \/ /\ session = "revoked"
          /\ Close
          /\ UNCHANGED <<wire, late>>
       \/ /\ session = "active"
          /\ LET state == InboxState(rows, Me)
             IN  /\ stream' = [stream EXCEPT !.at = "check", !.cursor = state.latest,
                                            !.last = state]
                 /\ Send(Event("ready", 0, 0, state))
    /\ UNCHANGED <<dbVars, session, count>>

(* Its first part: revalidate, read the counts, choose the cursor, and     *)
(* say ready.                                                              *)
Ready ==
    /\ stream.at = "ready"
    /\ \/ /\ session = "revoked"
          /\ Close
          /\ UNCHANGED <<wire, late>>
       \/ /\ session = "active"
          /\ LET state == InboxState(rows, Me)
             IN  /\ stream' = [stream EXCEPT
                       !.at = "check",
                       !.cursor = IF @ = NoCursor THEN state.latest ELSE @,
                       !.last = state]
                 /\ Send(Event("ready", 0, 0, state))
    /\ UNCHANGED <<dbVars, session, count>>

(* Mutant of Check: the session is validated only when the stream opens. *)
CheckNothing ==
    /\ stream.at = "check"
    /\ \E due \in BOOLEAN :
          stream' = [stream EXCEPT !.at = "list", !.due = due]
    /\ UNCHANGED <<dbVars, session, wire, count, late>>

(* principal_session_is_active at the top of each turn.  Whether five      *)
(* seconds have passed since the counts were last read is left open.       *)
Check ==
    /\ stream.at = "check"
    /\ \/ /\ session = "revoked"
          /\ Close
       \/ /\ session = "active"
          /\ \E due \in BOOLEAN :
                stream' = [stream EXCEPT !.at = "list", !.due = due]
    /\ UNCHANGED <<dbVars, session, wire, count, late>>

(* list_inbox_after *)
List ==
    /\ stream.at = "list"
    /\ LET ids == ListAfter(rows, Me, stream.cursor, BatchLimit)
       IN  stream' = [stream EXCEPT
              !.at = IF ids # <<>> \/ stream.due THEN "state" ELSE "check",
              !.batch = [k \in DOMAIN ids |-> [id |-> ids[k],
                                               note |-> rows[ids[k]].note]]]
    /\ UNCHANGED <<dbVars, session, wire, count, late>>

(* get_inbox_state, a query of its own *)
ReadState ==
    /\ stream.at = "state"
    /\ stream' = [stream EXCEPT !.at = "emit", !.next = InboxState(rows, Me)]
    /\ UNCHANGED <<dbVars, session, wire, count, late>>

(* Mutant of Emit: the cursor stays where it was. *)
EmitInPlace ==
    /\ stream.at = "emit"
    /\ stream.batch # <<>>
    /\ LET d == Head(stream.batch)
       IN  /\ stream' = [stream EXCEPT !.batch = Tail(@)]
           /\ Send(Event("inbox", d.id, d.note, NoState))
    /\ UNCHANGED <<dbVars, session, count>>

(* Yield the listed deliveries one by one, moving the cursor with them. *)
Emit ==
    /\ stream.at = "emit"
    /\ stream.batch # <<>>
    /\ LET d == Head(stream.batch)
       IN  /\ stream' = [stream EXCEPT !.cursor = d.id, !.batch = Tail(@)]
           /\ Send(Event("inbox", d.id, d.note, NoState))
    /\ UNCHANGED <<dbVars, session, count>>

(* Mutant of EmitState: only a new latest delivery is worth an event. *)
EmitStateIfNewer ==
    /\ stream.at = "emit"
    /\ stream.batch = <<>>
    /\ stream' = [stream EXCEPT !.at = "check", !.due = FALSE,
                                !.last = stream.next, !.next = NoState]
    /\ IF stream.next.latest # stream.last.latest
         THEN Send(Event("state", 0, 0, stream.next))
         ELSE UNCHANGED <<wire, late>>
    /\ UNCHANGED <<dbVars, session, count>>

(* After the last of them, yield the counts if they changed. *)
EmitState ==
    /\ stream.at = "emit"
    /\ stream.batch = <<>>
    /\ stream' = [stream EXCEPT !.at = "check", !.due = FALSE,
                                !.last = stream.next, !.next = NoState]
    /\ IF stream.next # stream.last
         THEN Send(Event("state", 0, 0, stream.next))
         ELSE UNCHANGED <<wire, late>>
    /\ UNCHANGED <<dbVars, session, count>>

-----------------------------------------------------------------------------
Mine == InboxOf(rows, Me)

(* What changes the table and ends the session: requests of producers, of  *)
(* other users, and of other clients of the same user.                     *)
TableChanges ==
    \/ Publish(<<Me>>)
    \/ \E other \in Others : Publish(<<other>>) \/ Publish(<<Me, other>>)
    \/ \E id \in DOMAIN rows : Delete(id) \/ MarkRead(id)
    \/ Revoke

Generator == Ready \/ Check \/ List \/ ReadState \/ Emit \/ EmitState

(* The event loop keeps running the generator, and the counts come due     *)
(* again and again.                                                        *)
CountsComeDue == Check /\ stream'.due

-----------------------------------------------------------------------------
ServerTypeOK ==
    /\ DOMAIN rows \subseteq 1 .. issued
    /\ \A i \in DOMAIN rows :
          rows[i] \in [user : {Me} \cup Others, note : 1 .. MaxNotes,
                       read : BOOLEAN, ack : BOOLEAN]
    /\ session \in {"active", "revoked"}
    /\ stream.at \in {"none", "ready", "check", "list", "state", "emit"}
    /\ stream.cursor \in Int /\ Len(stream.batch) <= BatchLimit
    /\ \A k \in DOMAIN wire : wire[k].kind \in {"ready", "inbox", "state"}

(* A revoked session is sent at most the batch that was being listed when  *)
(* the revocation committed: the check is not repeated inside a batch, but *)
(* it is made before each one (principal_session_is_active).               *)
RevocationStopsTheStream == late <= BatchLimit
==============================================================================
