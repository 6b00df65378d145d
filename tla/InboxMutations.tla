--------------------------- MODULE InboxMutations ---------------------------
(***************************************************************************)
(* Concurrent mutations of inbox deliveries: read, unread, acknowledge and *)
(* delete (routers/inbox.py, delivery_service.py).                         *)
(*                                                                         *)
(* Each handler first SELECTs the row by id and owner, and then, in a      *)
(* transaction of its own, UPDATEs or DELETEs it by primary key alone.     *)
(* The handlers run in the thread pool, so other handlers, and fanouts,    *)
(* commit between the two statements; and an id that is deleted is handed  *)
(* out again when it was the largest (DeliveryTable).                      *)
(***************************************************************************)
EXTENDS DeliveryTable

CONSTANTS
    Requests,    \* handler invocations that may be in flight together
    Users,
    MaxNotes,    \* bound: notifications published
    MaxRequests  \* bound: requests started

ASSUME BoundAssumption == MaxNotes \in Nat /\ MaxRequests \in Nat

(* User ids are integer primary keys; fanouts take users in their order. *)
ASSUME UserAssumption == Users \subseteq Int

VARIABLES
    rows,      \* the deliveries table
    op,        \* per request: what it is and what its SELECT saw
    notes,     \* notifications published so far
    started,   \* requests started so far
    issued,    \* history: the largest id given out so far
    reused,    \* history: ids given out more than once
    gone,      \* history: <<user, note>> whose deletion was confirmed
    acked      \* history: <<user, note>> whose acknowledgement was confirmed

vars == <<rows, op, notes, started, issued, reused, gone, acked>>

Kinds == {"read", "unread", "acknowledge", "delete"}
NoRow == Row(0, 0)

NoOp == [at |-> "idle", kind |-> "read", user |-> 0, id |-> 0,
         seen |-> NoRow]

Init ==
    /\ rows = NoRows
    /\ op = [r \in Requests |-> NoOp]
    /\ notes = 0
    /\ started = 0
    /\ issued = 0
    /\ reused = {}
    /\ gone = {}
    /\ acked = {}

(* A notification is fanned out to some users, in the order of their ids. *)
Publish(users) ==
    /\ notes < MaxNotes
    /\ notes' = notes + 1
    /\ rows' = InsertAll(rows, notes + 1, users)
    /\ reused' = reused \cup {i \in DOMAIN rows' \ DOMAIN rows : i <= issued}
    /\ issued' = MaxId(DOMAIN rows' \cup {issued})
    /\ UNCHANGED <<op, started, gone, acked>>

(* A request arrives, for an id its user may or may not own.  The session  *)
(* and CSRF dependencies have named the user.                              *)
Begin(r, kind, user, id) ==
    /\ op[r].at = "idle"
    /\ started < MaxRequests
    /\ started' = started + 1
    /\ op' = [op EXCEPT ![r] = [NoOp EXCEPT !.at = "select", !.kind = kind,
                                            !.user = user, !.id = id]]
    /\ UNCHANGED <<rows, notes, issued, reused, gone, acked>>

Finish(r) == op' = [op EXCEPT ![r] = NoOp]

Pair(row) == <<row.user, row.note>>

(* What a request confirms to its user about the row its SELECT saw. *)
Confirm(kind, row) ==
    /\ gone' = IF kind = "delete" THEN gone \cup {Pair(row)} ELSE gone
    /\ acked' = IF kind = "acknowledge" THEN acked \cup {Pair(row)} ELSE acked

(* The row already is as the request wants it. *)
Satisfied(kind, row) ==
    \/ kind = "read" /\ row.read
    \/ kind = "unread" /\ ~row.read
    \/ kind = "acknowledge" /\ row.ack

(* Mutant of Select: the query does not ask who owns the row. *)
SelectAnyones(r) ==
    /\ op[r].at = "select"
    /\ IF op[r].id \notin DOMAIN rows
         THEN Finish(r) /\ UNCHANGED <<gone, acked>>
         ELSE /\ op' = [op EXCEPT ![r].at = "write", ![r].seen = rows[op[r].id]]
              /\ UNCHANGED <<gone, acked>>
    /\ UNCHANGED <<rows, notes, started, issued, reused>>

(* _owned_inbox_row: 404 unless the row exists and is the user's.  A       *)
(* mutation with nothing to change answers at once.                        *)
Select(r) ==
    /\ op[r].at = "select"
    /\ IF ~Owns(rows, op[r].user, op[r].id)
         THEN Finish(r) /\ UNCHANGED <<gone, acked>>
         ELSE LET row == rows[op[r].id]
              IN  IF Satisfied(op[r].kind, row)
                    THEN Finish(r) /\ Confirm(op[r].kind, row)
                    ELSE /\ op' = [op EXCEPT ![r].at = "write", ![r].seen = row]
                         /\ UNCHANGED <<gone, acked>>
    /\ UNCHANGED <<rows, notes, started, issued, reused>>

(* Mutant of Assign: every column is written back as the SELECT saw it. *)
AssignAll(kind, seen, row) ==
    CASE kind = "read" -> [seen EXCEPT !.read = TRUE]
      [] kind = "unread" -> [seen EXCEPT !.read = FALSE]
      [] kind = "acknowledge" -> [seen EXCEPT !.ack = TRUE, !.read = TRUE]

(* The columns the flush sends: those the handler assigned, decided from   *)
(* the row the SELECT saw.                                                 *)
Assign(kind, seen, row) ==
    CASE kind = "read" -> [row EXCEPT !.read = TRUE]
      [] kind = "unread" -> [row EXCEPT !.read = FALSE]
      [] kind = "acknowledge" -> [row EXCEPT !.ack = TRUE,
                                             !.read = IF seen.read THEN @ ELSE TRUE]

(* UPDATE deliveries SET ... WHERE id = ?, and COMMIT. *)
Update(r) ==
    /\ op[r].at = "write"
    /\ op[r].kind # "delete"
    /\ op[r].id \in DOMAIN rows
    /\ rows' = [rows EXCEPT ![op[r].id] = Assign(op[r].kind, op[r].seen, @)]
    /\ Confirm(op[r].kind, op[r].seen)
    /\ Finish(r)
    /\ UNCHANGED <<notes, started, issued, reused>>

(* Mutant of UpdateFindsNothing: an upsert puts the row back. *)
UpdateUpserts(r) ==
    /\ op[r].at = "write"
    /\ op[r].kind # "delete"
    /\ op[r].id \notin DOMAIN rows
    /\ rows' = [i \in DOMAIN rows \cup {op[r].id} |->
                   IF i \in DOMAIN rows THEN rows[i]
                   ELSE Assign(op[r].kind, op[r].seen, op[r].seen)]
    /\ Finish(r)
    /\ UNCHANGED <<notes, started, issued, reused, gone, acked>>

(* The row is gone: the UPDATE matches nothing, SQLAlchemy raises          *)
(* StaleDataError, the transaction is rolled back and the answer is a 500. *)
UpdateFindsNothing(r) ==
    /\ op[r].at = "write"
    /\ op[r].kind # "delete"
    /\ op[r].id \notin DOMAIN rows
    /\ Finish(r)
    /\ UNCHANGED <<rows, notes, started, issued, reused, gone, acked>>

(* DELETE FROM deliveries WHERE id = ?, and COMMIT.  Matching nothing is   *)
(* only a warning: the answer is 204 either way.                           *)
DeleteRow(r) ==
    /\ op[r].at = "write"
    /\ op[r].kind = "delete"
    /\ rows' = Without(rows, op[r].id)
    /\ Confirm("delete", op[r].seen)
    /\ Finish(r)
    /\ UNCHANGED <<notes, started, issued, reused>>

Audiences == {<<u>> : u \in Users} \cup {<<u, v>> : u \in Users, v \in Users}

Next ==
    \/ \E users \in Audiences :
          (Len(users) = 2 => users[1] < users[2]) /\ Publish(users)
    \/ \E r \in Requests, kind \in Kinds, user \in Users, id \in 1 .. issued :
          Begin(r, kind, user, id)
    \/ \E r \in Requests :
          Select(r) \/ Update(r) \/ UpdateFindsNothing(r) \/ DeleteRow(r)

Spec == Init /\ [][Next]_vars

-----------------------------------------------------------------------------
TypeOK ==
    /\ DOMAIN rows \subseteq 1 .. issued
    /\ \A i \in DOMAIN rows :
          rows[i] \in [user : Users, note : 1 .. notes, read : BOOLEAN, ack : BOOLEAN]
    /\ \A r \in Requests :
          /\ op[r].at \in {"idle", "select", "write"}
          /\ op[r].kind \in Kinds
          /\ op[r].id \in 0 .. issued
    /\ reused \subseteq 1 .. issued
    /\ started \in 0 .. MaxRequests /\ notes \in 0 .. MaxNotes

(* A user's delivery is marked, acknowledged or deleted only by that       *)
(* user's own requests, whichever ids requests name and however they       *)
(* interleave, as long as the id was given out once.                       *)
OnlyOwnDeliveries ==
    [][\A i \in DOMAIN rows \ reused :
          i \notin DOMAIN rows' \/ rows'[i] # rows[i] =>
             \E r \in Requests : op[r].user = rows[i].user /\ op[r].id = i
                                 /\ op[r].at = "write" /\ op'[r].at = "idle"]_vars

(* Once a user has been told that a delivery is acknowledged it stays      *)
(* acknowledged until it is deleted, though read and unread requests that  *)
(* read the row before the acknowledgement write it afterwards, and even   *)
(* when the write of another delivery's request lands on its id.           *)
AcknowledgementSticks ==
    \A i \in DOMAIN rows : Pair(rows[i]) \in acked => rows[i].ack

(* Once a user has been told that a delivery is deleted it never comes     *)
(* back, whatever was in flight.                                           *)
DeletedStaysDeleted ==
    \A i \in DOMAIN rows : Pair(rows[i]) \notin gone

=============================================================================
