---------------------------- MODULE DeliveryTable ----------------------------
(***************************************************************************)
(* The deliveries table and the queries delivery_service.py runs on it.    *)
(*                                                                         *)
(* A table is a function from the ids of the rows that exist to rows.  The *)
(* primary key is a plain INTEGER PRIMARY KEY (no migration declares       *)
(* AUTOINCREMENT), so SQLite gives a new row one more than the largest id  *)
(* in the table at that moment; the id of the last row is given out again  *)
(* once that row is deleted.                                               *)
(***************************************************************************)
EXTENDS Integers, FiniteSets, Sequences

(* read_at and acknowledged_at matter by being NULL or not. *)
Row(user, note) == [user |-> user, note |-> note, read |-> FALSE, ack |-> FALSE]

NoRows == <<>>

(* The largest of a set of ids, 0 when there is none: coalesce(max(id), 0). *)
MaxId(ids) ==
    IF ids = {} THEN 0 ELSE CHOOSE m \in ids : \A i \in ids : i <= m

NextRowId(rows) == MaxId(DOMAIN rows) + 1

(* fanout_notification's rows, in the order of users (ORDER BY User.id),   *)
(* inserted by one flush.                                                  *)
InsertAll(rows, note, users) ==
    LET first == NextRowId(rows)
        new   == [i \in first .. first + Len(users) - 1 |->
                     Row(users[i - first + 1], note)]
    IN  [i \in DOMAIN rows \cup DOMAIN new |->
            IF i \in DOMAIN rows THEN rows[i] ELSE new[i]]

Without(rows, id) == [i \in DOMAIN rows \ {id} |-> rows[i]]

(* _inbox_query: the ids of one user's rows. *)
InboxOf(rows, user) == {i \in DOMAIN rows : rows[i].user = user}

(* _owned_inbox_row finds the row. *)
Owns(rows, user, id) == id \in InboxOf(rows, user)

(* list_inbox_after: the first limit ids above after, in ascending order;  *)
(* the k-th of them is the one that k of them do not exceed.               *)
ListAfter(rows, user, after, limit) ==
    LET above == {i \in InboxOf(rows, user) : i > after}
        size  == Cardinality(above)
    IN  [k \in 1 .. (IF size < limit THEN size ELSE limit) |->
            CHOOSE i \in above : Cardinality({j \in above : j <= i}) = k]

(* get_inbox_state: one aggregate query. *)
InboxState(rows, user) ==
    LET mine == InboxOf(rows, user)
    IN  [latest |-> MaxId(mine),
         total  |-> Cardinality(mine),
         unread |-> Cardinality({i \in mine : ~rows[i].read}),
         acked  |-> Cardinality({i \in mine : rows[i].ack})]

==============================================================================
