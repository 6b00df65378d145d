------------------------ MODULE InboxMutationsProofs ------------------------
(***************************************************************************)
(* Proofs about InboxMutations, for every set of users and requests and    *)
(* every bound: its type invariant, that confirmed acknowledgements and    *)
(* deletions stick, and that requests change only their own user's rows.   *)
(*                                                                         *)
(* None of the three follows from the statements alone: what a request     *)
(* confirms is what its SELECT saw, and by the time it writes another row  *)
(* may have its id.  The inductive invariant therefore follows each        *)
(* delivery by its user and note, which are never used twice, and says     *)
(* where a delivery that a request saw can still be.                       *)
(***************************************************************************)
EXTENDS InboxMutations, FiniteSetTheorems, TLAPS

-----------------------------------------------------------------------------
(* Extrema of sets of numbers *)

(* A nonempty set of naturals has a least element.  Were there none, the   *)
(* numbers below all of T would be finitely many and closed under          *)
(* successor, and n |-> n + 1 would map them one to one into fewer.        *)
LEMMA LeastNumber ==
    ASSUME NEW T \in SUBSET Nat, T # {}
    PROVE  \E m \in T : \A n \in T : m <= n
<1> SUFFICES ASSUME \A m \in T : \E n \in T : n < m
             PROVE  FALSE
    OBVIOUS
<1> DEFINE Below == {n \in Nat : \A t \in T : n < t}
           up    == [n \in Below |-> n + 1]
<1>1. PICK t \in T : TRUE
    OBVIOUS
<1>2. IsFiniteSet(Below)
    BY <1>1, FS_BoundedSetOfNaturals
<1>3. 0 \in Below
    OBVIOUS
<1>4. up \in [Below -> Below \ {0}]
    OBVIOUS
<1>5. \A x, y \in Below : up[x] = up[y] => x = y
    OBVIOUS
<1> HIDE DEF Below, up
<1>6. /\ IsFiniteSet(Below \ {0})
      /\ Cardinality(Below \ {0}) = Cardinality(Below) - 1
      /\ Cardinality(Below) \in Nat
    BY <1>2, <1>3, FS_RemoveElement, FS_CardinalityType
<1>7. \E x, y \in Below : x # y /\ up[x] = up[y]
    <2>1. Cardinality(Below \ {0}) < Cardinality(Below)
        BY <1>6
    <2>2. QED
        BY <1>2, <1>4, <1>6, <2>1, FS_PigeonHole
<1>8. QED
    BY <1>5, <1>7

(* MaxId of a nonempty bounded set of ids is its largest element. *)
LEMMA MaxIdIsLargest ==
    ASSUME NEW n \in Int, NEW S \in SUBSET (0 .. n), S # {}
    PROVE  /\ MaxId(S) \in S
           /\ \A i \in S : i <= MaxId(S)
<1> DEFINE T == {n - i : i \in S}
<1>1. T \in SUBSET Nat /\ T # {}
    <2>1. \A i \in S : n - i \in Nat
        OBVIOUS
    <2>2. QED
        BY <2>1
<1>2. PICK m \in T : \A k \in T : m <= k
    BY <1>1, LeastNumber
<1>3. PICK x \in S : m = n - x
    OBVIOUS
<1>4. \A y \in S : n - x <= n - y
    BY <1>2, <1>3
<1>5. \A y \in S : y <= x
    BY <1>4
<1>6. QED
    BY <1>5 DEF MaxId

-----------------------------------------------------------------------------
(* Inserting rows *)

(* The ids of a table are positive and at most n. *)
IdsUpTo(table, n) == DOMAIN table \subseteq 1 .. n

(* The users of an audience are named once each. *)
AllDifferent(users) ==
    \A k, l \in 1 .. Len(users) : users[k] = users[l] => k = l

(* The next row id is above every id in the table and at most one above    *)
(* any bound of them.                                                      *)
LEMMA NextRowIdIsFree ==
    ASSUME NEW n \in Nat, NEW table, IdsUpTo(table, n)
    PROVE  /\ NextRowId(table) \in 1 .. (n + 1)
           /\ \A i \in DOMAIN table : i < NextRowId(table)
<1>1. CASE DOMAIN table = {}
    BY <1>1 DEF NextRowId, MaxId, IdsUpTo
<1>2. CASE DOMAIN table # {}
    <2> DEFINE ids == DOMAIN table
    <2>1. n \in Int /\ ids \in SUBSET (0 .. n) /\ ids # {}
        BY <1>2 DEF IdsUpTo
    <2> HIDE DEF ids
    <2>2. MaxId(ids) \in ids /\ \A i \in ids : i <= MaxId(ids)
        BY <2>1, MaxIdIsLargest
    <2>3. QED
        BY <2>2 DEF NextRowId, IdsUpTo, ids
<1>3. QED
    BY <1>1, <1>2

(* The ids a fanout to users will use. *)
Fresh(table, users) == NextRowId(table) .. (NextRowId(table) + Len(users) - 1)

(* The rows it will insert. *)
NewRows(users, note) == {Row(users[k], note) : k \in 1 .. Len(users)}

(* new is the table after a fanout to different users: the rows that       *)
(* exist are as they were and, above all of them, each user has a new one. *)
Adds(new, table, users, note, n) ==
    /\ DOMAIN new = DOMAIN table \cup Fresh(table, users)
    /\ DOMAIN table \cap Fresh(table, users) = {}
    /\ Fresh(table, users) \subseteq 1 .. (n + Len(users))
    /\ \A i \in DOMAIN table : new[i] = table[i]
    /\ \A i \in Fresh(table, users) : new[i] \in NewRows(users, note)
    /\ \A i, j \in Fresh(table, users) : new[i].user = new[j].user => i = j

(* That is what fanout_notification's inserts do. *)
LEMMA InsertAllAdds ==
    ASSUME NEW n \in Nat, NEW table, IdsUpTo(table, n),
           NEW note, NEW users, Len(users) \in Nat, AllDifferent(users)
    PROVE  Adds(InsertAll(table, note, users), table, users, note, n)
<1> DEFINE first == NextRowId(table)
           new   == InsertAll(table, note, users)
<1>1. /\ first \in 1 .. (n + 1)
      /\ \A i \in DOMAIN table : i < first
    BY NextRowIdIsFree
<1>2. DOMAIN table \cap Fresh(table, users) = {}
    BY <1>1 DEF Fresh
<1>3. Fresh(table, users) \subseteq 1 .. (n + Len(users))
    BY <1>1 DEF Fresh
<1>4. new =
          [i \in DOMAIN table \cup Fresh(table, users) |->
              IF i \in DOMAIN table THEN table[i]
              ELSE [k \in Fresh(table, users) |-> Row(users[k - first + 1], note)][i]]
    BY DEF InsertAll, Fresh
<1> HIDE DEF new
<1>5. \A i \in Fresh(table, users) :
          i - first + 1 \in 1 .. Len(users) /\ new[i] = Row(users[i - first + 1], note)
    <2>1. \A i \in Fresh(table, users) : i - first + 1 \in 1 .. Len(users)
        BY <1>1 DEF Fresh
    <2>2. \A i \in Fresh(table, users) : new[i] = Row(users[i - first + 1], note)
        BY <1>2, <1>4
    <2>3. QED
        BY <2>1, <2>2
<1>6. \A i, j \in Fresh(table, users) : new[i].user = new[j].user => i = j
    <2> TAKE i, j \in Fresh(table, users)
    <2> HAVE new[i].user = new[j].user
    <2>1. PICK k \in 1 .. Len(users) : k = i - first + 1 /\ new[i] = Row(users[k], note)
        BY <1>5
    <2>2. PICK l \in 1 .. Len(users) : l = j - first + 1 /\ new[j] = Row(users[l], note)
        BY <1>5
    <2>3. k = l
        BY <2>1, <2>2 DEF Row, AllDifferent
    <2>4. QED
        BY <1>1, <2>1, <2>2, <2>3 DEF Fresh
<1>7. QED
    BY <1>2, <1>3, <1>4, <1>5, <1>6 DEF Adds, new, NewRows

-----------------------------------------------------------------------------
(* The inductive invariant *)

Deliveries == [user : Users, note : 1 .. notes, read : BOOLEAN, ack : BOOLEAN]

Ops == [at : {"idle", "select", "write"}, kind : Kinds, user : Users \cup {0},
        id : 0 .. issued,
        seen : [user : Users \cup {0}, note : 0 .. notes,
                read : BOOLEAN, ack : BOOLEAN]]

Typed ==
    /\ TypeOK
    /\ issued \in Nat
    /\ op \in [Requests -> Ops]
    /\ \A r \in Requests : op[r].at = "write" => op[r].seen \in Deliveries
    /\ gone \subseteq Users \X (1 .. notes)
    /\ acked \subseteq Users \X (1 .. notes)

(* A user has at most one delivery of a notification. *)
OneRowPerDelivery ==
    \A i, j \in DOMAIN rows : Pair(rows[i]) = Pair(rows[j]) => i = j

(* A request about to write has seen one of its user's deliveries.  That   *)
(* delivery, if it is still in the table, is where the request saw it; and *)
(* if the id was not given out again, it is what the request will write.   *)
WritesWhatItSaw ==
    \A r \in Requests : op[r].at = "write" =>
        /\ op[r].seen.user = op[r].user
        /\ \A i \in DOMAIN rows :
              Pair(rows[i]) = Pair(op[r].seen) => i = op[r].id
        /\ op[r].id \in DOMAIN rows \ reused =>
              Pair(rows[op[r].id]) = Pair(op[r].seen)

Inv ==
    /\ Typed
    /\ OneRowPerDelivery
    /\ WritesWhatItSaw
    /\ AcknowledgementSticks
    /\ DeletedStaysDeleted

-----------------------------------------------------------------------------
(* What a fanout does to the table: rows stay as they are, the new ones    *)
(* are of the new notification and of different users, and an id that is   *)
(* not above every earlier one is recorded as used before.                 *)
LEMMA PublishAdds ==
    ASSUME Typed, NEW users \in Audiences,
           Len(users) = 2 => users[1] < users[2], Publish(users)
    PROVE  /\ issued' \in Nat /\ issued <= issued'
           /\ DOMAIN rows \subseteq DOMAIN rows'
           /\ DOMAIN rows' \subseteq 1 .. issued'
           /\ \A i \in DOMAIN rows : rows'[i] = rows[i]
           /\ \A i \in DOMAIN rows' \ DOMAIN rows :
                 /\ rows'[i] \in Deliveries'
                 /\ rows'[i].note = notes + 1
                 /\ i > issued \/ i \in reused'
           /\ \A i, j \in DOMAIN rows' \ DOMAIN rows :
                 rows'[i].user = rows'[j].user => i = j
           /\ reused \subseteq reused' /\ reused' \subseteq 1 .. issued'
<1>1. issued \in Nat /\ DOMAIN rows \subseteq 1 .. issued /\ notes \in Nat
    BY BoundAssumption DEF Typed, TypeOK
<1>2. /\ Len(users) \in {1, 2}
      /\ \A k \in 1 .. Len(users) : users[k] \in Users
      /\ AllDifferent(users)
    BY UserAssumption DEF Audiences, AllDifferent
<1> DEFINE new == Fresh(rows, users)
           ids == DOMAIN rows' \cup {issued}
           top == issued + Len(users)
<1>3. /\ DOMAIN rows' = DOMAIN rows \cup new
      /\ DOMAIN rows \cap new = {}
      /\ new \subseteq 1 .. top
      /\ \A i \in DOMAIN rows : rows'[i] = rows[i]
      /\ \A i \in new : rows'[i] \in NewRows(users, notes + 1)
      /\ \A i, j \in new : rows'[i].user = rows'[j].user => i = j
    <2>1. rows' = InsertAll(rows, notes + 1, users) /\ Len(users) \in Nat
        BY <1>2 DEF Publish
    <2>2. IdsUpTo(rows, issued)
        BY <1>1 DEF IdsUpTo
    <2>3. Adds(rows', rows, users, notes + 1, issued)
        BY <1>1, <1>2, <2>1, <2>2, InsertAllAdds
    <2>4. QED
        BY <2>3 DEF Adds
<1> HIDE DEF new
<1>4. top \in Nat /\ issued <= top /\ \A i \in DOMAIN rows' : i \in 1 .. top
    <2>1. top \in Nat /\ issued <= top
        BY <1>1, <1>2
    <2> HIDE DEF top
    <2>2. ASSUME NEW i \in DOMAIN rows'
          PROVE  i \in 1 .. top
        <3>1. CASE i \in DOMAIN rows
            BY <1>1, <2>1, <3>1
        <3>2. CASE i \in new
            BY <1>3, <3>2
        <3>3. QED
            BY <1>3, <2>2, <3>1, <3>2
    <2>3. QED
        BY <2>1, <2>2
<1> HIDE DEF top
<1>5. issued' \in ids /\ \A i \in ids : i <= issued'
    <2>1. top \in Int /\ ids \in SUBSET (0 .. top) /\ ids # {}
        BY <1>1, <1>4
    <2>2. issued' = MaxId(ids)
        BY DEF Publish
    <2> HIDE DEF ids
    <2>3. QED
        BY <2>1, <2>2, MaxIdIsLargest
<1>6. issued' \in Nat /\ issued <= issued' /\ DOMAIN rows' \subseteq 1 .. issued'
    <2>1. issued' \in Nat
        BY <1>1, <1>4, <1>5
    <2>2. issued <= issued' /\ \A i \in DOMAIN rows' : i <= issued'
        BY <1>5
    <2>3. QED
        BY <1>4, <2>1, <2>2
<1>7. \A i \in new : rows'[i] \in Deliveries' /\ rows'[i].note = notes + 1
    <2> TAKE i \in new
    <2>1. PICK k \in 1 .. Len(users) : rows'[i] = Row(users[k], notes + 1)
        BY <1>3 DEF NewRows
    <2>2. notes' = notes + 1
        BY DEF Publish
    <2>3. QED
        BY <1>1, <1>2, <2>1, <2>2 DEF Deliveries, Row
<1>8. DOMAIN rows' \ DOMAIN rows = new
    BY <1>3
<1>9. /\ reused \subseteq reused' /\ reused' \subseteq 1 .. issued'
      /\ \A i \in DOMAIN rows' \ DOMAIN rows : i > issued \/ i \in reused'
    <2>1. reused' = reused \cup {i \in DOMAIN rows' \ DOMAIN rows : i <= issued}
        BY DEF Publish
    <2>2. reused \subseteq 1 .. issued
        BY DEF Typed, TypeOK
    <2>3. reused' \subseteq 1 .. issued'
        <3>1. \A i \in 1 .. issued : i \in 1 .. issued'
            BY <1>1, <1>6
        <3>2. QED
            BY <1>6, <2>1, <2>2, <3>1
    <2>4. \A i \in DOMAIN rows' \ DOMAIN rows : i > issued \/ i <= issued
        BY <1>1, <1>6
    <2>5. QED
        BY <2>1, <2>3, <2>4
<1>10. QED
    BY <1>3, <1>6, <1>7, <1>8, <1>9

-----------------------------------------------------------------------------
(* Type correctness *)

LEMMA InitTyped == Init => Typed
    BY BoundAssumption
       DEF Init, Typed, TypeOK, NoRows, NoOp, NoRow, Row, Ops, Kinds

(* What Assign returns is a delivery of the same user and notification. *)
LEMMA AssignKeepsPair ==
    ASSUME NEW kind \in Kinds \ {"delete"}, NEW seen, seen.read \in BOOLEAN,
           NEW row \in Deliveries
    PROVE  /\ Assign(kind, seen, row) \in Deliveries
           /\ Pair(Assign(kind, seen, row)) = Pair(row)
           /\ row.ack => Assign(kind, seen, row).ack
           /\ kind = "acknowledge" => Assign(kind, seen, row).ack
    BY DEF Assign, Kinds, Deliveries, Pair

(* A request that is over leaves a well-typed record of requests. *)
LEMMA FinishTyped ==
    ASSUME Typed, NEW r \in Requests, Finish(r), UNCHANGED <<notes, issued>>
    PROVE  /\ op' \in [Requests -> Ops']
           /\ \A q \in Requests :
                 op'[q].at = "write" => op'[q].seen \in Deliveries'
<1>1. NoOp \in Ops
    BY DEF Typed, TypeOK, Ops, NoOp, NoRow, Row, Kinds
<1>2. Ops' = Ops /\ Deliveries' = Deliveries
    BY DEF Ops, Deliveries
<1>3. op' = [op EXCEPT ![r] = NoOp] /\ NoOp.at = "idle"
    BY DEF Finish, NoOp
<1> HIDE DEF Ops, Deliveries, NoOp
<1>4. QED
    BY <1>1, <1>2, <1>3 DEF Typed

(* What a request confirms about a delivery is a pair of user and note. *)
LEMMA ConfirmTyped ==
    ASSUME Typed, NEW kind, NEW row \in Deliveries, Confirm(kind, row),
           UNCHANGED notes
    PROVE  /\ gone' \subseteq Users \X (1 .. notes')
           /\ acked' \subseteq Users \X (1 .. notes')
<1>1. Pair(row) \in Users \X (1 .. notes)
    BY DEF Pair, Deliveries
<1>2. QED
    BY <1>1 DEF Confirm, Typed

LEMMA NextTyped == Typed /\ [Next]_vars => Typed'
<1> SUFFICES ASSUME Typed, [Next]_vars
             PROVE  Typed'
    OBVIOUS
<1> USE BoundAssumption
<1>1. ASSUME NEW users \in Audiences, Len(users) = 2 => users[1] < users[2],
             Publish(users)
      PROVE  Typed'
    <2>1. /\ issued' \in Nat /\ issued <= issued'
          /\ DOMAIN rows' \subseteq 1 .. issued'
          /\ \A i \in DOMAIN rows : rows'[i] = rows[i]
          /\ \A i \in DOMAIN rows' \ DOMAIN rows : rows'[i] \in Deliveries'
          /\ reused' \subseteq 1 .. issued'
        BY <1>1, PublishAdds
    <2>2. /\ notes' = notes + 1 /\ notes' \in 0 .. MaxNotes
          /\ notes \in Nat /\ issued \in Nat
          /\ UNCHANGED <<op, started, gone, acked>>
        BY <1>1 DEF Publish, Typed, TypeOK
    <2>3. \A i \in DOMAIN rows' : rows'[i] \in Deliveries'
        BY <2>1, <2>2 DEF Typed, TypeOK, Deliveries
    <2>4. op' \in [Requests -> Ops']
        <3>1. \A o \in Ops : o \in Ops'
            BY <2>1, <2>2 DEF Ops
        <3>2. QED
            BY <2>2, <3>1 DEF Typed
    <2>8. \A r \in Requests : op'[r].at = "write" => op'[r].seen \in Deliveries'
        BY <2>2 DEF Typed, Deliveries
    <2>5. gone' \subseteq Users \X (1 .. notes') /\ acked' \subseteq Users \X (1 .. notes')
        BY <2>2 DEF Typed
    <2>6. TypeOK'
        BY <2>1, <2>2, <2>3, <2>4 DEF TypeOK, Typed, Deliveries, Ops
    <2>7. QED
        BY <2>1, <2>4, <2>5, <2>6, <2>8 DEF Typed
<1>2. ASSUME NEW r \in Requests, NEW kind \in Kinds, NEW user \in Users,
             NEW id \in 1 .. issued, Begin(r, kind, user, id)
      PROVE  Typed'
    <2>1. [NoOp EXCEPT !.at = "select", !.kind = kind, !.user = user, !.id = id]
              \in Ops
        <3>1. NoRow \in [user : Users \cup {0}, note : 0 .. notes,
                         read : BOOLEAN, ack : BOOLEAN]
            BY DEF Typed, TypeOK, NoRow, Row
        <3>2. id \in 0 .. issued
            BY DEF Typed
        <3>3. QED
            BY <3>1, <3>2 DEF Ops, NoOp
    <2>2. op' \in [Requests -> Ops]
        BY <1>2, <2>1 DEF Begin, Typed
    <2>3. \A q \in Requests : op'[q].at = "write" => op'[q].seen \in Deliveries
        BY <1>2 DEF Begin, Typed, NoOp
    <2>4. UNCHANGED <<rows, notes, issued, reused, gone, acked>>
        BY <1>2 DEF Begin
    <2>5. started' \in 0 .. MaxRequests
        BY <1>2 DEF Begin, Typed, TypeOK
    <2>6. QED
        BY <2>2, <2>3, <2>4, <2>5 DEF Typed, TypeOK, Ops, Deliveries
<1>3. ASSUME NEW r \in Requests, Select(r)
      PROVE  Typed'
    <2>1. UNCHANGED <<rows, notes, started, issued, reused>>
        BY <1>3 DEF Select
    <2> DEFINE row == rows[op[r].id]
    <2>2. /\ op' \in [Requests -> Ops']
          /\ \A q \in Requests : op'[q].at = "write" => op'[q].seen \in Deliveries'
          /\ gone' \subseteq Users \X (1 .. notes')
          /\ acked' \subseteq Users \X (1 .. notes')
        <3>1. CASE Finish(r) /\ UNCHANGED <<gone, acked>>
            BY <2>1, <3>1, FinishTyped DEF Typed
        <3>2. CASE Owns(rows, op[r].user, op[r].id)
            <4>1. row \in Deliveries
                BY <3>2 DEF Owns, InboxOf, Typed, TypeOK, Deliveries
            <4>2. CASE Finish(r) /\ Confirm(op[r].kind, row)
                BY <2>1, <4>1, <4>2, FinishTyped, ConfirmTyped
            <4>3. CASE /\ op' = [op EXCEPT ![r].at = "write", ![r].seen = row]
                       /\ UNCHANGED <<gone, acked>>
                <5>1. [op[r] EXCEPT !.at = "write", !.seen = row] \in Ops
                    <6>1. row \in [user : Users \cup {0}, note : 0 .. notes,
                                   read : BOOLEAN, ack : BOOLEAN]
                        BY <4>1 DEF Typed, TypeOK, Deliveries
                    <6>2. op[r] \in Ops
                        BY DEF Typed
                    <6> HIDE DEF row
                    <6>3. QED
                        BY <6>1, <6>2 DEF Ops
                <5>2. op' \in [Requests -> Ops]
                    BY <4>3, <5>1 DEF Typed, Ops
                <5>3. \A q \in Requests :
                          op'[q].at = "write" => op'[q].seen \in Deliveries
                    BY <4>1, <4>3 DEF Typed, Ops
                <5>4. QED
                    BY <2>1, <4>3, <5>2, <5>3 DEF Typed, Ops, Deliveries
            <4>4. QED
                BY <1>3, <3>2, <4>2, <4>3 DEF Select
        <3>3. QED
            BY <1>3, <3>1, <3>2 DEF Select
    <2>3. TypeOK'
        BY <2>1, <2>2 DEF Typed, TypeOK, Ops
    <2>4. QED
        BY <2>1, <2>2, <2>3 DEF Typed
<1>4. ASSUME NEW r \in Requests, Update(r)
      PROVE  Typed'
    <2>1. UNCHANGED <<notes, started, issued, reused>>
        BY <1>4 DEF Update
    <2>2. op[r].seen \in Deliveries /\ op[r].kind \in Kinds \ {"delete"}
        BY <1>4 DEF Update, Typed, Ops
    <2>3. /\ op' \in [Requests -> Ops']
          /\ \A q \in Requests : op'[q].at = "write" => op'[q].seen \in Deliveries'
          /\ gone' \subseteq Users \X (1 .. notes')
          /\ acked' \subseteq Users \X (1 .. notes')
        BY <1>4, <2>1, <2>2, FinishTyped, ConfirmTyped DEF Update
    <2>4. DOMAIN rows' = DOMAIN rows /\ \A i \in DOMAIN rows : rows'[i] \in Deliveries
        <3>1. \A i \in DOMAIN rows : rows[i] \in Deliveries
            BY DEF Typed, TypeOK, Deliveries
        <3>2. op[r].seen.read \in BOOLEAN
            BY <2>2 DEF Deliveries
        <3>3. Assign(op[r].kind, op[r].seen, rows[op[r].id]) \in Deliveries
            BY <1>4, <2>2, <3>1, <3>2, AssignKeepsPair DEF Update
        <3>4. QED
            BY <1>4, <3>1, <3>3 DEF Update
    <2>5. TypeOK'
        BY <2>1, <2>3, <2>4 DEF Typed, TypeOK, Ops, Deliveries
    <2>6. QED
        BY <2>1, <2>3, <2>5 DEF Typed
<1>5. ASSUME NEW r \in Requests, UpdateFindsNothing(r)
      PROVE  Typed'
    <2>1. UNCHANGED <<rows, notes, started, issued, reused, gone, acked>>
        BY <1>5 DEF UpdateFindsNothing
    <2>2. /\ op' \in [Requests -> Ops']
          /\ \A q \in Requests : op'[q].at = "write" => op'[q].seen \in Deliveries'
        BY <1>5, <2>1, FinishTyped DEF UpdateFindsNothing
    <2>3. QED
        BY <2>1, <2>2 DEF Typed, TypeOK, Ops
<1>6. ASSUME NEW r \in Requests, DeleteRow(r)
      PROVE  Typed'
    <2>1. UNCHANGED <<notes, started, issued, reused>>
        BY <1>6 DEF DeleteRow
    <2>2. op[r].seen \in Deliveries
        BY <1>6 DEF DeleteRow, Typed
    <2>3. /\ op' \in [Requests -> Ops']
          /\ \A q \in Requests : op'[q].at = "write" => op'[q].seen \in Deliveries'
          /\ gone' \subseteq Users \X (1 .. notes')
          /\ acked' \subseteq Users \X (1 .. notes')
        BY <1>6, <2>1, <2>2, FinishTyped, ConfirmTyped DEF DeleteRow
    <2>4. /\ DOMAIN rows' \subseteq DOMAIN rows
          /\ \A i \in DOMAIN rows' : rows'[i] = rows[i]
        BY <1>6 DEF DeleteRow, Without
    <2>5. TypeOK'
        BY <2>1, <2>3, <2>4 DEF Typed, TypeOK, Ops
    <2>6. QED
        BY <2>1, <2>3, <2>5 DEF Typed
<1>7. CASE UNCHANGED vars
    BY <1>7 DEF vars, Typed, TypeOK, Ops, Deliveries
<1>8. QED
    BY <1>1, <1>2, <1>3, <1>4, <1>5, <1>6, <1>7 DEF Next

(* The type invariant that the runs check. *)
THEOREM TypeCorrect == Spec => []TypeOK
<1>1. Typed => TypeOK
    BY DEF Typed
<1>2. QED
    BY <1>1, InitTyped, NextTyped, PTL DEF Spec

-----------------------------------------------------------------------------
(* Where a delivery that a request saw can be *)

(* Steps that only shorten the table, or change rows in place without      *)
(* changing whose they are.                                                *)
SamePairs ==
    /\ DOMAIN rows' \subseteq DOMAIN rows
    /\ \A i \in DOMAIN rows' : Pair(rows'[i]) = Pair(rows[i])

LEMMA InitInv == Init => Inv
    BY InitTyped
       DEF Init, Inv, OneRowPerDelivery, WritesWhatItSaw, AcknowledgementSticks,
           DeletedStaysDeleted, NoRows, NoOp

(* A fanout uses a notification no request has seen, so it neither brings  *)
(* a delivery back nor moves one.                                          *)
LEMMA PublishInv ==
    ASSUME Inv, Typed', NEW users \in Audiences,
           Len(users) = 2 => users[1] < users[2], Publish(users)
    PROVE  Inv'
<1>1. /\ DOMAIN rows \subseteq DOMAIN rows'
      /\ \A i \in DOMAIN rows : rows'[i] = rows[i]
      /\ \A i \in DOMAIN rows' \ DOMAIN rows :
            /\ rows'[i].note = notes + 1
            /\ i > issued \/ i \in reused'
      /\ \A i, j \in DOMAIN rows' \ DOMAIN rows :
            rows'[i].user = rows'[j].user => i = j
      /\ reused \subseteq reused'
    BY PublishAdds DEF Inv
<1>2. UNCHANGED <<op, gone, acked>>
    BY DEF Publish
<1>3. notes \in Nat /\ issued \in Nat
    BY BoundAssumption DEF Inv, Typed, TypeOK
<1>4. \A i \in DOMAIN rows : rows[i].note \in 1 .. notes
    BY DEF Inv, Typed, TypeOK
<1>5. \A i \in DOMAIN rows' \ DOMAIN rows, j \in DOMAIN rows :
          Pair(rows'[i]) # Pair(rows[j])
    BY <1>1, <1>3, <1>4 DEF Pair
<1>6. OneRowPerDelivery'
    <2>1. \A i, j \in DOMAIN rows' \ DOMAIN rows :
              Pair(rows'[i]) = Pair(rows'[j]) => i = j
        BY <1>1 DEF Pair
    <2>2. \A i, j \in DOMAIN rows : Pair(rows[i]) = Pair(rows[j]) => i = j
        BY DEF Inv, OneRowPerDelivery
    <2>3. QED
        BY <1>1, <1>5, <2>1, <2>2 DEF OneRowPerDelivery, Pair
<1>7. WritesWhatItSaw'
    <2> SUFFICES ASSUME NEW r \in Requests, op[r].at = "write"
                 PROVE  /\ op[r].seen.user = op[r].user
                        /\ \A i \in DOMAIN rows' :
                              Pair(rows'[i]) = Pair(op[r].seen) => i = op[r].id
                        /\ op[r].id \in DOMAIN rows' \ reused' =>
                              Pair(rows'[op[r].id]) = Pair(op[r].seen)
        BY <1>2 DEF WritesWhatItSaw, Pair
    <2>1. /\ op[r].seen.user = op[r].user
          /\ \A i \in DOMAIN rows : Pair(rows[i]) = Pair(op[r].seen) => i = op[r].id
          /\ op[r].id \in DOMAIN rows \ reused =>
                Pair(rows[op[r].id]) = Pair(op[r].seen)
        BY DEF Inv, WritesWhatItSaw
    <2>2. op[r].seen.note \in 1 .. notes /\ op[r].id \in 0 .. issued
        BY DEF Inv, Typed, Deliveries, Ops
    <2>3. \A i \in DOMAIN rows' \ DOMAIN rows : Pair(rows'[i]) # Pair(op[r].seen)
        BY <1>1, <1>3, <2>2 DEF Pair
    <2>4. op[r].id \in DOMAIN rows' \ reused' => op[r].id \in DOMAIN rows \ reused
        BY <1>1, <1>3, <2>2
    <2>5. QED
        BY <1>1, <2>1, <2>3, <2>4
<1>8. AcknowledgementSticks' /\ DeletedStaysDeleted'
    <2>1. \A i \in DOMAIN rows' \ DOMAIN rows : Pair(rows'[i]) \notin acked \cup gone
        BY <1>1, <1>3 DEF Inv, Typed, Pair
    <2>2. QED
        BY <1>1, <1>2, <2>1 DEF Inv, AcknowledgementSticks, DeletedStaysDeleted, Pair
<1>9. QED
    BY <1>6, <1>7, <1>8 DEF Inv

(* When a request ends and no delivery moves, what the others saw is still *)
(* where they saw it.                                                      *)
LEMMA FinishInv ==
    ASSUME Inv, NEW r \in Requests, Finish(r), SamePairs, UNCHANGED reused
    PROVE  OneRowPerDelivery' /\ WritesWhatItSaw'
<1>1. \A q \in Requests : op'[q].at = "write" => op'[q] = op[q]
    BY DEF Finish, NoOp, Inv, Typed
<1>2. OneRowPerDelivery'
    BY DEF SamePairs, Inv, OneRowPerDelivery
<1>3. WritesWhatItSaw'
    <2> SUFFICES ASSUME NEW q \in Requests, op[q].at = "write", op'[q] = op[q]
                 PROVE  /\ op[q].seen.user = op[q].user
                        /\ \A i \in DOMAIN rows' :
                              Pair(rows'[i]) = Pair(op[q].seen) => i = op[q].id
                        /\ op[q].id \in DOMAIN rows' \ reused =>
                              Pair(rows'[op[q].id]) = Pair(op[q].seen)
        BY <1>1 DEF WritesWhatItSaw, Pair
    <2>1. QED
        BY DEF SamePairs, Inv, WritesWhatItSaw
<1>4. QED
    BY <1>2, <1>3

LEMMA NextInv == Inv /\ [Next]_vars => Inv'
<1> SUFFICES ASSUME Inv, [Next]_vars
             PROVE  Inv'
    OBVIOUS
<1>0. Typed'
    BY NextTyped DEF Inv
<1>1. ASSUME NEW users \in Audiences, Len(users) = 2 => users[1] < users[2],
             Publish(users)
      PROVE  Inv'
    BY <1>0, <1>1, PublishInv
<1>2. ASSUME NEW r \in Requests, NEW kind \in Kinds, NEW user \in Users,
             NEW id \in 1 .. issued, Begin(r, kind, user, id)
      PROVE  Inv'
    <2>1. UNCHANGED <<rows, reused, gone, acked>>
        BY <1>2 DEF Begin
    <2>2. \A q \in Requests : op'[q].at = "write" => op'[q] = op[q]
        BY <1>2 DEF Begin, NoOp, Inv, Typed
    <2>3. WritesWhatItSaw'
        BY <2>1, <2>2 DEF Inv, WritesWhatItSaw
    <2>4. QED
        BY <1>0, <2>1, <2>3 DEF Inv, OneRowPerDelivery, AcknowledgementSticks,
                                DeletedStaysDeleted
<1>3. ASSUME NEW r \in Requests, Select(r)
      PROVE  Inv'
    <2>1. UNCHANGED <<rows, reused>>
        BY <1>3 DEF Select
    <2>2. SamePairs
        BY <2>1 DEF SamePairs
    <2> DEFINE id  == op[r].id
               row == rows[id]
    <2>3. CASE Finish(r) /\ UNCHANGED <<gone, acked>>
        BY <1>0, <2>1, <2>2, <2>3, FinishInv
           DEF Inv, AcknowledgementSticks, DeletedStaysDeleted
    <2>4. CASE Owns(rows, op[r].user, id)
        <3>1. id \in DOMAIN rows /\ row.user = op[r].user
            BY <2>4 DEF Owns, InboxOf
        <3>2. CASE /\ Satisfied(op[r].kind, row)
                   /\ Finish(r)
                   /\ Confirm(op[r].kind, row)
            <4>1. gone' = gone
                BY <3>2 DEF Satisfied, Confirm
            <4>2. \A p \in acked' : p \in acked \/ (p = Pair(row) /\ row.ack)
                BY <3>2 DEF Satisfied, Confirm
            <4>3. AcknowledgementSticks'
                BY <2>1, <3>1, <4>2
                   DEF Inv, OneRowPerDelivery, AcknowledgementSticks
            <4>4. QED
                BY <1>0, <2>1, <2>2, <3>2, <4>1, <4>3, FinishInv
                   DEF Inv, DeletedStaysDeleted
        <3>3. CASE /\ op' = [op EXCEPT ![r].at = "write", ![r].seen = row]
                   /\ UNCHANGED <<gone, acked>>
            <4>1. /\ op'[r].seen = row
                  /\ op'[r].user = op[r].user /\ op'[r].id = id
                  /\ \A q \in Requests \ {r} : op'[q] = op[q]
                BY <3>3 DEF Inv, Typed, Ops
            <4>2. \A i \in DOMAIN rows : Pair(rows[i]) = Pair(row) => i = id
                BY <3>1 DEF Inv, OneRowPerDelivery
            <4>3. WritesWhatItSaw'
                <5> SUFFICES ASSUME NEW q \in Requests, op'[q].at = "write"
                             PROVE  /\ op'[q].seen.user = op'[q].user
                                    /\ \A i \in DOMAIN rows :
                                          Pair(rows[i]) = Pair(op'[q].seen)
                                             => i = op'[q].id
                                    /\ op'[q].id \in DOMAIN rows \ reused =>
                                          Pair(rows[op'[q].id]) = Pair(op'[q].seen)
                    BY <2>1 DEF WritesWhatItSaw, Pair
                <5>1. QED
                    BY <2>1, <3>1, <4>1, <4>2 DEF Inv, WritesWhatItSaw
            <4>4. QED
                BY <1>0, <2>1, <3>3, <4>3
                   DEF Inv, OneRowPerDelivery, AcknowledgementSticks,
                       DeletedStaysDeleted
        <3>4. QED
            BY <1>3, <2>4, <3>2, <3>3 DEF Select
    <2>5. QED
        BY <1>3, <2>3, <2>4 DEF Select
<1>4. ASSUME NEW r \in Requests, Update(r)
      PROVE  Inv'
    <2> DEFINE id  == op[r].id
               new == Assign(op[r].kind, op[r].seen, rows[id])
    <2>1. /\ op[r].at = "write" /\ op[r].kind # "delete" /\ id \in DOMAIN rows
          /\ DOMAIN rows' = DOMAIN rows /\ rows'[id] = new
          /\ \A i \in DOMAIN rows \ {id} : rows'[i] = rows[i]
          /\ Confirm(op[r].kind, op[r].seen) /\ Finish(r) /\ UNCHANGED reused
        BY <1>4 DEF Update
    <2>2. /\ Pair(new) = Pair(rows[id])
          /\ rows[id].ack => new.ack
          /\ op[r].kind = "acknowledge" => new.ack
        <3>1. op[r].kind \in Kinds \ {"delete"} /\ op[r].seen.read \in BOOLEAN
            BY <2>1 DEF Inv, Typed, Ops
        <3>2. rows[id] \in Deliveries
            BY <2>1 DEF Inv, Typed, TypeOK, Deliveries
        <3>3. QED
            BY <3>1, <3>2, AssignKeepsPair
    <2> HIDE DEF new
    <2>3. SamePairs
        BY <2>1, <2>2 DEF SamePairs
    <2>4. gone' = gone
        BY <2>1 DEF Confirm
    <2>5. AcknowledgementSticks'
        <3>1. \A i \in DOMAIN rows : rows[i].ack => rows'[i].ack
            BY <2>1, <2>2
        <3>2. \A p \in acked' :
                  p \in acked \/ (p = Pair(op[r].seen) /\ rows'[id].ack)
            BY <2>1, <2>2 DEF Confirm
        <3>3. \A i \in DOMAIN rows : Pair(rows[i]) = Pair(op[r].seen) => i = id
            BY <2>1 DEF Inv, WritesWhatItSaw
        <3>4. QED
            BY <2>1, <2>3, <3>1, <3>2, <3>3 DEF Inv, AcknowledgementSticks, SamePairs
    <2>6. QED
        BY <1>0, <2>1, <2>3, <2>4, <2>5, FinishInv
           DEF Inv, DeletedStaysDeleted, SamePairs
<1>5. ASSUME NEW r \in Requests, UpdateFindsNothing(r)
      PROVE  Inv'
    <2>1. UNCHANGED <<rows, reused, gone, acked>> /\ Finish(r)
        BY <1>5 DEF UpdateFindsNothing
    <2>2. SamePairs
        BY <2>1 DEF SamePairs
    <2>3. QED
        BY <1>0, <2>1, <2>2, FinishInv
           DEF Inv, AcknowledgementSticks, DeletedStaysDeleted
<1>6. ASSUME NEW r \in Requests, DeleteRow(r)
      PROVE  Inv'
    <2> DEFINE id == op[r].id
    <2>1. /\ op[r].at = "write"
          /\ DOMAIN rows' = DOMAIN rows \ {id}
          /\ \A i \in DOMAIN rows' : rows'[i] = rows[i]
          /\ gone' = gone \cup {Pair(op[r].seen)}
          /\ acked' = acked /\ Finish(r) /\ UNCHANGED reused
        BY <1>6 DEF DeleteRow, Without, Confirm
    <2>2. SamePairs
        BY <2>1 DEF SamePairs
    <2>3. \A i \in DOMAIN rows : Pair(rows[i]) = Pair(op[r].seen) => i = id
        BY <2>1 DEF Inv, WritesWhatItSaw
    <2>4. AcknowledgementSticks' /\ DeletedStaysDeleted'
        BY <2>1, <2>2, <2>3
           DEF Inv, AcknowledgementSticks, DeletedStaysDeleted, SamePairs
    <2>5. QED
        BY <1>0, <2>1, <2>2, <2>4, FinishInv DEF Inv
<1>7. CASE UNCHANGED vars
    BY <1>0, <1>7
       DEF vars, Inv, OneRowPerDelivery, WritesWhatItSaw, AcknowledgementSticks,
           DeletedStaysDeleted
<1>8. QED
    BY <1>1, <1>2, <1>3, <1>4, <1>5, <1>6, <1>7 DEF Next

(* A delivery whose acknowledgement was confirmed stays acknowledged while *)
(* it exists: mark_delivery_read and mark_delivery_unread write only their *)
(* own column, and whatever a late write lands on, it is not that delivery *)
(* or it was acknowledged with it.                                         *)
THEOREM AcknowledgementsStick == Spec => []AcknowledgementSticks
<1>1. Inv => AcknowledgementSticks
    BY DEF Inv
<1>2. QED
    BY <1>1, InitInv, NextInv, PTL DEF Spec

(* A delivery whose deletion was confirmed is never in the table again:    *)
(* the DELETE by primary key removes the delivery the SELECT saw, or that  *)
(* delivery was gone already.                                              *)
THEOREM DeletionsStick == Spec => []DeletedStaysDeleted
<1>1. Inv => DeletedStaysDeleted
    BY DEF Inv
<1>2. QED
    BY <1>1, InitInv, NextInv, PTL DEF Spec

(* A delivery whose id was given out once is changed or removed only by a  *)
(* request of its own user that found it.                                  *)
THEOREM DeliveriesAreOwn == Spec => OnlyOwnDeliveries
<1> DEFINE Own ==
        \A i \in DOMAIN rows \ reused :
            i \notin DOMAIN rows' \/ rows'[i] # rows[i] =>
               \E r \in Requests : op[r].user = rows[i].user /\ op[r].id = i
                                   /\ op[r].at = "write" /\ op'[r].at = "idle"
<1>1. Inv /\ [Next]_vars => [Own]_vars
    <2> SUFFICES ASSUME Inv, Next
                 PROVE  Own
        OBVIOUS
    <2>1. ASSUME NEW r \in Requests, op[r].at = "write", Finish(r),
                 \A i \in DOMAIN rows : i # op[r].id =>
                     i \in DOMAIN rows' /\ rows'[i] = rows[i]
          PROVE  Own
        <3>1. op'[r].at = "idle"
            BY <2>1 DEF Finish, NoOp, Inv, Typed
        <3>2. op[r].id \in DOMAIN rows \ reused => rows[op[r].id].user = op[r].user
            BY <2>1 DEF Inv, WritesWhatItSaw, Pair
        <3>3. QED
            BY <2>1, <3>1, <3>2
    <2>2. ASSUME NEW users \in Audiences, Len(users) = 2 => users[1] < users[2],
                 Publish(users)
          PROVE  Own
        BY <2>2, PublishAdds DEF Inv
    <2>3. ASSUME NEW r \in Requests, NEW kind \in Kinds, NEW user \in Users,
                 NEW id \in 1 .. issued, Begin(r, kind, user, id)
          PROVE  Own
        BY <2>3 DEF Begin
    <2>4. ASSUME NEW r \in Requests, Select(r) \/ UpdateFindsNothing(r)
          PROVE  Own
        BY <2>4 DEF Select, UpdateFindsNothing
    <2>5. ASSUME NEW r \in Requests, Update(r)
          PROVE  Own
        BY <2>1, <2>5 DEF Update
    <2>6. ASSUME NEW r \in Requests, DeleteRow(r)
          PROVE  Own
        BY <2>1, <2>6 DEF DeleteRow, Without
    <2>7. QED
        BY <2>2, <2>3, <2>4, <2>5, <2>6 DEF Next
<1>2. QED
    BY <1>1, InitInv, NextInv, PTL DEF Spec, OnlyOwnDeliveries

=============================================================================
