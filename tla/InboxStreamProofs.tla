-------------------------- MODULE InboxStreamProofs --------------------------
(***************************************************************************)
(* Proofs about the stream and the web client that follows it, for every   *)
(* batch limit, page size and bound: that nothing is replayed, that        *)
(* revocation stops the stream within a batch, that reconnections replay   *)
(* what was lost, and that a live client's view is complete.               *)
(*                                                                         *)
(* A delivery travels from the table through a batch and the wire to the   *)
(* client while the table changes under it, and may be overtaken by a      *)
(* list that does not have it.  So the inductive invariant says of every   *)
(* place it passes that what belongs between two ids there is on the way,  *)
(* of a list that was read that what it lacks is pending and displayed,    *)
(* and that ids only ascend from the client to the wire, the stream's      *)
(* cursor and its batch.                                                   *)
(*                                                                         *)
(* Last come the proofs about the process that streams share with requests *)
(* (EventLoop).  Its names all differ from those of the inbox.             *)
(***************************************************************************)
EXTENDS WebInbox, EventLoop, FiniteSetTheorems, SequenceTheorems, TLAPS

-----------------------------------------------------------------------------
(* Extrema of sets of numbers *)

(* A nonempty set of naturals has a least element.  Were there none, the   *)
(* numbers below all of T would be finitely many and closed under          *)
(* successor, and n |-> n + 1 would map them one to one into fewer.        *)
LEMMA LeastNumber ==
    ASSUME NEW T \in SUBSET Nat, T # {}
    PROVE  \E m \in T : \A n \in T : m <= n
<1> SUFFICES ASSUME \A m \in T : \E n \in T : n < m
             PROVE  FALSE
    OBVIOUS
<1> DEFINE Below == {n \in Nat : \A t \in T : n < t}
           up    == [n \in Below |-> n + 1]
<1>1. PICK t \in T : TRUE
    OBVIOUS
<1>2. IsFiniteSet(Below)
    BY <1>1, FS_BoundedSetOfNaturals
<1>3. 0 \in Below
    OBVIOUS
<1>4. up \in [Below -> Below \ {0}]
    OBVIOUS
<1>5. \A x, y \in Below : up[x] = up[y] => x = y
    OBVIOUS
<1> HIDE DEF Below, up
<1>6. /\ IsFiniteSet(Below \ {0})
      /\ Cardinality(Below \ {0}) = Cardinality(Below) - 1
      /\ Cardinality(Below) \in Nat
    BY <1>2, <1>3, FS_RemoveElement, FS_CardinalityType
<1>7. \E x, y \in Below : x # y /\ up[x] = up[y]
    <2>1. Cardinality(Below \ {0}) < Cardinality(Below)
        BY <1>6
    <2>2. QED
        BY <1>2, <1>4, <1>6, <2>1, FS_PigeonHole
<1>8. QED
    BY <1>5, <1>7

(* MaxId of a nonempty bounded set of ids is its largest element. *)
LEMMA MaxIdIsLargest ==
    ASSUME NEW n \in Int, NEW S \in SUBSET (0 .. n), S # {}
    PROVE  /\ MaxId(S) \in S
           /\ \A i \in S : i <= MaxId(S)
<1> DEFINE T == {n - i : i \in S}
<1>1. T \in SUBSET Nat /\ T # {}
    <2>1. \A i \in S : n - i \in Nat
        OBVIOUS
    <2>2. QED
        BY <2>1
<1>2. PICK m \in T : \A k \in T : m <= k
    BY <1>1, LeastNumber
<1>3. PICK x \in S : m = n - x
    OBVIOUS
<1>4. \A y \in S : n - x <= n - y
    BY <1>2, <1>3
<1>5. \A y \in S : y <= x
    BY <1>4
<1>6. QED
    BY <1>5 DEF MaxId

LEMMA MaxIdIsBounded ==
    ASSUME NEW n \in Nat, NEW S, S \subseteq 0 .. n
    PROVE  MaxId(S) \in 0 .. n
<1>1. CASE S = {}
    BY <1>1 DEF MaxId
<1>2. CASE S # {}
    <2>1. S \in SUBSET (0 .. n) /\ n \in Int
        OBVIOUS
    <2>2. MaxId(S) \in S
        BY <1>2, <2>1, MaxIdIsLargest
    <2>3. QED
        BY <2>1, <2>2
<1>3. QED
    BY <1>1, <1>2

-----------------------------------------------------------------------------
(* Inserting rows *)

(* The ids of a table are positive and at most n. *)
IdsUpTo(table, n) == DOMAIN table \subseteq 1 .. n

(* The users of an audience are named once each. *)
AllDifferent(users) ==
    \A k, l \in 1 .. Len(users) : users[k] = users[l] => k = l

(* The next row id is above every id in the table and at most one above    *)
(* any bound of them.                                                      *)
LEMMA NextRowIdIsFree ==
    ASSUME NEW n \in Nat, NEW table, IdsUpTo(table, n)
    PROVE  /\ NextRowId(table) \in 1 .. (n + 1)
           /\ \A i \in DOMAIN table : i < NextRowId(table)
<1>1. CASE DOMAIN table = {}
    BY <1>1 DEF NextRowId, MaxId, IdsUpTo
<1>2. CASE DOMAIN table # {}
    <2> DEFINE ids == DOMAIN table
    <2>1. n \in Int /\ ids \in SUBSET (0 .. n) /\ ids # {}
        BY <1>2 DEF IdsUpTo
    <2> HIDE DEF ids
    <2>2. MaxId(ids) \in ids /\ \A i \in ids : i <= MaxId(ids)
        BY <2>1, MaxIdIsLargest
    <2>3. QED
        BY <2>2 DEF NextRowId, IdsUpTo, ids
<1>3. QED
    BY <1>1, <1>2

(* The ids a fanout to users will use. *)
Fresh(table, users) == NextRowId(table) .. (NextRowId(table) + Len(users) - 1)

(* The rows it will insert. *)
NewRows(users, note) == {Row(users[k], note) : k \in 1 .. Len(users)}

(* new is the table after a fanout to different users: the rows that       *)
(* exist are as they were and, above all of them, each user has a new one. *)
Adds(new, table, users, note, n) ==
    /\ DOMAIN new = DOMAIN table \cup Fresh(table, users)
    /\ DOMAIN table \cap Fresh(table, users) = {}
    /\ Fresh(table, users) \subseteq 1 .. (n + Len(users))
    /\ \A i \in DOMAIN table : new[i] = table[i]
    /\ \A i \in Fresh(table, users) : new[i] \in NewRows(users, note)
    /\ \A i, j \in Fresh(table, users) : new[i].user = new[j].user => i = j

(* That is what fanout_notification's inserts do. *)
LEMMA InsertAllAdds ==
    ASSUME NEW n \in Nat, NEW table, IdsUpTo(table, n),
           NEW note, NEW users, Len(users) \in Nat, AllDifferent(users)
    PROVE  Adds(InsertAll(table, note, users), table, users, note, n)
<1> DEFINE first == NextRowId(table)
           new   == InsertAll(table, note, users)
<1>1. /\ first \in 1 .. (n + 1)
      /\ \A i \in DOMAIN table : i < first
    BY NextRowIdIsFree
<1>2. DOMAIN table \cap Fresh(table, users) = {}
    BY <1>1 DEF Fresh
<1>3. Fresh(table, users) \subseteq 1 .. (n + Len(users))
    BY <1>1 DEF Fresh
<1>4. new =
          [i \in DOMAIN table \cup Fresh(table, users) |->
              IF i \in DOMAIN table THEN table[i]
              ELSE [k \in Fresh(table, users) |-> Row(users[k - first + 1], note)][i]]
    BY DEF InsertAll, Fresh
<1> HIDE DEF new
<1>5. \A i \in Fresh(table, users) :
          i - first + 1 \in 1 .. Len(users) /\ new[i] = Row(users[i - first + 1], note)
    <2>1. \A i \in Fresh(table, users) : i - first + 1 \in 1 .. Len(users)
        BY <1>1 DEF Fresh
    <2>2. \A i \in Fresh(table, users) : new[i] = Row(users[i - first + 1], note)
        BY <1>2, <1>4
    <2>3. QED
        BY <2>1, <2>2
<1>6. \A i, j \in Fresh(table, users) : new[i].user = new[j].user => i = j
    <2> TAKE i, j \in Fresh(table, users)
    <2> HAVE new[i].user = new[j].user
    <2>1. PICK k \in 1 .. Len(users) : k = i - first + 1 /\ new[i] = Row(users[k], note)
        BY <1>5
    <2>2. PICK l \in 1 .. Len(users) : l = j - first + 1 /\ new[j] = Row(users[l], note)
        BY <1>5
    <2>3. k = l
        BY <2>1, <2>2 DEF Row, AllDifferent
    <2>4. QED
        BY <1>1, <2>1, <2>2, <2>3 DEF Fresh
<1>7. QED
    BY <1>2, <1>3, <1>4, <1>5, <1>6 DEF Adds, new, NewRows

-----------------------------------------------------------------------------
(* Listing rows in order *)

(* Counting the elements up to each element of a finite set of numbers     *)
(* ranks them: the count grows with the element and takes every value from *)
(* 1 to the size of the set.                                               *)
LEMMA RanksAreAPermutation ==
    ASSUME NEW n \in Nat, NEW S \in SUBSET (1 .. n),
           NEW rank, rank = [i \in S |-> Cardinality({j \in S : j <= i})]
    PROVE  /\ IsFiniteSet(S)
           /\ \A i \in S : rank[i] \in 1 .. Cardinality(S)
           /\ \A i, k \in S : i < k <=> rank[i] < rank[k]
           /\ \A k \in 1 .. Cardinality(S) : \E i \in S : rank[i] = k
<1> DEFINE upTo(i) == {j \in S : j <= i}
<1>1. IsFiniteSet(S) /\ Cardinality(S) \in Nat
    <2>1. IsFiniteSet(1 .. n)
        BY FS_Interval
    <2>2. QED
        BY <2>1, FS_Subset, FS_CardinalityType
<1>2. \A i \in S : IsFiniteSet(upTo(i)) /\ Cardinality(upTo(i)) \in Nat
    BY <1>1, FS_Subset, FS_CardinalityType
<1>3. \A i \in S : rank[i] \in 1 .. Cardinality(S)
    <2> TAKE i \in S
    <2>1. Cardinality(upTo(i)) <= Cardinality(S)
        BY <1>1, FS_Subset
    <2>2. Cardinality(upTo(i)) # 0
        <3>1. i \in upTo(i)
            OBVIOUS
        <3>2. QED
            BY <1>2, <3>1, FS_EmptySet
    <2>3. QED
        BY <1>1, <1>2, <2>1, <2>2
<1>4. \A i, k \in S : i < k => rank[i] < rank[k]
    <2> TAKE i, k \in S
    <2> HAVE i < k
    <2>1. upTo(i) \in SUBSET upTo(k)
        <3>1. \A j \in S : j <= i => j <= k
            OBVIOUS
        <3>2. QED
            BY <3>1
    <2>2. k \in upTo(k) /\ k \notin upTo(i)
        OBVIOUS
    <2> HIDE DEF upTo
    <2>3. /\ Cardinality(upTo(i)) <= Cardinality(upTo(k))
          /\ Cardinality(upTo(i)) # Cardinality(upTo(k))
        BY <1>2, <2>1, <2>2, FS_Subset
    <2>4. Cardinality(upTo(i)) < Cardinality(upTo(k))
        BY <1>2, <2>3
    <2>5. QED
        BY <2>4 DEF upTo
<1>5. \A i, k \in S : i < k <=> rank[i] < rank[k]
    BY <1>3, <1>4
<1>6. rank \in Injection(S, 1 .. Cardinality(S))
    <2>1. rank \in [S -> 1 .. Cardinality(S)]
        BY <1>3
    <2>2. \A i, k \in S : rank[i] = rank[k] => i = k
        <3>1. \A i, k \in S : i < k \/ k < i \/ i = k
            OBVIOUS
        <3>2. QED
            BY <1>3, <1>4, <3>1
    <2>3. QED
        BY <2>1, <2>2 DEF Injection, IsInjective
<1>7. rank \in Surjection(S, 1 .. Cardinality(S))
    <2>1. IsFiniteSet(1 .. Cardinality(S)) /\ Cardinality(1 .. Cardinality(S)) = Cardinality(S)
        BY <1>1, FS_Interval
    <2>2. QED
        BY <1>6, <2>1, FS_Injection
<1>8. QED
    BY <1>1, <1>3, <1>5, <1>7 DEF Surjection

(* ids are at most limit elements of a set, in ascending order, and what   *)
(* they leave out is larger than all of them.                              *)
IsPrefixOf(ids, S, limit) ==
    \E m \in 0 .. limit :
        /\ ids \in [1 .. m -> S]
        /\ \A j, k \in 1 .. m : j < k => ids[j] < ids[k]
        /\ \A i \in S : \/ \E k \in 1 .. m : ids[k] = i
                        \/ \A k \in 1 .. m : ids[k] < i

(* list_inbox_after returns such a prefix of the user's ids above the      *)
(* cursor.                                                                 *)
LEMMA ListAfterIsAPrefix ==
    ASSUME NEW n \in Nat, NEW table, IdsUpTo(table, n),
           NEW user, NEW after \in Int, NEW limit \in Nat
    PROVE  IsPrefixOf(ListAfter(table, user, after, limit),
                      {i \in InboxOf(table, user) : i > after}, limit)
<1> DEFINE above == {i \in InboxOf(table, user) : i > after}
           size  == Cardinality(above)
           m     == IF size < limit THEN size ELSE limit
           rank  == [i \in above |-> Cardinality({j \in above : j <= i})]
           ids   == ListAfter(table, user, after, limit)
<1>1. above \in SUBSET (1 .. n)
    BY DEF InboxOf, IdsUpTo
<1>2. /\ IsFiniteSet(above)
      /\ \A i \in above : rank[i] \in 1 .. size
      /\ \A i, k \in above : i < k <=> rank[i] < rank[k]
      /\ \A k \in 1 .. size : \E i \in above : rank[i] = k
    <2> HIDE DEF above
    <2>1. QED
        BY <1>1, RanksAreAPermutation
<1>3. ids = [k \in 1 .. m |->
                  CHOOSE i \in above : Cardinality({j \in above : j <= i}) = k]
    BY DEF ListAfter
<1> HIDE DEF above, ids
<1>4. size \in Nat /\ m \in 0 .. limit /\ m <= size
    BY <1>2, FS_CardinalityType
<1> HIDE DEF size, m
<1>5. \A k \in 1 .. m : ids[k] \in above /\ rank[ids[k]] = k
    <2> TAKE k \in 1 .. m
    <2>1. ids[k] = CHOOSE i \in above : Cardinality({j \in above : j <= i}) = k
        BY <1>3
    <2>2. \E i \in above : Cardinality({j \in above : j <= i}) = k
        <3>1. k \in 1 .. size
            BY <1>4
        <3>2. PICK i \in above : rank[i] = k
            BY <1>2, <3>1
        <3>3. rank[i] = Cardinality({j \in above : j <= i})
            BY <3>2
        <3>4. QED
            BY <3>2, <3>3
    <2>3. QED
        BY <2>1, <2>2
<1> HIDE DEF rank
<1>6. \A j, k \in 1 .. m : j < k => ids[j] < ids[k]
    BY <1>2, <1>5
<1>7. ids \in [1 .. m -> above]
    BY <1>3, <1>5
<1>8. \A i \in above : (\E k \in 1 .. m : ids[k] = i) \/ (\A k \in 1 .. m : ids[k] < i)
    <2> TAKE i \in above
    <2>1. CASE rank[i] <= m
        <3>1. rank[i] \in 1 .. m
            BY <1>2, <1>4, <2>1
        <3>2. \A k \in above : rank[k] = rank[i] => k = i
            <4>1. \A k \in above : k < i \/ i < k \/ i = k
                BY <1>1
            <4>2. QED
                BY <1>2, <4>1
        <3>3. ids[rank[i]] = i
            BY <1>5, <3>1, <3>2
        <3>4. QED
            BY <3>1, <3>3
    <2>2. CASE rank[i] > m
        <3>1. \A k \in 1 .. m : rank[ids[k]] < rank[i]
            BY <1>2, <1>4, <1>5, <2>2
        <3>2. QED
            BY <1>2, <1>5, <3>1
    <2>3. QED
        BY <1>2, <1>4, <2>1, <2>2
<1>9. QED
    BY <1>4, <1>6, <1>7, <1>8 DEF IsPrefixOf, above, ids

-----------------------------------------------------------------------------
(* The inductive invariant *)

Deliveries == [user : {Me} \cup Others, note : 1 .. MaxNotes,
               read : BOOLEAN, ack : BOOLEAN]
States == [latest : Nat, total : Nat, unread : Nat, acked : Nat]
Items == [id : Nat \ {0}, note : 1 .. MaxNotes]
Events == [kind : {"ready", "inbox", "state"}, id : Nat, note : 0 .. MaxNotes,
           state : States]
StreamStates == [at : {"none", "ready", "check", "list", "state", "emit"},
            cursor : Int, batch : Seq(Items), due : BOOLEAN,
            next : States, last : States]

(* Deliveries by their ids. *)
Pages == UNION {[ids -> 1 .. MaxNotes] : ids \in SUBSET (Nat \ {0})}
Clients == [at : {"loading", "failed", "connecting", "live", "reconnecting",
                  "offline", "signedOut"},
            source : {"none", "trying", "open", "closed"}, cursor : Nat,
            state : States, list : {"none", "asked", "read"}, page : Pages,
            inbox : Pages, pending : SUBSET (Nat \ {0}), error : BOOLEAN,
            mark : {"none", "asked", "read"}, marked : States]

TableTyped ==
    /\ issued \in Nat
    /\ DOMAIN rows \subseteq 1 .. issued
    /\ \A i \in DOMAIN rows : rows[i] \in Deliveries
    /\ count \in [notes : 0 .. MaxNotes, changes : Nat]

(* An event carries a delivery if it is of that kind. *)
Proper(e) == e.kind = "inbox" => e.note \in 1 .. MaxNotes /\ e.id # 0

StreamTyped ==
    /\ session \in {"active", "revoked"}
    /\ stream \in StreamStates
    /\ Len(stream.batch) <= BatchLimit
    /\ wire \in Seq(Events)
    /\ \A k \in DOMAIN wire : Proper(wire[k])
    /\ late \in Nat

ClientTyped ==
    /\ client \in Clients
    /\ Cardinality(DOMAIN client.page) <= PageSize

Typed == TableTyped /\ StreamTyped /\ ClientTyped

-----------------------------------------------------------------------------
(* Only an open connection has a generator or anything on the wire, a      *)
(* generator holds a batch only between listing it and sending all of it,  *)
(* and what the client is sent first is ready.                             *)
Connected ==
    /\ client.source # "open" => stream.at = "none" /\ wire = <<>>
    /\ client.at \in {"loading", "failed", "offline", "signedOut"} => client.source = "none"
    /\ client.at = "live" => client.source = "open"
    /\ stream.at \notin {"state", "emit"} => stream.batch = <<>>
    /\ stream.at = "ready" =>
          wire = <<>> /\ stream.cursor = client.cursor /\ client.at # "live"
    /\ client.at # "live" /\ (stream.at \notin {"none", "ready"} \/ wire # <<>>) =>
          wire # <<>> /\ wire[1].kind = "ready"

(* No id in use is above those given out. *)
Bounded ==
    /\ client.cursor <= issued
    /\ \A i \in DOMAIN client.page \cup DOMAIN client.inbox \cup client.pending : i <= issued
    /\ stream.cursor <= issued
    /\ \A k \in DOMAIN wire : wire[k].id <= issued
    /\ \A k \in DOMAIN stream.batch : stream.batch[k].id <= issued

(* Ids ascend from the client's cursor along the wire to the stream's      *)
(* cursor and on through the batch.                                        *)
Ascending ==
    /\ NothingIsReplayed
    /\ stream.at # "none" =>
          /\ client.cursor <= stream.cursor
          /\ \A k \in DOMAIN wire : wire[k].kind = "inbox" => wire[k].id <= stream.cursor
    /\ \A k \in DOMAIN stream.batch :
          /\ stream.batch[k].id > stream.cursor
          /\ \A j \in 1 .. k - 1 : stream.batch[j].id < stream.batch[k].id

(* What a revoked session has been sent and can still be sent. *)
Quota ==
    /\ session = "active" \/ stream.at = "list" => late = 0
    /\ late + Len(stream.batch) <= BatchLimit

-----------------------------------------------------------------------------
(* The user's rows whose ids had not been used before. *)
NewOnes == {i \in Mine : rows[i].note \notin reused}

(* Row i is among the first k events of the wire, or items of the batch. *)
OnWire(i, k) ==
    \E j \in 1 .. k : wire[j].kind = "inbox" /\ wire[j].id = i /\ wire[j].note = rows[i].note
InBatch(i, k) ==
    \E j \in 1 .. k : stream.batch[j].id = i /\ stream.batch[j].note = rows[i].note

(* What is above the client's cursor and not above an event is on the wire *)
(* up to it, and so on for the stream's cursor and its batch.              *)
NothingIsSkipped ==
    /\ \A k \in DOMAIN wire : wire[k].kind = "inbox" =>
          \A i \in NewOnes : client.cursor < i /\ i <= wire[k].id => OnWire(i, k)
    /\ stream.at \notin {"none", "ready"} =>
          \A i \in NewOnes : client.cursor < i /\ i <= stream.cursor => OnWire(i, Len(wire))
    /\ \A k \in DOMAIN stream.batch :
          \A i \in NewOnes : stream.cursor < i /\ i <= stream.batch[k].id => InBatch(i, k)

PageIsTrue ==
    \A i \in NewOnes : i \in DOMAIN client.page => client.page[i] = rows[i].note

(* The client is live, shows no error, and awaits no counts. *)
Settled == client.at = "live" /\ client.mark = "none" /\ ~client.error

(* Row i is displayed, and will be when the page that was read is applied. *)
Kept(i) ==
    IF client.list = "read"
      THEN i \in DOMAIN client.page \/ (i \in client.pending /\ Displayed(i, rows[i].note))
      ELSE Displayed(i, rows[i].note)

ViewFollows ==
    Settled /\ client.list # "asked" =>
        \A i \in NewOnes :
            i <= client.cursor /\ Covers(DOMAIN client.page, i) => Kept(i)

Follows == NothingIsSkipped /\ PageIsTrue /\ ViewFollows

Inv == Typed /\ Connected /\ Bounded /\ Ascending /\ Quota

-----------------------------------------------------------------------------
(* The table *)

(* What the counts query returns. *)
LEMMA InboxStateTyped ==
    ASSUME TableTyped
    PROVE  /\ InboxState(rows, Me) \in States
           /\ InboxState(rows, Me).latest <= issued
<1>1. issued \in Nat /\ Mine \in SUBSET (0 .. issued)
    BY DEF TableTyped, Mine, InboxOf
<1>2. MaxId(Mine) \in Nat /\ MaxId(Mine) <= issued
    <2> DEFINE mine == Mine
    <2>1. mine \subseteq 0 .. issued
        BY <1>1
    <2> HIDE DEF mine
    <2>2. MaxId(mine) \in 0 .. issued
        BY <1>1, <2>1, MaxIdIsBounded
    <2>3. QED
        BY <1>1, <2>2 DEF mine
<1>3. \A T \in SUBSET Mine : Cardinality(T) \in Nat
    <2> TAKE T \in SUBSET Mine
    <2>1. T \in SUBSET (0 .. issued) /\ IsFiniteSet(0 .. issued)
        BY <1>1, FS_Interval
    <2>2. QED
        BY <2>1, FS_Subset, FS_CardinalityType
<1>4. InboxState(rows, Me) =
          [latest |-> MaxId(Mine),
           total  |-> Cardinality(Mine),
           unread |-> Cardinality({i \in Mine : ~rows[i].read}),
           acked  |-> Cardinality({i \in Mine : rows[i].ack})]
    BY DEF InboxState, Mine
<1> HIDE DEF Mine
<1>5. /\ Cardinality(Mine) \in Nat
      /\ Cardinality({i \in Mine : ~rows[i].read}) \in Nat
      /\ Cardinality({i \in Mine : rows[i].ack}) \in Nat
    BY <1>3
<1>6. QED
    BY <1>2, <1>4, <1>5 DEF States

(* A step of the thread pool: it leaves the stream alone, and a row of    *)
(* the user after it either was there before, or has a new id, or is of a  *)
(* notification whose ids are recorded as used before.                     *)
TableStep ==
    /\ TableTyped'
    /\ issued <= issued'
    /\ reused \subseteq reused'
    /\ \A i \in Mine' : \/ i > issued
                        \/ rows'[i].note \in reused'
                        \/ i \in Mine /\ rows'[i].note = rows[i].note
    /\ UNCHANGED <<session, stream, wire, late>>

(* The audiences of a notification: this user, another one, or both. *)
Audiences ==
    {<<Me>>} \cup {<<other>> : other \in Others} \cup {<<Me, other>> : other \in Others}

LEMMA PublishIsATableStep ==
    ASSUME TableTyped, NEW users \in Audiences,
           Publish(users)
    PROVE  TableStep
<1> USE BoundAssumption
<1>1. issued \in Nat /\ IdsUpTo(rows, issued) /\ count.notes \in 0 .. MaxNotes
    BY DEF TableTyped, IdsUpTo
<1>2. /\ Len(users) \in {1, 2}
      /\ \A k \in 1 .. Len(users) : users[k] \in {Me} \cup Others
      /\ AllDifferent(users)
    <2>1. CASE users = <<Me>>
        BY <2>1 DEF AllDifferent
    <2>2. ASSUME NEW other \in Others, users = <<other>>
          PROVE  /\ Len(users) \in {1, 2}
                 /\ \A k \in 1 .. Len(users) : users[k] \in {Me} \cup Others
                 /\ AllDifferent(users)
        BY <2>2 DEF AllDifferent
    <2>3. ASSUME NEW other \in Others, users = <<Me, other>>
          PROVE  /\ Len(users) \in {1, 2}
                 /\ \A k \in 1 .. Len(users) : users[k] \in {Me} \cup Others
                 /\ AllDifferent(users)
        BY <2>3, UserAssumption DEF AllDifferent
    <2>4. QED
        BY <2>1, <2>2, <2>3 DEF Audiences
<1> DEFINE note == count.notes + 1
           new  == Fresh(rows, users)
           ids  == new \cup {issued}
           top  == issued + Len(users)
<1>3. /\ rows' = InsertAll(rows, note, users)
      /\ count.notes < MaxNotes /\ count' = [count EXCEPT !.notes = note]
      /\ UNCHANGED <<session, stream, wire, late>>
    BY DEF Publish
<1>4. Adds(rows', rows, users, note, issued)
    BY <1>1, <1>2, <1>3, InsertAllAdds
<1>5. /\ DOMAIN rows' = DOMAIN rows \cup new
      /\ DOMAIN rows \cap new = {}
      /\ new \subseteq 1 .. top
      /\ \A i \in DOMAIN rows : rows'[i] = rows[i]
      /\ \A i \in new : rows'[i] \in NewRows(users, note)
    BY <1>4 DEF Adds
<1>6. /\ issued' = MaxId(ids)
      /\ reused' = reused \cup {note : i \in {j \in new : j <= issued}}
    <2>1. {i \in DOMAIN InsertAll(rows, note, users) : i \notin DOMAIN rows} = new
        BY <1>3, <1>5
    <2>2. QED
        BY <2>1 DEF Publish
<1> HIDE DEF new
<1>7. top \in Nat /\ issued <= top
    BY <1>1, <1>2
<1> HIDE DEF top
<1>8. issued' \in ids /\ \A i \in ids : i <= issued'
    <2>1. ids \in SUBSET (0 .. top) /\ ids # {}
        <3>1. \A i \in new : i \in 0 .. top
            BY <1>5, <1>7
        <3>2. issued \in 0 .. top /\ top \in Int
            BY <1>1, <1>7
        <3>3. QED
            BY <3>1, <3>2
    <2> HIDE DEF ids
    <2>2. top \in Int
        BY <1>7
    <2>3. MaxId(ids) \in ids /\ \A i \in ids : i <= MaxId(ids)
        BY <2>1, <2>2, MaxIdIsLargest
    <2>4. QED
        BY <1>6, <2>3
<1>9. /\ issued' \in Nat /\ issued <= issued'
      /\ \A i \in new : i \in 1 .. issued'
    <2>1. \A i \in new : i \in Nat /\ 1 <= i
        BY <1>5, <1>7
    <2>2. issued' \in Nat
        BY <1>1, <1>8, <2>1
    <2>3. issued <= issued' /\ \A i \in new : i <= issued'
        BY <1>8
    <2>4. QED
        BY ONLY <2>1, <2>2, <2>3
<1>10. \A i \in new : rows'[i] \in Deliveries /\ rows'[i].note = note
    <2> TAKE i \in new
    <2>1. PICK k \in 1 .. Len(users) : rows'[i] = Row(users[k], note)
        BY <1>5 DEF NewRows
    <2>2. note \in 1 .. MaxNotes
        BY <1>1, <1>3
    <2>3. QED
        BY <1>2, <2>1, <2>2 DEF Deliveries, Row
<1>11. \A i \in DOMAIN rows' : i \in 1 .. issued' /\ rows'[i] \in Deliveries
    <2> TAKE i \in DOMAIN rows'
    <2>1. CASE i \in DOMAIN rows
        BY <1>1, <1>5, <1>9, <2>1 DEF IdsUpTo, TableTyped
    <2>2. CASE i \in new
        BY <1>9, <1>10, <2>2
    <2>3. QED
        BY <1>5, <2>1, <2>2
<1>12. TableTyped'
    <2>1. count' \in [notes : 0 .. MaxNotes, changes : Nat]
        <3>1. note \in 0 .. MaxNotes
            BY <1>1, <1>3
        <3> HIDE DEF note
        <3>2. QED
            BY <1>3, <3>1 DEF TableTyped
    <2>2. QED
        BY <1>9, <1>11, <2>1 DEF TableTyped, Deliveries
<1>13. \A i \in new : i > issued \/ rows'[i].note \in reused'
    <2>1. \A i \in new : i > issued \/ i <= issued
        BY <1>1, <1>5, <1>7
    <2>2. QED
        BY <1>6, <1>10, <2>1
<1>14. \A i \in Mine' : i \in new \/ (i \in Mine /\ rows'[i] = rows[i])
    BY <1>5 DEF Mine, InboxOf
<1>15. QED
    BY <1>3, <1>6, <1>9, <1>12, <1>13, <1>14 DEF TableStep

LEMMA ChangesAreTableSteps ==
    ASSUME TableTyped, NEW id \in DOMAIN rows, Delete(id) \/ MarkRead(id)
    PROVE  TableStep
<1> USE BoundAssumption
<1>1. /\ UNCHANGED <<issued, reused, session, stream, wire, late>>
      /\ count' \in [notes : 0 .. MaxNotes, changes : Nat]
    BY DEF Delete, MarkRead, TableTyped
<1>2. /\ DOMAIN rows' \subseteq DOMAIN rows
      /\ \A i \in DOMAIN rows' :
            /\ rows'[i] \in Deliveries
            /\ rows'[i].user = rows[i].user /\ rows'[i].note = rows[i].note
    <2>1. CASE Delete(id)
        BY <2>1 DEF Delete, Without, TableTyped
    <2>2. CASE MarkRead(id)
        BY <2>2 DEF MarkRead, TableTyped, Deliveries
    <2>3. QED
        BY <2>1, <2>2
<1>3. QED
    BY <1>1, <1>2 DEF TableStep, TableTyped, Deliveries, Mine, InboxOf

-----------------------------------------------------------------------------
(* The generator, each step in terms of what it does to the fields the     *)
(* invariants speak of *)

LEMMA IdleTyped == Idle \in StreamStates
<1>1. NoState \in States
    BY DEF NoState, States
<1>2. <<>> \in Seq(Items)
    OBVIOUS
<1> HIDE DEF Items, States, NoState
<1>3. QED
    BY <1>1, <1>2 DEF Idle, Blank, StreamStates

(* The batch that a query of the table becomes. *)
LEMMA ListStep ==
    ASSUME Typed, List
    PROVE  /\ stream' \in StreamStates
           /\ Len(stream'.batch) <= BatchLimit
           /\ stream.at = "list" /\ stream'.at \in {"state", "check"}
           /\ stream'.at = "check" => stream'.batch = <<>>
           /\ stream'.cursor = stream.cursor
           /\ \A k \in DOMAIN stream'.batch :
                 /\ stream'.batch[k].id \in Mine
                 /\ stream'.batch[k].note = rows[stream'.batch[k].id].note
                 /\ stream'.batch[k].id > stream.cursor
                 /\ \A j \in 1 .. k - 1 :
                       stream'.batch[j].id < stream'.batch[k].id
           /\ \A i \in Mine : i > stream.cursor =>
                 \/ \E k \in DOMAIN stream'.batch : stream'.batch[k].id = i
                 \/ \A k \in DOMAIN stream'.batch : stream'.batch[k].id < i
           /\ UNCHANGED <<rows, issued, reused, session, wire, count, late>>
<1> DEFINE ids   == ListAfter(rows, Me, stream.cursor, BatchLimit)
           batch == [k \in DOMAIN ids |-> [id |-> ids[k], note |-> rows[ids[k]].note]]
           above == {i \in Mine : i > stream.cursor}
           where == IF ids # <<>> \/ stream.due THEN "state" ELSE "check"
<1>1. /\ stream.at = "list"
      /\ stream' = [stream EXCEPT !.at = where, !.batch = batch]
      /\ UNCHANGED <<rows, issued, reused, session, wire, count, late>>
    BY DEF List, dbVars
<1>2. stream \in StreamStates /\ stream.cursor \in Int /\ issued \in Nat
    BY DEF Typed, StreamTyped, TableTyped, StreamStates
<1>3. BatchLimit \in Nat
    BY LimitAssumption
<1>4. IsPrefixOf(ids, above, BatchLimit)
    <2>1. IdsUpTo(rows, issued)
        BY DEF Typed, TableTyped, IdsUpTo
    <2>2. IsPrefixOf(ids, {i \in InboxOf(rows, Me) : i > stream.cursor}, BatchLimit)
        BY <1>2, <1>3, <2>1, ListAfterIsAPrefix
    <2>3. QED
        BY <2>2 DEF Mine
<1> HIDE DEF ids
<1>5. PICK m \in 0 .. BatchLimit :
         /\ ids \in [1 .. m -> above]
         /\ \A j, k \in 1 .. m : j < k => ids[j] < ids[k]
         /\ \A i \in above : \/ \E k \in 1 .. m : ids[k] = i
                             \/ \A k \in 1 .. m : ids[k] < i
    BY <1>4 DEF IsPrefixOf
<1>6. m \in Nat /\ m <= BatchLimit /\ DOMAIN ids = 1 .. m
    BY <1>3, <1>5
<1>7. \A i \in above : i \in Nat \ {0} /\ i \in Mine /\ i > stream.cursor
                       /\ rows[i].note \in 1 .. MaxNotes
    BY DEF Typed, TableTyped, Mine, InboxOf, Deliveries
<1> HIDE DEF above
<1>8. /\ batch \in [1 .. m -> Items]
      /\ \A k \in 1 .. m : batch[k].id = ids[k] /\ batch[k].note = rows[ids[k]].note
    BY <1>5, <1>6, <1>7 DEF Items
<1>9. batch \in Seq(Items) /\ Len(batch) = m /\ DOMAIN batch = 1 .. m
    <2> HIDE DEF batch, Items
    <2>1. QED
        BY <1>6, <1>8
<1>10. ids = <<>> => batch = <<>>
    OBVIOUS
<1> HIDE DEF batch
<1>11. where \in {"state", "check"} /\ (where = "check" => batch = <<>>)
    BY <1>10
<1> HIDE DEF where
<1>12. /\ stream' \in StreamStates
       /\ stream'.batch = batch /\ stream'.at = where
       /\ stream'.cursor = stream.cursor
    <2> HIDE DEF Items, States
    <2>1. QED
        BY <1>1, <1>2, <1>9, <1>11 DEF StreamStates
<1>13. \A k \in 1 .. m :
          /\ batch[k].id \in Mine /\ batch[k].id > stream.cursor
          /\ batch[k].note = rows[batch[k].id].note
          /\ \A j \in 1 .. k - 1 : batch[j].id < batch[k].id
    <2> TAKE k \in 1 .. m
    <2>1. \A j \in 1 .. k - 1 : j \in 1 .. m /\ j < k
        BY <1>6
    <2>2. QED
        BY <1>5, <1>7, <1>8, <2>1
<1>14. \A i \in Mine : i > stream.cursor =>
          \/ \E k \in 1 .. m : batch[k].id = i
          \/ \A k \in 1 .. m : batch[k].id < i
    BY <1>5, <1>8 DEF above
<1>15. QED
    BY <1>1, <1>6, <1>9, <1>11, <1>12, <1>13, <1>14

(* An event sent goes to the end of the wire. *)
LEMMA SendStep ==
    ASSUME Typed, NEW e \in Events, Proper(e),
           Send(e)
    PROVE  /\ wire' \in Seq(Events)
           /\ \A k \in DOMAIN wire' :
                 Proper(wire'[k])
           /\ Len(wire) \in Nat /\ DOMAIN wire = 1 .. Len(wire)
           /\ Len(wire') = Len(wire) + 1 /\ DOMAIN wire' = 1 .. Len(wire) + 1
           /\ \A k \in 1 .. Len(wire) : wire'[k] = wire[k]
           /\ wire'[Len(wire) + 1] = e
           /\ late' \in Nat
           /\ late' = IF e.kind = "inbox" /\ session = "revoked" THEN late + 1 ELSE late
<1>1. wire \in Seq(Events) /\ late \in Nat
    BY DEF Typed, StreamTyped
<1>2. wire' = Append(wire, e)
    BY DEF Send
<1>3. /\ wire' \in Seq(Events) /\ Len(wire') = Len(wire) + 1
      /\ \A k \in 1 .. Len(wire) : wire'[k] = wire[k]
      /\ wire'[Len(wire) + 1] = e
    BY <1>1, <1>2, AppendProperties
<1>4. Len(wire) \in Nat /\ DOMAIN wire = 1 .. Len(wire) /\ DOMAIN wire' = 1 .. Len(wire')
    BY <1>1, <1>3, LenProperties
<1>5. \A k \in DOMAIN wire : Proper(wire[k])
    BY DEF Typed, StreamTyped
<1>6. \A k \in DOMAIN wire' : k \in DOMAIN wire \/ k = Len(wire) + 1
    BY <1>3, <1>4
<1>7. \A k \in DOMAIN wire' :
          Proper(wire'[k])
    BY <1>3, <1>4, <1>5, <1>6
<1>8. late' = IF e.kind = "inbox" /\ session = "revoked" THEN late + 1 ELSE late
    BY DEF Send
<1>9. QED
    BY <1>1, <1>3, <1>4, <1>7, <1>8

(* Yielding a delivery moves it from the front of the batch to the wire,   *)
(* and the cursor to it.                                                   *)
LEMMA EmitStep ==
    ASSUME Typed, Emit
    PROVE  LET d == stream.batch[1]
               n == Len(stream.batch)
           IN  /\ stream.at = "emit" /\ stream'.at = "emit"
               /\ stream' \in StreamStates
               /\ stream'.cursor = d.id
               /\ n \in Nat \ {0} /\ Len(stream'.batch) = n - 1
               /\ DOMAIN stream.batch = 1 .. n /\ DOMAIN stream'.batch = 1 .. n - 1
               /\ \A k \in 1 .. n - 1 : stream'.batch[k] = stream.batch[k + 1]
               /\ d \in Items
               /\ Event("inbox", d.id, d.note, NoState) \in Events
               /\ Send(Event("inbox", d.id, d.note, NoState))
               /\ UNCHANGED <<rows, issued, reused, session, count>>
<1> DEFINE batch == stream.batch
           d     == batch[1]
<1>1. /\ stream.at = "emit" /\ batch # <<>>
      /\ stream' = [stream EXCEPT !.cursor = Head(batch).id, !.batch = Tail(batch)]
      /\ Send(Event("inbox", Head(batch).id, Head(batch).note, NoState))
      /\ UNCHANGED <<rows, issued, reused, session, count>>
    BY DEF Emit, dbVars
<1>2. stream \in StreamStates /\ batch \in Seq(Items)
    BY DEF Typed, StreamTyped, StreamStates
<1> HIDE DEF Items
<1>3. Head(batch) = d
    BY <1>1, <1>2
<1>4. /\ Tail(batch) \in Seq(Items) /\ Len(Tail(batch)) = Len(batch) - 1
      /\ \A k \in 1 .. Len(Tail(batch)) : Tail(batch)[k] = batch[k + 1]
    BY <1>1, <1>2, HeadTailProperties
<1>5. /\ Len(batch) \in Nat \ {0} /\ DOMAIN batch = 1 .. Len(batch)
      /\ DOMAIN Tail(batch) = 1 .. Len(Tail(batch))
    BY <1>1, <1>2, <1>4, LenProperties, EmptySeq
<1>6. d \in Items
    BY <1>2, <1>5, ElementOfSeq
<1>7. d.id \in Int /\ Event("inbox", d.id, d.note, NoState) \in Events
    BY <1>6, BoundAssumption DEF Items, Event, Events, NoState, States
<1> HIDE DEF d, States
<1>8. /\ stream' \in StreamStates
      /\ stream'.cursor = d.id /\ stream'.batch = Tail(batch) /\ stream'.at = stream.at
    BY <1>1, <1>2, <1>3, <1>4, <1>7 DEF StreamStates
<1>9. QED
    BY <1>1, <1>3, <1>4, <1>5, <1>6, <1>7, <1>8 DEF d

(* The first turn of the generator: it ends, or it says ready and has a    *)
(* cursor, the client's if the client has one.                             *)
LEMMA ReadyStep ==
    ASSUME Typed, Ready
    PROVE  /\ stream.at = "ready"
           /\ stream' \in StreamStates
           /\ UNCHANGED <<rows, issued, reused, session, count>>
           /\ \/ stream' = Idle /\ UNCHANGED <<wire, late>>
              \/ /\ stream'.at = "check" /\ stream'.batch = stream.batch
                 /\ stream'.cursor \in Int
                 /\ stream'.cursor = stream.cursor
                       \/ (stream.cursor = NoCursor /\ stream'.cursor \in 0 .. issued)
                 /\ \E e \in Events : e.kind = "ready" /\ e.id = 0 /\ Send(e)
<1> DEFINE state == InboxState(rows, Me)
           cursor == IF stream.cursor = NoCursor THEN state.latest ELSE stream.cursor
           e == Event("ready", 0, 0, state)
<1>1. state \in States /\ state.latest <= issued /\ issued \in Nat
    BY InboxStateTyped DEF Typed, TableTyped
<1>2. stream \in StreamStates
    BY DEF Typed, StreamTyped
<1>3. stream.at = "ready" /\ UNCHANGED <<rows, issued, reused, session, count>>
    BY DEF Ready, dbVars
<1>4. CASE Close /\ UNCHANGED <<wire, late>>
    BY <1>3, <1>4, IdleTyped DEF Close
<1>5. CASE /\ stream' = [stream EXCEPT !.at = "check", !.cursor = cursor, !.last = state]
           /\ Send(e)
    <2>1. e \in Events /\ e.kind = "ready" /\ e.id = 0
        BY <1>1, BoundAssumption DEF Event, Events
    <2>2. state.latest \in 0 .. issued
        BY <1>1 DEF States
    <2>3. /\ cursor \in Int
          /\ cursor = stream.cursor
                \/ (stream.cursor = NoCursor /\ cursor \in 0 .. issued)
        BY <1>2, <2>2 DEF StreamStates
    <2> HIDE DEF cursor, state, States, Items
    <2>4. /\ stream' \in StreamStates /\ stream'.at = "check"
          /\ stream'.batch = stream.batch /\ stream'.cursor = cursor
        BY <1>1, <1>2, <1>5, <2>3 DEF StreamStates
    <2>5. QED
        BY <1>3, <1>5, <2>1, <2>3, <2>4
<1>6. QED
    BY <1>4, <1>5 DEF Ready

(* A turn that has no delivery to yield: it ends, or it goes on, keeping   *)
(* cursor and batch, and may yield the counts.                             *)
LEMMA TurnStep ==
    ASSUME Typed, Check \/ ReadState \/ EmitState
    PROVE  /\ stream' \in StreamStates
           /\ UNCHANGED <<rows, issued, reused, session, count>>
           /\ \/ stream' = Idle /\ UNCHANGED <<wire, late>>
              \/ /\ stream.at # "none" /\ stream.at # "ready"
                 /\ stream'.cursor = stream.cursor /\ stream'.batch = stream.batch
                 /\ \/ /\ stream.at = "check" /\ stream'.at = "list"
                       /\ session = "active"
                       /\ UNCHANGED <<wire, late>>
                    \/ /\ stream.at = "state" /\ stream'.at = "emit"
                       /\ UNCHANGED <<wire, late>>
                    \/ /\ stream.at = "emit" /\ stream'.at = "check"
                       /\ stream.batch = <<>>
                       /\ \/ UNCHANGED <<wire, late>>
                          \/ \E e \in Events : e.kind = "state" /\ e.id = 0 /\ Send(e)
<1>1. stream \in StreamStates /\ InboxState(rows, Me) \in States /\ NoState \in States
    BY InboxStateTyped DEF Typed, StreamTyped, NoState, States
<1>2. CASE Check
    <2>1. CASE Close
        BY <1>2, <2>1, IdleTyped DEF Check, Close, dbVars
    <2>2. ASSUME NEW due \in BOOLEAN, session = "active",
                 stream' = [stream EXCEPT !.at = "list", !.due = due]
          PROVE  /\ stream' \in StreamStates /\ stream'.at = "list"
                 /\ stream'.cursor = stream.cursor /\ stream'.batch = stream.batch
        <3> HIDE DEF Items, States
        <3>1. QED
            BY <1>1, <2>2 DEF StreamStates
    <2>3. QED
        BY <1>2, <2>1, <2>2 DEF Check, dbVars
<1>3. CASE ReadState
    <2> HIDE DEF Items, States
    <2>1. /\ stream.at = "state"
          /\ stream' = [stream EXCEPT !.at = "emit", !.next = InboxState(rows, Me)]
          /\ UNCHANGED <<rows, issued, reused, session, count, wire, late>>
        BY <1>3 DEF ReadState, dbVars
    <2>2. /\ stream' \in StreamStates /\ stream'.at = "emit"
          /\ stream'.cursor = stream.cursor /\ stream'.batch = stream.batch
        BY <1>1, <2>1 DEF StreamStates
    <2>3. QED
        BY <2>1, <2>2
<1>4. CASE EmitState
    <2> DEFINE e == Event("state", 0, 0, stream.next)
    <2>1. e \in Events /\ e.kind = "state" /\ e.id = 0
        BY <1>1, BoundAssumption DEF StreamStates, Event, Events
    <2> HIDE DEF Items, States
    <2>2. /\ stream.at = "emit" /\ stream.batch = <<>>
          /\ stream' = [stream EXCEPT !.at = "check", !.due = FALSE,
                                      !.last = stream.next, !.next = NoState]
          /\ Send(e) \/ UNCHANGED <<wire, late>>
          /\ UNCHANGED <<rows, issued, reused, session, count>>
        BY <1>4 DEF EmitState, dbVars
    <2>3. /\ stream' \in StreamStates /\ stream'.at = "check"
          /\ stream'.cursor = stream.cursor /\ stream'.batch = stream.batch
        BY <1>1, <2>2 DEF StreamStates
    <2> HIDE DEF e
    <2>4. QED
        BY <2>1, <2>2, <2>3
<1>5. QED
    BY <1>2, <1>3, <1>4

-----------------------------------------------------------------------------
(* The client *)

LEMMA NothingIsAPage ==
    /\ Nothing \in Pages /\ DOMAIN Nothing = {}
    /\ Cardinality(DOMAIN Nothing) <= PageSize
    /\ NoState \in States
<1>1. DOMAIN Nothing = {} /\ Nothing \in [{} -> 1 .. MaxNotes]
    BY DEF Nothing
<1>2. Nothing \in Pages
    BY <1>1 DEF Pages
<1>3. Cardinality(DOMAIN Nothing) <= PageSize
    BY <1>1, FS_EmptySet, PageAssumption
<1>4. QED
    BY <1>1, <1>2, <1>3 DEF NoState, States

(* What pages are, and that what is built from them is one. *)
LEMMA PagesAreFunctions ==
    ASSUME NEW page \in Pages
    PROVE  /\ DOMAIN page \in SUBSET (Nat \ {0})
           /\ \A i \in DOMAIN page : page[i] \in 1 .. MaxNotes
BY DEF Pages

LEMMA FunctionsArePages ==
    ASSUME NEW ids \in SUBSET (Nat \ {0}), NEW page \in [ids -> 1 .. MaxNotes]
    PROVE  page \in Pages
BY DEF Pages

LEMMA ShowingIsAPage ==
    ASSUME NEW page \in Pages, NEW id \in Nat \ {0}, NEW note \in 1 .. MaxNotes
    PROVE  Showing(page, id, note) \in Pages
<1>1. Showing(page, id, note) \in [{id} \cup DOMAIN page -> 1 .. MaxNotes]
    BY PagesAreFunctions DEF Showing
<1>2. QED
    BY <1>1, PagesAreFunctions, FunctionsArePages

LEMMA MergedIsAPage ==
    ASSUME client \in Clients
    PROVE  /\ Merged(client) \in Pages
           /\ DOMAIN Merged(client) \subseteq DOMAIN client.page \cup DOMAIN client.inbox
<1> DEFINE ids == DOMAIN client.page \cup (DOMAIN client.inbox \cap client.pending)
<1>1. client.page \in Pages /\ client.inbox \in Pages
    BY DEF Clients
<1>2. Merged(client) \in [ids -> 1 .. MaxNotes] /\ ids \in SUBSET (Nat \ {0})
    BY <1>1, PagesAreFunctions DEF Merged
<1>3. QED
    BY <1>2, FunctionsArePages

-----------------------------------------------------------------------------
(* What a step of the client may do, in terms of the fields *)

SameConnection ==
    client'.at = client.at /\ client'.source = client.source /\ client'.cursor = client.cursor

(* It keeps what it knows of its deliveries, or forgets some. *)
ShowsNoMore ==
    /\ client'.page \in {client.page, Nothing}
    /\ DOMAIN client'.inbox \subseteq DOMAIN client.inbox
    /\ client'.pending \subseteq client.pending

(* A list is read, or applied. *)
ReadsPage ==
    /\ client'.list = "read"
    /\ IsPage(DOMAIN client'.page)
    /\ \A i \in DOMAIN client'.page : client'.page[i] = rows[i].note
    /\ client'.inbox = client.inbox /\ client'.pending = client.pending
    /\ client'.error = client.error /\ client'.mark = client.mark

AppliesPage ==
    /\ client.list = "read" /\ client'.list = "none"
    /\ client'.page = client.page
    /\ client'.inbox = Merged(client) /\ client'.pending \subseteq client.pending
    /\ client'.error = client.error /\ client'.mark = client.mark

ClientTypedNext ==
    client' \in Clients /\ Cardinality(DOMAIN client'.page) <= PageSize

(* Places from which no stream is opened. *)
Apart == {"loading", "failed", "offline", "signedOut"}

(* The user marks a delivery. *)
Marked == TableStep /\ ClientTypedNext /\ SameConnection /\ ShowsNoMore /\ ~Settled'

(* The client closes its stream, or learns that it broke. *)
Gone ==
    /\ stream' = Idle /\ wire' = <<>>
    /\ UNCHANGED <<rows, issued, reused, session, count, late>>
    /\ ClientTypedNext
    /\ client'.at # "live" /\ client'.source # "open"
    /\ client'.at \in Apart => client'.source = "none"
    /\ client'.cursor \in {client.cursor, 0}
    /\ ShowsNoMore

Opens ==
    /\ client.source = "trying"
    /\ stream' = Opened(client.cursor)
    /\ UNCHANGED <<rows, issued, reused, session, wire, count, late>>
    /\ ClientTypedNext
    /\ client'.at = client.at /\ client'.source = "open" /\ client'.cursor = client.cursor
    /\ ShowsNoMore

(* Everything else that the client does without an event. *)
Quiet ==
    /\ UNCHANGED <<rows, issued, reused, session, stream, wire, count, late>>
    /\ ClientTypedNext
    /\ \/ SameConnection
       \/ /\ client.source # "open" \/ (stream.at = "none" /\ wire = <<>>)
          /\ client'.at # "live" /\ client'.source # "open"
          /\ client'.at \in Apart => client'.source = "none"
          /\ client'.cursor = client.cursor \/ client'.cursor \in 0 .. issued
    /\ \/ ShowsNoMore /\ ~(Settled' /\ client'.list # "asked")
       \/ SameConnection /\ (ReadsPage \/ AppliesPage)

LEMMA SignOutStep ==
    ASSUME Typed, SignOut
    PROVE  Gone
<1> HIDE DEF States, Pages, Nothing, NoState
<1>1. client' = SignedOut
    BY DEF SignOut
<1>2. /\ SignedOut \in Clients /\ SignedOut.at = "signedOut" /\ SignedOut.source = "none"
      /\ SignedOut.cursor = 0 /\ SignedOut.page = Nothing /\ SignedOut.inbox = Nothing
      /\ SignedOut.pending = {}
    BY NothingIsAPage DEF SignedOut, NoClient, Clients
<1>3. QED
    BY <1>1, <1>2, NothingIsAPage
       DEF SignOut, Gone, ClientTypedNext, ShowsNoMore, Apart, Disconnected, dbVars

LEMMA BreakStep ==
    ASSUME Typed, Drop \/ Offline
    PROVE  Gone
<1> HIDE DEF States, Pages, Nothing, NoState
<1>1. client \in Clients /\ Cardinality(DOMAIN client.page) <= PageSize
    BY DEF Typed, ClientTyped
<1>2. CASE Drop
    <2>1. client' = [client EXCEPT !.at = "reconnecting", !.source = "trying"]
        BY <1>2 DEF Drop, Reconnecting
    <2>2. /\ client' \in Clients /\ client'.at = "reconnecting" /\ client'.source = "trying"
          /\ client'.cursor = client.cursor /\ client'.page = client.page
          /\ client'.inbox = client.inbox /\ client'.pending = client.pending
        BY <1>1, <2>1 DEF Clients
    <2>3. QED
        BY <1>1, <1>2, <2>2
           DEF Drop, Gone, ClientTypedNext, ShowsNoMore, Apart, Disconnected, dbVars
<1>3. CASE Offline
    <2>1. client' = [client EXCEPT !.at = "offline", !.source = "none"]
        BY <1>3 DEF Offline
    <2>2. /\ client' \in Clients /\ client'.at = "offline" /\ client'.source = "none"
          /\ client'.cursor = client.cursor /\ client'.page = client.page
          /\ client'.inbox = client.inbox /\ client'.pending = client.pending
        BY <1>1, <2>1 DEF Clients
    <2>3. QED
        BY <1>1, <1>3, <2>2
           DEF Offline, Gone, ClientTypedNext, ShowsNoMore, Apart, Disconnected, dbVars
<1>4. QED
    BY <1>2, <1>3

LEMMA ConnectStep ==
    ASSUME Typed, Connect
    PROVE  Opens \/ Quiet
<1> HIDE DEF States, Pages, Nothing, NoState
<1>1. client \in Clients /\ Cardinality(DOMAIN client.page) <= PageSize
    BY DEF Typed, ClientTyped
<1>2. /\ client.source = "trying"
      /\ UNCHANGED <<rows, issued, reused, session, wire, count, late>>
    BY DEF Connect, dbVars
<1>3. CASE /\ client' = [client EXCEPT !.source = "open"]
           /\ stream' = Opened(client.cursor)
    <2>1. /\ client' \in Clients /\ client'.at = client.at /\ client'.source = "open"
          /\ client'.cursor = client.cursor /\ client'.page = client.page
          /\ client'.inbox = client.inbox /\ client'.pending = client.pending
        BY <1>1, <1>3 DEF Clients
    <2>2. QED
        BY <1>1, <1>2, <1>3, <2>1 DEF Opens, ClientTypedNext, ShowsNoMore
<1>4. CASE client' = Reconnecting("closed") /\ stream' = stream
    <2>1. client' = [client EXCEPT !.at = "reconnecting", !.source = "closed"]
        BY <1>4 DEF Reconnecting
    <2>2. /\ client' \in Clients /\ client'.at = "reconnecting" /\ client'.source = "closed"
          /\ client'.cursor = client.cursor /\ client'.page = client.page
          /\ client'.inbox = client.inbox /\ client'.pending = client.pending
        BY <1>1, <2>1 DEF Clients
    <2>3. QED
        BY <1>1, <1>2, <1>4, <2>2 DEF Quiet, ClientTypedNext, ShowsNoMore, Apart, Settled
<1>5. QED
    BY <1>3, <1>4 DEF Connect

(* The requests for the list. *)
LEMMA ListRequestStep ==
    ASSUME Typed, ReadList \/ ApplyPage \/ ListFails
    PROVE  Gone \/ Quiet
<1>1. client \in Clients /\ Cardinality(DOMAIN client.page) <= PageSize
    BY DEF Typed, ClientTyped
<1>2. ASSUME NEW ids \in SUBSET Mine, IsPage(ids), UNCHANGED <<serverVars, faults>>,
             client' = [client EXCEPT !.list = "read",
                                      !.page = [i \in ids |-> rows[i].note]]
      PROVE  Quiet
    <2> DEFINE page == [i \in ids |-> rows[i].note]
    <2>1. page \in [ids -> 1 .. MaxNotes] /\ ids \in SUBSET (Nat \ {0})
        BY <1>2 DEF Typed, TableTyped, Deliveries, Mine, InboxOf
    <2>2. page \in Pages /\ DOMAIN page = ids /\ \A i \in ids : page[i] = rows[i].note
        BY <2>1, FunctionsArePages
    <2>3. Cardinality(ids) <= PageSize
        <3>1. CASE Cardinality(Mine) < PageSize
            <4>1. ids = Mine /\ Cardinality(Mine) \in Int
                <5>1. IsFiniteSet(Mine)
                    <6>1. Mine \in SUBSET (1 .. issued) /\ issued \in Int
                        BY DEF Typed, TableTyped, Mine, InboxOf
                    <6>2. IsFiniteSet(1 .. issued)
                        BY <6>1, FS_Interval
                    <6>3. QED
                        BY <6>1, <6>2, FS_Subset
                <5>2. QED
                    BY <1>2, <3>1, <5>1, FS_CardinalityType DEF IsPage
            <4>2. QED
                BY <3>1, <4>1, PageAssumption
        <3>2. CASE ~(Cardinality(Mine) < PageSize)
            BY <1>2, <3>2, PageAssumption DEF IsPage
        <3>3. QED
            BY <3>1, <3>2
    <2> HIDE DEF page, States, Pages
    <2>4. /\ client' \in Clients /\ client'.page = page /\ client'.list = "read"
          /\ SameConnection
          /\ client'.inbox = client.inbox /\ client'.pending = client.pending
          /\ client'.error = client.error /\ client'.mark = client.mark
        BY <1>1, <1>2, <2>2 DEF Clients, SameConnection, page
    <2>5. ReadsPage
        BY <1>2, <2>2, <2>4 DEF ReadsPage
    <2>6. QED
        BY <1>2, <2>2, <2>3, <2>4, <2>5 DEF Quiet, ClientTypedNext, serverVars, dbVars
<1>3. CASE ReadList
    BY <1>2, <1>3, SignOutStep DEF ReadList
<1> HIDE DEF States, Pages, Nothing, NoState
<1>4. CASE ApplyPage
    <2>1. /\ client.list = "read"
          /\ client' = [client EXCEPT !.list = "none", !.inbox = Merged(client),
                                      !.pending = @ \ DOMAIN client.page]
          /\ UNCHANGED <<serverVars, faults>>
        BY <1>4 DEF ApplyPage
    <2>2. Merged(client) \in Pages
        BY <1>1, MergedIsAPage
    <2>3. /\ client' \in Clients /\ SameConnection
          /\ client'.list = "none" /\ client'.page = client.page
          /\ client'.inbox = Merged(client) /\ client'.pending = client.pending \ DOMAIN client.page
          /\ client'.error = client.error /\ client'.mark = client.mark
        BY <1>1, <2>1, <2>2 DEF Clients, SameConnection
    <2>4. AppliesPage
        BY <2>1, <2>3 DEF AppliesPage
    <2>5. QED
        BY <1>1, <2>1, <2>3, <2>4 DEF Quiet, ClientTypedNext, serverVars, dbVars
<1>5. CASE ListFails
    <2>1. /\ client' = [client EXCEPT !.list = "none", !.page = Nothing, !.error = TRUE]
          /\ UNCHANGED serverVars
        BY <1>5 DEF ListFails
    <2>2. /\ client' \in Clients /\ SameConnection /\ client'.page = Nothing
          /\ client'.inbox = client.inbox /\ client'.pending = client.pending
          /\ client'.error = TRUE
        BY <1>1, <2>1, NothingIsAPage DEF Clients, SameConnection
    <2>3. QED
        BY <2>1, <2>2, NothingIsAPage
           DEF Quiet, ClientTypedNext, ShowsNoMore, Settled, serverVars, dbVars
<1>6. QED
    BY <1>3, <1>4, <1>5

(* The requests for the counts and the end of a stream. *)
LEMMA CountsStep ==
    ASSUME Typed, Connected,
           LoadState \/ StateFails \/ ReadCounts \/ ShowCounts \/ CountsFail
    PROVE  Gone \/ Quiet
<1> DEFINE counts == InboxState(rows, Me)
<1>1. client \in Clients /\ Cardinality(DOMAIN client.page) <= PageSize
    BY DEF Typed, ClientTyped
<1>2. /\ counts \in States /\ counts.latest \in 0 .. issued
      /\ counts.latest \in Nat /\ NoState \in States
    BY InboxStateTyped, NothingIsAPage DEF Typed, TableTyped, States
<1> HIDE DEF States, Pages, Nothing, NoState, counts
<1> USE DEF Quiet, ClientTypedNext, ShowsNoMore, Settled, serverVars, dbVars
<1>3. CASE LoadState
    <2>1. CASE SignOut
        BY <2>1, SignOutStep
    <2>2. CASE /\ client' = [client EXCEPT !.at = "connecting", !.source = "trying",
                                           !.cursor = counts.latest, !.state = counts]
               /\ UNCHANGED <<serverVars, faults>>
        <3>1. /\ client' \in Clients /\ client'.at = "connecting"
              /\ client'.source = "trying" /\ client'.cursor = counts.latest
              /\ client'.page = client.page /\ client'.inbox = client.inbox
              /\ client'.pending = client.pending
            BY <1>1, <1>2, <2>2 DEF Clients
        <3>2. client.source # "open"
            BY <1>3 DEF LoadState, Connected
        <3>3. QED
            BY <1>1, <1>2, <2>2, <3>1, <3>2 DEF Apart
    <2>3. QED
        BY <1>3, <2>1, <2>2 DEF LoadState, counts
<1>4. CASE StateFails
    <2>1. /\ client.at = "loading" /\ UNCHANGED serverVars
          /\ client' = [client EXCEPT !.at = "failed", !.error = TRUE]
        BY <1>4 DEF StateFails
    <2>2. /\ client' \in Clients /\ client'.at = "failed"
          /\ client'.source = client.source /\ client'.cursor = client.cursor
          /\ client'.page = client.page /\ client'.inbox = client.inbox
          /\ client'.pending = client.pending /\ client'.error
        BY <1>1, <2>1 DEF Clients
    <2>3. client.source = "none"
        BY <2>1 DEF Connected
    <2>4. QED
        BY <1>1, <2>1, <2>2, <2>3
<1>5. CASE ReadCounts
    <2>1. CASE SignOut
        BY <2>1, SignOutStep
    <2>2. CASE /\ client' = [client EXCEPT !.mark = "read", !.marked = counts]
               /\ UNCHANGED <<serverVars, faults>>
        <3>1. /\ client' \in Clients /\ SameConnection /\ client'.mark = "read"
              /\ client'.page = client.page /\ client'.inbox = client.inbox
              /\ client'.pending = client.pending
            BY <1>1, <1>2, <2>2 DEF Clients, SameConnection
        <3>2. QED
            BY <1>1, <2>2, <3>1
    <2>3. QED
        BY <1>5, <2>1, <2>2 DEF ReadCounts, counts
<1>6. CASE ShowCounts
    <2>1. /\ client' = [client EXCEPT !.mark = "none", !.marked = NoState,
                                      !.state = client.marked, !.list = "asked",
                                      !.page = Nothing, !.error = FALSE]
          /\ UNCHANGED <<serverVars, faults>>
        BY <1>6 DEF ShowCounts, Refetch
    <2>2. /\ client' \in Clients /\ SameConnection /\ client'.list = "asked"
          /\ client'.page = Nothing /\ client'.inbox = client.inbox
          /\ client'.pending = client.pending
        BY <1>1, <1>2, <2>1, NothingIsAPage DEF Clients, SameConnection
    <2>3. QED
        BY <2>1, <2>2, NothingIsAPage
<1>7. CASE CountsFail
    <2>1. /\ client' = [client EXCEPT !.mark = "none", !.marked = NoState, !.error = TRUE]
          /\ UNCHANGED serverVars
        BY <1>7 DEF CountsFail
    <2>2. /\ client' \in Clients /\ SameConnection /\ client'.error = TRUE
          /\ client'.page = client.page /\ client'.inbox = client.inbox
          /\ client'.pending = client.pending
        BY <1>1, <1>2, <2>1 DEF Clients, SameConnection
    <2>3. QED
        BY <1>1, <2>1, <2>2
<1>8. QED
    BY <1>3, <1>4, <1>5, <1>6, <1>7

LEMMA EndStep ==
    ASSUME Typed, Connected, EndOfStream \/ Online
    PROVE  Quiet
<1> HIDE DEF States, Pages, Nothing, NoState
<1> USE DEF Quiet, ClientTypedNext, ShowsNoMore, Settled, serverVars, dbVars
<1>1. client \in Clients /\ Cardinality(DOMAIN client.page) <= PageSize
    BY DEF Typed, ClientTyped
<1>2. CASE EndOfStream
    <2>1. /\ client' = [client EXCEPT !.at = "reconnecting", !.source = "trying"]
          /\ stream.at = "none" /\ wire = <<>> /\ UNCHANGED <<serverVars, faults>>
        BY <1>2 DEF EndOfStream, Reconnecting
    <2>2. /\ client' \in Clients /\ client'.at = "reconnecting" /\ client'.source = "trying"
          /\ client'.cursor = client.cursor /\ client'.page = client.page
          /\ client'.inbox = client.inbox /\ client'.pending = client.pending
        BY <1>1, <2>1 DEF Clients
    <2>3. QED
        BY <1>1, <2>1, <2>2 DEF Apart
<1>3. CASE Online
    <2>1. /\ client' = [client EXCEPT !.at = "connecting", !.source = "trying"]
          /\ client.at = "offline" /\ UNCHANGED <<serverVars, faults>>
        BY <1>3 DEF Online
    <2>2. /\ client' \in Clients /\ client'.at = "connecting" /\ client'.source = "trying"
          /\ client'.cursor = client.cursor /\ client'.page = client.page
          /\ client'.inbox = client.inbox /\ client'.pending = client.pending
        BY <1>1, <2>1 DEF Clients
    <2>3. client.source # "open"
        BY <2>1 DEF Connected
    <2>4. QED
        BY <1>1, <2>1, <2>2, <2>3 DEF Apart
<1>4. QED
    BY <1>2, <1>3

(* mutateDelivery. *)
LEMMA MarkStep ==
    ASSUME Typed, NEW id \in DOMAIN client.inbox, MarkShown(id)
    PROVE  Marked \/ Gone \/ Quiet
<1>1. client \in Clients /\ Cardinality(DOMAIN client.page) <= PageSize
    BY DEF Typed, ClientTyped
<1>2. CASE SignOut
    BY <1>2, SignOutStep
<1> HIDE DEF States, Pages, Nothing, NoState
<1>3. CASE /\ id \in Mine /\ MarkRead(id)
           /\ client' = [client EXCEPT !.mark = "asked", !.error = FALSE,
                                       !.pending = @ \ {id},
                                       !.inbox = Showing(@, id, rows[id].note)]
    <2>1. id \in DOMAIN rows /\ rows[id].note \in 1 .. MaxNotes
        BY <1>3 DEF Typed, TableTyped, Mine, InboxOf, Deliveries
    <2>2. client.inbox \in Pages /\ id \in Nat \ {0}
        BY <1>1, PagesAreFunctions DEF Clients
    <2>3. Showing(client.inbox, id, rows[id].note) \in Pages
        BY <2>1, <2>2, ShowingIsAPage
    <2>4. /\ client' \in Clients /\ SameConnection /\ client'.mark = "asked"
          /\ client'.page = client.page
          /\ client'.inbox = Showing(client.inbox, id, rows[id].note)
          /\ client'.pending = client.pending \ {id}
        BY <1>1, <1>3, <2>3 DEF Clients, SameConnection
    <2>5. DOMAIN client'.inbox = DOMAIN client.inbox
        BY <2>4 DEF Showing
    <2>6. TableStep
        BY <1>3, <2>1, ChangesAreTableSteps DEF Typed
    <2>7. QED
        BY <1>1, <2>4, <2>5, <2>6 DEF Marked, ClientTypedNext, ShowsNoMore, Settled
<1>4. CASE client' = [client EXCEPT !.error = TRUE] /\ UNCHANGED <<serverVars, faults>>
    <2>1. /\ client' \in Clients /\ SameConnection /\ client'.error = TRUE
          /\ client'.page = client.page /\ client'.inbox = client.inbox
          /\ client'.pending = client.pending
        BY <1>1, <1>4 DEF Clients, SameConnection
    <2>2. QED
        BY <1>1, <1>4, <2>1
           DEF Quiet, ClientTypedNext, ShowsNoMore, Settled, serverVars, dbVars
<1>5. QED
    BY <1>2, <1>3, <1>4 DEF MarkShown

(* The client takes events from the front of the wire. *)
TakesReady ==
    /\ wire[1].kind = "ready"
    /\ client'.at = "live" /\ client'.list = "asked" /\ client'.page = Nothing
    /\ client'.cursor = client.cursor
    /\ client'.inbox = client.inbox /\ client'.pending = client.pending

IgnoresEvent == wire[1].kind # "ready" /\ client.at # "live" /\ client' = client

TakesCounts ==
    /\ wire[1].kind = "state" /\ client.at = "live"
    /\ client'.at = "live" /\ client'.list = "asked" /\ client'.page = Nothing
    /\ client'.cursor = client.cursor
    /\ client'.inbox = client.inbox /\ client'.pending = client.pending

TakesDelivery ==
    /\ wire[1].kind = "inbox" /\ client.at = "live"
    /\ client'.at = "live" /\ client'.list = client.list /\ client'.page = client.page
    /\ client'.cursor = IF wire[1].id > client.cursor THEN wire[1].id ELSE client.cursor
    /\ client'.inbox = Showing(client.inbox, wire[1].id, wire[1].note)
    /\ client'.pending = client.pending \cup {wire[1].id}
    /\ client'.error = client.error /\ client'.mark = client.mark

LEMMA ReceiveStep ==
    ASSUME Typed, Receive
    PROVE  /\ ClientTypedNext
           /\ client.source = "open" /\ client'.source = "open"
           /\ TakesReady \/ IgnoresEvent \/ TakesCounts \/ TakesDelivery
           /\ wire' \in Seq(Events)
           /\ Len(wire) \in Nat \ {0} /\ Len(wire') = Len(wire) - 1
           /\ DOMAIN wire = 1 .. Len(wire) /\ DOMAIN wire' = 1 .. Len(wire) - 1
           /\ \A k \in DOMAIN wire' : wire'[k] = wire[k + 1]
           /\ wire[1] \in Events /\ Proper(wire[1])
           /\ UNCHANGED <<rows, issued, reused, session, stream, count, late>>
<1> DEFINE e == wire[1]
<1>1. wire \in Seq(Events) /\ wire # <<>> /\ wire' = Tail(wire) /\ e = Head(wire)
    BY DEF Receive, Typed, StreamTyped
<1>2. /\ wire' \in Seq(Events) /\ Len(wire') = Len(wire) - 1
      /\ \A k \in 1 .. Len(wire') : wire'[k] = wire[k + 1]
    BY <1>1, HeadTailProperties
<1>3. /\ Len(wire) \in Nat \ {0} /\ DOMAIN wire = 1 .. Len(wire)
      /\ DOMAIN wire' = 1 .. Len(wire')
    BY <1>1, <1>2, LenProperties, EmptySeq
<1>4. 1 \in DOMAIN wire
    BY <1>3
<1>5. e \in Events /\ Proper(e)
    BY <1>1, <1>3, <1>4, ElementOfSeq DEF Typed, StreamTyped
<1>6. /\ e.id \in Nat /\ e.state \in States
      /\ e.kind \in {"ready", "inbox", "state"}
      /\ e.kind = "inbox" => e.id \in Nat \ {0} /\ e.note \in 1 .. MaxNotes
    BY <1>5 DEF Events, Proper
<1>7. client \in Clients /\ Cardinality(DOMAIN client.page) <= PageSize
    BY DEF Typed, ClientTyped
<1>8. /\ client.source = "open" /\ client' = Handled(e)
      /\ UNCHANGED <<rows, issued, reused, session, stream, count, late>>
    BY <1>1 DEF Receive, dbVars
<1>9. e.kind = "inbox" => Showing(client.inbox, e.id, e.note) \in Pages
    <2>1. client.inbox \in Pages
        BY <1>7 DEF Clients
    <2>2. QED
        BY <1>6, <2>1, ShowingIsAPage
<1> DEFINE Effect == /\ ClientTypedNext /\ client'.source = client.source
                     /\ TakesReady \/ IgnoresEvent \/ TakesCounts \/ TakesDelivery
<1> HIDE DEF e, States, Pages, Nothing, NoState
<1>10. ASSUME e.kind = "ready"
       PROVE  Effect
    <2>1. client' = [client EXCEPT !.at = "live", !.state = e.state, !.list = "asked",
                                   !.page = Nothing, !.error = FALSE]
        BY <1>8, <1>10 DEF Handled, Refetch
    <2>2. /\ client' \in Clients /\ client'.at = "live" /\ client'.list = "asked"
          /\ client'.page = Nothing /\ client'.cursor = client.cursor
          /\ client'.inbox = client.inbox /\ client'.pending = client.pending
          /\ client'.source = client.source
        BY <1>6, <1>7, <2>1, NothingIsAPage DEF Clients
    <2>3. QED
        BY <1>10, <2>2, NothingIsAPage DEF ClientTypedNext, TakesReady, e
<1>11. ASSUME e.kind # "ready" /\ client.at # "live"
       PROVE  Effect
    BY <1>7, <1>8, <1>11 DEF Handled, ClientTypedNext, IgnoresEvent, e
<1>12. ASSUME e.kind = "state" /\ client.at = "live"
       PROVE  Effect
    <2>1. client' = [client EXCEPT !.state = e.state, !.list = "asked",
                                   !.page = Nothing, !.error = FALSE]
        BY <1>8, <1>12 DEF Handled, Refetch
    <2>2. /\ client' \in Clients /\ client'.at = "live" /\ client'.list = "asked"
          /\ client'.page = Nothing /\ client'.cursor = client.cursor
          /\ client'.inbox = client.inbox /\ client'.pending = client.pending
          /\ client'.source = client.source
        BY <1>6, <1>7, <1>12, <2>1, NothingIsAPage DEF Clients
    <2>3. QED
        BY <1>12, <2>2, NothingIsAPage DEF ClientTypedNext, TakesCounts, e
<1>13. ASSUME e.kind = "inbox" /\ client.at = "live"
       PROVE  Effect
    <2> DEFINE cursor == IF e.id > client.cursor THEN e.id ELSE client.cursor
    <2>1. client' = [client EXCEPT !.cursor = cursor,
                                   !.inbox = Showing(client.inbox, e.id, e.note),
                                   !.pending = @ \cup {e.id}]
        BY <1>8, <1>13 DEF Handled
    <2>2. cursor \in Nat
        BY <1>6, <1>7 DEF Clients
    <2>3. e.id \in Nat \ {0} /\ Showing(client.inbox, e.id, e.note) \in Pages
        BY <1>6, <1>9, <1>13
    <2> HIDE DEF cursor
    <2>4. /\ client' \in Clients /\ client'.at = "live" /\ client'.list = client.list
          /\ client'.page = client.page /\ client'.cursor = cursor
          /\ client'.inbox = Showing(client.inbox, e.id, e.note)
          /\ client'.pending = client.pending \cup {e.id}
          /\ client'.source = client.source
          /\ client'.error = client.error /\ client'.mark = client.mark
        BY <1>7, <1>13, <2>1, <2>2, <2>3 DEF Clients
    <2>5. QED
        BY <1>7, <1>13, <2>4 DEF ClientTypedNext, TakesDelivery, e, cursor
<1>14. Effect
    BY <1>6, <1>10, <1>11, <1>12, <1>13
<1>15. QED
    BY <1>2, <1>3, <1>5, <1>8, <1>14 DEF e

-----------------------------------------------------------------------------
(* The steps of the system, grouped as the lemmas above describe them. *)
Turn == Check \/ ReadState \/ EmitState
Aside == TableStep /\ client' = client
Generated == (Ready \/ Turn \/ List \/ Emit) /\ client' = client

LEMMA StepCases ==
    ASSUME Typed, Connected, [Next]_vars
    PROVE  \/ Aside \/ Marked \/ (Revoke /\ client' = client) \/ Generated
           \/ Gone \/ Opens \/ Quiet \/ Receive \/ UNCHANGED vars
<1>1. ASSUME NEW users \in Audiences, Publish(users)
      PROVE  TableStep
    BY <1>1, PublishIsATableStep DEF Typed
<1>2. ASSUME NEW id \in DOMAIN rows, Delete(id) \/ MarkRead(id)
      PROVE  TableStep
    BY <1>2, ChangesAreTableSteps DEF Typed
<1>3. TableChanges => TableStep \/ Revoke
    BY <1>1, <1>2 DEF TableChanges, Audiences
<1>4. CASE (TableChanges \/ Generator) /\ UNCHANGED <<client, faults>>
    BY <1>3, <1>4 DEF Generator, Aside, Generated, Turn
<1>5. CASE Client
    BY <1>5, CountsStep, ListRequestStep, ConnectStep, EndStep, SignOutStep
       DEF Client, Poll
<1>6. ASSUME NEW id \in DOMAIN client.inbox, MarkShown(id)
      PROVE  Marked \/ Gone \/ Quiet
    BY <1>6, MarkStep
<1>7. CASE Network
    BY <1>7, CountsStep, ListRequestStep, BreakStep, EndStep DEF Network
<1>8. QED
    BY <1>4, <1>5, <1>6, <1>7 DEF Next

-----------------------------------------------------------------------------
(* Types, and what a connection holds *)

LEMMA InitTyped == Init => Typed
<1> SUFFICES ASSUME Init
             PROVE  Typed
    OBVIOUS
<1>1. TableTyped
    BY BoundAssumption DEF Init, ServerInit, TableTyped, NoRows
<1>2. StreamTyped
    BY IdleTyped, LimitAssumption DEF Init, ServerInit, StreamTyped, Idle, Blank
<1>3. ClientTyped
    <2> HIDE DEF NoState, States, Pages, Nothing
    <2>1. NoClient \in Clients /\ NoClient.page = Nothing
        BY NothingIsAPage DEF NoClient, Clients
    <2>2. QED
        BY <2>1, NothingIsAPage DEF Init, ClientTyped
<1>4. QED
    BY <1>1, <1>2, <1>3 DEF Typed

LEMMA OpenedTyped ==
    ASSUME NEW cursor \in Nat
    PROVE  /\ Opened(cursor) \in StreamStates
           /\ Opened(cursor).at = "ready" /\ Opened(cursor).cursor = cursor
           /\ Opened(cursor).batch = <<>>
<1>1. NoState \in States /\ <<>> \in Seq(Items)
    BY NothingIsAPage
<1> HIDE DEF Items, States, NoState
<1>2. QED
    BY <1>1 DEF Opened, Blank, StreamStates

LEMMA NextTyped == Typed /\ Connected /\ [Next]_vars => Typed'
<1> SUFFICES ASSUME Typed, Connected, [Next]_vars
             PROVE  Typed'
    OBVIOUS
<1> USE DEF Typed
<1>0. ASSUME UNCHANGED <<rows, issued, count>>
      PROVE  TableTyped'
    BY <1>0 DEF TableTyped
<1>1. ASSUME stream' \in StreamStates, Len(stream'.batch) <= BatchLimit,
             UNCHANGED <<session, wire, late>>
      PROVE  StreamTyped'
    BY <1>1 DEF StreamTyped
<1>2. ASSUME stream' \in StreamStates, Len(stream'.batch) <= BatchLimit,
             NEW e \in Events, Proper(e), Send(e), UNCHANGED session
      PROVE  StreamTyped'
    BY <1>2, SendStep DEF StreamTyped
<1>3. Len(Idle.batch) <= BatchLimit /\ Idle \in StreamStates
    BY LimitAssumption, IdleTyped DEF Idle, Blank
<1>4. Len(stream.batch) <= BatchLimit
    BY DEF StreamTyped
<1>5. client' = client => ClientTyped'
    BY DEF ClientTyped
<1>6. ClientTypedNext => ClientTyped'
    BY DEF ClientTypedNext, ClientTyped
<1>7. CASE Aside \/ Marked
    BY <1>5, <1>6, <1>7 DEF Aside, Marked, TableStep, StreamTyped
<1>8. CASE Revoke /\ client' = client
    BY <1>0, <1>5, <1>8 DEF Revoke, dbVars, StreamTyped
<1>9. CASE Generated
    <2>1. CASE Ready
        <3>1. \A e \in Events : e.kind = "ready" => Proper(e)
            BY DEF Proper
        <3>2. StreamTyped'
            BY <1>1, <1>2, <1>3, <1>4, <2>1, <3>1, ReadyStep
        <3>3. QED
            BY <1>0, <1>5, <1>9, <2>1, <3>2, ReadyStep DEF Generated
    <2>2. CASE Turn
        <3>1. \A e \in Events : e.kind = "state" => Proper(e)
            BY DEF Proper
        <3>2. StreamTyped'
            BY <1>1, <1>2, <1>3, <1>4, <2>2, <3>1, TurnStep DEF Turn
        <3>3. QED
            BY <1>0, <1>5, <1>9, <2>2, <3>2, TurnStep DEF Turn, Generated
    <2>3. CASE List
        BY <1>0, <1>1, <1>5, <1>9, <2>3, ListStep DEF Generated
    <2>4. CASE Emit
        <3> DEFINE d == stream.batch[1]
                   e == Event("inbox", d.id, d.note, NoState)
        <3>1. /\ stream' \in StreamStates /\ Len(stream'.batch) = Len(stream.batch) - 1
              /\ Len(stream.batch) \in Nat
              /\ e \in Events /\ d \in Items /\ Send(e)
              /\ UNCHANGED <<rows, issued, reused, session, count>>
            BY <2>4, EmitStep
        <3>2. Proper(e)
            BY <3>1 DEF Event, Items, Proper
        <3>3. Len(stream'.batch) <= BatchLimit
            BY <1>4, <3>1, LimitAssumption
        <3> HIDE DEF e, d
        <3>4. QED
            BY <1>0, <1>2, <1>5, <1>9, <3>1, <3>2, <3>3 DEF Generated
    <2>5. QED
        BY <1>9, <2>1, <2>2, <2>3, <2>4 DEF Generated
<1>10. CASE Gone
    <2>1. wire' \in Seq(Events) /\ \A k \in DOMAIN wire' : Proper(wire'[k])
        BY <1>10 DEF Gone
    <2>2. QED
        BY <1>0, <1>3, <1>6, <1>10, <2>1 DEF Gone, StreamTyped
<1>11. CASE Opens
    <2>1. client.cursor \in Nat
        BY DEF ClientTyped, Clients
    <2>2. stream' \in StreamStates /\ Len(stream'.batch) <= BatchLimit
        BY <1>11, <2>1, OpenedTyped, LimitAssumption DEF Opens
    <2>3. QED
        BY <1>0, <1>1, <1>6, <1>11, <2>2 DEF Opens
<1>12. CASE Quiet
    <2>1. StreamTyped'
        BY <1>12 DEF Quiet, StreamTyped
    <2>2. QED
        BY <1>0, <1>6, <1>12, <2>1 DEF Quiet
<1>13. CASE Receive
    <2>1. /\ ClientTypedNext /\ wire' \in Seq(Events)
          /\ DOMAIN wire = 1 .. Len(wire) /\ DOMAIN wire' = 1 .. Len(wire) - 1
          /\ Len(wire) \in Nat
          /\ \A k \in DOMAIN wire' : wire'[k] = wire[k + 1]
          /\ UNCHANGED <<rows, issued, reused, session, stream, count, late>>
        BY <1>13, ReceiveStep
    <2>2. \A k \in DOMAIN wire' : k + 1 \in DOMAIN wire
        BY <2>1
    <2>3. \A k \in DOMAIN wire' : Proper(wire'[k])
        BY <2>1, <2>2 DEF StreamTyped
    <2>4. QED
        BY <1>0, <1>6, <2>1, <2>3 DEF StreamTyped
<1>14. CASE UNCHANGED vars
    BY <1>0, <1>1, <1>4, <1>5, <1>14 DEF vars, serverVars, dbVars, StreamTyped
<1>15. QED
    BY <1>7, <1>8, <1>9, <1>10, <1>11, <1>12, <1>13, <1>14, StepCases

LEMMA NextConnected == Typed /\ Connected /\ [Next]_vars => Connected'
<1> SUFFICES ASSUME Typed, Connected, [Next]_vars
             PROVE  Connected'
    OBVIOUS
<1> USE DEF Connected
<1>1. CASE Aside \/ Marked
    BY <1>1 DEF Aside, Marked, TableStep, SameConnection
<1>2. CASE Revoke /\ client' = client
    BY <1>2 DEF Revoke
<1>3. CASE Generated
    <2>1. client' = client
        BY <1>3 DEF Generated
    <2>2. CASE Ready
        <3>1. /\ stream.at = "ready" /\ wire = <<>>
              /\ client.source = "open" /\ client.at # "live"
            BY <2>2, ReadyStep
        <3>2. CASE stream' = Idle /\ UNCHANGED <<wire, late>>
            BY <2>1, <3>1, <3>2 DEF Idle, Blank
        <3>3. ASSUME NEW e \in Events, e.kind = "ready", Send(e),
                     stream'.at = "check", stream'.batch = stream.batch
              PROVE  Connected'
            <4>1. wire' = <<e>>
                BY <3>1, <3>3 DEF Send
            <4>2. wire' # <<>> /\ wire'[1].kind = "ready"
                BY <3>3, <4>1
            <4>3. QED
                BY <2>1, <3>1, <3>3, <4>2
        <3>4. QED
            BY <2>2, <3>2, <3>3, ReadyStep
    <2>3. CASE Turn
        <3>1. CASE stream' = Idle /\ UNCHANGED <<wire, late>>
            BY <2>1, <3>1 DEF Idle, Blank
        <3>2. CASE stream.at \notin {"none", "ready"} /\ UNCHANGED <<wire, late>>
            BY <2>1, <2>3, <3>2, TurnStep DEF Turn, Idle, Blank
        <3>3. ASSUME NEW e \in Events, e.kind = "state", Send(e),
                     stream.at \notin {"none", "ready"}
              PROVE  Connected'
            <4>1. /\ Len(wire) \in Nat /\ DOMAIN wire = 1 .. Len(wire)
                  /\ DOMAIN wire' = 1 .. Len(wire) + 1
                  /\ \A k \in 1 .. Len(wire) : wire'[k] = wire[k]
                BY <3>3, SendStep DEF Proper
            <4>2. wire' # <<>> /\ (wire # <<>> => wire'[1] = wire[1])
                BY <4>1
            <4>3. QED
                BY <2>1, <2>3, <3>3, <4>2, TurnStep DEF Turn, Idle, Blank
        <3>4. QED
            BY <2>3, <3>1, <3>2, <3>3, TurnStep DEF Turn
    <2>4. CASE List
        BY <2>1, <2>4, ListStep
    <2>5. CASE Emit
        <3> DEFINE d == stream.batch[1]
                   e == Event("inbox", d.id, d.note, NoState)
        <3>1. /\ stream.at = "emit" /\ stream'.at = "emit"
              /\ d \in Items /\ e \in Events /\ Send(e)
            BY <2>5, EmitStep
        <3>2. Proper(e)
            BY <3>1 DEF Event, Items, Proper
        <3> HIDE DEF e
        <3>3. /\ Len(wire) \in Nat /\ DOMAIN wire = 1 .. Len(wire)
              /\ DOMAIN wire' = 1 .. Len(wire) + 1
              /\ \A k \in 1 .. Len(wire) : wire'[k] = wire[k]
            BY <3>1, <3>2, SendStep
        <3>4. wire' # <<>> /\ (wire # <<>> => wire'[1] = wire[1])
            BY <3>3
        <3>5. QED
            BY <2>1, <3>1, <3>4
    <2>6. QED
        BY <1>3, <2>2, <2>3, <2>4, <2>5 DEF Generated
<1>4. CASE Gone
    BY <1>4 DEF Gone, Idle, Blank, Apart
<1>5. CASE Opens
    <2>1. client.cursor \in Nat
        BY DEF Typed, ClientTyped, Clients
    <2>2. stream'.at = "ready" /\ stream'.cursor = client'.cursor /\ stream'.batch = <<>>
        BY <1>5, <2>1, OpenedTyped DEF Opens
    <2>3. QED
        BY <1>5, <2>2 DEF Opens
<1>6. CASE Quiet
    BY <1>6 DEF Quiet, SameConnection, Apart
<1>7. CASE Receive
    <2>1. /\ wire # <<>> /\ client.source = "open" /\ client'.source = "open"
          /\ stream' = stream
          /\ TakesReady \/ IgnoresEvent \/ TakesCounts \/ TakesDelivery
        BY <1>7, ReceiveStep DEF Receive
    <2>2. client'.at = "live" /\ stream.at # "ready"
        BY <2>1 DEF TakesReady, IgnoresEvent, TakesCounts, TakesDelivery
    <2>3. QED
        BY <2>1, <2>2
<1>8. CASE UNCHANGED vars
    BY <1>8 DEF vars, serverVars, dbVars
<1>9. QED
    BY <1>1, <1>2, <1>3, <1>4, <1>5, <1>6, <1>7, <1>8, StepCases

-----------------------------------------------------------------------------
(* The order of ids *)

(* Ids and cursors are numbers. *)
LEMMA Numbers ==
    ASSUME Typed
    PROVE  /\ issued \in Nat /\ stream.cursor \in Int /\ client.cursor \in Nat
           /\ DOMAIN wire = 1 .. Len(wire) /\ Len(wire) \in Nat
           /\ DOMAIN stream.batch = 1 .. Len(stream.batch) /\ Len(stream.batch) \in Nat
           /\ \A k \in DOMAIN wire : wire[k].id \in Nat
           /\ \A k \in DOMAIN stream.batch : stream.batch[k].id \in Nat
<1>1. /\ wire \in Seq(Events) /\ stream.batch \in Seq(Items)
      /\ stream.cursor \in Int /\ client.cursor \in Nat /\ issued \in Nat
    BY DEF Typed, TableTyped, StreamTyped, ClientTyped, StreamStates, Clients
<1>2. /\ \A k \in DOMAIN wire : wire[k] \in Events
      /\ \A k \in DOMAIN stream.batch : stream.batch[k] \in Items
    BY <1>1, LenProperties, ElementOfSeq
<1>3. QED
    BY <1>1, <1>2, LenProperties DEF Events, Items

LEMMA NextBounded ==
    Typed /\ Connected /\ Bounded /\ [Next]_vars => Bounded'
<1> SUFFICES ASSUME Typed, Connected, Bounded, [Next]_vars
             PROVE  Bounded'
    OBVIOUS
<1> DEFINE StreamBounded == /\ stream.cursor <= issued
                            /\ \A k \in DOMAIN stream.batch : stream.batch[k].id <= issued
           WireBounded == \A k \in DOMAIN wire : wire[k].id <= issued
           Known == DOMAIN client.page \cup DOMAIN client.inbox \cup client.pending
           ClientBounded == client.cursor <= issued /\ \A i \in Known : i <= issued
<1>1. /\ issued \in Nat /\ stream.cursor \in Int /\ client.cursor \in Nat
      /\ DOMAIN wire = 1 .. Len(wire) /\ Len(wire) \in Nat
      /\ \A k \in DOMAIN wire : wire[k].id \in Nat
      /\ \A k \in DOMAIN stream.batch : stream.batch[k].id \in Nat
    BY Numbers
<1>2. Known \subseteq Nat
    <2>1. client.page \in Pages /\ client.inbox \in Pages /\ client.pending \subseteq Nat
        BY DEF Typed, ClientTyped, Clients
    <2>2. QED
        BY <2>1, PagesAreFunctions
<1>3. StreamBounded /\ WireBounded /\ ClientBounded
    BY DEF Bounded
<1>4. StreamBounded' /\ WireBounded' /\ ClientBounded' => Bounded'
    BY DEF Bounded
<1>5. ASSUME NEW e \in Events, Proper(e), e.id <= issued, Send(e), issued' = issued
      PROVE  WireBounded'
    <2>1. /\ DOMAIN wire' = 1 .. Len(wire) + 1
          /\ \A k \in DOMAIN wire : wire'[k] = wire[k]
          /\ wire'[Len(wire) + 1] = e
        BY <1>5, SendStep
    <2>2. \A k \in DOMAIN wire' : k \in DOMAIN wire \/ k = Len(wire) + 1
        BY <1>1, <2>1
    <2>3. QED
        BY <1>3, <1>5, <2>1, <2>2
<1>6. Idle.cursor <= issued /\ Idle.batch = <<>>
    BY <1>1 DEF Idle, Blank
<1>7. ASSUME ShowsNoMore, client'.cursor <= issued, issued' = issued
      PROVE  ClientBounded'
    BY <1>3, <1>7, NothingIsAPage DEF ShowsNoMore
<1>8. ASSUME UNCHANGED <<issued, client>>
      PROVE  ClientBounded'
    BY <1>3, <1>8
<1>9. ASSUME UNCHANGED <<issued, stream, wire>>
      PROVE  StreamBounded' /\ WireBounded'
    BY <1>3, <1>9
<1> HIDE DEF StreamBounded, WireBounded, ClientBounded
<1>10. CASE Aside \/ Marked
    <2>1. /\ issued' \in Nat /\ issued <= issued'
          /\ UNCHANGED <<stream, wire>>
        BY <1>10 DEF Aside, Marked, TableStep, TableTyped
    <2>2. StreamBounded' /\ WireBounded'
        BY <1>1, <1>3, <2>1 DEF StreamBounded, WireBounded
    <2>3. /\ client'.cursor = client.cursor
          /\ client' = client \/ ShowsNoMore
        BY <1>10 DEF Aside, Marked, SameConnection
    <2>4. Known' \subseteq Known
        BY <2>3, NothingIsAPage DEF ShowsNoMore
    <2>5. ClientBounded'
        BY <1>1, <1>2, <1>3, <2>1, <2>3, <2>4 DEF ClientBounded
    <2>6. QED
        BY <1>4, <2>2, <2>5
<1>11. CASE Revoke /\ client' = client
    BY <1>4, <1>8, <1>9, <1>11 DEF Revoke, dbVars
<1>12. CASE Generated
    <2>1. issued' = issued /\ ClientBounded'
        BY <1>8, <1>12, ReadyStep, TurnStep, ListStep, EmitStep DEF Generated, Turn
    <2>2. \A e \in Events : e.id = 0 => e.id <= issued
        BY <1>1
    <2>3. wire' = wire => WireBounded'
        BY <1>3, <2>1 DEF WireBounded
    <2>4. CASE Ready
        <3>1. WireBounded'
            BY <1>5, <2>1, <2>2, <2>3, <2>4, ReadyStep DEF Proper
        <3>2. StreamBounded'
            BY <1>1, <1>3, <1>6, <2>1, <2>4, ReadyStep DEF StreamBounded
        <3>3. QED
            BY <1>4, <2>1, <3>1, <3>2
    <2>5. CASE Turn
        <3>1. WireBounded'
            BY <1>5, <2>1, <2>2, <2>3, <2>5, TurnStep DEF Turn, Proper
        <3>2. StreamBounded'
            BY <1>3, <1>6, <2>1, <2>5, TurnStep DEF Turn, StreamBounded
        <3>3. QED
            BY <1>4, <2>1, <3>1, <3>2
    <2>6. CASE List
        <3>1. \A i \in Mine : i <= issued
            BY <1>1 DEF Typed, TableTyped, Mine, InboxOf
        <3>2. StreamBounded'
            BY <1>3, <2>1, <2>6, <3>1, ListStep DEF StreamBounded
        <3>3. QED
            BY <1>4, <2>1, <2>3, <2>6, <3>2, ListStep
    <2>7. CASE Emit
        <3> DEFINE d == stream.batch[1]
                   e == Event("inbox", d.id, d.note, NoState)
        <3>1. /\ stream'.cursor = d.id /\ e \in Events /\ Send(e) /\ d \in Items
              /\ DOMAIN stream.batch = 1 .. Len(stream.batch)
              /\ DOMAIN stream'.batch = 1 .. Len(stream.batch) - 1
              /\ Len(stream.batch) \in Nat \ {0}
              /\ \A k \in 1 .. Len(stream.batch) - 1 :
                    stream'.batch[k] = stream.batch[k + 1]
            BY <2>7, EmitStep
        <3>2. d.id <= issued /\ e.id = d.id /\ Proper(e)
            BY <1>3, <3>1 DEF StreamBounded, Event, Items, Proper
        <3>3. \A k \in DOMAIN stream'.batch : stream'.batch[k].id <= issued
            <4>1. \A k \in DOMAIN stream'.batch : k + 1 \in DOMAIN stream.batch
                BY <3>1
            <4>2. QED
                BY <1>3, <3>1, <4>1 DEF StreamBounded
        <3> HIDE DEF e, d
        <3>4. WireBounded' /\ StreamBounded'
            BY <1>5, <2>1, <3>1, <3>2, <3>3 DEF StreamBounded
        <3>5. QED
            BY <1>4, <2>1, <3>4
    <2>8. QED
        BY <1>12, <2>4, <2>5, <2>6, <2>7 DEF Generated
<1>13. CASE Gone
    <2>1. /\ issued' = issued /\ wire' = <<>> /\ stream' = Idle
          /\ ShowsNoMore /\ client'.cursor <= issued
        BY <1>1, <1>3, <1>13 DEF Gone, ClientBounded
    <2>2. StreamBounded' /\ WireBounded'
        BY <1>6, <2>1 DEF StreamBounded, WireBounded
    <2>3. QED
        BY <1>4, <1>7, <2>1, <2>2
<1>14. CASE Opens
    <2>1. /\ issued' = issued /\ wire' = wire /\ client'.cursor = client.cursor
          /\ stream'.cursor = client.cursor /\ stream'.batch = <<>> /\ ShowsNoMore
        BY <1>1, <1>14, OpenedTyped DEF Opens
    <2>2. client.cursor <= issued
        BY <1>3 DEF ClientBounded
    <2>3. StreamBounded' /\ WireBounded'
        BY <1>3, <2>1, <2>2 DEF StreamBounded, WireBounded
    <2>4. QED
        BY <1>4, <1>7, <2>1, <2>2, <2>3
<1>15. CASE Quiet
    <2>1. UNCHANGED <<issued, stream, wire>>
        BY <1>15 DEF Quiet
    <2>2. client'.cursor <= issued
        <3>1. client.cursor <= issued /\ \A c \in 0 .. issued : c <= issued
            BY <1>1, <1>3 DEF ClientBounded
        <3>2. QED
            BY <1>15, <3>1 DEF Quiet, SameConnection
    <2>3. CASE ShowsNoMore
        BY <1>4, <1>7, <1>9, <2>1, <2>2, <2>3
    <2>4. CASE ReadsPage
        <3>1. DOMAIN client'.page \subseteq Mine
            BY <2>4 DEF ReadsPage, IsPage
        <3>2. \A i \in Mine : i <= issued
            BY <1>1 DEF Typed, TableTyped, Mine, InboxOf
        <3>3. ClientBounded'
            BY <1>3, <2>1, <2>2, <2>4, <3>1, <3>2 DEF ReadsPage, ClientBounded
        <3>4. QED
            BY <1>4, <1>9, <2>1, <3>3
    <2>5. CASE AppliesPage
        <3>1. Known' \subseteq Known
            BY <2>5, MergedIsAPage DEF AppliesPage, Typed, ClientTyped
        <3>2. ClientBounded'
            BY <1>3, <2>1, <2>2, <3>1 DEF ClientBounded
        <3>3. QED
            BY <1>4, <1>9, <2>1, <3>2
    <2>6. QED
        BY <1>15, <2>3, <2>4, <2>5 DEF Quiet
<1>16. CASE Receive
    <2>1. /\ DOMAIN wire' = 1 .. Len(wire) - 1 /\ Len(wire) \in Nat \ {0}
          /\ \A k \in DOMAIN wire' : wire'[k] = wire[k + 1]
          /\ UNCHANGED <<issued, stream>>
          /\ TakesReady \/ IgnoresEvent \/ TakesCounts \/ TakesDelivery
        BY <1>16, ReceiveStep
    <2>2. 1 \in DOMAIN wire /\ \A k \in DOMAIN wire' : k + 1 \in DOMAIN wire
        BY <1>1, <2>1
    <2>3. StreamBounded' /\ WireBounded'
        BY <1>3, <2>1, <2>2 DEF StreamBounded, WireBounded
    <2>4. wire[1].id <= issued
        BY <1>3, <2>2 DEF WireBounded
    <2>5. client'.cursor \in {client.cursor, wire[1].id}
        BY <2>1 DEF TakesReady, IgnoresEvent, TakesCounts, TakesDelivery
    <2>6. Known' \subseteq Known \cup {wire[1].id}
        BY <2>1, NothingIsAPage
           DEF TakesReady, IgnoresEvent, TakesCounts, TakesDelivery, Showing
    <2>7. ClientBounded'
        BY <1>3, <2>1, <2>4, <2>5, <2>6 DEF ClientBounded
    <2>8. QED
        BY <1>4, <2>3, <2>7
<1>17. CASE UNCHANGED vars
    BY <1>4, <1>8, <1>9, <1>17 DEF vars, serverVars, dbVars
<1>18. QED
    BY <1>10, <1>11, <1>12, <1>13, <1>14, <1>15, <1>16, <1>17, StepCases

(* An event without an id changes nothing in the order of the ids. *)
LEMMA CountsKeepTheOrder ==
    ASSUME Typed, NothingIsReplayed, NEW e \in Events, e.kind # "inbox", Send(e),
           client' = client
    PROVE  /\ NothingIsReplayed'
           /\ \A k \in DOMAIN wire' : wire'[k].kind = "inbox" =>
                 k \in DOMAIN wire /\ wire'[k] = wire[k]
<1>1. /\ DOMAIN wire' = 1 .. Len(wire) + 1 /\ DOMAIN wire = 1 .. Len(wire)
      /\ Len(wire) \in Nat
      /\ \A k \in DOMAIN wire : wire'[k] = wire[k]
      /\ wire'[Len(wire) + 1] = e
    BY SendStep DEF Proper
<1>2. \A k \in DOMAIN wire' : k \in DOMAIN wire \/ k = Len(wire) + 1
    BY <1>1
<1>3. \A k \in DOMAIN wire' : wire'[k].kind = "inbox" =>
          k \in DOMAIN wire /\ wire'[k] = wire[k]
    BY <1>1, <1>2
<1>4. \A k \in DOMAIN wire : \A j \in 1 .. k - 1 : j \in DOMAIN wire
    BY <1>1
<1>5. QED
    BY <1>1, <1>3, <1>4 DEF NothingIsReplayed

LEMMA NextAscending == Typed /\ Connected /\ Ascending /\ [Next]_vars => Ascending'
<1> SUFFICES ASSUME Typed, Connected, Ascending, [Next]_vars
             PROVE  Ascending'
    OBVIOUS
<1>1. /\ issued \in Nat /\ stream.cursor \in Int /\ client.cursor \in Nat
      /\ DOMAIN wire = 1 .. Len(wire) /\ Len(wire) \in Nat
      /\ DOMAIN stream.batch = 1 .. Len(stream.batch) /\ Len(stream.batch) \in Nat
      /\ \A k \in DOMAIN wire : wire[k].id \in Nat
      /\ \A k \in DOMAIN stream.batch : stream.batch[k].id \in Nat
    BY Numbers
<1>2. ASSUME NEW e \in Events, e.kind # "inbox", Send(e), client' = client
      PROVE  /\ NothingIsReplayed'
             /\ \A k \in DOMAIN wire' : wire'[k].kind = "inbox" =>
                   k \in DOMAIN wire /\ wire'[k] = wire[k]
    BY <1>2, CountsKeepTheOrder DEF Ascending
<1>3. Idle.at = "none" /\ Idle.batch = <<>>
    BY DEF Idle, Blank
<1>4. ASSUME UNCHANGED <<stream, wire>>, client'.cursor = client.cursor
      PROVE  Ascending'
    BY <1>4 DEF Ascending, NothingIsReplayed
<1>5. ASSUME wire' = <<>>, stream'.batch = <<>>, client'.cursor \in Int,
             stream'.at # "none" => stream'.cursor = client'.cursor
      PROVE  Ascending'
    BY <1>5 DEF Ascending, NothingIsReplayed
<1>6. CASE Aside \/ Marked
    BY <1>4, <1>6 DEF Aside, Marked, TableStep, SameConnection
<1>7. CASE Revoke /\ client' = client
    BY <1>4, <1>7 DEF Revoke
<1>8. CASE Ready /\ client' = client
    <2>1. /\ stream.at = "ready" /\ wire = <<>> /\ stream.batch = <<>>
          /\ stream.cursor = client.cursor /\ client' = client
        BY <1>8, ReadyStep DEF Connected
    <2>2. CASE stream' = Idle /\ UNCHANGED <<wire, late>>
        BY <1>1, <1>3, <1>5, <2>1, <2>2
    <2>3. CASE \E e \in Events : e.kind = "ready" /\ Send(e)
        <3>1. NothingIsReplayed' /\ \A k \in DOMAIN wire' : wire'[k].kind # "inbox"
            BY <1>2, <2>1, <2>3
        <3>2. stream' = Idle \/ (client.cursor <= stream'.cursor /\ stream'.batch = <<>>)
            BY <1>1, <1>8, <2>1, ReadyStep DEF NoCursor
        <3>3. QED
            BY <1>3, <2>1, <3>1, <3>2 DEF Ascending
    <2>4. QED
        BY <1>8, <2>2, <2>3, ReadyStep
<1>9. CASE Turn /\ client' = client
    <2>1. /\ client' = client
          /\ \/ stream' = Idle
             \/ /\ stream'.cursor = stream.cursor /\ stream'.batch = stream.batch
                /\ stream.at # "none"
          /\ \/ wire' = wire
             \/ \E e \in Events : e.kind # "inbox" /\ Send(e)
        BY <1>9, TurnStep DEF Turn
    <2>2. /\ NothingIsReplayed'
          /\ \A k \in DOMAIN wire' : wire'[k].kind = "inbox" =>
                k \in DOMAIN wire /\ wire'[k] = wire[k]
        BY <1>2, <2>1 DEF Ascending, NothingIsReplayed
    <2>3. QED
        BY <1>3, <2>1, <2>2 DEF Ascending
<1>10. CASE List /\ client' = client
    BY <1>10, ListStep DEF Ascending, NothingIsReplayed
<1>11. CASE Emit /\ client' = client
    <2> DEFINE d == stream.batch[1]
               e == Event("inbox", d.id, d.note, NoState)
               n == Len(stream.batch)
    <2>1. /\ stream.at = "emit" /\ stream'.cursor = d.id /\ e \in Events /\ Send(e)
          /\ n \in Nat \ {0} /\ DOMAIN stream'.batch = 1 .. n - 1
          /\ \A k \in 1 .. n - 1 : stream'.batch[k] = stream.batch[k + 1]
          /\ e.kind = "inbox" /\ e.id = d.id /\ Proper(e)
          /\ client' = client
        BY <1>11, EmitStep DEF Event, Items, Proper
    <2>2. /\ d.id \in Nat /\ d.id > stream.cursor
          /\ \A k \in 1 .. n : 1 < k => d.id < stream.batch[k].id
        <3>1. 1 \in DOMAIN stream.batch
            BY <1>1, <2>1
        <3>2. \A k \in 1 .. n : 1 < k => 1 \in 1 .. k - 1
            BY <2>1
        <3>3. QED
            BY <1>1, <3>1, <3>2 DEF Ascending
    <2>3. \A k \in DOMAIN stream'.batch :
             /\ stream'.batch[k].id > d.id
             /\ \A j \in 1 .. k - 1 : stream'.batch[j].id < stream'.batch[k].id
        <3> TAKE k \in DOMAIN stream'.batch
        <3>1. /\ k \in 1 .. n - 1 /\ k + 1 \in 1 .. n /\ 1 < k + 1
              /\ \A j \in 1 .. k - 1 : j \in 1 .. n - 1 /\ j + 1 \in 1 .. (k + 1) - 1
            BY <2>1
        <3>2. stream'.batch[k].id > d.id
            BY <1>1, <2>1, <2>2, <3>1
        <3>3. \A j \in 1 .. k - 1 : stream'.batch[j].id < stream'.batch[k].id
            BY <1>1, <2>1, <3>1 DEF Ascending
        <3>4. QED
            BY <3>2, <3>3
    <2>4. /\ client.cursor <= stream.cursor
          /\ \A k \in DOMAIN wire : wire[k].kind = "inbox" => wire[k].id <= stream.cursor
        BY <2>1 DEF Ascending
    <2> HIDE DEF d, e
    <2>5. /\ DOMAIN wire' = 1 .. Len(wire) + 1
          /\ \A k \in DOMAIN wire : wire'[k] = wire[k]
          /\ wire'[Len(wire) + 1] = e
        BY <2>1, SendStep
    <2>6. \A k \in DOMAIN wire' : \/ k \in DOMAIN wire
                                  \/ k = Len(wire) + 1
        BY <1>1, <2>5
    <2>7. \A k \in DOMAIN wire : wire[k].kind = "inbox" =>
             wire[k].id < d.id
        BY <1>1, <2>2, <2>4
    <2>8. \A k \in DOMAIN wire' : wire'[k].kind = "inbox" => wire'[k].id <= d.id
        BY <1>1, <2>1, <2>2, <2>5, <2>6, <2>7
    <2>9. \A k \in DOMAIN wire' : wire'[k].kind = "inbox" =>
             /\ wire'[k].id > client.cursor
             /\ \A j \in 1 .. k - 1 : wire'[j].kind = "inbox" => wire'[j].id < wire'[k].id
        <3> SUFFICES ASSUME NEW k \in DOMAIN wire', wire'[k].kind = "inbox"
                     PROVE  /\ wire'[k].id > client.cursor
                            /\ \A j \in 1 .. k - 1 :
                                  wire'[j].kind = "inbox" => wire'[j].id < wire'[k].id
            OBVIOUS
        <3>1. CASE k \in DOMAIN wire
            <4>1. \A j \in 1 .. k - 1 : j \in DOMAIN wire
                BY <1>1, <3>1
            <4>2. QED
                BY <2>5, <3>1, <4>1 DEF Ascending, NothingIsReplayed
        <3>2. CASE k = Len(wire) + 1
            <4>1. \A j \in 1 .. k - 1 : j \in DOMAIN wire
                BY <1>1, <3>2
            <4>2. d.id > client.cursor
                BY <1>1, <2>2, <2>4
            <4>3. QED
                BY <2>1, <2>5, <2>7, <3>2, <4>1, <4>2
        <3>3. QED
            BY <2>6, <3>1, <3>2
    <2>10. client'.cursor <= stream'.cursor
        BY <1>1, <2>1, <2>2, <2>4
    <2>11. QED
        BY <2>1, <2>3, <2>8, <2>9, <2>10 DEF Ascending, NothingIsReplayed
<1>12. CASE Gone \/ Opens \/ Quiet
    <2>1. client.cursor \in Int /\ client'.cursor \in Int
        BY <1>12 DEF Gone, Opens, Quiet, ClientTypedNext, Clients, Typed, ClientTyped
    <2>2. CASE Gone
        BY <1>3, <1>5, <2>1, <2>2 DEF Gone
    <2>3. CASE Opens
        <3>1. /\ wire' = <<>> /\ client'.cursor = client.cursor
              /\ stream'.cursor = client.cursor /\ stream'.batch = <<>>
            BY <1>1, <2>3, OpenedTyped DEF Opens, Connected
        <3>2. QED
            BY <1>5, <2>1, <3>1
    <2>4. CASE Quiet /\ SameConnection
        BY <1>4, <2>4 DEF Quiet, SameConnection
    <2>5. CASE Quiet /\ ~SameConnection
        <3>1. stream.at = "none" /\ wire = <<>> /\ stream.batch = <<>>
            BY <2>5 DEF Quiet, Connected
        <3>2. stream' = stream /\ wire' = wire
            BY <2>5 DEF Quiet
        <3>3. QED
            BY <1>5, <2>1, <3>1, <3>2
    <2>6. QED
        BY <1>12, <2>2, <2>3, <2>4, <2>5
<1>13. CASE Receive
    <2>1. /\ DOMAIN wire' = 1 .. Len(wire) - 1 /\ Len(wire) \in Nat \ {0}
          /\ \A k \in DOMAIN wire' : wire'[k] = wire[k + 1]
          /\ \/ client'.cursor = wire[1].id /\ wire[1].kind = "inbox"
             \/ client'.cursor = client.cursor /\ wire[1].kind # "inbox"
          /\ UNCHANGED stream
        <3>1. /\ DOMAIN wire' = 1 .. Len(wire) - 1 /\ Len(wire) \in Nat \ {0}
              /\ \A k \in DOMAIN wire' : wire'[k] = wire[k + 1]
              /\ TakesReady \/ IgnoresEvent \/ TakesCounts \/ TakesDelivery
              /\ UNCHANGED stream
            BY <1>13, ReceiveStep
        <3>2. wire[1].kind = "inbox" => wire[1].id > client.cursor
            BY <1>1, <3>1 DEF Ascending, NothingIsReplayed
        <3>3. ~IgnoresEvent
            BY <1>13 DEF Receive, IgnoresEvent, Connected
        <3>4. \/ client'.cursor = wire[1].id /\ wire[1].kind = "inbox"
              \/ client'.cursor = client.cursor /\ wire[1].kind # "inbox"
            BY <3>1, <3>2, <3>3 DEF TakesReady, TakesCounts, TakesDelivery
        <3>5. QED
            BY <3>1, <3>4
    <2>2. /\ 1 \in DOMAIN wire
          /\ \A k \in DOMAIN wire' : k + 1 \in DOMAIN wire /\ 1 \in 1 .. (k + 1) - 1
          /\ \A k \in DOMAIN wire' : \A j \in 1 .. k - 1 :
                j \in DOMAIN wire' /\ j + 1 \in 1 .. (k + 1) - 1
        BY <1>1, <2>1
    <2>3. \A k \in DOMAIN wire : wire[k].kind = "inbox" =>
             wire[k].id > client.cursor
        BY DEF Ascending, NothingIsReplayed
    <2>4. \A k \in DOMAIN wire' : wire'[k].kind = "inbox" =>
             wire'[k].id > client'.cursor
        <3>1. CASE wire[1].kind = "inbox"
            BY <2>1, <2>2, <3>1 DEF Ascending, NothingIsReplayed
        <3>2. CASE wire[1].kind # "inbox"
            BY <2>1, <2>2, <2>3, <3>2
        <3>3. QED
            BY <3>1, <3>2
    <2>5. \A k \in DOMAIN wire' : wire'[k].kind = "inbox" =>
             \A j \in 1 .. k - 1 : wire'[j].kind = "inbox" => wire'[j].id < wire'[k].id
        BY <2>1, <2>2 DEF Ascending, NothingIsReplayed
    <2>6. stream'.at # "none" =>
             /\ client'.cursor <= stream'.cursor
             /\ \A k \in DOMAIN wire' :
                   wire'[k].kind = "inbox" => wire'[k].id <= stream'.cursor
        BY <2>1, <2>2 DEF Ascending
    <2>7. QED
        BY <2>1, <2>4, <2>5, <2>6 DEF Ascending, NothingIsReplayed
<1>14. CASE UNCHANGED vars
    BY <1>4, <1>14 DEF vars, serverVars
<1>15. QED
    BY <1>6, <1>7, <1>8, <1>9, <1>10, <1>11, <1>12, <1>13, <1>14, StepCases DEF Generated

LEMMA Budget ==
    ASSUME NEW a \in Nat, NEW b \in Nat, NEW m, NEW n \in Nat, NEW limit \in Nat,
           a + n <= limit, b <= a + 1, m = n - 1
    PROVE  b + m <= limit
OBVIOUS

LEMMA NextQuota == Typed /\ Connected /\ Quota /\ [Next]_vars => Quota'
<1> SUFFICES ASSUME Typed, Connected, Quota, [Next]_vars
             PROVE  Quota'
    OBVIOUS
<1>1. /\ late \in Nat /\ Len(stream.batch) \in Nat /\ BatchLimit \in Nat
      /\ late + Len(stream.batch) <= BatchLimit
      /\ session \in {"active", "revoked"}
    BY LimitAssumption, LenProperties DEF Typed, StreamTyped, StreamStates, Quota
<1>2. Idle.at = "none" /\ Idle.batch = <<>> /\ Len(<<>>) = 0
    BY DEF Idle, Blank
<1>3. \A e \in Events : Send(e) /\ e.kind # "inbox" => late' = late
    BY DEF Send
<1>4. CASE Aside \/ Marked
    BY <1>4 DEF Aside, Marked, TableStep, Quota
<1>5. CASE Revoke /\ client' = client
    BY <1>5 DEF Revoke, Quota
<1>6. CASE Ready
    <2>1. late' = late /\ session' = session
        BY <1>3, <1>6, ReadyStep
    <2>2. stream' = Idle \/ (stream'.at = "check" /\ stream'.batch = stream.batch)
        BY <1>6, ReadyStep
    <2>3. QED
        BY <1>1, <1>2, <2>1, <2>2 DEF Quota
<1>7. CASE Turn
    <2>1. late' = late /\ session' = session
        BY <1>3, <1>7, TurnStep DEF Turn
    <2>2. \/ stream' = Idle
          \/ /\ stream'.batch = stream.batch
             /\ stream'.at = "list" => session = "active"
        BY <1>7, TurnStep DEF Turn
    <2>3. QED
        BY <1>1, <1>2, <2>1, <2>2 DEF Quota
<1>8. CASE List
    <2>1. /\ stream.at = "list" /\ stream'.at # "list"
          /\ Len(stream'.batch) <= BatchLimit /\ Len(stream'.batch) \in Nat
          /\ late' = late /\ session' = session
        BY <1>8, ListStep, LenProperties DEF StreamStates
    <2>2. QED
        BY <2>1 DEF Quota
<1>9. CASE Emit
    <2> DEFINE e == Event("inbox", stream.batch[1].id, stream.batch[1].note, NoState)
    <2>1. /\ stream'.at = "emit" /\ session' = session
          /\ Len(stream'.batch) = Len(stream.batch) - 1
          /\ Send(e)
        BY <1>9, EmitStep
    <2>2. late' = IF session = "revoked" THEN late + 1 ELSE late
        BY <2>1 DEF Send, Event
    <2>3. late' + Len(stream'.batch) <= BatchLimit
        <3>1. late' \in Nat /\ late' <= late + 1
            BY <1>1, <2>2
        <3>2. Len(stream'.batch) = Len(stream.batch) - 1
            BY <2>1
        <3>3. QED
            BY <1>1, <3>1, <3>2, Budget
    <2>4. QED
        BY <1>1, <2>1, <2>2, <2>3 DEF Quota
<1>10. CASE Gone \/ Opens \/ Quiet
    <2>1. /\ late' = late /\ session' = session
          /\ stream' = stream \/ (stream'.batch = <<>> /\ stream'.at # "list")
        BY <1>2, <1>10, OpenedTyped, Numbers DEF Gone, Opens, Quiet
    <2>2. QED
        BY <1>1, <1>2, <2>1 DEF Quota
<1>11. CASE Receive
    BY <1>11, ReceiveStep DEF Quota
<1>12. CASE UNCHANGED vars
    BY <1>12 DEF vars, serverVars, dbVars, Quota
<1>13. QED
    BY <1>4, <1>5, <1>6, <1>7, <1>8, <1>9, <1>10, <1>11, <1>12, StepCases
       DEF Generated

-----------------------------------------------------------------------------
(* What is on the way, and what is displayed *)

(* A new row of the user has an id above those given out before. *)
LEMMA NewOnesStay ==
    ASSUME Typed, TableStep \/ UNCHANGED <<rows, reused>>,
           NEW i \in NewOnes', i <= issued
    PROVE  i \in NewOnes /\ rows'[i].note = rows[i].note
<1>1. CASE TableStep
    <2>1. i \in Int /\ issued \in Int
        BY <1>1 DEF TableStep, TableTyped, NewOnes, Mine, InboxOf, Typed
    <2>2. i \in Mine' /\ rows'[i].note \notin reused' /\ reused \subseteq reused'
        BY <1>1 DEF NewOnes, TableStep
    <2>3. i \in Mine /\ rows'[i].note = rows[i].note
        BY <1>1, <2>1, <2>2 DEF TableStep
    <2>4. QED
        BY <2>2, <2>3 DEF NewOnes
<1>2. CASE UNCHANGED <<rows, reused>>
    BY <1>2 DEF NewOnes, Mine
<1>3. QED
    BY <1>1, <1>2

LEMMA IdsAreNumbers ==
    ASSUME Typed
    PROVE  /\ \A i \in NewOnes : i \in Nat \ {0} /\ i <= issued /\ i \in Mine
           /\ Mine \subseteq 1 .. issued
BY DEF Typed, TableTyped, NewOnes, Mine, InboxOf

(* While wire and stream stay as they are, what is on the way stays on it. *)
LEMMA NothingSkippedByTheTable ==
    ASSUME Typed, Typed', Bounded, NothingIsSkipped,
           TableStep \/ UNCHANGED <<rows, reused>>,
           UNCHANGED <<stream, wire>>, client'.cursor = client.cursor
    PROVE  NothingIsSkipped'
<1>1. /\ issued \in Nat /\ stream.cursor \in Int
      /\ \A k \in DOMAIN wire : wire[k].id \in Nat
      /\ \A k \in DOMAIN stream.batch : stream.batch[k].id \in Nat
    BY Numbers
<1>2. \A i \in NewOnes' : i \in Nat
    BY DEF Typed, TableTyped, NewOnes, Mine, InboxOf
<1>3. \A x \in Int : x <= issued => \A i \in NewOnes' : i <= x =>
          i \in NewOnes /\ rows'[i].note = rows[i].note
    <2> TAKE x \in Int
    <2> HAVE x <= issued
    <2> TAKE i \in NewOnes'
    <2> HAVE i <= x
    <2>1. i <= issued
        BY <1>1, <1>2
    <2>2. QED
        BY <2>1, NewOnesStay
<1>4. \A k \in DOMAIN wire : wire[k].kind = "inbox" =>
          \A i \in NewOnes' : client.cursor < i /\ i <= wire[k].id =>
              i \in NewOnes /\ rows'[i].note = rows[i].note /\ OnWire(i, k)
    BY <1>1, <1>3 DEF Bounded, NothingIsSkipped
<1>5. stream.at \notin {"none", "ready"} =>
          \A i \in NewOnes' : client.cursor < i /\ i <= stream.cursor =>
              i \in NewOnes /\ rows'[i].note = rows[i].note /\ OnWire(i, Len(wire))
    BY <1>1, <1>3 DEF Bounded, NothingIsSkipped
<1>6. \A k \in DOMAIN stream.batch :
          \A i \in NewOnes' : stream.cursor < i /\ i <= stream.batch[k].id =>
              i \in NewOnes /\ rows'[i].note = rows[i].note /\ InBatch(i, k)
    BY <1>1, <1>3 DEF Bounded, NothingIsSkipped
<1>7. /\ \A i, k : OnWire(i, k) /\ rows'[i].note = rows[i].note => OnWire(i, k)'
      /\ \A i, k : InBatch(i, k) /\ rows'[i].note = rows[i].note => InBatch(i, k)'
    BY DEF OnWire, InBatch
<1>8. \A k \in DOMAIN wire : wire[k].kind = "inbox" =>
          \A i \in NewOnes' : client.cursor < i /\ i <= wire[k].id => OnWire(i, k)'
    BY <1>4, <1>7
<1>9. stream.at \notin {"none", "ready"} =>
          \A i \in NewOnes' : client.cursor < i /\ i <= stream.cursor => OnWire(i, Len(wire))'
    BY <1>5, <1>7
<1>10. \A k \in DOMAIN stream.batch :
          \A i \in NewOnes' : stream.cursor < i /\ i <= stream.batch[k].id => InBatch(i, k)'
    BY <1>6, <1>7
<1>11. QED
    BY <1>8, <1>9, <1>10 DEF NothingIsSkipped

(* Nothing can be skipped where nothing is open. *)
LEMMA NothingSkippedByNobody ==
    ASSUME wire' = <<>>, stream'.at \in {"none", "ready"}, stream'.batch = <<>>
    PROVE  NothingIsSkipped'
BY DEF NothingIsSkipped

(* A larger wire holds what the smaller did. *)
LEMMA OnLongerWire ==
    ASSUME Typed, NEW e \in Events, Proper(e), Send(e), UNCHANGED rows
    PROVE  \A i : /\ \A k \in DOMAIN wire : OnWire(i, k) => OnWire(i, k)'
                  /\ OnWire(i, Len(wire)) => OnWire(i, Len(wire))'
<1>1. /\ Len(wire) \in Nat /\ DOMAIN wire = 1 .. Len(wire)
      /\ Len(wire') = Len(wire) + 1
      /\ \A k \in 1 .. Len(wire) : wire'[k] = wire[k]
    BY SendStep
<1>2. \A k \in DOMAIN wire : \A j \in 1 .. k : wire'[j] = wire[j]
    BY <1>1
<1>3. \A j \in 1 .. Len(wire) : j \in 1 .. Len(wire') /\ wire'[j] = wire[j]
    BY <1>1
<1>4. QED
    BY <1>2, <1>3 DEF OnWire

(* An event without a delivery skips nothing. *)
LEMMA NothingSkippedByCounts ==
    ASSUME Typed, NothingIsSkipped, NEW e \in Events, e.kind # "inbox", Send(e),
           UNCHANGED <<rows, reused>>, client' = client,
           stream'.batch = stream.batch, stream'.cursor = stream.cursor,
           stream.at \notin {"none", "ready"} \/ client.cursor = stream.cursor
    PROVE  NothingIsSkipped'
<1>1. /\ Len(wire) \in Nat /\ DOMAIN wire = 1 .. Len(wire)
      /\ DOMAIN wire' = 1 .. Len(wire) + 1
      /\ \A k \in 1 .. Len(wire) : wire'[k] = wire[k]
      /\ wire'[Len(wire) + 1] = e
    BY SendStep DEF Proper
<1>2. NewOnes' = NewOnes /\ \A i \in NewOnes : i \in Nat
    BY IdsAreNumbers DEF NewOnes, Mine
<1>3. \A i : /\ \A k \in DOMAIN wire : OnWire(i, k) => OnWire(i, k)'
             /\ OnWire(i, Len(wire)) => OnWire(i, Len(wire))'
    BY OnLongerWire DEF Proper
<1>4. \A i, k : InBatch(i, k) => InBatch(i, k)'
    BY DEF InBatch
<1>5. \A k \in DOMAIN wire' : wire'[k].kind = "inbox" => k \in DOMAIN wire /\ wire'[k] = wire[k]
    <2>1. \A k \in DOMAIN wire' : k \in DOMAIN wire \/ k = Len(wire) + 1
        BY <1>1
    <2>2. QED
        BY <1>1, <2>1
<1>6. \A k \in DOMAIN wire' : wire'[k].kind = "inbox" =>
          \A i \in NewOnes' : client'.cursor < i /\ i <= wire'[k].id => OnWire(i, k)'
    BY <1>2, <1>3, <1>5 DEF NothingIsSkipped
<1>7. \A i \in NewOnes' : client'.cursor < i /\ i <= stream'.cursor => OnWire(i, Len(wire))'
    <2>1. CASE stream.at \notin {"none", "ready"}
        BY <1>2, <1>3, <2>1 DEF NothingIsSkipped
    <2>2. CASE client.cursor = stream.cursor
        <3>1. client.cursor \in Nat
            BY Numbers
        <3>2. QED
            BY <1>2, <2>2, <3>1
    <2>3. QED
        BY <2>1, <2>2
<1>8. \A k \in DOMAIN stream'.batch :
          \A i \in NewOnes' : stream'.cursor < i /\ i <= stream'.batch[k].id => InBatch(i, k)'
    BY <1>2, <1>4 DEF NothingIsSkipped
<1>9. QED
    BY <1>6, <1>7, <1>8 DEF NothingIsSkipped

(* The batch has every row up to the last of its own. *)
LEMMA NothingSkippedByList ==
    ASSUME Typed, Typed', NothingIsSkipped, List, client' = client
    PROVE  NothingIsSkipped'
<1>1. /\ stream.at = "list" /\ stream'.cursor = stream.cursor
      /\ \A k \in DOMAIN stream'.batch :
            /\ stream'.batch[k].note = rows[stream'.batch[k].id].note
            /\ \A j \in 1 .. k - 1 : stream'.batch[j].id < stream'.batch[k].id
      /\ \A i \in Mine : i > stream.cursor =>
            \/ \E k \in DOMAIN stream'.batch : stream'.batch[k].id = i
            \/ \A k \in DOMAIN stream'.batch : stream'.batch[k].id < i
      /\ UNCHANGED <<rows, reused, wire>>
    BY ListStep
<1>2. /\ NewOnes' = NewOnes /\ \A i \in NewOnes : i \in Nat /\ i \in Mine
      /\ stream.cursor \in Int
    BY <1>1, IdsAreNumbers, Numbers DEF NewOnes, Mine
<1>3. /\ DOMAIN stream'.batch = 1 .. Len(stream'.batch) /\ Len(stream'.batch) \in Nat
      /\ \A k \in DOMAIN stream'.batch : stream'.batch[k].id \in Nat
    <2>1. stream'.batch \in Seq(Items)
        BY DEF Typed, StreamTyped, StreamStates
    <2>2. \A k \in DOMAIN stream'.batch : stream'.batch[k] \in Items
        BY <2>1, LenProperties, ElementOfSeq
    <2>3. QED
        BY <2>1, <2>2, LenProperties DEF Items
<1>4. ASSUME NEW k \in DOMAIN stream'.batch, NEW i \in NewOnes,
             stream.cursor < i, i <= stream'.batch[k].id
      PROVE  InBatch(i, k)'
    <2>1. PICK j \in DOMAIN stream'.batch : stream'.batch[j].id = i
        BY <1>1, <1>2, <1>3, <1>4
    <2>2. j \in 1 .. k
        <3>1. CASE j > k
            <4>1. k \in 1 .. j - 1
                BY <1>3, <3>1
            <4>2. stream'.batch[k].id < i
                BY <1>1, <2>1, <4>1
            <4>3. QED
                BY <1>2, <1>3, <1>4, <4>2
        <3>2. QED
            BY <1>3, <3>1
    <2>3. QED
        BY <1>1, <2>1, <2>2 DEF InBatch
<1>5. \A i, k : OnWire(i, k)' = OnWire(i, k)
    BY <1>1 DEF OnWire
<1>6. QED
    BY <1>1, <1>2, <1>4, <1>5 DEF NothingIsSkipped

(* What leaves the batch for the wire is the next after the cursor. *)
LEMMA NothingSkippedByEmit ==
    ASSUME Typed, Connected, Ascending, NothingIsSkipped, Emit, client' = client
    PROVE  NothingIsSkipped'
<1> DEFINE d == stream.batch[1]
           e == Event("inbox", d.id, d.note, NoState)
           n == Len(stream.batch)
<1>1. /\ stream.at = "emit" /\ stream'.at = "emit" /\ stream'.cursor = d.id
      /\ n \in Nat \ {0} /\ DOMAIN stream.batch = 1 .. n /\ DOMAIN stream'.batch = 1 .. n - 1
      /\ \A k \in 1 .. n - 1 : stream'.batch[k] = stream.batch[k + 1]
      /\ e \in Events /\ Send(e) /\ UNCHANGED <<rows, reused>>
      /\ Proper(e) /\ e.kind = "inbox" /\ e.id = d.id /\ e.note = d.note
      /\ d.id \in Nat
    BY EmitStep DEF Event, Items, Proper
<1>2. 1 \in DOMAIN stream.batch /\ stream.cursor \in Int
    BY <1>1, Numbers
<1>3. \A i \in NewOnes : stream.cursor < i /\ i <= d.id => i = d.id /\ d.note = rows[i].note
    <2>1. \A i : InBatch(i, 1) => i = d.id /\ d.note = rows[i].note
        BY DEF InBatch
    <2>2. QED
        BY <1>2, <2>1 DEF NothingIsSkipped
<1>below. stream.cursor < d.id
    BY <1>2 DEF Ascending
<1>4. /\ Len(wire) \in Nat /\ DOMAIN wire = 1 .. Len(wire) /\ Len(wire') = Len(wire) + 1
      /\ DOMAIN wire' = 1 .. Len(wire) + 1
      /\ \A k \in 1 .. Len(wire) : wire'[k] = wire[k]
      /\ wire'[Len(wire) + 1] = e
    BY <1>1, SendStep
<1>5. NewOnes' = NewOnes /\ \A i \in NewOnes : i \in Nat
    BY <1>1, IdsAreNumbers DEF NewOnes, Mine
<1>6. \A i : /\ \A k \in DOMAIN wire : OnWire(i, k) => OnWire(i, k)'
             /\ OnWire(i, Len(wire)) => OnWire(i, Len(wire))'
    BY <1>1, OnLongerWire
<1> HIDE DEF e
<1>7. \A i : i = d.id /\ d.note = rows[i].note => OnWire(i, Len(wire))'
    <2>1. Len(wire) + 1 \in 1 .. Len(wire')
        BY <1>4
    <2>2. QED
        BY <1>1, <1>4, <2>1 DEF OnWire
<1> HIDE DEF d
<1>8. \A i \in NewOnes : client.cursor < i /\ i <= d.id => OnWire(i, Len(wire))'
    <2> TAKE i \in NewOnes
    <2> HAVE client.cursor < i /\ i <= d.id
    <2>1. CASE i <= stream.cursor
        BY <1>1, <1>6, <2>1 DEF NothingIsSkipped
    <2>2. CASE stream.cursor < i
        BY <1>3, <1>7, <2>2
    <2>3. QED
        BY <1>2, <1>5, <2>1, <2>2
<1>9. \A k \in DOMAIN wire' : wire'[k].kind = "inbox" =>
          \A i \in NewOnes' : client'.cursor < i /\ i <= wire'[k].id => OnWire(i, k)'
    <2> SUFFICES ASSUME NEW k \in DOMAIN wire', wire'[k].kind = "inbox",
                        NEW i \in NewOnes, client.cursor < i, i <= wire'[k].id
                 PROVE  OnWire(i, k)'
        BY <1>5
    <2>1. CASE k \in DOMAIN wire
        BY <1>4, <1>6, <2>1 DEF NothingIsSkipped
    <2>2. CASE k = Len(wire')
        <3>1. wire'[k] = e /\ i <= d.id
            BY <1>1, <1>4, <2>2
        <3>2. OnWire(i, Len(wire))'
            BY <1>8, <3>1
        <3>3. QED
            BY <2>2, <3>2 DEF OnWire
    <2>3. QED
        BY <1>4, <2>1, <2>2
<1>10. \A k \in DOMAIN stream'.batch :
          \A i \in NewOnes' : stream'.cursor < i /\ i <= stream'.batch[k].id => InBatch(i, k)'
    <2> SUFFICES ASSUME NEW k \in 1 .. n - 1, NEW i \in NewOnes, d.id < i,
                        i <= stream.batch[k + 1].id
                 PROVE  InBatch(i, k)'
        BY <1>1, <1>5
    <2>1. k + 1 \in DOMAIN stream.batch /\ k \in Nat
        BY <1>1
    <2>2. stream.cursor < i
        BY <1>1, <1>2, <1>5, <1>below
    <2>3. InBatch(i, k + 1)
        BY <2>1, <2>2 DEF NothingIsSkipped
    <2>4. PICK j \in 1 .. k + 1 : stream.batch[j].id = i /\ stream.batch[j].note = rows[i].note
        BY <2>3 DEF InBatch
    <2>5. j # 1
        BY <1>1, <1>5, <2>4 DEF d
    <2>6. j - 1 \in 1 .. k /\ j - 1 \in 1 .. n - 1 /\ stream'.batch[j - 1] = stream.batch[j]
        BY <1>1, <2>1, <2>4, <2>5
    <2>7. QED
        BY <1>1, <2>4, <2>6 DEF InBatch
<1>11. QED
    BY <1>1, <1>5, <1>8, <1>9, <1>10 DEF NothingIsSkipped


(* What has been received goes from the wire, and the cursor to it. *)
LEMMA ReceivingMovesTheCursor ==
    ASSUME Typed, Connected, Ascending, Receive
    PROVE  /\ Len(wire) \in Nat \ {0}
           /\ DOMAIN wire = 1 .. Len(wire) /\ DOMAIN wire' = 1 .. Len(wire) - 1
           /\ Len(wire') = Len(wire) - 1
           /\ \A k \in 1 .. Len(wire) - 1 : wire'[k] = wire[k + 1]
           /\ client.cursor \in Nat /\ client'.cursor \in Nat
           /\ client.cursor <= client'.cursor
           /\ wire[1].kind = "inbox" =>
                 /\ TakesDelivery /\ client'.cursor = wire[1].id
                 /\ wire[1].id > client.cursor
           /\ wire[1].kind # "inbox" =>
                 client'.cursor = client.cursor /\ client'.list = "asked"
                    /\ client'.page = Nothing
           /\ UNCHANGED <<rows, issued, reused, stream>>
<1>1. /\ Len(wire) \in Nat \ {0}
      /\ DOMAIN wire = 1 .. Len(wire) /\ DOMAIN wire' = 1 .. Len(wire) - 1
      /\ Len(wire') = Len(wire) - 1
      /\ \A k \in 1 .. Len(wire) - 1 : wire'[k] = wire[k + 1]
      /\ TakesReady \/ IgnoresEvent \/ TakesCounts \/ TakesDelivery
      /\ ClientTypedNext
      /\ UNCHANGED <<rows, issued, reused, stream>>
    BY ReceiveStep
<1>2. ~IgnoresEvent
    BY DEF Receive, IgnoresEvent, Connected
<1>3. client.cursor \in Nat /\ client'.cursor \in Nat
    BY <1>1, Numbers DEF ClientTypedNext, Clients
<1>4. wire[1].kind = "inbox" => wire[1].id > client.cursor
    BY <1>1 DEF Ascending, NothingIsReplayed
<1>5. wire[1].kind = "inbox" => TakesDelivery /\ client'.cursor = wire[1].id
    BY <1>1, <1>2, <1>4 DEF TakesReady, TakesCounts, TakesDelivery
<1>6. wire[1].kind # "inbox" =>
          client'.cursor = client.cursor /\ client'.list = "asked" /\ client'.page = Nothing
    BY <1>1, <1>2 DEF TakesReady, TakesCounts, TakesDelivery
<1>7. client.cursor <= client'.cursor
    BY <1>3, <1>4, <1>5, <1>6
<1>8. QED
    BY <1>1, <1>3, <1>4, <1>5, <1>6, <1>7

LEMMA NothingSkippedByReceive ==
    ASSUME Typed, Connected, Ascending, NothingIsSkipped, Receive
    PROVE  NothingIsSkipped'
<1>1. /\ Len(wire) \in Nat \ {0}
      /\ DOMAIN wire = 1 .. Len(wire) /\ DOMAIN wire' = 1 .. Len(wire) - 1
      /\ Len(wire') = Len(wire) - 1
      /\ \A k \in 1 .. Len(wire) - 1 : wire'[k] = wire[k + 1]
      /\ client.cursor \in Nat /\ client'.cursor \in Nat
      /\ client.cursor <= client'.cursor
      /\ wire[1].kind = "inbox" => client'.cursor = wire[1].id
      /\ UNCHANGED <<rows, reused, stream>>
    BY ReceivingMovesTheCursor
<1>2. NewOnes' = NewOnes /\ \A i \in NewOnes : i \in Nat
    BY <1>1, IdsAreNumbers DEF NewOnes, Mine
<1>3. ASSUME NEW k \in 1 .. Len(wire), NEW i \in NewOnes, client'.cursor < i, OnWire(i, k)
      PROVE  OnWire(i, k - 1)'
    <2>1. PICK j \in 1 .. k : /\ wire[j].kind = "inbox" /\ wire[j].id = i
                              /\ wire[j].note = rows[i].note
        BY <1>3 DEF OnWire
    <2>2. j # 1
        BY <1>1, <1>2, <1>3, <2>1
    <2>3. j - 1 \in 1 .. k - 1 /\ j - 1 \in 1 .. Len(wire) - 1 /\ (j - 1) + 1 = j
        BY <1>1, <2>1, <2>2
    <2>4. wire'[j - 1] = wire[j]
        BY <1>1, <2>3
    <2>5. QED
        BY <1>1, <2>1, <2>3, <2>4 DEF OnWire
<1>4. ASSUME NEW k \in DOMAIN wire', wire'[k].kind = "inbox",
             NEW i \in NewOnes, client'.cursor < i, i <= wire'[k].id
      PROVE  OnWire(i, k)'
    <2>1. k + 1 \in 1 .. Len(wire) /\ k + 1 \in DOMAIN wire /\ (k + 1) - 1 = k
          /\ wire'[k] = wire[k + 1]
        BY <1>1
    <2>2. client.cursor < i
        BY <1>1, <1>2, <1>4
    <2>3. OnWire(i, k + 1)
        BY <1>4, <2>1, <2>2 DEF NothingIsSkipped
    <2>4. OnWire(i, (k + 1) - 1)'
        BY <1>3, <1>4, <2>1, <2>3
    <2>5. QED
        BY <2>1, <2>4
<1>5. ASSUME stream.at \notin {"none", "ready"},
             NEW i \in NewOnes, client'.cursor < i, i <= stream.cursor
      PROVE  OnWire(i, Len(wire))'
    <2>1. client.cursor < i
        BY <1>1, <1>2, <1>5
    <2>2. OnWire(i, Len(wire)) /\ Len(wire) \in 1 .. Len(wire)
        BY <1>1, <1>5, <2>1 DEF NothingIsSkipped
    <2>3. QED
        BY <1>1, <1>3, <1>5, <2>2
<1>6. \A i, k : InBatch(i, k)' = InBatch(i, k)
    BY <1>1 DEF InBatch
<1>7. QED
    BY <1>1, <1>2, <1>4, <1>5, <1>6 DEF NothingIsSkipped

LEMMA NextSkipsNothing ==
    Typed /\ Connected /\ Bounded /\ Ascending /\ NothingIsSkipped /\ [Next]_vars
        => NothingIsSkipped'
<1> SUFFICES ASSUME Typed, Connected, Bounded, Ascending, NothingIsSkipped, [Next]_vars
             PROVE  NothingIsSkipped'
    OBVIOUS
<1>1. Typed'
    BY NextTyped
<1>2. Idle.at = "none" /\ Idle.batch = <<>>
    BY DEF Idle, Blank
<1>3. ASSUME TableStep \/ UNCHANGED <<rows, reused>>,
             UNCHANGED <<stream, wire>>, client'.cursor = client.cursor
      PROVE  NothingIsSkipped'
    BY <1>1, <1>3, NothingSkippedByTheTable
(* What the generator leaves behind on the wire. *)
<1>4. ASSUME UNCHANGED <<rows, reused, wire>>, client' = client,
             stream' = Idle \/ /\ stream.at \notin {"none", "ready"}
                               /\ stream'.cursor = stream.cursor
                               /\ stream'.batch = stream.batch
      PROVE  NothingIsSkipped'
    <2>1. NewOnes' = NewOnes /\ \A i, k : OnWire(i, k)' = OnWire(i, k)
        BY <1>4 DEF NewOnes, Mine, OnWire
    <2>2. stream'.batch = stream.batch => \A i, k : InBatch(i, k)' = InBatch(i, k)
        BY <1>4 DEF InBatch
    <2>3. QED
        BY <1>2, <1>4, <2>1, <2>2 DEF NothingIsSkipped
<1>5. CASE Aside \/ Marked
    BY <1>3, <1>5 DEF Aside, Marked, TableStep, SameConnection
<1>6. CASE Revoke /\ client' = client
    BY <1>3, <1>6 DEF Revoke, dbVars
<1>7. CASE Ready /\ client' = client
    <2>1. /\ stream.at = "ready" /\ wire = <<>> /\ stream.cursor = client.cursor
          /\ UNCHANGED <<rows, reused>>
        BY <1>7, ReadyStep DEF Connected
    <2>2. stream.cursor # NoCursor
        BY <2>1, Numbers DEF NoCursor
    <2>3. CASE stream' = Idle /\ wire' = wire
        BY <1>2, <2>1, <2>3, NothingSkippedByNobody
    <2>4. ASSUME NEW e \in Events, e.kind = "ready", Send(e),
                 stream'.batch = stream.batch, stream'.cursor = stream.cursor
          PROVE  NothingIsSkipped'
        BY <1>7, <2>1, <2>4, NothingSkippedByCounts
    <2>5. QED
        BY <1>7, <2>2, <2>3, <2>4, ReadyStep
<1>8. CASE Turn /\ client' = client
    <2>1. UNCHANGED <<rows, reused>>
        BY <1>8, TurnStep DEF Turn
    <2>2. ASSUME NEW e \in Events, e.kind = "state", Send(e),
                 stream.at \notin {"none", "ready"},
                 stream'.batch = stream.batch, stream'.cursor = stream.cursor
          PROVE  NothingIsSkipped'
        BY <1>8, <2>1, <2>2, NothingSkippedByCounts
    <2>3. QED
        BY <1>4, <1>8, <2>1, <2>2, TurnStep DEF Turn
<1>9. CASE List /\ client' = client
    BY <1>1, <1>9, NothingSkippedByList
<1>10. CASE Emit /\ client' = client
    BY <1>10, NothingSkippedByEmit
<1>11. CASE Gone
    BY <1>2, <1>11, NothingSkippedByNobody DEF Gone
<1>12. CASE Opens
    <2>1. client.cursor \in Nat
        BY Numbers
    <2>2. wire' = <<>> /\ stream'.at = "ready" /\ stream'.batch = <<>>
        BY <1>12, <2>1, OpenedTyped DEF Opens, Connected
    <2>3. QED
        BY <2>2, NothingSkippedByNobody
<1>13. CASE Quiet
    <2>1. CASE SameConnection
        BY <1>3, <1>13, <2>1 DEF Quiet, SameConnection
    <2>2. CASE ~SameConnection
        <3>1. stream'.at = "none" /\ wire' = <<>> /\ stream'.batch = <<>>
            BY <1>13, <2>2 DEF Quiet, Connected
        <3>2. QED
            BY <3>1, NothingSkippedByNobody
    <2>3. QED
        BY <2>1, <2>2
<1>14. CASE Receive
    BY <1>14, NothingSkippedByReceive
<1>15. CASE UNCHANGED vars
    BY <1>3, <1>15 DEF vars, serverVars, dbVars
<1>16. QED
    BY <1>5, <1>6, <1>7, <1>8, <1>9, <1>10, <1>11, <1>12, <1>13, <1>14, <1>15,
       StepCases DEF Generated

(* The rows of a step that is not the table's are as they were. *)
LEMMA OnlyTheTableChangesRows ==
    ASSUME Typed, Connected, [Next]_vars
    PROVE  TableStep \/ UNCHANGED <<rows, reused, issued>>
<1>1. Aside \/ Marked => TableStep
    BY DEF Aside, Marked
<1>2. Generated => UNCHANGED <<rows, reused, issued>>
    BY ReadyStep, TurnStep, ListStep, EmitStep DEF Generated, Turn
<1>3. Receive => UNCHANGED <<rows, reused, issued>>
    BY ReceiveStep
<1>4. QED
    BY <1>1, <1>2, <1>3, StepCases DEF Revoke, Gone, Opens, Quiet, vars, serverVars, dbVars

LEMMA NextPageIsTrue ==
    Typed /\ Connected /\ Bounded /\ Ascending /\ PageIsTrue /\ [Next]_vars => PageIsTrue'
<1> SUFFICES ASSUME Typed, Connected, Bounded, Ascending, PageIsTrue, [Next]_vars
             PROVE  PageIsTrue'
    OBVIOUS
<1>1. TableStep \/ UNCHANGED <<rows, reused, issued>>
    BY OnlyTheTableChangesRows
<1>2. CASE client'.page = client.page
    <2>1. ASSUME NEW i \in NewOnes', i \in DOMAIN client.page
          PROVE  client.page[i] = rows'[i].note
        <3>1. i <= issued
            BY <2>1 DEF Bounded
        <3>2. i \in NewOnes /\ rows'[i].note = rows[i].note
            BY <1>1, <2>1, <3>1, NewOnesStay
        <3>3. QED
            BY <2>1, <3>2 DEF PageIsTrue
    <2>2. QED
        BY <1>2, <2>1 DEF PageIsTrue
<1>3. CASE client'.page = Nothing
    BY <1>3, NothingIsAPage DEF PageIsTrue
<1>4. CASE Quiet /\ ReadsPage
    BY <1>4 DEF Quiet, ReadsPage, PageIsTrue
<1>5. CASE Receive
    <2>1. client'.page = client.page \/ client'.page = Nothing
        BY <1>5, ReceivingMovesTheCursor DEF TakesDelivery
    <2>2. QED
        BY <1>2, <1>3, <2>1
<1>6. QED
    <2>1. Aside \/ Generated \/ (Revoke /\ client' = client) \/ UNCHANGED vars
              => client' = client
        BY DEF Aside, Generated, vars
    <2>2. Marked \/ Gone \/ Opens => client'.page \in {client.page, Nothing}
        BY DEF Marked, Gone, Opens, ShowsNoMore
    <2>3. Quiet => ReadsPage \/ client'.page \in {client.page, Nothing}
        BY DEF Quiet, ShowsNoMore, AppliesPage
    <2>4. QED
        BY <1>2, <1>3, <1>4, <1>5, <2>1, <2>2, <2>3, StepCases

(* What the client displays of the rows at or below its cursor: a page     *)
(* that is read has them or knows them to be pending, and a delivery that  *)
(* moves the cursor is the only new one up to where it moves.              *)
LEMMA NextViewFollows ==
    Inv /\ Follows /\ [Next]_vars => ViewFollows'
<1> SUFFICES ASSUME Typed, Connected, Bounded, Ascending,
                    NothingIsSkipped, PageIsTrue, ViewFollows, [Next]_vars
             PROVE  ViewFollows'
    BY DEF Inv, Follows
<1>1. TableStep \/ UNCHANGED <<rows, reused, issued>>
    BY OnlyTheTableChangesRows
<1>2. /\ client.cursor \in Nat /\ issued \in Nat /\ client.cursor <= issued
      /\ \A i \in NewOnes : i \in Nat /\ i \in Mine
    BY Numbers, IdsAreNumbers DEF Bounded
<1>3. ASSUME ~(Settled' /\ client'.list # "asked")
      PROVE  ViewFollows'
    BY <1>3 DEF ViewFollows
<1>4. ASSUME client' = client
      PROVE  ViewFollows'
    <2> SUFFICES ASSUME Settled, client.list # "asked",
                        NEW i \in NewOnes', i <= client.cursor,
                        Covers(DOMAIN client.page, i)
                 PROVE  Kept(i)'
        BY <1>4 DEF ViewFollows, Settled, Covers
    <2>1. i \in Nat
        <3>1. Typed'
            BY NextTyped
        <3>2. QED
            BY <3>1 DEF Typed, TableTyped, NewOnes, Mine, InboxOf
    <2>2. i <= issued
        BY <1>2, <2>1
    <2>3. i \in NewOnes /\ rows'[i].note = rows[i].note
        BY <1>1, <2>2, NewOnesStay
    <2>4. Kept(i)
        BY <2>3 DEF ViewFollows
    <2>5. QED
        BY <1>4, <2>3, <2>4 DEF Kept, Displayed
<1>5. ASSUME UNCHANGED <<rows, reused>>
      PROVE  NewOnes' = NewOnes
    BY <1>5 DEF NewOnes, Mine
<1>6. CASE Quiet /\ SameConnection /\ ReadsPage
    <2> DEFINE ids == DOMAIN client'.page
    <2>1. UNCHANGED <<rows, reused>> /\ client'.list = "read"
          /\ IsPage(ids) /\ client'.cursor = client.cursor
        BY <1>6 DEF Quiet, ReadsPage, SameConnection
    <2>2. ASSUME NEW i \in Mine, i \in Nat, Covers(ids, i)
          PROVE  i \in ids
        <3>1. CASE Cardinality(ids) < PageSize
            <4>1. Cardinality(ids) # PageSize
                BY <3>1, PageAssumption
            <4>2. QED
                BY <2>1, <4>1 DEF IsPage
        <3>2. CASE \E j \in ids : j <= i
            <4>1. PICK j \in ids : j <= i
                BY <3>2
            <4>2. j \in Nat
                BY <2>1, IdsAreNumbers DEF IsPage
            <4>3. i \notin ids => j > i
                BY <2>1, <4>1 DEF IsPage
            <4>4. QED
                BY <2>2, <4>1, <4>2, <4>3
        <3>3. QED
            BY <2>2, <3>1, <3>2 DEF Covers
    <2>3. \A i \in NewOnes' : Covers(ids, i) => i \in ids
        BY <1>2, <1>5, <2>1, <2>2
    <2>4. \A i \in NewOnes' : Covers(DOMAIN client.page, i)' => i \in DOMAIN client'.page
        BY <2>3 DEF Covers
    <2>5. \A i : i \in DOMAIN client'.page => Kept(i)'
        BY <2>1 DEF Kept
    <2>6. QED
        BY <2>4, <2>5 DEF ViewFollows
<1>7. CASE Quiet /\ SameConnection /\ AppliesPage
    <2>1. /\ UNCHANGED <<rows, reused>> /\ client.list = "read" /\ client'.list = "none"
          /\ client'.cursor = client.cursor /\ client'.page = client.page
          /\ client'.inbox = Merged(client)
          /\ Settled' => Settled
        BY <1>7 DEF Quiet, AppliesPage, SameConnection, Settled
    <2> SUFFICES ASSUME Settled, NEW i \in NewOnes, i <= client.cursor,
                        Covers(DOMAIN client.page, i)
                 PROVE  Displayed(i, rows[i].note)'
        BY <1>5, <2>1 DEF ViewFollows, Kept, Covers
    <2>2. i \in DOMAIN client.page \/ (i \in client.pending /\ Displayed(i, rows[i].note))
        BY <2>1 DEF ViewFollows, Kept
    <2>3. i \in DOMAIN client.page => client.page[i] = rows[i].note
        BY DEF PageIsTrue
    <2>4. /\ i \in DOMAIN Merged(client)
          /\ Merged(client)[i] = rows[i].note
        BY <2>2, <2>3 DEF Merged, Displayed
    <2>5. QED
        BY <2>1, <2>4 DEF Displayed
<1>8. CASE Receive /\ wire[1].kind = "inbox"
    <2> DEFINE e == wire[1]
    <2>1. /\ UNCHANGED <<rows, reused>>
          /\ client'.cursor = e.id /\ e.id > client.cursor
          /\ client'.list = client.list /\ client'.page = client.page
          /\ client'.inbox = Showing(client.inbox, e.id, e.note)
          /\ client'.pending = client.pending \cup {e.id}
          /\ Settled' => Settled
          /\ e.id \in Nat /\ 1 \in DOMAIN wire
        BY <1>8, ReceivingMovesTheCursor, Numbers DEF TakesDelivery, Settled
    <2> SUFFICES ASSUME Settled, client.list # "asked", NEW i \in NewOnes, i <= e.id,
                        Covers(DOMAIN client.page, i)
                 PROVE  Kept(i)'
        BY <1>5, <2>1 DEF ViewFollows, Covers
    <2>2. CASE i <= client.cursor
        <3>1. Kept(i) /\ i # e.id
            BY <1>2, <2>1, <2>2 DEF ViewFollows
        <3>2. Displayed(i, rows[i].note) => Displayed(i, rows[i].note)'
            BY <2>1, <3>1 DEF Displayed, Showing
        <3>3. QED
            BY <2>1, <3>1, <3>2 DEF Kept
    <2>3. CASE client.cursor < i
        <3>1. OnWire(i, 1)
            BY <1>8, <2>1, <2>3 DEF NothingIsSkipped
        <3>2. e.id = i /\ e.note = rows[i].note
            BY <3>1 DEF OnWire
        <3>3. Displayed(i, rows[i].note)' /\ i \in client'.pending
            BY <2>1, <3>2 DEF Displayed, Showing
        <3>4. QED
            BY <3>3 DEF Kept
    <2>4. QED
        BY <1>2, <2>1, <2>2, <2>3
<1>9. CASE Receive /\ wire[1].kind # "inbox"
    BY <1>3, <1>9, ReceivingMovesTheCursor
<1>10. Marked \/ Gone \/ Opens => ~Settled'
    BY DEF Marked, Gone, Opens, Settled, Connected
<1>11. Aside \/ Generated \/ (Revoke /\ client' = client) \/ UNCHANGED vars
           => client' = client
    BY DEF Aside, Generated, vars
<1>12. Quiet => \/ ~(Settled' /\ client'.list # "asked")
                \/ SameConnection /\ (ReadsPage \/ AppliesPage)
    BY DEF Quiet
<1>13. QED
    BY <1>3, <1>4, <1>6, <1>7, <1>8, <1>9, <1>10, <1>11, <1>12, StepCases

-----------------------------------------------------------------------------
(* The invariant and the theorems *)

LEMMA InitInv == Init => Inv /\ Follows
<1> SUFFICES ASSUME Init
             PROVE  Inv /\ Follows
    OBVIOUS
<1>1. /\ stream = Idle /\ wire = <<>> /\ client = NoClient /\ rows = NoRows
      /\ session = "active" /\ issued = 0 /\ late = 0
    BY DEF Init, ServerInit
<1>2. /\ Idle.at = "none" /\ Idle.cursor = 0 /\ Idle.batch = <<>> /\ Len(Idle.batch) = 0
      /\ NoClient.at = "loading" /\ NoClient.source = "none" /\ NoClient.cursor = 0
      /\ NoClient.page = Nothing /\ NoClient.inbox = Nothing /\ NoClient.pending = {}
    BY DEF Idle, Blank, NoClient
<1>3. Typed
    BY InitTyped
<1>4. Connected
    BY <1>1, <1>2 DEF Connected
<1>5. Bounded
    BY <1>1, <1>2, NothingIsAPage DEF Bounded
<1>6. Ascending
    BY <1>1, <1>2 DEF Ascending, NothingIsReplayed
<1>7. Quota
    BY <1>1, <1>2, LimitAssumption DEF Quota
<1>8. NothingIsSkipped
    BY <1>1, <1>2 DEF NothingIsSkipped
<1>9. PageIsTrue
    BY <1>1, <1>2, NothingIsAPage DEF PageIsTrue
<1>10. ViewFollows
    BY <1>1, <1>2 DEF ViewFollows, Settled
<1>11. QED
    BY <1>3, <1>4, <1>5, <1>6, <1>7, <1>8, <1>9, <1>10 DEF Inv, Follows

LEMMA NextInv == Inv /\ Follows /\ [Next]_vars => (Inv /\ Follows)'
<1> SUFFICES ASSUME Inv, Follows, [Next]_vars
             PROVE  Inv' /\ Follows'
    OBVIOUS
<1>1. Inv'
    BY NextTyped, NextConnected, NextBounded, NextAscending, NextQuota DEF Inv
<1>2. Follows'
    BY NextSkipsNothing, NextPageIsTrue, NextViewFollows DEF Inv, Follows
<1>3. QED
    BY <1>1, <1>2

LEMMA AlwaysInv == Spec => [](Inv /\ Follows)
BY InitInv, NextInv, PTL DEF Spec

(* Every part of a state keeps its type, and the ids the client holds are  *)
(* of rows that existed (_inbox_event_stream, useInboxStream, App).        *)
THEOREM TypeCorrect == Spec => []TypeOK
<1>1. Inv => TypeOK
    <2> SUFFICES ASSUME Inv
                 PROVE  TypeOK
        OBVIOUS
    <2>1. /\ issued \in Nat /\ stream.cursor \in Int /\ client.cursor \in Nat
          /\ client.cursor <= issued
        BY Numbers DEF Inv, Bounded
    <2>2. ServerTypeOK
        <3>1. stream \in StreamStates /\ Len(stream.batch) <= BatchLimit
              /\ session \in {"active", "revoked"}
            BY DEF Inv, Typed, StreamTyped
        <3>2. DOMAIN rows \subseteq 1 .. issued
              /\ \A i \in DOMAIN rows : rows[i] \in Deliveries
            BY DEF Inv, Typed, TableTyped
        <3>3. \A k \in DOMAIN wire : wire[k].kind \in {"ready", "inbox", "state"}
            <4>1. wire \in Seq(Events)
                BY DEF Inv, Typed, StreamTyped
            <4>2. \A k \in DOMAIN wire : wire[k] \in Events
                BY <4>1, LenProperties, ElementOfSeq
            <4>3. QED
                BY <4>2 DEF Events
        <3>4. QED
            BY <2>1, <3>1, <3>2, <3>3 DEF ServerTypeOK, Deliveries, StreamStates
    <2>3. client \in Clients /\ Cardinality(DOMAIN client.page) <= PageSize
        BY DEF Inv, Typed, ClientTyped
    <2>4. DOMAIN client.page \cup client.pending \cup DOMAIN client.inbox \subseteq 1 .. issued
        <3>1. /\ DOMAIN client.page \subseteq Nat \ {0}
              /\ DOMAIN client.inbox \subseteq Nat \ {0}
              /\ client.pending \subseteq Nat \ {0}
            BY <2>3, PagesAreFunctions DEF Clients
        <3>2. QED
            BY <2>1, <3>1 DEF Inv, Bounded
    <2>5. QED
        BY <2>1, <2>2, <2>3, <2>4 DEF TypeOK, Clients
<1>2. QED
    BY <1>1, AlwaysInv, PTL

(* No delivery is sent again to a client that has it, across reconnections *)
(* and batches: _inbox_event_stream moves its cursor with every event, and *)
(* the client resumes from the last id it was sent.                        *)
THEOREM NothingReplayed == Spec => []NothingIsReplayed
<1>1. Inv => NothingIsReplayed
    BY DEF Inv, Ascending
<1>2. QED
    BY <1>1, AlwaysInv, PTL

(* A revoked session is sent at most one batch more: the session is        *)
(* checked before each listing (principal_session_is_active).              *)
THEOREM RevocationStops == Spec => []RevocationStopsTheStream
<1>1. Inv => RevocationStopsTheStream
    <2> SUFFICES ASSUME Inv
                 PROVE  late <= BatchLimit
        BY DEF RevocationStopsTheStream
    <2>1. /\ late \in Nat /\ Len(stream.batch) \in Nat /\ BatchLimit \in Nat
          /\ late + Len(stream.batch) <= BatchLimit
        BY Numbers, LimitAssumption DEF Inv, Typed, StreamTyped, Quota
    <2>2. QED
        BY <2>1
<1>2. QED
    BY <1>1, AlwaysInv, PTL

(* A live client without an error or a request under way shows every       *)
(* delivery at or below its cursor that its list speaks for, although App  *)
(* asks for the counts and the list at once: the list it asks for on ready *)
(* (handleRealtimeState) is later than the counts, what the stream brings  *)
(* meanwhile is pending, and applyPage keeps what is pending.              *)
THEOREM ViewsAreComplete == Spec => []ViewIsComplete
<1>1. Inv /\ Follows => ViewIsComplete
    BY DEF Follows, ViewFollows, ViewIsComplete, Settled, Kept, NewOnes
<1>2. QED
    BY <1>1, AlwaysInv, PTL

(* Whatever connections broke, what is between the client's cursor and the *)
(* stream's is on the wire: README.md:23, persisted replay cursors.        *)
THEOREM ReconnectionsReplay == Spec => []ReconnectReplays
<1>1. Inv /\ Follows => ReconnectReplays
    <2> SUFFICES ASSUME Inv, NothingIsSkipped,
                        client.source = "open", stream.at \notin {"none", "ready"},
                        NEW i \in NewOnes, client.cursor < i, i <= stream.cursor
                 PROVE  \E k \in DOMAIN wire : /\ wire[k].kind = "inbox"
                                               /\ wire[k].id = i
                                               /\ wire[k].note = rows[i].note
        BY DEF Follows, ReconnectReplays, NewOnes
    <2>1. OnWire(i, Len(wire)) /\ DOMAIN wire = 1 .. Len(wire)
        BY Numbers DEF NothingIsSkipped, Inv
    <2>2. QED
        BY <2>1 DEF OnWire
<1>2. QED
    BY <1>1, AlwaysInv, PTL

-----------------------------------------------------------------------------
(* The process in which streams take their turns (EventLoop), for any      *)
(* requests, ntfy publishes, streams, pool and body limit: who holds the   *)
(* write lock and who a connection.                                        *)

(* The write lock is held inside a transaction, or by one that failed and  *)
(* was not closed. *)
LockIsInATransaction ==
    lock # Nobody => lock \in Tasks /\ at[lock] \in {"writing", "failed"}

(* Nor does a request hold a connection whose handling has not begun. *)
HoldersAreAtWork ==
    \A t \in conn : at[t] \notin {"connect", "idle", "headers", "body", "arrived",
                                  "done"}

ProcessInv ==
    /\ DOMAIN at = Tasks
    /\ conn \subseteq Tasks
    /\ LockIsInATransaction
    /\ HoldersAreAtWork

-----------------------------------------------------------------------------
LEMMA ProcessInitInv == ProcessInit => ProcessInv
BY DEF ProcessInit, ProcessInv, LockIsInATransaction, HoldersAreAtWork

LEMMA ProcessNextInv == ProcessInv /\ [ProcessNext]_processVars => ProcessInv'
<1> SUFFICES ASSUME ProcessInv, [ProcessNext]_processVars
             PROVE  ProcessInv'
    OBVIOUS
<1> USE NobodyAssumption DEF ProcessInv, Tasks, Calls, LockIsInATransaction,
        HoldersAreAtWork, Goto, Answer, body, database
<1>1. CASE UNCHANGED processVars
    BY <1>1 DEF processVars
<1>2. ASSUME NEW t \in Calls, StartDependency(t)
      PROVE  ProcessInv'
    BY <1>2 DEF StartDependency
<1>3. ASSUME NEW t \in Calls, StartHandler(t)
      PROVE  ProcessInv'
    BY <1>3 DEF StartHandler
<1>4. ASSUME NEW t \in Calls, Teardown(t)
      PROVE  ProcessInv'
    BY <1>4 DEF Teardown, ReleaseLock
<1>5. ASSUME NEW t \in Calls, Authorise(t)
      PROVE  ProcessInv'
    BY <1>5 DEF Authorise
<1>6. ASSUME NEW t \in Calls, HandleRead(t)
      PROVE  ProcessInv'
    BY <1>6 DEF HandleRead, Leave
<1>7. ASSUME NEW t \in Calls, Flush(t)
      PROVE  ProcessInv'
    BY <1>7 DEF Flush
<1>8. ASSUME NEW t \in Calls, Commit(t)
      PROVE  ProcessInv'
    BY <1>8 DEF Commit
<1>9. ASSUME NEW t \in Calls, LoseRace(t)
      PROVE  ProcessInv'
    BY <1>9 DEF LoseRace
<1>10. ASSUME NEW t \in Calls, CheckoutAgain(t)
      PROVE  ProcessInv'
    BY <1>10 DEF CheckoutAgain, Leave
<1>11. ASSUME NEW t \in Calls, TransactionFails(t)
      PROVE  ProcessInv'
    BY <1>11 DEF TransactionFails, Leave
<1>12. ASSUME NEW t \in Calls, Declared(t)
      PROVE  ProcessInv'
    BY <1>12 DEF Declared
<1>13. ASSUME NEW t \in Calls, ReceiveChunk(t)
      PROVE  ProcessInv'
    BY <1>13 DEF ReceiveChunk
<1>14. ASSUME NEW t \in Calls, Disconnect(t)
      PROVE  ProcessInv'
    BY <1>14 DEF Disconnect
<1>15. ASSUME NEW t \in Streams, StartTurn(t)
      PROVE  ProcessInv'
    BY <1>15 DEF StartTurn
<1>16. ASSUME NEW t \in Streams, Checkout(t)
      PROVE  ProcessInv'
    BY <1>16 DEF Checkout
<1>17. ASSUME NEW t \in Streams, FinishTurn(t)
      PROVE  ProcessInv'
    BY <1>17 DEF FinishTurn, Yield
<1>18. ASSUME NEW t \in Streams, MustWrite(t)
      PROVE  ProcessInv'
    BY <1>18 DEF MustWrite
<1>19. ASSUME NEW t \in Streams, Touch(t)
      PROVE  ProcessInv'
    BY <1>19 DEF Touch, Yield
<1>20. ASSUME NEW t \in Streams, Hangup(t)
      PROVE  ProcessInv'
    BY <1>20 DEF Hangup
<1>21. ASSUME NEW t \in Tasks, PoolTimeout(t)
      PROVE  ProcessInv'
    BY <1>21 DEF PoolTimeout, WaitsForConnection, BreakStream, Leave
<1>22. ASSUME NEW t \in Tasks, BusyTimeout(t)
      PROVE  ProcessInv'
    BY <1>22 DEF BusyTimeout, WaitsForLock, BreakStream, Leave
<1>23. QED
    BY <1>1, <1>2, <1>3, <1>4, <1>5, <1>6, <1>7, <1>8, <1>9, <1>10, <1>11,
       <1>12, <1>13, <1>14, <1>15, <1>16, <1>17, <1>18, <1>19, <1>20, <1>21,
       <1>22
       DEF ProcessNext, LoopStep, DatabaseStep, CallerStep

-----------------------------------------------------------------------------
(* The theorems *)

(* The loop, while it waits for the write lock, waits for a holder that    *)
(* itself needs the loop only if that holder's transaction failed and      *)
(* get_db has not closed it yet.                                           *)
THEOREM CircularWaits == ProcessSpec => []CircularWaitNeedsAFailure
<1>1. ProcessInv => CircularWaitNeedsAFailure
    BY DEF ProcessInv, LockIsInATransaction, CircularWaitNeedsAFailure, NeedsLoop, WaitsForLock
<1>2. QED
    BY <1>1, ProcessInitInv, ProcessNextInv, PTL DEF ProcessSpec

(* Neither a stream between two turns nor a client whose body has not      *)
(* arrived keeps a connection of the pool, whatever failed before.         *)
THEOREM IdleClientsHoldNoConnection == ProcessSpec => []IdleClientsHoldNothing
<1>1. ProcessInv => IdleClientsHoldNothing
    BY DEF ProcessInv, HoldersAreAtWork, IdleClientsHoldNothing
<1>2. QED
    BY <1>1, ProcessInitInv, ProcessNextInv, PTL DEF ProcessSpec

=============================================================================
