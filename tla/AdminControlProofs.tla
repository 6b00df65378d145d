-------------------------- MODULE AdminControlProofs --------------------------
(***************************************************************************)
(* Proofs about AdminControl, for any number of requests, names and        *)
(* crashes: bootstrap stays closed, whoever commits held the privilege,    *)
(* and every row has exactly one audit event.                              *)
(***************************************************************************)
EXTENDS AdminControl, FiniteSetTheorems, TLAPS

Roles == {"none", "plain", "admin", "disabled"}
Places == {"idle", "require_admin", "existing", "privilege", "owner", "insert", "commit"}
Ops == [at : Places, action : Actions, name : Names \cup {Nobody},
        actor : Names \cup {Nobody}, reopened : BOOLEAN]

Typed ==
    /\ user \in [Names -> Roles]
    /\ op \in [Requests -> Ops]
    /\ ruled \in [Requests -> SUBSET Names]

(* The sequence numbers of the audit history are those given out. *)
Logged ==
    /\ IsFiniteSet(audit)
    /\ \A e \in audit : e.seq \in Nat /\ e.seq < Cardinality(audit)

(* A request does what its action asks for, where it is. *)
Shaped(o) ==
    /\ o.at # "idle" => o.name \in Names
    /\ o.at \in {"require_admin", "existing"} => o.action = "bootstrap"
    /\ o.at \in {"privilege", "owner"} => o.action # "bootstrap"
    /\ o.at # "idle" /\ o.action # "bootstrap" => o.actor \in Names

(* What it has checked on its way there. *)
Authorised(o, r) ==
    o.at \in {"owner", "insert", "commit"} /\ o.action # "bootstrap" =>
        o.actor \in ruled[r]
Owned(o) ==
    o.at \in {"insert", "commit"} /\ o.action \in {"source", "token"} =>
        <<"identity", o.name>> \in DOMAIN rows
Closed(o) ==
    /\ o.at # "idle" /\ o.reopened => Bootstrapped
    /\ o.at \in {"existing", "insert", "commit"} /\ o.action = "bootstrap" => ~o.reopened
Free(o) ==
    IF o.action \in Kinds
    THEN o.action # "token" => <<o.action, o.name>> \notin DOMAIN rows
    ELSE user[o.name] = "none"
Locked(o, r) == o.at = "commit" => lock = r /\ Free(o)

Fits(o, r) == Shaped(o) /\ Authorised(o, r) /\ Owned(o) /\ Closed(o) /\ Locked(o, r)

(* Who is an administrator now has been one during every request. *)
Ruling == \A r \in Requests : Admins \subseteq ruled[r]

CopiesOf(bag, x) == IF x \in DOMAIN bag THEN bag[x] ELSE 0
Bagged(bag) == bag \in [DOMAIN bag -> Nat \ {0}]
OneMore(more, bag, y) ==
    \A z : CopiesOf(more, z) = CopiesOf(bag, z) + (IF z = y THEN 1 ELSE 0)
EventsIn(log, actions, n) == {e \in log : e.action \in actions /\ e.name = n}

Accounted ==
    /\ DOMAIN rows \subseteq Kinds \X Names
    /\ Bagged(rows)
    /\ \A kind \in Kinds, n \in Names :
          Cardinality(EventsIn(audit, {kind}, n)) = CopiesOf(rows, <<kind, n>>)
    /\ \A kind \in Kinds \ {"token"}, n \in Names :
          <<kind, n>> \in DOMAIN rows => rows[<<kind, n>>] = 1
    /\ \A kind \in {"source", "token"}, n \in Names :
          <<kind, n>> \in DOMAIN rows => <<"identity", n>> \in DOMAIN rows
    /\ \A n \in Names :
          Cardinality(EventsIn(audit, Actions \ Kinds, n)) =
              (IF user[n] # "none" THEN 1 ELSE 0)

Inv ==
    /\ Typed
    /\ Logged
    /\ Ruling
    /\ Accounted
    /\ \A r \in Requests : Fits(op[r], r)

-----------------------------------------------------------------------------
LEMMA IdleFits == ASSUME NEW r PROVE NoOp \in Ops /\ Fits(NoOp, r)
BY DEF NoOp, Ops, Places, Actions, Kinds, Fits, Shaped, Authorised, Owned, Closed, Locked

LEMMA Initially == Init => Inv
<1> SUFFICES ASSUME Init PROVE Inv
    OBVIOUS
<1>1. /\ user = [n \in Names |-> "none"] /\ rows = EmptyBag /\ audit = {}
      /\ op = [r \in Requests |-> NoOp] /\ ruled = [r \in Requests |-> {}]
    BY DEF Init
<1>2. Typed
    BY <1>1, IdleFits DEF Typed, Roles
<1>3. Logged
    BY <1>1, FS_EmptySet DEF Logged
<1>4. Ruling
    BY <1>1 DEF Ruling, Admins
<1>5. DOMAIN rows = {} /\ rows = [x \in {} |-> 1]
    BY <1>1 DEF EmptyBag, SetToBag
<1>6. Accounted
    <2>1. \A actions, n : EventsIn(audit, actions, n) = {}
        BY <1>1 DEF EventsIn
    <2>2. \A x : CopiesOf(rows, x) = 0
        BY <1>5 DEF CopiesOf
    <2>3. QED
        BY <1>1, <1>5, <2>1, <2>2, FS_EmptySet DEF Accounted, Bagged
<1>7. \A r \in Requests : Fits(op[r], r)
    BY <1>1, IdleFits
<1>8. QED
    BY <1>2, <1>3, <1>4, <1>6, <1>7 DEF Inv

(* A step of one request, up to its commit: what it has checked holds.     *)
LEMMA RequestStep ==
    ASSUME Inv, NEW r \in Requests, NEW o \in Ops,
           op' = [op EXCEPT ![r] = o],
           user' = user, rows' = rows, audit' = audit, ruled' = ruled,
           lock' = lock \/ lock = Nobody,
           Shaped(o), Authorised(o, r), Owned(o), Closed(o),
           o.at = "commit" => lock' = r /\ Free(o)
    PROVE  Inv'
<1>1. op \in [Requests -> Ops]
    BY DEF Inv, Typed
<1>2. Typed' /\ Logged' /\ Ruling' /\ Accounted'
    BY <1>1 DEF Inv, Typed, Logged, Ruling, Admins, Accounted
<1>3. ASSUME NEW q \in Requests PROVE Fits(op[q], q)'
    <2>1. CASE q = r
        <3>1. op'[q] = o
            BY <1>1, <2>1
        <3>2. Shaped(op[q])' /\ Authorised(op[q], q)' /\ Owned(op[q])'
            BY <2>1, <3>1 DEF Shaped, Authorised, Owned
        <3>3. Closed(op[q])' /\ Locked(op[q], q)'
            BY <2>1, <3>1 DEF Closed, Bootstrapped, Locked, Free
        <3>4. QED
            BY <3>2, <3>3 DEF Fits
    <2>2. CASE q # r
        <3>1. op'[q] = op[q] /\ Fits(op[q], q)
            BY <1>1, <2>2 DEF Inv
        <3>2. Shaped(op[q])' /\ Authorised(op[q], q)' /\ Owned(op[q])'
            BY <3>1 DEF Fits, Shaped, Authorised, Owned
        <3>3. Closed(op[q])' /\ Locked(op[q], q)'
            BY <3>1, NobodyAssumption DEF Fits, Closed, Bootstrapped, Locked, Free
        <3>4. QED
            BY <3>2, <3>3 DEF Fits
    <2>3. QED
        BY <2>1, <2>2
<1>4. QED
    BY <1>2, <1>3 DEF Inv

(* A request that is refused, or answered, is no more. *)
LEMMA EndStep ==
    ASSUME Inv, NEW r \in Requests, End(r), user' = user, rows' = rows,
           audit' = audit, ruled' = ruled, lock' = lock
    PROVE  Inv'
<1>1. op' = [op EXCEPT ![r] = NoOp]
    BY DEF End
<1>2. NoOp \in Ops /\ Fits(NoOp, r)
    BY IdleFits
<1>3. NoOp.at # "commit"
    BY DEF NoOp
<1> HIDE DEF NoOp
<1>4. QED
    BY <1>1, <1>2, <1>3, RequestStep DEF Fits

(* A request that goes on to where its checks allow. *)
LEMMA MoveStep ==
    ASSUME Inv, NEW r \in Requests, NEW at \in Places,
           op' = [op EXCEPT ![r].at = at],
           user' = user, rows' = rows, audit' = audit, ruled' = ruled,
           lock' = lock \/ lock = Nobody,
           LET o == [op[r] EXCEPT !.at = at]
           IN  /\ o \in Ops =>
                     Shaped(o) /\ Authorised(o, r) /\ Owned(o) /\ Closed(o)
               /\ o \in Ops => (o.at = "commit" => lock' = r /\ Free(o))
    PROVE  Inv'
<1> DEFINE o == [op[r] EXCEPT !.at = at]
<1>1. op \in [Requests -> Ops]
    BY DEF Inv, Typed
<1>2. o \in Ops
    BY <1>1 DEF Ops
<1>3. op' = [op EXCEPT ![r] = o]
    BY <1>1
<1>4. /\ Shaped(o) /\ Authorised(o, r) /\ Owned(o) /\ Closed(o)
      /\ o.at = "commit" => lock' = r /\ Free(o)
    BY <1>2
<1> HIDE DEF o
<1>5. QED
    BY <1>2, <1>3, <1>4, RequestStep

LEMMA BeginStep ==
    ASSUME Inv, NEW r \in Requests, NEW at \in {"require_admin", "privilege"},
           NEW action \in Actions, NEW name \in Names, NEW actor \in Names \cup {Nobody},
           (at = "require_admin") <=> (action = "bootstrap"),
           action # "bootstrap" => actor \in Names,
           Begin(r, at, action, name, actor)
    PROVE  Inv'
<1> DEFINE o == [at |-> at, action |-> action, name |-> name, actor |-> actor,
                 reopened |-> Bootstrapped]
<1>1. /\ op \in [Requests -> Ops] /\ ruled \in [Requests -> SUBSET Names]
      /\ Admins \in SUBSET Names
    BY DEF Inv, Typed, Admins
<1>2. /\ op' = [op EXCEPT ![r] = o] /\ ruled' = [ruled EXCEPT ![r] = Admins]
      /\ user' = user /\ rows' = rows /\ audit' = audit /\ lock' = lock
    BY DEF Begin
<1>3. /\ o \in Ops /\ o.at = at /\ o.action = action /\ o.name = name
      /\ o.actor = actor /\ o.reopened = Bootstrapped
    BY DEF Ops, Places, Bootstrapped
<1> HIDE DEF o
<1>4. /\ Typed' /\ Logged' /\ Ruling' /\ Accounted'
    <2>1. Typed'
        BY <1>1, <1>2, <1>3 DEF Inv, Typed
    <2>2. Admins' = Admins
        BY <1>2 DEF Admins
    <2>3. Ruling'
        BY <1>1, <1>2, <2>2 DEF Inv, Ruling
    <2>4. QED
        BY <1>2, <2>1, <2>3 DEF Inv, Logged, Accounted
<1>5. ASSUME NEW q \in Requests PROVE Fits(op[q], q)'
    <2>1. CASE q = r
        <3>1. op'[q] = o
            BY <1>1, <1>2, <2>1
        <3>2. Shaped(op[q])' /\ Authorised(op[q], q)' /\ Owned(op[q])'
            BY <1>3, <3>1 DEF Shaped, Authorised, Owned
        <3>3. Closed(op[q])' /\ Locked(op[q], q)'
            BY <1>2, <1>3, <3>1 DEF Closed, Bootstrapped, Locked
        <3>4. QED
            BY <3>2, <3>3 DEF Fits
    <2>2. CASE q # r
        <3>1. op'[q] = op[q] /\ ruled'[q] = ruled[q] /\ Fits(op[q], q)
            BY <1>1, <1>2, <2>2 DEF Inv
        <3>2. Shaped(op[q])' /\ Authorised(op[q], q)' /\ Owned(op[q])'
            BY <1>2, <3>1 DEF Fits, Shaped, Authorised, Owned
        <3>3. Closed(op[q])' /\ Locked(op[q], q)'
            BY <1>2, <3>1 DEF Fits, Closed, Bootstrapped, Locked, Free
        <3>4. QED
            BY <3>2, <3>3 DEF Fits
    <2>3. QED
        BY <2>1, <2>2
<1>6. QED
    BY <1>4, <1>5 DEF Inv

LEMMA RequireAdminStep == ASSUME Inv, NEW r \in Requests, RequireAdmin(r) PROVE Inv'
<1>1. /\ op[r].at = "require_admin" /\ user' = user /\ rows' = rows
      /\ audit' = audit /\ lock' = lock /\ ruled' = ruled
    BY DEF RequireAdmin
<1>2. CASE Bootstrapped
    BY <1>1, <1>2, EndStep DEF RequireAdmin
<1>3. CASE ~Bootstrapped
    <2> DEFINE o == [op[r] EXCEPT !.at = "existing"]
    <2>1. op' = [op EXCEPT ![r].at = "existing"] /\ "existing" \in Places
        BY <1>3 DEF RequireAdmin, Places
    <2>2. op[r] \in Ops /\ Fits(op[r], r)
        BY DEF Inv, Typed
    <2>3. /\ o.at = "existing" /\ o.action = op[r].action /\ o.name = op[r].name
          /\ o.actor = op[r].actor /\ o.reopened = op[r].reopened
        BY <2>2 DEF Ops
    <2>4. Shaped(o) /\ Authorised(o, r) /\ Owned(o)
        BY <1>1, <2>2, <2>3 DEF Fits, Shaped, Authorised, Owned
    <2>5. Closed(o)
        BY <1>1, <1>3, <2>2, <2>3 DEF Fits, Closed
    <2>6. o.at # "commit"
        BY <2>3
    <2> HIDE DEF o
    <2>7. QED
        BY <1>1, <2>1, <2>4, <2>5, <2>6, MoveStep DEF o
<1>4. QED
    BY <1>2, <1>3

LEMMA ExistingAdminStep == ASSUME Inv, NEW r \in Requests, ExistingAdmin(r) PROVE Inv'
<1>1. /\ op[r].at = "existing" /\ user' = user /\ rows' = rows
      /\ audit' = audit /\ lock' = lock /\ ruled' = ruled
      /\ End(r) \/ op' = [op EXCEPT ![r].at = "insert"]
    BY DEF ExistingAdmin
<1>2. CASE End(r)
    BY <1>1, <1>2, EndStep
<1>3. CASE op' = [op EXCEPT ![r].at = "insert"]
    <2> DEFINE o == [op[r] EXCEPT !.at = "insert"]
    <2>1. "insert" \in Places
        BY DEF Places
    <2>2. op[r] \in Ops /\ Fits(op[r], r)
        BY DEF Inv, Typed
    <2>3. /\ o.at = "insert" /\ o.action = op[r].action /\ o.name = op[r].name
          /\ o.actor = op[r].actor /\ o.reopened = op[r].reopened
        BY <2>2 DEF Ops
    <2>4. Shaped(o) /\ Authorised(o, r) /\ Owned(o)
        BY <1>1, <2>2, <2>3 DEF Fits, Shaped, Authorised, Owned
    <2>5. Closed(o)
        BY <1>1, <2>2, <2>3 DEF Fits, Closed
    <2>6. o.at # "commit"
        BY <2>3
    <2> HIDE DEF o
    <2>7. QED
        BY <1>1, <1>3, <2>1, <2>4, <2>5, <2>6, MoveStep DEF o
<1>4. QED
    BY <1>1, <1>2, <1>3

LEMMA PrivilegeStep == ASSUME Inv, NEW r \in Requests, Privilege(r) PROVE Inv'
<1> DEFINE at == IF op[r].action \in {"source", "token"} THEN "owner" ELSE "insert"
<1>1. /\ op[r].at = "privilege" /\ user' = user /\ rows' = rows
      /\ audit' = audit /\ lock' = lock /\ ruled' = ruled
      /\ \/ End(r)
         \/ user[op[r].actor] = "admin" /\ op' = [op EXCEPT ![r].at = at]
    BY DEF Privilege
<1>2. CASE End(r)
    BY <1>1, <1>2, EndStep
<1>3. CASE user[op[r].actor] = "admin" /\ op' = [op EXCEPT ![r].at = at]
    <2> DEFINE o == [op[r] EXCEPT !.at = at]
    <2>1. at \in Places /\ at \in {"owner", "insert"}
        BY DEF Places
    <2>2. op[r] \in Ops /\ Fits(op[r], r)
        BY DEF Inv, Typed
    <2>3. /\ o.at = at /\ o.action = op[r].action /\ o.name = op[r].name
          /\ o.actor = op[r].actor /\ o.reopened = op[r].reopened
        BY <2>2 DEF Ops
    <2>4. /\ op[r].action # "bootstrap" /\ op[r].actor \in Names /\ op[r].name \in Names
        BY <1>1, <2>2 DEF Fits, Shaped
    <2>5. op[r].actor \in ruled[r]
        BY <1>3, <2>4 DEF Inv, Ruling, Admins
    <2>6. Shaped(o) /\ Authorised(o, r)
        BY <2>1, <2>3, <2>4, <2>5 DEF Shaped, Authorised
    <2>7. Owned(o)
        BY <2>3 DEF Owned
    <2>8. Closed(o)
        BY <1>1, <2>2, <2>3, <2>4 DEF Fits, Closed
    <2>9. o.at # "commit"
        BY <2>1, <2>3
    <2> HIDE DEF o, at
    <2>10. QED
        BY <1>1, <1>3, <2>1, <2>6, <2>7, <2>8, <2>9, MoveStep DEF o
<1>4. QED
    BY <1>1, <1>2, <1>3

LEMMA OwnerStep == ASSUME Inv, NEW r \in Requests, Owner(r) PROVE Inv'
<1>1. /\ op[r].at = "owner" /\ user' = user /\ rows' = rows
      /\ audit' = audit /\ lock' = lock /\ ruled' = ruled
      /\ \/ End(r)
         \/ /\ <<"identity", op[r].name>> \in DOMAIN rows
            /\ op' = [op EXCEPT ![r].at = "insert"]
    BY DEF Owner, BagToSet
<1>2. CASE End(r)
    BY <1>1, <1>2, EndStep
<1>3. CASE /\ <<"identity", op[r].name>> \in DOMAIN rows
           /\ op' = [op EXCEPT ![r].at = "insert"]
    <2> DEFINE o == [op[r] EXCEPT !.at = "insert"]
    <2>1. "insert" \in Places
        BY DEF Places
    <2>2. op[r] \in Ops /\ Fits(op[r], r)
        BY DEF Inv, Typed
    <2>3. /\ o.at = "insert" /\ o.action = op[r].action /\ o.name = op[r].name
          /\ o.actor = op[r].actor /\ o.reopened = op[r].reopened
        BY <2>2 DEF Ops
    <2>4. Shaped(o) /\ Authorised(o, r)
        BY <1>1, <2>2, <2>3 DEF Fits, Shaped, Authorised
    <2>5. Owned(o)
        BY <1>3, <2>3 DEF Owned
    <2>6. Closed(o)
        BY <1>1, <2>2, <2>3 DEF Fits, Shaped, Closed
    <2>7. o.at # "commit"
        BY <2>3
    <2> HIDE DEF o
    <2>8. QED
        BY <1>1, <1>3, <2>1, <2>4, <2>5, <2>6, <2>7, MoveStep DEF o
<1>4. QED
    BY <1>1, <1>2, <1>3

LEMMA InsertStep == ASSUME Inv, NEW r \in Requests, Insert(r) PROVE Inv'
<1>1. /\ op[r].at = "insert" /\ lock = Nobody /\ user' = user /\ rows' = rows
      /\ audit' = audit /\ ruled' = ruled
    BY DEF Insert
<1>2. CASE Taken(r)
    BY <1>1, <1>2, EndStep DEF Insert
<1>3. CASE ~Taken(r)
    <2> DEFINE o == [op[r] EXCEPT !.at = "commit"]
    <2>1. op' = [op EXCEPT ![r].at = "commit"] /\ lock' = r /\ "commit" \in Places
        BY <1>3 DEF Insert, Places
    <2>2. op[r] \in Ops /\ Fits(op[r], r)
        BY DEF Inv, Typed
    <2>3. /\ o.at = "commit" /\ o.action = op[r].action /\ o.name = op[r].name
          /\ o.actor = op[r].actor /\ o.reopened = op[r].reopened
        BY <2>2 DEF Ops
    <2>4. Shaped(o) /\ Authorised(o, r) /\ Owned(o)
        BY <1>1, <2>2, <2>3 DEF Fits, Shaped, Authorised, Owned
    <2>5. Closed(o)
        BY <1>1, <2>2, <2>3 DEF Fits, Closed
    <2>6. Free(o)
        BY <1>3, <2>2, <2>3 DEF Taken, Free, BagToSet
    <2> HIDE DEF o
    <2>7. QED
        BY <1>1, <2>1, <2>4, <2>5, <2>6, MoveStep DEF o
<1>4. QED
    BY <1>2, <1>3

LEMMA LockTimeoutStep == ASSUME Inv, NEW r \in Requests, LockTimeout(r) PROVE Inv'
BY EndStep DEF LockTimeout

-----------------------------------------------------------------------------
(* One more event, one more row *)

LEMMA OneMoreEvent ==
    ASSUME NEW log, IsFiniteSet(log), NEW x, x \notin log, NEW actions, NEW n
    PROVE  /\ Cardinality(EventsIn(log, actions, n)) \in Nat
           /\ Cardinality(EventsIn(log \cup {x}, actions, n)) =
                  Cardinality(EventsIn(log, actions, n))
                      + (IF x.action \in actions /\ x.name = n THEN 1 ELSE 0)
<1> DEFINE E == EventsIn(log, actions, n)
           F == EventsIn(log \cup {x}, actions, n)
<1>1. E \in SUBSET log /\ x \notin E
    BY DEF EventsIn
<1>2. IsFiniteSet(E) /\ Cardinality(E) \in Nat
    BY <1>1, FS_Subset, FS_CardinalityType
<1>3. F = IF x.action \in actions /\ x.name = n THEN E \cup {x} ELSE E
    BY DEF EventsIn
<1> HIDE DEF E, F
<1>4. Cardinality(E \cup {x}) = Cardinality(E) + 1
    BY <1>1, <1>2, FS_AddElement
<1>5. QED
    BY <1>2, <1>3, <1>4 DEF E, F

LEMMA OneMoreRow ==
    ASSUME NEW bag, Bagged(bag), NEW y, NEW more,
           more = bag (+) SetToBag({y})
    PROVE  /\ DOMAIN more = DOMAIN bag \cup {y}
           /\ Bagged(more)
           /\ OneMore(more, bag, y)
<1>1. more = [e \in DOMAIN bag \cup {y} |->
                 (IF e \in DOMAIN bag THEN bag[e] ELSE 0) + (IF e = y THEN 1 ELSE 0)]
    BY DEF SetToBag, (+)
<1>2. DOMAIN more = DOMAIN bag \cup {y}
    BY <1>1
<1>3. \A z : CopiesOf(bag, z) \in Nat /\ (CopiesOf(bag, z) = 0 <=> z \notin DOMAIN bag)
    BY DEF CopiesOf, Bagged
<1>4. \A z \in DOMAIN more :
         more[z] = CopiesOf(bag, z) + (IF z = y THEN 1 ELSE 0)
    BY <1>1, <1>2 DEF CopiesOf
<1>5. \A z \in DOMAIN more : more[z] \in Nat \ {0}
    <2> TAKE z \in DOMAIN more
    <2> DEFINE k == CopiesOf(bag, z)
    <2>1. k \in Nat /\ (k = 0 => z = y) /\ more[z] = k + (IF z = y THEN 1 ELSE 0)
        BY <1>2, <1>3, <1>4
    <2> HIDE DEF k
    <2>2. QED
        BY ONLY <2>1
<1>6. Bagged(more)
    <2>1. more = [z \in DOMAIN more |-> more[z]]
        BY <1>1
    <2>2. QED
        BY <1>5, <2>1 DEF Bagged
<1>7. \A z : CopiesOf(more, z) = CopiesOf(bag, z) + (IF z = y THEN 1 ELSE 0)
    <2> TAKE z
    <2>1. CASE z \in DOMAIN more
        BY <1>4, <2>1 DEF CopiesOf
    <2>2. CASE z \notin DOMAIN more
        BY <1>2, <2>2 DEF CopiesOf
    <2>3. QED
        BY <2>1, <2>2
<1>8. QED
    BY <1>2, <1>6, <1>7 DEF OneMore

(* What a commit writes, whichever action it is of. *)
LEMMA CommitLogs ==
    ASSUME Inv, NEW r \in Requests, Commit(r)
    PROVE  /\ op[r].name \in Names /\ op[r].action \in Actions
           /\ Logged' /\ audit \subseteq audit'
           /\ \A actions, n :
                 /\ Cardinality(EventsIn(audit, actions, n)) \in Nat
                 /\ Cardinality(EventsIn(audit', actions, n)) =
                        Cardinality(EventsIn(audit, actions, n))
                           + (IF op[r].action \in actions /\ op[r].name = n THEN 1 ELSE 0)
<1> DEFINE x == [seq |-> Cardinality(audit), action |-> op[r].action,
                 name |-> op[r].name, actor |-> op[r].actor]
<1>1. op[r] \in Ops /\ Shaped(op[r]) /\ op[r].at = "commit"
    BY DEF Inv, Typed, Fits, Commit
<1>2. op[r].name \in Names /\ op[r].action \in Actions
    BY <1>1 DEF Ops, Shaped
<1>3. audit' = audit \cup {x}
    BY DEF Commit
<1>4. IsFiniteSet(audit) /\ Cardinality(audit) \in Nat
    BY FS_CardinalityType DEF Inv, Logged
<1>5. x.seq = Cardinality(audit) /\ x.action = op[r].action /\ x.name = op[r].name
    OBVIOUS
<1> HIDE DEF x
<1>6. x \notin audit
    BY <1>4, <1>5 DEF Inv, Logged
<1>7. IsFiniteSet(audit') /\ Cardinality(audit') = Cardinality(audit) + 1
    BY <1>3, <1>4, <1>6, FS_AddElement
<1>8. Logged'
    BY <1>3, <1>4, <1>5, <1>7 DEF Inv, Logged
<1>9. \A actions, n :
         /\ Cardinality(EventsIn(audit, actions, n)) \in Nat
         /\ Cardinality(EventsIn(audit \cup {x}, actions, n)) =
                Cardinality(EventsIn(audit, actions, n))
                   + (IF x.action \in actions /\ x.name = n THEN 1 ELSE 0)
    BY <1>4, <1>6, OneMoreEvent
<1>10. QED
    BY <1>2, <1>3, <1>5, <1>8, <1>9

LEMMA CommitRow ==
    ASSUME Inv, NEW r \in Requests, Commit(r), op[r].action \in Kinds
    PROVE  Accounted' /\ user' = user /\ DOMAIN rows \subseteq DOMAIN rows'
<1> DEFINE kind0 == op[r].action
           n0 == op[r].name
           y == <<kind0, n0>>
           more == rows'
<1>1. rows' = rows (+) SetToBag({y}) /\ user' = user
    BY DEF Commit
<1>2. /\ Bagged(rows) /\ DOMAIN rows \subseteq Kinds \X Names
      /\ \A kind \in Kinds, n \in Names :
            Cardinality(EventsIn(audit, {kind}, n)) = CopiesOf(rows, <<kind, n>>)
      /\ \A kind \in Kinds \ {"token"}, n \in Names :
            <<kind, n>> \in DOMAIN rows => rows[<<kind, n>>] = 1
      /\ \A kind \in {"source", "token"}, n \in Names :
            <<kind, n>> \in DOMAIN rows => <<"identity", n>> \in DOMAIN rows
      /\ \A n \in Names :
            Cardinality(EventsIn(audit, Actions \ Kinds, n)) =
                (IF user[n] # "none" THEN 1 ELSE 0)
    BY DEF Inv, Accounted
<1>3. /\ kind0 # "token" => y \notin DOMAIN rows
      /\ kind0 \in {"source", "token"} => <<"identity", n0>> \in DOMAIN rows
      /\ n0 \in Names /\ kind0 \in Kinds
    <2>1. Fits(op[r], r) /\ op[r].at = "commit"
        BY DEF Inv, Commit
    <2>2. QED
        BY <2>1, CommitLogs DEF Fits, Locked, Free, Owned
<1>4. /\ DOMAIN more = DOMAIN rows \cup {y}
      /\ Bagged(more)
      /\ \A z : CopiesOf(more, z) = CopiesOf(rows, z) + (IF z = y THEN 1 ELSE 0)
    <2>1. more = rows (+) SetToBag({y}) /\ Bagged(rows)
        BY <1>1, <1>2
    <2> HIDE DEF more, y
    <2>2. DOMAIN more = DOMAIN rows \cup {y} /\ Bagged(more) /\ OneMore(more, rows, y)
        BY <2>1, OneMoreRow
    <2>3. QED
        BY <2>2 DEF OneMore
<1>5. \A actions, n :
         /\ Cardinality(EventsIn(audit, actions, n)) \in Nat
         /\ Cardinality(EventsIn(audit', actions, n)) =
                Cardinality(EventsIn(audit, actions, n))
                   + (IF kind0 \in actions /\ n0 = n THEN 1 ELSE 0)
    BY CommitLogs
<1> HIDE DEF more
<1>6. DOMAIN more \subseteq Kinds \X Names
    BY <1>2, <1>3, <1>4
<1>7. \A kind \in Kinds, n \in Names :
         Cardinality(EventsIn(audit', {kind}, n)) = CopiesOf(more, <<kind, n>>)
    <2> TAKE kind \in Kinds, n \in Names
    <2>1. <<kind, n>> = y <=> kind0 \in {kind} /\ n0 = n
        OBVIOUS
    <2>2. QED
        BY <1>2, <1>4, <1>5, <2>1
<1>8. \A kind \in Kinds \ {"token"}, n \in Names :
         <<kind, n>> \in DOMAIN more => more[<<kind, n>>] = 1
    <2> SUFFICES ASSUME NEW kind \in Kinds \ {"token"}, NEW n \in Names,
                        <<kind, n>> \in DOMAIN more
                 PROVE  more[<<kind, n>>] = 1
        OBVIOUS
    <2>1. more[<<kind, n>>] = CopiesOf(more, <<kind, n>>)
        BY DEF CopiesOf
    <2>2. CASE <<kind, n>> = y
        <3>1. CopiesOf(rows, y) = 0
            BY <1>3, <2>2 DEF CopiesOf
        <3>2. QED
            BY <1>4, <2>1, <2>2, <3>1
    <2>3. CASE <<kind, n>> # y
        <3>1. <<kind, n>> \in DOMAIN rows
            BY <1>4, <2>3
        <3>2. CopiesOf(rows, <<kind, n>>) = 1
            BY <1>2, <3>1 DEF CopiesOf
        <3>3. QED
            BY <1>4, <2>1, <2>3, <3>2
    <2>4. QED
        BY <2>2, <2>3
<1>9. \A kind \in {"source", "token"}, n \in Names :
         <<kind, n>> \in DOMAIN more => <<"identity", n>> \in DOMAIN more
    BY <1>2, <1>3, <1>4
<1>10. \A n \in Names :
          Cardinality(EventsIn(audit', Actions \ Kinds, n)) =
              (IF user[n] # "none" THEN 1 ELSE 0)
    <2> TAKE n \in Names
    <2>1. kind0 \notin Actions \ Kinds
        BY <1>3
    <2>2. Cardinality(EventsIn(audit', Actions \ Kinds, n)) =
             Cardinality(EventsIn(audit, Actions \ Kinds, n))
        BY <1>5, <2>1
    <2>3. QED
        BY <1>2, <2>2
<1>11. QED
    BY <1>1, <1>4, <1>6, <1>7, <1>8, <1>9, <1>10 DEF Accounted, more

LEMMA CommitUser ==
    ASSUME Inv, NEW r \in Requests, Commit(r), op[r].action \notin Kinds
    PROVE  Accounted' /\ user' \in [Names -> Roles] /\ rows' = rows
<1> DEFINE n0 == op[r].name
           action0 == op[r].action
<1>1. /\ user' = [user EXCEPT ![n0] = Role(action0)] /\ rows' = rows
      /\ user \in [Names -> Roles] /\ Role(action0) \in {"plain", "admin"}
    BY DEF Commit, Inv, Typed, Role
<1>2. n0 \in Names /\ action0 \in Actions \ Kinds /\ user[n0] = "none"
    <2>1. Fits(op[r], r) /\ op[r].at = "commit"
        BY DEF Inv, Commit
    <2>2. QED
        BY <2>1, CommitLogs DEF Fits, Locked, Free
<1>3. \A actions, n :
         /\ Cardinality(EventsIn(audit, actions, n)) \in Nat
         /\ Cardinality(EventsIn(audit', actions, n)) =
                Cardinality(EventsIn(audit, actions, n))
                   + (IF action0 \in actions /\ n0 = n THEN 1 ELSE 0)
    BY CommitLogs
<1>4. /\ DOMAIN rows \subseteq Kinds \X Names
      /\ Bagged(rows)
      /\ \A kind \in Kinds, n \in Names :
            Cardinality(EventsIn(audit, {kind}, n)) = CopiesOf(rows, <<kind, n>>)
      /\ \A kind \in Kinds \ {"token"}, n \in Names :
            <<kind, n>> \in DOMAIN rows => rows[<<kind, n>>] = 1
      /\ \A kind \in {"source", "token"}, n \in Names :
            <<kind, n>> \in DOMAIN rows => <<"identity", n>> \in DOMAIN rows
      /\ \A n \in Names :
            Cardinality(EventsIn(audit, Actions \ Kinds, n)) =
                (IF user[n] # "none" THEN 1 ELSE 0)
    BY DEF Inv, Accounted
<1> HIDE DEF n0, action0
<1>5. user' \in [Names -> Roles]
    BY <1>1 DEF Roles
<1>6. \A n \in Names : user'[n] = IF n = n0 THEN Role(action0) ELSE user[n]
    BY <1>1
<1>7. \A kind \in Kinds, n \in Names :
         Cardinality(EventsIn(audit', {kind}, n)) = CopiesOf(rows, <<kind, n>>)
    <2> TAKE kind \in Kinds, n \in Names
    <2>1. action0 \notin {kind}
        BY <1>2
    <2>2. Cardinality(EventsIn(audit', {kind}, n)) = Cardinality(EventsIn(audit, {kind}, n))
        BY <1>3, <2>1
    <2>3. QED
        BY <1>4, <2>2
<1>8. \A n \in Names :
         Cardinality(EventsIn(audit', Actions \ Kinds, n)) =
             (IF user'[n] # "none" THEN 1 ELSE 0)
    <2> TAKE n \in Names
    <2>1. CASE n = n0
        <3>1. Cardinality(EventsIn(audit, Actions \ Kinds, n)) = 0
            BY <1>2, <1>4, <2>1
        <3>2. Cardinality(EventsIn(audit', Actions \ Kinds, n)) = 1
            BY <1>2, <1>3, <2>1, <3>1
        <3>3. user'[n] # "none"
            BY <1>1, <1>6, <2>1
        <3>4. QED
            BY <3>2, <3>3
    <2>2. CASE n # n0
        <3>1. /\ Cardinality(EventsIn(audit', Actions \ Kinds, n)) =
                     Cardinality(EventsIn(audit, Actions \ Kinds, n))
              /\ user'[n] = user[n]
            BY <1>3, <1>6, <2>2
        <3>2. QED
            BY <1>4, <3>1
    <2>3. QED
        BY <2>1, <2>2
<1>9. QED
    BY <1>1, <1>4, <1>5, <1>7, <1>8 DEF Accounted

LEMMA CommitStep == ASSUME Inv, NEW r \in Requests, Commit(r) PROVE Inv'
<1>1. /\ op \in [Requests -> Ops] /\ user \in [Names -> Roles]
      /\ ruled \in [Requests -> SUBSET Names]
    BY DEF Inv, Typed
<1>2. /\ op' = [op EXCEPT ![r] = NoOp] /\ op[r].at = "commit"
      /\ ruled' = [q \in Requests |-> ruled[q] \cup {n \in Names : user'[n] = "admin"}]
    BY DEF Commit, End, Rule
<1>3. lock = r
    BY <1>2 DEF Inv, Fits, Locked
<1>4. /\ Accounted' /\ user' \in [Names -> Roles]
      /\ DOMAIN rows \subseteq DOMAIN rows'
    BY <1>1, CommitRow, CommitUser
<1>5. Logged' /\ audit \subseteq audit'
    BY CommitLogs
<1>6. NoOp \in Ops /\ NoOp.at = "idle"
    BY IdleFits DEF NoOp
<1>7. Typed'
    BY <1>1, <1>2, <1>4, <1>6 DEF Typed
<1>8. Ruling'
    BY <1>2 DEF Ruling, Admins
<1>9. ASSUME NEW q \in Requests PROVE Fits(op[q], q)'
    <2>1. CASE q = r
        <3>1. op'[q] = NoOp
            BY <1>1, <1>2, <2>1
        <3>2. op'[q].at = "idle"
            BY <1>6, <3>1
        <3>3. ~op'[q].reopened
            BY <3>1 DEF NoOp
        <3>4. QED
            BY <3>2, <3>3 DEF Fits, Shaped, Authorised, Owned, Closed, Locked
    <2>2. CASE q # r
        <3>1. op'[q] = op[q] /\ ruled[q] \subseteq ruled'[q] /\ Fits(op[q], q)
            BY <1>1, <1>2, <2>2 DEF Inv
        <3>2. op[q].at # "commit"
            BY <1>3, <2>2, <3>1 DEF Fits, Locked
        <3>3. Shaped(op[q])' /\ Authorised(op[q], q)' /\ Owned(op[q])'
            BY <1>4, <3>1 DEF Fits, Shaped, Authorised, Owned
        <3>4. Closed(op[q])' /\ Locked(op[q], q)'
            BY <1>5, <3>1, <3>2 DEF Fits, Closed, Bootstrapped, Locked
        <3>5. QED
            BY <3>3, <3>4 DEF Fits
    <2>3. QED
        BY <2>1, <2>2
<1>10. QED
    BY <1>4, <1>5, <1>7, <1>8, <1>9 DEF Inv

LEMMA CrashStep == Inv /\ Crash => Inv'
<1> SUFFICES ASSUME Inv, Crash PROVE Inv'
    OBVIOUS
<1>1. /\ op' = [r \in Requests |-> NoOp] /\ user' = user /\ rows' = rows
      /\ audit' = audit /\ ruled' = ruled
    BY DEF Crash
<1>2. NoOp \in Ops /\ NoOp.at = "idle" /\ ~NoOp.reopened
    BY IdleFits DEF NoOp
<1> HIDE DEF NoOp
<1>3. Typed' /\ Logged' /\ Ruling' /\ Accounted'
    BY <1>1, <1>2 DEF Inv, Typed, Logged, Ruling, Admins, Accounted
<1>4. \A q \in Requests : op'[q] = NoOp
    BY <1>1
<1>5. \A q \in Requests : Fits(op[q], q)'
    BY <1>2, <1>4 DEF Fits, Shaped, Authorised, Owned, Closed, Locked
<1>6. QED
    BY <1>3, <1>5 DEF Inv

(* The operator changes roles while no request is in a transaction. *)
LEMMA OperateStep ==
    ASSUME Inv, NEW n \in Names, NEW role \in {"plain", "admin", "disabled"},
           Operate(n, role)
    PROVE  Inv'
<1>1. /\ lock = Nobody /\ user[n] # "none" /\ user' = [user EXCEPT ![n] = role]
      /\ rows' = rows /\ audit' = audit /\ lock' = lock /\ op' = op
      /\ ruled' = [q \in Requests |-> ruled[q] \cup {m \in Names : user'[m] = "admin"}]
    BY DEF Operate, Rule
<1>2. user \in [Names -> Roles] /\ ruled \in [Requests -> SUBSET Names]
    BY DEF Inv, Typed
<1>3. /\ user' \in [Names -> Roles]
      /\ \A m \in Names : user'[m] = "none" <=> user[m] = "none"
    BY <1>1, <1>2 DEF Roles
<1>4. Typed' /\ Logged' /\ Ruling' /\ Accounted'
    <2>1. Typed'
        BY <1>1, <1>2, <1>3 DEF Inv, Typed
    <2>2. Ruling'
        BY <1>1 DEF Ruling, Admins
    <2>3. Logged' /\ Accounted'
        BY <1>1, <1>3 DEF Inv, Logged, Accounted
    <2>4. QED
        BY <2>1, <2>2, <2>3
<1>5. ASSUME NEW q \in Requests PROVE Fits(op[q], q)'
    <2>1. /\ Fits(op[q], q) /\ ruled[q] \subseteq ruled'[q] /\ op[q].at # "commit"
        BY <1>1, NobodyAssumption DEF Inv, Fits, Locked
    <2>2. Shaped(op[q])' /\ Authorised(op[q], q)' /\ Owned(op[q])'
        BY <1>1, <2>1 DEF Fits, Shaped, Authorised, Owned
    <2>3. Closed(op[q])' /\ Locked(op[q], q)'
        BY <1>1, <2>1 DEF Fits, Closed, Bootstrapped, Locked
    <2>4. QED
        BY <2>2, <2>3 DEF Fits
<1>6. QED
    BY <1>4, <1>5 DEF Inv

-----------------------------------------------------------------------------
(* Requests in flight have checked what they rely on, administrators now   *)
(* have ruled during every request, and the history accounts for all rows. *)
THEOREM Invariant == Spec => []Inv
<1>1. Init => Inv
    BY Initially
<1>2. Inv /\ [Next]_vars => Inv'
    <2> SUFFICES ASSUME Inv, [Next]_vars PROVE Inv'
        OBVIOUS
    <2>1. CASE Crash
        BY <2>1, CrashStep
    <2>2. ASSUME NEW n \in Names, NEW role \in {"plain", "admin", "disabled"},
                 Operate(n, role)
          PROVE  Inv'
        BY <2>2, OperateStep
    <2>3. ASSUME NEW r \in Requests, NEW n \in Names, BeginBootstrap(r, n)
          PROVE  Inv'
        BY <2>3, BeginStep DEF BeginBootstrap, Actions
    <2>4. ASSUME NEW r \in Requests, NEW n \in Names, NEW actor \in Names,
                 NEW action \in Actions \ {"bootstrap"}, BeginCreate(r, action, n, actor)
          PROVE  Inv'
        BY <2>4, BeginStep DEF BeginCreate
    <2>5. ASSUME NEW r \in Requests,
                 RequireAdmin(r) \/ ExistingAdmin(r) \/ Privilege(r) \/ Owner(r)
          PROVE  Inv'
        BY <2>5, RequireAdminStep, ExistingAdminStep, PrivilegeStep, OwnerStep
    <2>6. ASSUME NEW r \in Requests, Insert(r) \/ LockTimeout(r) \/ Commit(r)
          PROVE  Inv'
        BY <2>6, InsertStep, LockTimeoutStep, CommitStep
    <2>7. CASE UNCHANGED vars
        <3>1. Typed' /\ Logged' /\ Ruling' /\ Accounted'
            BY <2>7 DEF vars, Inv, Typed, Logged, Ruling, Admins, Accounted
        <3>2. \A r \in Requests : Fits(op[r], r)'
            BY <2>7 DEF vars, Inv, Fits, Shaped, Authorised, Owned, Closed,
                        Bootstrapped, Locked, Free
        <3>3. QED
            BY <3>1, <3>2 DEF Inv
    <2>8. QED
        BY <2>1, <2>2, <2>3, <2>4, <2>5, <2>6, <2>7 DEF Next
<1>3. QED
    BY <1>1, <1>2, PTL DEF Spec

(* A bootstrap request that arrives after one has committed never inserts, *)
(* whatever became of the administrators.                                  *)
THEOREM BootstrapIsFinal == Spec => []BootstrapStaysClosed
<1>1. Inv => BootstrapStaysClosed
    BY DEF Inv, Fits, Closed, BootstrapStaysClosed
<1>2. QED
    BY <1>1, Invariant, PTL

(* Whoever commits was an active administrator during that request.        *)
THEOREM CommitsAreAuthorised == Spec => []ActorsHeldThePrivilege
<1>1. Inv => ActorsHeldThePrivilege
    BY DEF Inv, Fits, Authorised, ActorsHeldThePrivilege
<1>2. QED
    BY <1>1, Invariant, PTL

(* However many requests fight for a name and wherever the process stops,  *)
(* every row has one audit event, and a source or token an identity.       *)
THEOREM HistoryIsComplete == Spec => []EveryRowHasOneEvent
<1>1. Inv => EveryRowHasOneEvent
    <2> SUFFICES ASSUME Inv PROVE EveryRowHasOneEvent
        OBVIOUS
    <2> DEFINE Count(kind, n) ==
                   IF <<kind, n>> \in BagToSet(rows) THEN rows[<<kind, n>>] ELSE 0
               Events(actions, n) ==
                   Cardinality({e \in audit : e.action \in actions /\ e.name = n})
    <2>1. \A kind, n : Count(kind, n) = CopiesOf(rows, <<kind, n>>)
        BY DEF CopiesOf, BagToSet
    <2>2. \A actions, n : Events(actions, n) = Cardinality(EventsIn(audit, actions, n))
        BY DEF EventsIn
    <2>3. \A kind \in Kinds \ {"token"}, n \in Names : Count(kind, n) <= 1
        <3> TAKE kind \in Kinds \ {"token"}, n \in Names
        <3>1. <<kind, n>> \in DOMAIN rows => rows[<<kind, n>>] = 1
            BY DEF Inv, Accounted
        <3>2. Count(kind, n) \in {0, 1}
            BY <3>1 DEF BagToSet
        <3> HIDE DEF Count
        <3>3. QED
            BY <3>2
    <2>4. \A n \in Names :
             Count("source", n) + Count("token", n) > 0 => Count("identity", n) = 1
        <3> SUFFICES ASSUME NEW n \in Names, Count("source", n) + Count("token", n) > 0
                     PROVE  Count("identity", n) = 1
            OBVIOUS
        <3>1. <<"source", n>> \in DOMAIN rows \/ <<"token", n>> \in DOMAIN rows
            BY DEF BagToSet
        <3>2. <<"identity", n>> \in DOMAIN rows
            BY <3>1 DEF Inv, Accounted
        <3>3. QED
            BY <3>2 DEF Inv, Accounted, Kinds, BagToSet
    <2>5. \A kind \in Kinds, n \in Names : Events({kind}, n) = Count(kind, n)
        <3> HIDE DEF Count, Events
        <3>1. \A kind \in Kinds, n \in Names :
                 Cardinality(EventsIn(audit, {kind}, n)) = CopiesOf(rows, <<kind, n>>)
            BY DEF Inv, Accounted
        <3>2. QED
            BY <2>1, <2>2, <3>1
    <2>6. \A n \in Names :
             Events(Actions \ Kinds, n) = (IF user[n] # "none" THEN 1 ELSE 0)
        BY <2>2 DEF Inv, Accounted
    <2>7. QED
        BY <2>3, <2>4, <2>5, <2>6 DEF EveryRowHasOneEvent
<1>2. QED
    BY <1>1, Invariant, PTL

===============================================================================
