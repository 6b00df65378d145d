----------------------- MODULE DatabaseLifecycleProofs -----------------------
(***************************************************************************)
(* Proofs about DatabaseLifecycle, for any number of overlapping backups,  *)
(* sessions and crashes: what is served has the whole schema, what a       *)
(* manifest describes, which sessions a recovery revives, and what fails.  *)
(*                                                                         *)
(* The first part is about the revisions: what each creates is new.  The   *)
(* second says of every database file there is, whether in use, copied or  *)
(* half copied, that its schema is that of its version and a beginning of  *)
(* the next revision, however it was interrupted, copied and restored.     *)
(***************************************************************************)
EXTENDS DatabaseLifecycle, SequenceTheorems, TLAPS

(* Whose objects a revision creates, by name. *)
Names(version) ==
    CASE version = 1 -> {"users", "service_identities", "channels", "devices",
                         "sources", "subscriptions", "notifications", "deliveries",
                         "access_tokens", "preferences"}
      [] version = 2 -> {"password_hash", "web_sessions"}
      [] version = 3 -> {"csrf_token"}
      [] version = 4 -> {"is_admin", "admin_audit_events"}
      [] version = 5 -> {"login_rate_buckets", "login_security_events"}
      [] version = 6 -> {}

Tabled(names) == {"table", "index"} \X names
New(version) == {"table", "index", "column"} \X Names(version)
Temporary == {"temporary"} \X {"web_sessions", "notifications"}
Digest == {"column", "index"} \X {"idempotency_digest"}
Objects == Temporary \cup Digest \cup UNION {New(v) : v \in 1 .. Latest}

Lasting(objects) == {o \in objects : o[1] # "temporary"}

(* A sequence of different elements of S. *)
Lists(stmts, S) ==
    /\ stmts \in Seq(S)
    /\ \A j, k \in 1 .. Len(stmts) : j # k => stmts[j] # stmts[k]

(* Of a revision's statements: they create different objects, the lasting  *)
(* ones new, and the same ones whatever rows there are.                    *)
AreNew(version, rows) ==
    /\ Lists(Statements(version, rows), New(version) \cup Temporary)
    /\ Len(Statements(version, rows)) >= 1
    /\ Lasting(ToSet(Statements(version, rows))) =
           Lasting(ToSet(Statements(version, {})))

-----------------------------------------------------------------------------
(* The statements of the revisions *)

LEMMA One == ASSUME NEW x PROVE Lists(<<x>>, {x}) /\ Len(<<x>>) = 1
BY DEF Lists

LEMMA Both ==
    ASSUME NEW S, NEW T, S \cap T = {}, NEW s, NEW t, Lists(s, S), Lists(t, T)
    PROVE  /\ Lists(s \o t, S \cup T)
           /\ Len(s \o t) = Len(s) + Len(t)
           /\ Len(s) \in Nat /\ Len(t) \in Nat
<1>1. /\ s \in Seq(S \cup T) /\ t \in Seq(S \cup T)
      /\ Len(s) \in Nat /\ Len(t) \in Nat
      /\ \A k \in 1 .. Len(s) : s[k] \in S
      /\ \A k \in 1 .. Len(t) : t[k] \in T
    <2>1. s \in Seq(S) /\ t \in Seq(T)
        BY DEF Lists
    <2>2. QED
        BY <2>1, SeqMonotonic, LenProperties, ElementOfSeq
<1>2. /\ s \o t \in Seq(S \cup T)
      /\ Len(s \o t) = Len(s) + Len(t)
      /\ \A k \in 1 .. Len(s) + Len(t) :
            (s \o t)[k] = IF k <= Len(s) THEN s[k] ELSE t[k - Len(s)]
    BY <1>1, ConcatProperties
<1>3. \A k \in 1 .. Len(s) + Len(t) :
         k \in 1 .. Len(s) \/ (k > Len(s) /\ k - Len(s) \in 1 .. Len(t))
    BY <1>1
<1>4. \A j, k \in 1 .. Len(s) + Len(t) : j # k => (s \o t)[j] # (s \o t)[k]
    <2> TAKE j, k \in 1 .. Len(s) + Len(t)
    <2>1. CASE j \in 1 .. Len(s) /\ k \in 1 .. Len(s)
        BY <1>1, <1>2, <2>1 DEF Lists
    <2>2. CASE j > Len(s) /\ j - Len(s) \in 1 .. Len(t) /\ k \in 1 .. Len(s)
        BY <1>1, <1>2, <2>2
    <2>3. CASE k > Len(s) /\ k - Len(s) \in 1 .. Len(t) /\ j \in 1 .. Len(s)
        BY <1>1, <1>2, <2>3
    <2>4. CASE /\ j > Len(s) /\ j - Len(s) \in 1 .. Len(t)
               /\ k > Len(s) /\ k - Len(s) \in 1 .. Len(t)
        <3>1. (s \o t)[j] = t[j - Len(s)] /\ (s \o t)[k] = t[k - Len(s)]
            BY <1>1, <1>2, <2>4
        <3>2. j # k => j - Len(s) # k - Len(s)
            BY <1>1
        <3>3. QED
            BY <2>4, <3>1, <3>2 DEF Lists
    <2>5. QED
        BY <1>3, <2>1, <2>2, <2>3, <2>4
<1>5. QED
    BY <1>1, <1>2, <1>4 DEF Lists

LEMMA LongerStill ==
    ASSUME NEW S, NEW T, NEW s, NEW t, Lists(s, S), Lists(t, T), Len(s) >= 1
    PROVE  Len(s \o t) >= 1
<1>1. s \in Seq(S \cup T) /\ t \in Seq(S \cup T)
    BY SeqMonotonic DEF Lists
<1>2. Len(s) \in Nat /\ Len(t) \in Nat /\ Len(s \o t) = Len(s) + Len(t)
    BY <1>1, ConcatProperties, LenProperties
<1>3. QED
    BY <1>2

(* Tables of different names, each with its indexes. *)
LEMMA CreatedLists ==
    ASSUME NEW names, NEW tables, Lists(tables, names)
    PROVE  /\ Lists(Created(tables), Tabled(names))
           /\ Len(Created(tables)) = 2 * Len(tables)
           /\ Len(tables) \in Nat
<1> DEFINE n == Len(tables)
           s == Created(tables)
           kind(k) == IF k % 2 = 1 THEN "table" ELSE "index"
           half(k) == (k + 1) \div 2
<1>1. /\ n \in Nat
      /\ \A k \in 1 .. n : tables[k] \in names
      /\ \A j, k \in 1 .. n : j # k => tables[j] # tables[k]
    BY LenProperties, ElementOfSeq DEF Lists
<1>2. /\ s = [k \in 1 .. 2 * n |-> <<kind(k), tables[half(k)]>>]
      /\ 2 * n \in Nat
    BY <1>1 DEF Created, Object
<1>3. \A k \in 1 .. 2 * n : half(k) \in 1 .. n
    BY <1>1
<1>4. \A j, k \in 1 .. 2 * n : j # k => half(j) # half(k) \/ kind(j) # kind(k)
    BY <1>1
<1> HIDE DEF half, kind
<1>5. \A k \in 1 .. 2 * n : s[k] \in {"table", "index"} \X names
    BY <1>1, <1>2, <1>3 DEF kind
<1>6. s \in Seq({"table", "index"} \X names) /\ Len(s) = 2 * n
    <2>1. s \in [1 .. 2 * n -> {"table", "index"} \X names]
        BY <1>2, <1>5
    <2> HIDE DEF s
    <2>2. QED
        BY <1>2, <2>1
<1>7. \A j, k \in 1 .. 2 * n : j # k => s[j] # s[k]
    <2> TAKE j, k \in 1 .. 2 * n
    <2>1. s[j] = <<kind(j), tables[half(j)]>> /\ s[k] = <<kind(k), tables[half(k)]>>
        BY <1>2
    <2>2. half(j) # half(k) => tables[half(j)] # tables[half(k)]
        BY <1>1, <1>3
    <2> HIDE DEF s
    <2>3. QED
        BY <1>4, <2>1, <2>2
<1>8. QED
    BY <1>1, <1>6, <1>7 DEF Lists, Tabled

LEMMA More ==
    ASSUME NEW S, NEW T, S \subseteq T, NEW s, Lists(s, S)
    PROVE  Lists(s, T)
BY SeqMonotonic DEF Lists

LEMMA BaselineIsNew == ASSUME NEW rows PROVE AreNew(1, rows)
<1> DEFINE tables == <<"users", "service_identities", "channels", "devices",
                       "sources", "subscriptions", "notifications",
                       "deliveries", "access_tokens", "preferences">>
<1>1. Lists(tables, Names(1)) /\ Len(tables) = 10
    BY DEF Lists, Names
<1>2. Statements(1, rows) = Created(tables) /\ Statements(1, {}) = Created(tables)
    BY DEF Statements, Baseline
<1>3. Tabled(Names(1)) \subseteq New(1) \cup Temporary
    BY DEF New, Tabled
<1> HIDE DEF tables
<1>4. Lists(Created(tables), Tabled(Names(1)))
    BY <1>1, CreatedLists
<1>5. Len(Created(tables)) = 2 * Len(tables)
    BY <1>1, CreatedLists
<1>6. Lists(Created(tables), New(1) \cup Temporary)
    BY <1>3, <1>4, More
<1>7. QED
    BY <1>1, <1>2, <1>5, <1>6 DEF AreNew

LEMMA HumanAuthenticationIsNew == ASSUME NEW rows PROVE AreNew(2, rows)
<1> DEFINE x == Object("column", "password_hash")
           W == {"web_sessions"}
           t == Created(<<"web_sessions">>)
<1>1. Lists(<<"web_sessions">>, W) /\ Len(<<"web_sessions">>) = 1
    BY One
<1>2. Lists(t, Tabled(W))
    BY <1>1, CreatedLists
<1>3. Lists(<<x>>, {x}) /\ Len(<<x>>) = 1
    BY One
<1>4. {x} \cap Tabled(W) = {} /\ {x} \cup Tabled(W) \subseteq New(2) \cup Temporary
    BY DEF Object, New, Names, Tabled
<1>5. Statements(2, rows) = <<x>> \o t /\ Statements(2, {}) = <<x>> \o t
    BY DEF Statements, HumanAuthentication
<1> HIDE DEF x, t, W
<1> DEFINE u == <<x>>
<1> HIDE DEF u
<1>6. Lists(u, {x}) /\ Len(u) = 1
    BY <1>3 DEF u
<1>7. Lists(u \o t, {x} \cup Tabled(W))
    BY <1>2, <1>4, <1>6, Both
<1>8. Len(u \o t) >= 1
    <2>1. Len(u) >= 1
        BY <1>6
    <2>2. QED
        BY <1>2, <1>6, <2>1, LongerStill
<1>9. Lists(u \o t, New(2) \cup Temporary)
    BY <1>4, <1>7, More
<1>10. QED
    BY <1>5, <1>8, <1>9 DEF AreNew, u

LEMMA CsrfMutationsIsNew == ASSUME NEW rows PROVE AreNew(3, rows)
<1> DEFINE x == Object("column", "csrf_token")
           y == Object("temporary", "web_sessions")
<1>1. /\ Statements(3, rows) = <<x>> \o (IF rows = {} THEN <<y>> ELSE <<>>)
      /\ Statements(3, {}) = <<x>> \o <<y>>
    BY DEF Statements, CsrfMutations
<1>2. x \in New(3) /\ y \in Temporary /\ x[1] # "temporary" /\ y[1] = "temporary"
    BY DEF Object, New, Names, Temporary
<1>3. Statements(3, {}) = <<x, y>>
    BY <1>1
<1>4. Statements(3, rows) \in {<<x>>, <<x, y>>}
    <2>1. CASE rows = {}
        BY <1>1, <2>1
    <2>2. CASE rows # {}
        <3>1. <<x>> \in Seq({x})
            OBVIOUS
        <3>2. <<x>> \o <<>> = <<x>>
            BY <3>1, ConcatEmptySeq
        <3>3. QED
            BY <1>1, <2>2, <3>2
    <2>3. QED
        BY <2>1, <2>2
<1> HIDE DEF x, y
<1>5. /\ Lists(<<x>>, New(3) \cup Temporary) /\ Lists(<<x, y>>, New(3) \cup Temporary)
      /\ Len(<<x>>) = 1 /\ Len(<<x, y>>) = 2
    BY <1>2 DEF Lists
<1>6. ToSet(<<x>>) = {x} /\ ToSet(<<x, y>>) = {x, y}
    BY DEF ToSet
<1>7. Lasting({x}) = {x} /\ Lasting({x, y}) = {x}
    BY <1>2 DEF Lasting
<1> DEFINE u == <<x>>
           w == <<x, y>>
           s == Statements(3, rows)
<1>8. /\ s \in {u, w} /\ Statements(3, {}) = w
      /\ Lists(u, New(3) \cup Temporary) /\ Lists(w, New(3) \cup Temporary)
      /\ Len(u) >= 1 /\ Len(w) >= 1
    BY <1>3, <1>4, <1>5
<1>9. Lasting(ToSet(u)) = {x} /\ Lasting(ToSet(w)) = {x}
    BY <1>6, <1>7
<1> HIDE DEF u, w, s
<1>10. /\ Lists(s, New(3) \cup Temporary)
       /\ Len(s) >= 1
       /\ Lasting(ToSet(s)) = Lasting(ToSet(Statements(3, {})))
    BY <1>8, <1>9
<1>11. QED
    BY <1>10 DEF AreNew, s

LEMMA AdministratorAuthorizationIsNew == ASSUME NEW rows PROVE AreNew(4, rows)
<1> DEFINE x == Object("column", "is_admin")
           y == Object("index", "is_admin")
           W == {"admin_audit_events"}
           t == Created(<<"admin_audit_events">>)
<1>1. Lists(<<"admin_audit_events">>, W) /\ Len(<<"admin_audit_events">>) = 1
    BY One
<1>2. Lists(t, Tabled(W))
    BY <1>1, CreatedLists
<1>3. x # y /\ {x, y} \cap Tabled(W) = {} /\ {x, y} \cup Tabled(W) \subseteq New(4) \cup Temporary
    BY DEF Object, New, Names, Tabled
<1>4. Statements(4, rows) = <<x, y>> \o t /\ Statements(4, {}) = <<x, y>> \o t
    BY DEF Statements, AdministratorAuthorization
<1> HIDE DEF x, y, t, W
<1> DEFINE u == <<x, y>>
<1>5. Lists(u, {x, y}) /\ Len(u) = 2
    BY <1>3 DEF Lists
<1> HIDE DEF u
<1>6. Lists(u \o t, {x, y} \cup Tabled(W))
    BY <1>2, <1>3, <1>5, Both
<1>7. Len(u \o t) >= 1
    <2>1. Len(u) >= 1
        BY <1>5
    <2>2. QED
        BY <1>2, <1>5, <2>1, LongerStill
<1>8. Lists(u \o t, New(4) \cup Temporary)
    BY <1>3, <1>6, More
<1>9. QED
    BY <1>4, <1>7, <1>8 DEF AreNew, u

LEMMA LoginAbuseControlsIsNew == ASSUME NEW rows PROVE AreNew(5, rows)
<1> DEFINE tables == <<"login_rate_buckets", "login_security_events">>
<1>1. Lists(tables, Names(5)) /\ Len(tables) = 2
    BY DEF Lists, Names
<1>2. Statements(5, rows) = Created(tables) /\ Statements(5, {}) = Created(tables)
    BY DEF Statements, LoginAbuseControls
<1>3. Tabled(Names(5)) \subseteq New(5) \cup Temporary
    BY DEF New, Tabled
<1> HIDE DEF tables
<1>4. Lists(Created(tables), Tabled(Names(5)))
    BY <1>1, CreatedLists
<1>5. Len(Created(tables)) = 2 * Len(tables)
    BY <1>1, CreatedLists
<1>6. Lists(Created(tables), New(5) \cup Temporary)
    BY <1>3, <1>4, More
<1>7. QED
    BY <1>1, <1>2, <1>5, <1>6 DEF AreNew

LEMMA NotificationIdempotencyIsNew == ASSUME NEW rows PROVE AreNew(6, rows)
<1> DEFINE x == Object("temporary", "notifications")
<1>1. Statements(6, rows) = <<x>> /\ Statements(6, {}) = <<x>>
    BY DEF Statements, NotificationIdempotency
<1>2. {x} \subseteq New(6) \cup Temporary
    BY DEF Object, Temporary
<1> HIDE DEF x
<1>3. Lists(<<x>>, {x}) /\ Len(<<x>>) = 1
    BY One
<1>4. Lists(<<x>>, New(6) \cup Temporary)
    BY <1>2, <1>3, More
<1>5. QED
    BY <1>1, <1>3, <1>4 DEF AreNew

LEMMA StatementsAreNew ==
    ASSUME NEW version \in 1 .. Latest, NEW rows
    PROVE  AreNew(version, rows)
<1>1. version \in {1, 2, 3, 4, 5, 6}
    BY DEF Latest
<1>2. QED
    BY <1>1, BaselineIsNew, HumanAuthenticationIsNew, CsrfMutationsIsNew,
       AdministratorAuthorizationIsNew, LoginAbuseControlsIsNew,
       NotificationIdempotencyIsNew

-----------------------------------------------------------------------------
(* The schema of a version *)

(* What revision version + 1 has made after its first m statements. *)
Prefix(version, rows, m) ==
    SchemaOf[version] \cup {Statements(version + 1, rows)[k] : k \in 1 .. m}

CreatedBy(version) == UNION {ToSet(Statements(v, {})) : v \in 1 .. version}

LEMMA ListIsIn ==
    ASSUME NEW S, NEW s, Lists(s, S)
    PROVE  /\ Len(s) \in Nat
           /\ ToSet(s) \subseteq S
           /\ ToSet(s) = {s[k] : k \in 1 .. Len(s)}
<1>1. s \in Seq(S)
    BY DEF Lists
<1>2. Len(s) \in Nat /\ DOMAIN s = 1 .. Len(s) /\ \A k \in 1 .. Len(s) : s[k] \in S
    BY <1>1, LenProperties, ElementOfSeq
<1>3. QED
    BY <1>2 DEF ToSet

LEMMA Early ==
    ASSUME NEW version \in 0 .. Latest - 1
    PROVE  SchemaOf[version] = Lasting(CreatedBy(version))
<1>1. version \in 0 .. Latest /\ version # 6
    BY DEF Latest
<1>2. SchemaOf[version] = Rebuilt(version, CreatedBy(version))
    BY <1>1 DEF SchemaOf, CreatedBy
<1>3. QED
    BY <1>1, <1>2 DEF Rebuilt, Lasting

(* A revision makes of the schema before it the schema of its version,     *)
(* with rows in the database or without.                                   *)
LEMMA Finished ==
    ASSUME NEW version \in 0 .. Latest - 1, NEW rows
    PROVE  Rebuilt(version + 1,
                   Prefix(version, rows, Len(Statements(version + 1, rows)))) =
               SchemaOf[version + 1]
<1> DEFINE s == Statements(version + 1, rows)
           t == Statements(version + 1, {})
           P == Prefix(version, rows, Len(s))
<1>1. version + 1 \in 1 .. Latest /\ version + 1 \in 0 .. Latest /\ version \in Nat
    BY DEF Latest
<1>2. AreNew(version + 1, rows) /\ AreNew(version + 1, {})
    BY <1>1, StatementsAreNew
<1>3. Lasting(ToSet(s)) = Lasting(ToSet(t))
    BY <1>2 DEF AreNew
<1>4. Lists(s, New(version + 1) \cup Temporary)
    BY <1>2 DEF AreNew
<1>5. ToSet(s) = {s[k] : k \in 1 .. Len(s)}
    BY <1>4, ListIsIn
<1>6. P = Lasting(CreatedBy(version)) \cup ToSet(s)
    BY <1>5, Early DEF Prefix
<1>7. CreatedBy(version + 1) = CreatedBy(version) \cup ToSet(t)
    <2>1. 1 .. version + 1 = 1 .. version \cup {version + 1}
        BY <1>1
    <2>2. QED
        BY <2>1 DEF CreatedBy
<1>8. SchemaOf[version + 1] = Rebuilt(version + 1, CreatedBy(version + 1))
    BY <1>1 DEF SchemaOf, CreatedBy
<1> HIDE DEF s, t, P
<1>9. Lasting(P) = Lasting(CreatedBy(version + 1))
    BY <1>3, <1>6, <1>7 DEF Lasting
<1>10. Rebuilt(version + 1, P) = Rebuilt(version + 1, CreatedBy(version + 1))
    BY <1>9 DEF Rebuilt, Lasting
<1>11. QED
    BY <1>8, <1>10 DEF P, s

(* Every object of an early schema was created by its revisions, and lasts. *)
LEMMA EarlyObjects ==
    ASSUME NEW version \in 0 .. Latest - 1, NEW o \in SchemaOf[version]
    PROVE  /\ o[1] # "temporary"
           /\ \E v \in 1 .. version : o \in New(v)
<1>1. o \in Lasting(CreatedBy(version))
    BY Early
<1>2. o[1] # "temporary" /\ o \in CreatedBy(version)
    BY <1>1 DEF Lasting
<1>3. PICK v \in 1 .. version : o \in ToSet(Statements(v, {}))
    BY <1>2 DEF CreatedBy
<1>4. v \in 1 .. Latest
    BY DEF Latest
<1>5. Lists(Statements(v, {}), New(v) \cup Temporary)
    BY <1>4, StatementsAreNew DEF AreNew
<1>6. o \in New(v) \cup Temporary
    BY <1>3, <1>5, ListIsIn
<1>7. o \in New(v)
    BY <1>2, <1>6 DEF Temporary
<1>8. QED
    BY <1>2, <1>7

(* No two revisions create objects of one name. *)
LEMMA NamesDiffer ==
    ASSUME NEW v \in 1 .. Latest, NEW w \in 1 .. Latest, v # w
    PROVE  New(v) \cap New(w) = {}
<1>1. v \in {1, 2, 3, 4, 5, 6} /\ w \in {1, 2, 3, 4, 5, 6}
    BY DEF Latest
<1>2. Names(v) \cap Names(w) = {}
    BY <1>1 DEF Names
<1>3. QED
    BY <1>2 DEF New

LEMMA StatementIsNew ==
    ASSUME NEW version \in 1 .. Latest, NEW rows,
           NEW k \in 1 .. Len(Statements(version, rows))
    PROVE  Statements(version, rows)[k] \in New(version) \cup Temporary
<1>1. Lists(Statements(version, rows), New(version) \cup Temporary)
    BY StatementsAreNew DEF AreNew
<1>2. QED
    BY <1>1, ElementOfSeq DEF Lists

(* An uninterrupted revision creates nothing twice. *)
LEMMA NothingTwice ==
    ASSUME NEW version \in 0 .. Latest - 1, NEW rows,
           NEW k \in 1 .. Len(Statements(version + 1, rows))
    PROVE  Statements(version + 1, rows)[k] \notin Prefix(version, rows, k - 1)
<1> DEFINE s == Statements(version + 1, rows)
           o == s[k]
<1>1. version + 1 \in 1 .. Latest /\ version \in 0 .. 5
    BY DEF Latest
<1>2. o \in New(version + 1) \cup Temporary
    BY <1>1, StatementIsNew
<1>3. o \notin SchemaOf[version]
    <2> SUFFICES ASSUME o \in SchemaOf[version] PROVE FALSE
        OBVIOUS
    <2>1. o[1] # "temporary" /\ \E v \in 1 .. version : o \in New(v)
        BY EarlyObjects
    <2>2. PICK v \in 1 .. version : o \in New(v)
        BY <2>1
    <2>3. o \in New(version + 1)
        BY <1>2, <2>1 DEF Temporary
    <2>4. v \in 1 .. Latest /\ v # version + 1
        BY <1>1 DEF Latest
    <2>5. QED
        BY <1>1, <2>2, <2>3, <2>4, NamesDiffer
<1>4. \A j \in 1 .. k - 1 : s[j] # o
    <2>1. Lists(s, New(version + 1) \cup Temporary)
        BY <1>1, StatementsAreNew DEF AreNew
    <2>2. Len(s) \in Nat
        BY <2>1, ListIsIn
    <2>3. \A j \in 1 .. k - 1 : j \in 1 .. Len(s) /\ j # k
        BY <2>2
    <2>4. QED
        BY <2>1, <2>3 DEF Lists
<1>5. QED
    BY <1>3, <1>4 DEF Prefix

(* Before revision 0006 is closed there is no idempotency_digest. *)
LEMMA NoDigestYet ==
    ASSUME NEW version \in 0 .. Latest - 1, NEW rows,
           NEW m \in 0 .. Len(Statements(version + 1, rows))
    PROVE  Object("column", "idempotency_digest") \notin Prefix(version, rows, m)
<1> DEFINE o == Object("column", "idempotency_digest")
           s == Statements(version + 1, rows)
<1>1. version + 1 \in 1 .. Latest
    BY DEF Latest
<1>2. \A v \in 1 .. Latest : o \notin New(v) /\ o \notin Temporary
    <2> TAKE v \in 1 .. Latest
    <2>1. v \in {1, 2, 3, 4, 5, 6}
        BY DEF Latest
    <2>2. "idempotency_digest" \notin Names(v)
        BY <2>1 DEF Names
    <2>3. QED
        BY <2>2 DEF Object, New, Temporary
<1> HIDE DEF o
<1>3. o \notin SchemaOf[version]
    <2>1. \A v \in 1 .. version : v \in 1 .. Latest
        BY DEF Latest
    <2>2. QED
        BY <1>2, <2>1, EarlyObjects
<1>4. Len(s) \in Nat
    <2>1. Lists(s, New(version + 1) \cup Temporary)
        BY <1>1, StatementsAreNew DEF AreNew
    <2>2. QED
        BY <2>1, ListIsIn
<1>5. \A k \in 1 .. m : s[k] # o
    <2> TAKE k \in 1 .. m
    <2>1. k \in 1 .. Len(s)
        BY <1>4
    <2>2. s[k] \in New(version + 1) \cup Temporary
        BY <1>1, <2>1, StatementIsNew
    <2>3. QED
        BY <1>1, <1>2, <2>2
<1>6. QED
    BY <1>3, <1>5 DEF Prefix, o

-----------------------------------------------------------------------------
(* Database files *)

FileSet == [schema : SUBSET Objects, version : 0 .. Latest, rows : SUBSET Sessions,
            live : SUBSET Sessions, delivered : BOOLEAN]
Holding == {"verify", "replace", "manifest", "describe"}
Places == {"idle", "copy"} \cup Holding

(* The schema of its version, ... *)
Whole(f) == f.schema = SchemaOf[f.version]
(* ... or also a beginning of the next revision. *)
Begun(f) ==
    /\ f.version \in 0 .. Latest - 1
    /\ \E m \in 1 .. Len(Statements(f.version + 1, f.rows)) :
          f.schema = Prefix(f.version, f.rows, m)
Reached(f) == Whole(f) \/ Begun(f)

(* What is left of an upgrade nothing interrupted. *)
Stuck(f) == f.version = 5 /\ f.delivered /\ f.schema = Prefix(5, f.rows, 1)
Left(f) == Whole(f) \/ Stuck(f)

Typed ==
    /\ db \in FileSet
    /\ copy \in FileSet \cup {None}
    /\ creator \in [Creators -> [at : Places, partial : FileSet \cup {None}]]
    /\ \A c \in Creators :
          creator[c].at \in Holding => creator[c].partial \in FileSet
    /\ step \in Nat
    /\ disturbed \in BOOLEAN

AllReached ==
    /\ Reached(db)
    /\ copy \in FileSet => Reached(copy)
    /\ \A c \in Creators :
          creator[c].at \in Holding => Reached(creator[c].partial)

(* While an upgrade runs, the schema has what it has made so far. *)
Upgrading ==
    step # 0 =>
       /\ ~up /\ failed = "no"
       /\ db.version \in 0 .. Latest - 1
       /\ step \in 1 .. Len(Ddl) + 1
       /\ step > 1 => db.schema = Prefix(db.version, db.rows, step - 1)

Serving == up => step = 0 /\ db.version = Latest /\ Whole(db)

Undisturbed ==
    ~disturbed =>
       /\ step \in {0, 1} => Left(db)
       /\ copy \in FileSet => Left(copy)
       /\ \A c \in Creators :
             creator[c].at \in Holding => Left(creator[c].partial)

Inv ==
    /\ Typed
    /\ AllReached
    /\ Upgrading
    /\ Serving
    /\ Undisturbed
    /\ FailuresAreExplained

LEMMA NoneIsNoFile == None \notin FileSet
BY DEF None, FileSet, Latest

LEMMA SchemasAreObjects == \A v \in 0 .. Latest : SchemaOf[v] \in SUBSET Objects
<1> TAKE v \in 0 .. Latest
<1>1. \A w \in 1 .. v : ToSet(Statements(w, {})) \subseteq Objects
    <2> TAKE w \in 1 .. v
    <2>1. w \in 1 .. Latest
        BY DEF Latest
    <2>2. Lists(Statements(w, {}), New(w) \cup Temporary)
        BY <2>1, StatementsAreNew DEF AreNew
    <2>3. ToSet(Statements(w, {})) \subseteq New(w) \cup Temporary
        BY <2>2, ListIsIn
    <2>4. QED
        BY <2>1, <2>3 DEF Objects
<1>2. CreatedBy(v) \subseteq Objects
    BY <1>1 DEF CreatedBy
<1>3. SchemaOf[v] = Rebuilt(v, CreatedBy(v))
    BY DEF SchemaOf, CreatedBy
<1>4. QED
    BY <1>2, <1>3 DEF Rebuilt, Objects, Digest, Object

LEMMA WithSchema ==
    ASSUME NEW f \in FileSet, NEW X \in SUBSET Objects, NEW g,
           g = [f EXCEPT !.schema = X]
    PROVE  /\ g \in FileSet
           /\ g.schema = X /\ g.version = f.version
           /\ g.rows = f.rows /\ g.delivered = f.delivered
BY DEF FileSet

LEMMA StatementsExist ==
    ASSUME NEW version \in 0 .. Latest - 1, NEW rows
    PROVE  /\ Len(Statements(version + 1, rows)) \in Nat
           /\ Len(Statements(version + 1, rows)) >= 1
           /\ \A k \in 1 .. Len(Statements(version + 1, rows)) :
                 Statements(version + 1, rows)[k] \in Objects
<1>1. version + 1 \in 1 .. Latest
    BY DEF Latest
<1>2. /\ Lists(Statements(version + 1, rows), New(version + 1) \cup Temporary)
      /\ Len(Statements(version + 1, rows)) >= 1
    BY <1>1, StatementsAreNew DEF AreNew
<1>3. New(version + 1) \cup Temporary \subseteq Objects
    BY <1>1 DEF Objects
<1>4. Len(Statements(version + 1, rows)) \in Nat
    BY <1>2, ListIsIn
<1>5. \A k \in 1 .. Len(Statements(version + 1, rows)) :
         Statements(version + 1, rows)[k] \in Objects
    BY <1>1, <1>3, StatementIsNew
<1>6. QED
    BY <1>2, <1>4, <1>5

LEMMA SixHasOneStatement ==
    ASSUME NEW rows PROVE Len(Statements(6, rows)) = 1
<1> DEFINE x == Object("temporary", "notifications")
<1>1. Statements(6, rows) = <<x>>
    BY DEF Statements, NotificationIdempotency
<1> HIDE DEF x
<1>2. QED
    BY <1>1

LEMMA PrefixGrows ==
    ASSUME NEW version, NEW rows, NEW k \in Nat \ {0}
    PROVE  Prefix(version, rows, k) =
               Prefix(version, rows, k - 1) \cup {Statements(version + 1, rows)[k]}
<1>1. 1 .. k = (1 .. k - 1) \cup {k}
    OBVIOUS
<1>2. QED
    BY <1>1 DEF Prefix

LEMMA EmptyPrefix ==
    ASSUME NEW version, NEW rows PROVE Prefix(version, rows, 0) = SchemaOf[version]
BY DEF Prefix

(* The first statement of an upgrade fails on what one before it left. *)
LEMMA FirstStatement ==
    ASSUME NEW f \in FileSet, f.version \in 0 .. Latest - 1, Left(f),
           Statements(f.version + 1, f.rows)[1] \in f.schema
    PROVE  Stuck(f)
<1>1. 1 \in 1 .. Len(Statements(f.version + 1, f.rows))
    BY StatementsExist
<1>2. Statements(f.version + 1, f.rows)[1] \notin Prefix(f.version, f.rows, 1 - 1)
    BY <1>1, NothingTwice
<1>3. Prefix(f.version, f.rows, 1 - 1) = SchemaOf[f.version]
    BY EmptyPrefix
<1>4. QED
    BY <1>2, <1>3 DEF Left, Whole

(* A database whose next upgrade has made m statements. *)
LEMMA AfterStatement ==
    ASSUME NEW f \in FileSet, f.version \in 0 .. Latest - 1, Reached(f),
           NEW k \in 1 .. Len(Statements(f.version + 1, f.rows)),
           k > 1 => f.schema = Prefix(f.version, f.rows, k - 1),
           Statements(f.version + 1, f.rows)[k] \notin f.schema
    PROVE  f.schema \cup {Statements(f.version + 1, f.rows)[k]} =
               Prefix(f.version, f.rows, k)
<1> DEFINE s == Statements(f.version + 1, f.rows)
<1>1. Len(s) \in Nat /\ Len(s) >= 1
    BY StatementsExist
<1>2. f.schema = Prefix(f.version, f.rows, k - 1)
    <2>1. CASE k > 1
        BY <2>1
    <2>2. CASE k = 1
        <3>1. ~Begun(f)
            <4> SUFFICES ASSUME Begun(f) PROVE FALSE
                OBVIOUS
            <4>1. PICK m \in 1 .. Len(s) : f.schema = Prefix(f.version, f.rows, m)
                BY DEF Begun
            <4>2. 1 \in 1 .. m
                BY <1>1
            <4>3. s[1] \in f.schema
                BY <4>1, <4>2 DEF Prefix
            <4>4. QED
                BY <2>2, <4>3
        <3>2. f.schema = SchemaOf[f.version]
            BY <3>1 DEF Reached, Whole
        <3>3. k - 1 = 0
            BY <2>2
        <3>4. QED
            BY <3>2, <3>3, EmptyPrefix
    <2>3. QED
        BY <1>1, <2>1, <2>2
<1>3. k \in Nat \ {0}
    BY <1>1
<1>4. QED
    BY <1>2, <1>3, PrefixGrows

(* What verify_schema accepts is a whole schema of head. *)
LEMMA VerifiedIsWhole ==
    ASSUME NEW f \in FileSet, Reached(f),
           Object("column", "idempotency_digest") \in f.schema
    PROVE  Whole(f) /\ f.version = Latest
<1>1. f.version \in 0 .. Latest - 1 \/ f.version = Latest
    BY DEF FileSet, Latest
<1>2. f.version \notin 0 .. Latest - 1
    <2> SUFFICES ASSUME f.version \in 0 .. Latest - 1 PROVE FALSE
        OBVIOUS
    <2>1. Len(Statements(f.version + 1, f.rows)) \in Nat
        BY StatementsExist
    <2>2. PICK m \in 0 .. Len(Statements(f.version + 1, f.rows)) :
             f.schema = Prefix(f.version, f.rows, m)
        <3>1. CASE Whole(f)
            <4>1. f.schema = Prefix(f.version, f.rows, 0)
                BY <3>1, EmptyPrefix DEF Whole
            <4>2. 0 \in 0 .. Len(Statements(f.version + 1, f.rows))
                BY <2>1
            <4>3. QED
                BY <4>1, <4>2
        <3>2. CASE Begun(f)
            <4>1. PICK m \in 1 .. Len(Statements(f.version + 1, f.rows)) :
                     f.schema = Prefix(f.version, f.rows, m)
                BY <3>2 DEF Begun
            <4>2. m \in 0 .. Len(Statements(f.version + 1, f.rows))
                BY <2>1
            <4>3. QED
                BY <4>1, <4>2
        <3>3. QED
            BY <3>1, <3>2 DEF Reached
    <2>3. QED
        BY <2>2, NoDigestYet
<1>3. QED
    BY <1>1, <1>2 DEF Reached, Begun

-----------------------------------------------------------------------------
(* Every action keeps the invariant. *)

LEMMA WholeIsReached == \A f : Whole(f) => Reached(f) /\ Left(f)
BY DEF Reached, Left

LEMMA Initially == Init => Inv
<1> SUFFICES ASSUME Init PROVE Inv
    OBVIOUS
<1>1. PICK version \in 0 .. Latest, rows \in SUBSET Sessions, delivered \in BOOLEAN :
         db = Clean(version, rows, rows, delivered)
    BY DEF Init
<1>2. db \in FileSet /\ Whole(db)
    BY <1>1, SchemasAreObjects DEF Clean, FileSet, Whole
<1>3. /\ step = 0 /\ ~up /\ failed = "no" /\ copy = None /\ disturbed = FALSE
      /\ creator = [c \in Creators |-> NoCreator]
    BY DEF Init
<1>4. Typed
    BY <1>2, <1>3 DEF Typed, NoCreator, Places, Holding
<1>5. copy \notin FileSet /\ \A c \in Creators : creator[c].at \notin Holding
    BY <1>3, NoneIsNoFile DEF NoCreator, Holding
<1>6. AllReached /\ Undisturbed
    BY <1>2, <1>5, WholeIsReached DEF AllReached, Undisturbed
<1>7. QED
    BY <1>3, <1>4, <1>6 DEF Inv, Upgrading, Serving, FailuresAreExplained

LEMMA BeginUpgradeStep == Inv /\ BeginUpgrade => Inv'
<1> SUFFICES ASSUME Inv, BeginUpgrade PROVE Inv'
    OBVIOUS
<1>1. /\ ~up /\ step = 0 /\ db.version < Latest
      /\ step' = 1 /\ failed' = "no" /\ up' = up
      /\ db' = db /\ copy' = copy /\ creator' = creator /\ disturbed' = disturbed
    BY DEF BeginUpgrade, files, history
<1>2. db.version \in 0 .. Latest - 1
    BY <1>1 DEF Inv, Typed, FileSet, Latest
<1>3. 1 \in 1 .. Len(Ddl) + 1
    BY <1>2, StatementsExist DEF Ddl, Target
<1>4. Typed'
    BY <1>1 DEF Inv, Typed
<1>5. AllReached'
    BY <1>1 DEF Inv, AllReached
<1>6. Upgrading'
    BY <1>1, <1>2, <1>3 DEF Upgrading, Ddl, Target
<1>7. Serving' /\ FailuresAreExplained'
    BY <1>1 DEF Serving, FailuresAreExplained
<1>8. Undisturbed'
    BY <1>1 DEF Inv, Undisturbed
<1>9. QED
    BY <1>4, <1>5, <1>6, <1>7, <1>8 DEF Inv

(* A statement that fails is the first one, on what an upgrade left.       *)
LEMMA FailedStatementStep ==
    Inv /\ Statement /\ Ddl[step] \in db.schema => Inv'
<1> SUFFICES ASSUME Inv, Statement, Ddl[step] \in db.schema PROVE Inv'
    OBVIOUS
<1>1. /\ step # 0 /\ step <= Len(Ddl)
      /\ step' = 0 /\ failed' = "exists" /\ up' = up
      /\ db' = db /\ copy' = copy /\ creator' = creator /\ disturbed' = disturbed
    BY DEF Statement, history
<1>2. /\ db \in FileSet /\ step \in Nat /\ ~up
      /\ db.version \in 0 .. Latest - 1
      /\ step > 1 => db.schema = Prefix(db.version, db.rows, step - 1)
    BY <1>1 DEF Inv, Typed, Upgrading
<1>3. step \in 1 .. Len(Statements(db.version + 1, db.rows))
    BY <1>1, <1>2, StatementsExist DEF Ddl, Target
<1>4. step = 1
    <2>1. Statements(db.version + 1, db.rows)[step]
             \notin Prefix(db.version, db.rows, step - 1)
        BY <1>2, <1>3, NothingTwice
    <2>2. ~(step > 1)
        BY <1>2, <2>1 DEF Ddl, Target
    <2>3. QED
        BY <1>1, <1>2, <2>2
<1>5. ~disturbed => Left(db)
    BY <1>4 DEF Inv, Undisturbed
<1>6. ~disturbed => Stuck(db)
    BY <1>2, <1>4, <1>5, FirstStatement DEF Ddl, Target
<1>7. FailuresAreExplained'
    BY <1>1, <1>6 DEF FailuresAreExplained, Stuck
<1>8. Typed'
    BY <1>1 DEF Inv, Typed
<1>9. AllReached'
    BY <1>1 DEF Inv, AllReached
<1>10. Upgrading' /\ Serving'
    BY <1>1, <1>2 DEF Upgrading, Serving
<1>11. Undisturbed'
    BY <1>1, <1>5 DEF Inv, Undisturbed
<1>12. QED
    BY <1>7, <1>8, <1>9, <1>10, <1>11 DEF Inv

LEMMA StatementStep ==
    Inv /\ Statement /\ Ddl[step] \notin db.schema => Inv'
<1> SUFFICES ASSUME Inv, Statement, Ddl[step] \notin db.schema PROVE Inv'
    OBVIOUS
<1> DEFINE X == db.schema \cup {Ddl[step]}
<1>1. /\ step # 0 /\ step <= Len(Ddl)
      /\ step' = step + 1 /\ failed' = failed /\ up' = up
      /\ db' = [db EXCEPT !.schema = X]
      /\ copy' = copy /\ creator' = creator /\ disturbed' = disturbed
    BY DEF Statement, history
<1>2. /\ db \in FileSet /\ step \in Nat /\ ~up /\ failed = "no"
      /\ db.version \in 0 .. Latest - 1 /\ Reached(db)
      /\ step > 1 => db.schema = Prefix(db.version, db.rows, step - 1)
    BY <1>1 DEF Inv, Typed, AllReached, Upgrading
<1>3. step \in 1 .. Len(Statements(db.version + 1, db.rows))
    BY <1>1, <1>2, StatementsExist DEF Ddl, Target
<1>4. X = Prefix(db.version, db.rows, step)
    BY <1>2, <1>3, AfterStatement DEF Ddl, Target
<1>5. X \in SUBSET Objects
    BY <1>2, <1>3, StatementsExist DEF Ddl, Target, FileSet
<1> HIDE DEF X
<1>6. /\ db' \in FileSet /\ db'.schema = X /\ db'.version = db.version
      /\ db'.rows = db.rows /\ db'.delivered = db.delivered
    BY <1>1, <1>2, <1>5 DEF FileSet
<1>7. step' \in Nat /\ step' # 0 /\ step' # 1 /\ step' - 1 = step
    <2>1. step \in Nat /\ step # 0 /\ step' = step + 1
        BY <1>1, <1>2
    <2>2. QED
        BY ONLY <2>1
<1>8. Typed'
    BY <1>1, <1>6, <1>7 DEF Inv, Typed
<1>9. Reached(db')
    BY <1>2, <1>3, <1>4, <1>6 DEF Reached, Begun
<1>10. AllReached'
    BY <1>1, <1>9 DEF Inv, AllReached
<1>11. Ddl' = Ddl
    BY <1>6 DEF Ddl, Target
<1>12. step' \in 1 .. Len(Ddl) + 1
    BY <1>1, <1>2, <1>3, StatementsExist DEF Ddl, Target
<1>13. db'.schema = Prefix(db'.version, db'.rows, step' - 1)
    BY <1>4, <1>6, <1>7
<1>14. Upgrading'
    BY <1>1, <1>2, <1>6, <1>11, <1>12, <1>13 DEF Upgrading
<1>15. Serving' /\ FailuresAreExplained'
    BY <1>1, <1>2 DEF Serving, FailuresAreExplained
<1>16. Undisturbed'
    BY <1>1, <1>7 DEF Inv, Undisturbed
<1>17. QED
    BY <1>8, <1>10, <1>14, <1>15, <1>16 DEF Inv

(* Revision 0006 fails on a delivery and leaves its temporary table. *)
LEMMA FailedCloseStep ==
    Inv /\ CloseRevision /\ Target = 6 /\ db.delivered => Inv'
<1> SUFFICES ASSUME Inv, CloseRevision, Target = 6, db.delivered PROVE Inv'
    OBVIOUS
<1>1. /\ step # 0 /\ step = Len(Ddl) + 1
      /\ step' = 0 /\ failed' = "referenced" /\ up' = up
      /\ db' = db /\ copy' = copy /\ creator' = creator /\ disturbed' = disturbed
    BY DEF CloseRevision
<1>2. /\ db \in FileSet /\ ~up /\ db.version \in 0 .. Latest - 1
      /\ step > 1 => db.schema = Prefix(db.version, db.rows, step - 1)
    BY <1>1 DEF Inv, Typed, Upgrading
<1>3. db.version = 5
    BY <1>2 DEF Target, Latest
<1>4. Len(Ddl) = 1
    <2>1. Ddl = Statements(6, db.rows)
        BY DEF Ddl
    <2>2. QED
        BY <2>1, SixHasOneStatement
<1>5. step = 2
    BY <1>1, <1>4
<1>6. db.schema = Prefix(5, db.rows, 1)
    <2>1. step > 1 /\ step - 1 = 1
        BY <1>5
    <2>2. QED
        BY <1>2, <1>3, <2>1
<1>7. Left(db)
    BY <1>3, <1>6 DEF Left, Stuck
<1>8. FailuresAreExplained'
    BY <1>1, <1>3 DEF FailuresAreExplained
<1>9. Typed'
    BY <1>1 DEF Inv, Typed
<1>10. AllReached'
    BY <1>1 DEF Inv, AllReached
<1>11. Upgrading' /\ Serving'
    BY <1>1, <1>2 DEF Upgrading, Serving
<1>12. Undisturbed'
    BY <1>1, <1>7 DEF Inv, Undisturbed
<1>13. QED
    BY <1>8, <1>9, <1>10, <1>11, <1>12 DEF Inv

LEMMA CloseStep ==
    Inv /\ CloseRevision /\ ~(Target = 6 /\ db.delivered) => Inv'
<1> SUFFICES ASSUME Inv, CloseRevision, ~(Target = 6 /\ db.delivered) PROVE Inv'
    OBVIOUS
<1> DEFINE X == Rebuilt(Target, db.schema)
           L == IF Target = 3 THEN {} ELSE db.live
<1>1. /\ step # 0 /\ step = Len(Ddl) + 1
      /\ step' = (IF Target = Latest THEN 0 ELSE 1) /\ failed' = failed /\ up' = up
      /\ copy' = copy /\ creator' = creator /\ disturbed' = disturbed
      /\ db' = [db EXCEPT !.schema = X, !.version = Target, !.live = L]
    BY DEF CloseRevision
<1>2. /\ db \in FileSet /\ ~up /\ failed = "no" /\ step \in Nat
      /\ db.version \in 0 .. Latest - 1
      /\ step > 1 => db.schema = Prefix(db.version, db.rows, step - 1)
    BY <1>1 DEF Inv, Typed, Upgrading
<1>3. /\ Target = db.version + 1 /\ Target \in 0 .. Latest
      /\ Ddl = Statements(db.version + 1, db.rows)
    BY <1>2 DEF Target, Ddl, Latest
<1>4. Len(Ddl) \in Nat /\ Len(Ddl) >= 1
    BY <1>2, <1>3, StatementsExist
<1>5. db.schema = Prefix(db.version, db.rows, Len(Ddl))
    <2>1. step > 1 /\ step - 1 = Len(Ddl)
        BY <1>1, <1>4
    <2>2. QED
        BY <1>2, <2>1
<1>6. X = SchemaOf[Target]
    BY <1>2, <1>3, <1>5, Finished
<1>7. X \in SUBSET Objects
    BY <1>3, <1>6, SchemasAreObjects
<1> HIDE DEF X, L
<1>8. L \in SUBSET Sessions
    BY <1>2 DEF L, FileSet
<1>9. db' \in FileSet /\ db'.schema = X /\ db'.version = Target
    BY <1>1, <1>2, <1>3, <1>7, <1>8 DEF FileSet
<1>10. Whole(db')
    BY <1>6, <1>9 DEF Whole
<1>11. Typed'
    BY <1>1, <1>9 DEF Inv, Typed
<1>12. AllReached'
    BY <1>1, <1>10, WholeIsReached DEF Inv, AllReached
<1>13. Upgrading'
    <2> SUFFICES ASSUME step' # 0 PROVE Upgrading'
        BY DEF Upgrading
    <2>1. Target # Latest /\ step' = 1
        BY <1>1
    <2>2. db'.version \in 0 .. Latest - 1
        BY <1>3, <1>9, <2>1 DEF Latest
    <2>3. Len(Ddl') \in Nat
        BY <2>2, StatementsExist DEF Ddl, Target
    <2>4. step' \in 1 .. Len(Ddl') + 1
        BY <2>1, <2>3
    <2>5. QED
        BY <1>1, <1>2, <2>1, <2>2, <2>4 DEF Upgrading
<1>14. Serving' /\ FailuresAreExplained'
    BY <1>1, <1>2 DEF Serving, FailuresAreExplained
<1>15. Undisturbed'
    BY <1>1, <1>10, WholeIsReached DEF Inv, Undisturbed
<1>16. QED
    BY <1>11, <1>12, <1>13, <1>14, <1>15 DEF Inv

LEMMA StartStep == Inv /\ Start => Inv'
<1> SUFFICES ASSUME Inv, Start PROVE Inv'
    OBVIOUS
<1>1. /\ step = 0 /\ VerifySchema /\ up' = TRUE
      /\ step' = step /\ failed' = failed /\ db' = db /\ copy' = copy
      /\ creator' = creator /\ disturbed' = disturbed
    BY DEF Start, files, history
<1>2. Object("column", "idempotency_digest") \in db.schema
    BY <1>1 DEF VerifySchema
<1>3. Whole(db) /\ db.version = Latest
    BY <1>2, VerifiedIsWhole DEF Inv, Typed, AllReached
<1>4. Typed'
    BY <1>1 DEF Inv, Typed
<1>5. AllReached' /\ Undisturbed'
    BY <1>1 DEF Inv, AllReached, Undisturbed
<1>6. Upgrading' /\ Serving'
    BY <1>1, <1>3 DEF Upgrading, Serving
<1>7. FailuresAreExplained'
    BY <1>1 DEF Inv, FailuresAreExplained
<1>8. QED
    BY <1>4, <1>5, <1>6, <1>7 DEF Inv

LEMMA StopStep == Inv /\ Stop => Inv'
<1> SUFFICES ASSUME Inv, Stop PROVE Inv'
    OBVIOUS
<1>1. /\ up /\ up' = FALSE
      /\ step' = step /\ failed' = failed /\ db' = db /\ copy' = copy
      /\ creator' = creator /\ disturbed' = disturbed
    BY DEF Stop, files, history
<1>2. step = 0
    BY <1>1 DEF Inv, Serving
<1>3. Typed'
    BY <1>1 DEF Inv, Typed
<1>4. AllReached' /\ Undisturbed'
    BY <1>1 DEF Inv, AllReached, Undisturbed
<1>5. Upgrading' /\ Serving'
    BY <1>1, <1>2 DEF Upgrading, Serving
<1>6. FailuresAreExplained'
    BY <1>1 DEF Inv, FailuresAreExplained
<1>7. QED
    BY <1>3, <1>4, <1>5, <1>6 DEF Inv

LEMMA ServeStep == Inv /\ Serve => Inv'
<1> SUFFICES ASSUME Inv, Serve PROVE Inv'
    OBVIOUS
<1>1. /\ up /\ up' = up
      /\ step' = step /\ failed' = failed /\ copy' = copy
      /\ creator' = creator /\ disturbed' = disturbed
    BY DEF Serve
<1>2. db \in FileSet /\ step = 0 /\ db.version = Latest /\ Whole(db)
    BY <1>1 DEF Inv, Typed, Serving
<1>3. /\ db' \in FileSet /\ db'.version = db.version /\ db'.schema = db.schema
      /\ db.delivered => db'.delivered
    <2>1. CASE \E s \in Sessions \ (db.rows \cup ended) :
                  db' = [db EXCEPT !.rows = @ \cup {s}, !.live = @ \cup {s}]
        <3>1. PICK s \in Sessions :
                 db' = [db EXCEPT !.rows = @ \cup {s}, !.live = @ \cup {s}]
            BY <2>1
        <3>2. db.rows \cup {s} \in SUBSET Sessions /\ db.live \cup {s} \in SUBSET Sessions
            BY <1>2, <3>1 DEF FileSet
        <3>3. QED
            BY <1>2, <3>1, <3>2 DEF FileSet
    <2>2. CASE \E s \in db.live : db' = [db EXCEPT !.live = @ \ {s}]
        BY <1>2, <2>2 DEF FileSet
    <2>3. CASE db' = [db EXCEPT !.delivered = TRUE]
        BY <1>2, <2>3 DEF FileSet
    <2>4. QED
        BY <2>1, <2>2, <2>3 DEF Serve
<1>4. Whole(db') /\ db'.version = Latest
    BY <1>2, <1>3 DEF Whole
<1>5. Typed'
    BY <1>1, <1>3 DEF Inv, Typed
<1>6. AllReached' /\ Undisturbed'
    BY <1>1, <1>4, WholeIsReached DEF Inv, AllReached, Undisturbed
<1>7. Upgrading' /\ Serving'
    BY <1>1, <1>2, <1>4 DEF Upgrading, Serving
<1>8. FailuresAreExplained'
    BY <1>1, <1>3 DEF Inv, FailuresAreExplained
<1>9. QED
    BY <1>5, <1>6, <1>7, <1>8 DEF Inv

LEMMA RevokeRestoredStep == Inv /\ RevokeRestored => Inv'
<1> SUFFICES ASSUME Inv, RevokeRestored PROVE Inv'
    OBVIOUS
<1>1. /\ step' = step /\ failed' = failed /\ up' = up /\ copy' = copy
      /\ creator' = creator /\ disturbed' = disturbed
    BY DEF RevokeRestored
<1>2. db \in FileSet
    BY DEF Inv, Typed
<1>3. /\ db' \in FileSet /\ db'.schema = db.schema /\ db'.version = db.version
      /\ db'.rows = db.rows /\ db'.delivered = db.delivered
    BY <1>2 DEF RevokeRestored, FileSet
<1>4. Typed'
    BY <1>1, <1>3 DEF Inv, Typed
<1>5. /\ Reached(db) => Reached(db')
      /\ Left(db) => Left(db')
      /\ Whole(db) => Whole(db')
    BY <1>3 DEF Reached, Whole, Begun, Left, Stuck
<1>6. AllReached' /\ Undisturbed'
    BY <1>1, <1>5 DEF Inv, AllReached, Undisturbed
<1>7. Ddl' = Ddl
    BY <1>3 DEF Ddl, Target
<1>8. Upgrading' /\ Serving'
    BY <1>1, <1>3, <1>5, <1>7 DEF Inv, Upgrading, Serving
<1>9. FailuresAreExplained'
    BY <1>1, <1>3 DEF Inv, FailuresAreExplained
<1>10. QED
    BY <1>4, <1>6, <1>8, <1>9 DEF Inv

LEMMA RestoreStep == Inv /\ Restore => Inv'
<1> SUFFICES ASSUME Inv, Restore PROVE Inv'
    OBVIOUS
<1>1. /\ ~up /\ step = 0 /\ copy # None /\ db' = copy /\ failed' = "no"
      /\ step' = step /\ up' = up /\ copy' = copy
      /\ creator' = creator /\ disturbed' = disturbed
    BY DEF Restore, history
<1>2. copy \in FileSet
    BY <1>1 DEF Inv, Typed
<1>3. Typed'
    BY <1>1, <1>2 DEF Inv, Typed
<1>4. AllReached' /\ Undisturbed'
    BY <1>1, <1>2 DEF Inv, AllReached, Undisturbed
<1>5. Upgrading' /\ Serving' /\ FailuresAreExplained'
    BY <1>1 DEF Upgrading, Serving, FailuresAreExplained
<1>6. QED
    BY <1>3, <1>4, <1>5 DEF Inv

LEMMA CrashStep == Inv /\ Crash => Inv'
<1> SUFFICES ASSUME Inv, Crash PROVE Inv'
    OBVIOUS
<1>1. /\ disturbed' = (disturbed \/ step # 0)
      /\ step' = 0 /\ up' = FALSE /\ failed' = failed
      /\ db' = db /\ copy' = copy
      /\ creator' = [c \in Creators |-> NoCreator]
    BY DEF Crash, files
<1>2. \A c \in Creators : creator'[c] = NoCreator /\ NoCreator.at \notin Holding
    BY <1>1 DEF NoCreator, Holding
<1>3. creator' \in [Creators -> [at : Places, partial : FileSet \cup {None}]]
    BY <1>1 DEF NoCreator, Places
<1>4. Typed'
    BY <1>1, <1>2, <1>3 DEF Inv, Typed
<1>5. AllReached'
    BY <1>1, <1>2 DEF Inv, AllReached
<1>6. Undisturbed'
    BY <1>1, <1>2 DEF Inv, Undisturbed
<1>7. Upgrading' /\ Serving'
    BY <1>1 DEF Upgrading, Serving
<1>8. FailuresAreExplained'
    BY <1>1 DEF Inv, FailuresAreExplained
<1>9. QED
    BY <1>4, <1>5, <1>6, <1>7, <1>8 DEF Inv

LEMMA LockedOutStep == Inv /\ LockedOut => Inv'
<1> SUFFICES ASSUME Inv, LockedOut PROVE Inv'
    OBVIOUS
<1>1. /\ disturbed' = TRUE /\ step' = 0 /\ up' = up /\ failed' = "locked"
      /\ db' = db /\ copy' = copy /\ creator' = creator /\ ~up
    BY DEF LockedOut, files, Inv, Upgrading
<1>2. Typed' /\ AllReached' /\ Undisturbed' /\ Upgrading' /\ Serving'
    BY <1>1 DEF Inv, Typed, AllReached, Undisturbed, Upgrading, Serving
<1>3. FailuresAreExplained'
    BY <1>1 DEF FailuresAreExplained
<1>4. QED
    BY <1>2, <1>3 DEF Inv

(* A creator that holds its partial file has held it, or copied it just    *)
(* now; nothing but the destination may change besides.                    *)
LEMMA CreatorStep ==
    ASSUME Inv, NEW c \in Creators,
           CheckFree(c) \/ Snapshot(c) \/ Verify(c) \/ Replace(c)
              \/ CheckManifest(c) \/ WriteManifest(c)
    PROVE  /\ db' = db /\ step' = step /\ failed' = failed /\ up' = up
           /\ creator' \in [Creators -> [at : Places, partial : FileSet \cup {None}]]
           /\ \A d \in Creators \ {c} : creator'[d] = creator[d]
           /\ creator'[c].at \in Holding =>
                 \/ /\ creator[c].at \in Holding
                    /\ creator'[c].partial = creator[c].partial
                    /\ disturbed' = disturbed
                 \/ /\ creator'[c].partial = db
                    /\ disturbed' = (disturbed \/ step # 0)
           /\ \/ copy' = copy
              \/ creator[c].at \in Holding /\ copy' = creator[c].partial
           /\ disturbed' \in {disturbed, disturbed \/ step # 0}
<1> DEFINE P == FileSet \cup {None}
           Kept == /\ db' = db /\ step' = step /\ failed' = failed /\ up' = up
<1>1. /\ creator \in [Creators -> [at : Places, partial : P]]
      /\ db \in P
    BY DEF Inv, Typed
<1> HIDE DEF P
<1>2. ASSUME NEW at \in Places, Goto(c, at)
      PROVE  /\ creator' \in [Creators -> [at : Places, partial : P]]
             /\ \A d \in Creators \ {c} : creator'[d] = creator[d]
             /\ creator'[c].at = at /\ creator'[c].partial = creator[c].partial
    BY <1>1, <1>2 DEF Goto
<1>3. ASSUME GiveUp(c)
      PROVE  /\ creator' \in [Creators -> [at : Places, partial : P]]
             /\ \A d \in Creators \ {c} : creator'[d] = creator[d]
             /\ creator'[c].at = "idle"
    <2>1. NoCreator \in [at : Places, partial : P] /\ NoCreator.at = "idle"
        BY DEF NoCreator, Places, P
    <2> HIDE DEF NoCreator
    <2>2. QED
        BY <1>1, <1>3, <2>1 DEF GiveUp
<1>4. CASE CheckFree(c)
    <2>1. Goto(c, "copy") /\ Kept /\ copy' = copy /\ disturbed' = disturbed
        BY <1>4 DEF CheckFree, files
    <2>2. "copy" \in Places /\ "copy" \notin Holding
        BY DEF Places, Holding
    <2>3. QED
        BY <1>2, <2>1, <2>2 DEF P
<1>5. CASE Snapshot(c)
    <2>1. /\ creator' = [creator EXCEPT ![c] = [at |-> "verify", partial |-> db]]
          /\ Kept /\ copy' = copy /\ disturbed' = (disturbed \/ step # 0)
        BY <1>5 DEF Snapshot, files
    <2>2. /\ creator' \in [Creators -> [at : Places, partial : P]]
          /\ \A d \in Creators \ {c} : creator'[d] = creator[d]
          /\ creator'[c].partial = db
        BY <1>1, <2>1 DEF Places, Holding
    <2>3. QED
        BY <2>1, <2>2 DEF P
<1>6. CASE Verify(c)
    <2>1. /\ Goto(c, "replace") \/ GiveUp(c)
          /\ creator[c].at \in Holding
          /\ Kept /\ copy' = copy /\ disturbed' = disturbed
        BY <1>6 DEF Verify, files, history, Holding
    <2>2. "replace" \in Places /\ "idle" \notin Holding
        BY DEF Places, Holding
    <2>3. QED
        BY <1>2, <1>3, <2>1, <2>2 DEF P
<1>7. CASE Replace(c)
    <2>1. /\ Goto(c, "manifest")
          /\ creator[c].at \in Holding /\ copy' = creator[c].partial
          /\ Kept /\ disturbed' = disturbed
        BY <1>7 DEF Replace, history, Holding
    <2>2. "manifest" \in Places
        BY DEF Places, Holding
    <2>3. QED
        BY <1>2, <2>1, <2>2 DEF P
<1>8. CASE CheckManifest(c)
    <2>1. /\ Goto(c, "describe") \/ GiveUp(c)
          /\ creator[c].at \in Holding
          /\ Kept /\ copy' = copy /\ disturbed' = disturbed
        BY <1>8 DEF CheckManifest, files, history, Holding
    <2>2. "describe" \in Places /\ "idle" \notin Holding
        BY DEF Places, Holding
    <2>3. QED
        BY <1>2, <1>3, <2>1, <2>2 DEF P
<1>9. CASE WriteManifest(c)
    <2>1. /\ GiveUp(c) /\ Kept /\ copy' = copy /\ disturbed' = disturbed
        BY <1>9 DEF WriteManifest, history
    <2>2. "idle" \notin Holding
        BY DEF Holding
    <2>3. QED
        BY <1>3, <2>1, <2>2 DEF P
<1>10. QED
    BY <1>4, <1>5, <1>6, <1>7, <1>8, <1>9

LEMMA CreatorsStep ==
    ASSUME Inv, NEW c \in Creators,
           CheckFree(c) \/ Snapshot(c) \/ Verify(c) \/ Replace(c)
              \/ CheckManifest(c) \/ WriteManifest(c)
    PROVE  Inv'
<1>1. /\ db' = db /\ step' = step /\ failed' = failed /\ up' = up
      /\ creator' \in [Creators -> [at : Places, partial : FileSet \cup {None}]]
      /\ \A d \in Creators \ {c} : creator'[d] = creator[d]
      /\ \/ copy' = copy
         \/ creator[c].at \in Holding /\ copy' = creator[c].partial
      /\ disturbed' \in {disturbed, disturbed \/ step # 0}
    BY CreatorStep
<1>2. creator'[c].at \in Holding =>
         \/ /\ creator[c].at \in Holding
            /\ creator'[c].partial = creator[c].partial
            /\ disturbed' = disturbed
         \/ /\ creator'[c].partial = db
            /\ disturbed' = (disturbed \/ step # 0)
    BY CreatorStep
<1>3. /\ db \in FileSet /\ copy \in FileSet \cup {None}
      /\ \A d \in Creators : creator[d].at \in Holding => creator[d].partial \in FileSet
      /\ disturbed \in BOOLEAN
    BY DEF Inv, Typed
<1>4. Typed'
    BY <1>1, <1>2, <1>3 DEF Inv, Typed
<1>5. AllReached'
    BY <1>1, <1>2, <1>3 DEF Inv, AllReached
<1>6. Undisturbed'
    <2> SUFFICES ASSUME ~disturbed' PROVE Undisturbed'
        BY DEF Undisturbed
    <2>1. ~disturbed
        BY <1>1, <1>3
    <2>2. /\ step \in {0, 1} => Left(db)
          /\ copy \in FileSet => Left(copy)
          /\ \A d \in Creators : creator[d].at \in Holding => Left(creator[d].partial)
        BY <2>1 DEF Inv, Undisturbed
    <2>3. \A d \in Creators : creator'[d].at \in Holding => Left(creator'[d].partial)
        BY <1>1, <1>2, <2>1, <2>2
    <2>4. copy' \in FileSet => Left(copy')
        BY <1>1, <1>3, <2>2
    <2>5. QED
        BY <1>1, <2>2, <2>3, <2>4 DEF Undisturbed
<1>7. Upgrading' /\ Serving'
    BY <1>1 DEF Inv, Upgrading, Serving, Ddl, Target
<1>8. FailuresAreExplained'
    BY <1>1, <1>3 DEF Inv, FailuresAreExplained
<1>9. QED
    BY <1>4, <1>5, <1>6, <1>7, <1>8 DEF Inv

LEMMA OtherStep == Inv /\ (Archive \/ UNCHANGED vars) => Inv'
<1> SUFFICES ASSUME Inv, Archive \/ UNCHANGED vars PROVE Inv'
    OBVIOUS
<1>1. /\ db' = db /\ step' = step /\ failed' = failed /\ up' = up
      /\ creator' = creator /\ disturbed' = disturbed
      /\ copy' \in {None, copy}
    BY DEF Archive, vars, files, history
<1>2. copy' \in FileSet => copy' = copy
    BY <1>1, NoneIsNoFile
<1>3. Typed'
    BY <1>1 DEF Inv, Typed
<1>4. AllReached' /\ Undisturbed'
    BY <1>1, <1>2 DEF Inv, AllReached, Undisturbed
<1>5. Upgrading' /\ Serving'
    BY <1>1 DEF Inv, Upgrading, Serving, Ddl, Target
<1>6. FailuresAreExplained'
    BY <1>1 DEF Inv, FailuresAreExplained
<1>7. QED
    BY <1>3, <1>4, <1>5, <1>6 DEF Inv

(* Whatever was interrupted, copied and restored, every file there is has  *)
(* the schema of its version and at most a beginning of the next revision. *)
THEOREM Invariant == Spec => []Inv
<1>1. Init => Inv
    BY Initially
<1>2. Inv /\ [Next]_vars => Inv'
    <2> SUFFICES ASSUME Inv, [Next]_vars PROVE Inv'
        OBVIOUS
    <2>1. CASE BeginUpgrade
        BY <2>1, BeginUpgradeStep
    <2>2. CASE Statement
        BY <2>2, FailedStatementStep, StatementStep
    <2>3. CASE CloseRevision
        BY <2>3, FailedCloseStep, CloseStep
    <2>4. CASE Start \/ Stop \/ Serve
        BY <2>4, StartStep, StopStep, ServeStep
    <2>5. ASSUME NEW c \in Creators,
                 CheckFree(c) \/ Snapshot(c) \/ Verify(c) \/ Replace(c)
                    \/ CheckManifest(c) \/ WriteManifest(c)
          PROVE  Inv'
        BY <2>5, CreatorsStep
    <2>6. CASE Archive \/ UNCHANGED vars
        BY <2>6, OtherStep
    <2>7. CASE Restore \/ RevokeRestored
        BY <2>7, RestoreStep, RevokeRestoredStep
    <2>8. CASE Crash \/ LockedOut
        BY <2>8, CrashStep, LockedOutStep
    <2>9. QED
        BY <2>1, <2>2, <2>3, <2>4, <2>5, <2>6, <2>7, <2>8 DEF Next
<1>3. QED
    BY <1>1, <1>2, PTL DEF Spec

(* However upgrades were interrupted, copied half way and restored, what   *)
(* the application serves from has the whole schema of head.               *)
THEOREM OnlyCompleteSchemasAreServed == Spec => []ServesCompleteSchemaOnly
<1>1. Inv => ServesCompleteSchemaOnly
    BY DEF Inv, Serving, Whole, ServesCompleteSchemaOnly
<1>2. QED
    BY <1>1, Invariant, PTL

(* Of an upgrade that nothing interrupts or locks out, only revision 0006  *)
(* fails, and only on a delivery or on what its earlier failure left       *)
(* behind.                                                                 *)
THEOREM UpgradesFailAsExplained == Spec => []FailuresAreExplained
<1>1. Inv => FailuresAreExplained
    BY DEF Inv
<1>2. QED
    BY <1>1, Invariant, PTL

-----------------------------------------------------------------------------
(* Sessions that ended *)

(* Between a restore and the revocation old sessions are alive again, but  *)
(* then nothing serves.                                                    *)
Revived ==
    /\ up => ~pending
    /\ ~pending => db.live \cap ended = {}

LEMMA RevivedStep == Inv /\ Revived /\ [Next]_vars => Revived'
<1> SUFFICES ASSUME Inv, Revived, [Next]_vars PROVE Revived'
    OBVIOUS
<1>1. db \in FileSet
    BY DEF Inv, Typed
<1>2. CASE Statement
    <2>1. db'.live = db.live
        BY <1>1, <1>2 DEF Statement, FileSet
    <2>2. up' = up /\ pending' = pending /\ ended' = ended
        BY <1>2 DEF Statement, history
    <2>3. QED
        BY <2>1, <2>2 DEF Revived
<1>3. CASE CloseRevision
    <2>1. up' = up /\ pending' = pending
        BY <1>3 DEF CloseRevision
    <2>2. \/ db'.live = db.live /\ ended' = ended
          \/ db'.live = {}
        BY <1>1, <1>3 DEF CloseRevision, FileSet
    <2>3. QED
        BY <2>1, <2>2 DEF Revived
<1>4. CASE Start \/ Stop
    BY <1>4 DEF Start, Stop, Revived, files, history
<1>5. CASE Serve
    <2>1. up /\ up' = up /\ pending' = pending
        BY <1>5 DEF Serve
    <2>2. db.live \cap ended = {}
        BY <2>1 DEF Revived
    <2>3. db'.live \cap ended' = {}
        <3>1. CASE \E s \in Sessions \ (db.rows \cup ended) :
                      /\ db' = [db EXCEPT !.rows = @ \cup {s}, !.live = @ \cup {s}]
                      /\ UNCHANGED ended
            <4>1. PICK s \in Sessions \ (db.rows \cup ended) :
                     /\ db' = [db EXCEPT !.rows = @ \cup {s}, !.live = @ \cup {s}]
                     /\ UNCHANGED ended
                BY <3>1
            <4>2. db'.live = db.live \cup {s} /\ ended' = ended /\ s \notin ended
                BY <1>1, <4>1 DEF FileSet
            <4>3. QED
                BY <2>2, <4>2
        <3>2. CASE \E s \in db.live :
                      /\ db' = [db EXCEPT !.live = @ \ {s}]
                      /\ ended' = ended \cup {s}
            <4>1. PICK s \in db.live :
                     db' = [db EXCEPT !.live = @ \ {s}] /\ ended' = ended \cup {s}
                BY <3>2
            <4>2. db'.live = db.live \ {s}
                BY <1>1, <4>1 DEF FileSet
            <4>3. QED
                BY <2>2, <4>1, <4>2
        <3>3. CASE db' = [db EXCEPT !.delivered = TRUE] /\ UNCHANGED ended
            <4>1. db'.live = db.live
                BY <1>1, <3>3 DEF FileSet
            <4>2. QED
                BY <2>2, <3>3, <4>1
        <3>4. QED
            BY <1>5, <3>1, <3>2, <3>3 DEF Serve
    <2>4. QED
        BY <2>1, <2>3 DEF Revived
<1>6. CASE Restore
    BY <1>6 DEF Restore, Revived
<1>7. CASE RevokeRestored
    <2>1. db'.live = {}
        BY <1>1, <1>7 DEF RevokeRestored, FileSet
    <2>2. QED
        BY <1>7, <2>1 DEF RevokeRestored, Revived
<1>8. CASE Crash \/ LockedOut
    BY <1>8 DEF Crash, LockedOut, Revived, files
<1>9. CASE \/ BeginUpgrade \/ Archive \/ UNCHANGED vars
           \/ \E c \in Creators :
                 CheckFree(c) \/ Snapshot(c) \/ Verify(c) \/ Replace(c)
                    \/ CheckManifest(c) \/ WriteManifest(c)
    BY <1>9 DEF BeginUpgrade, Archive, vars, files, history, CheckFree, Snapshot,
                Verify, Replace, CheckManifest, WriteManifest, Revived
<1>10. QED
    BY <1>2, <1>3, <1>4, <1>5, <1>6, <1>7, <1>8, <1>9 DEF Next

(* A session that was logged out or revoked is not alive in what serves,   *)
(* whatever was restored.                                                  *)
THEOREM RecoveryRevivesNoSession == Spec => []EndedSessionsStayEnded
<1>1. Init => Revived
    BY DEF Init, Revived
<1>2. Revived => EndedSessionsStayEnded
    BY DEF Revived, EndedSessionsStayEnded
<1>3. QED
    BY <1>1, <1>2, Invariant, RevivedStep, PTL DEF Spec

-----------------------------------------------------------------------------
(* The copy and its manifest *)

(* Only one run of "backup create" is under way, ... *)
Alone(c) == \A d \in Creators \ {c} : creator[d].at = "idle"
(* ... it found no manifest, and the copy is none or its own. *)
Owns(c) ==
    /\ manifest = None
    /\ creator[c].at \in {"copy", "verify", "replace"} => copy = None
    /\ creator[c].at \in {"manifest", "describe"} => copy = creator[c].partial

Manifested ==
    ~overlapped =>
       /\ manifest # None => copy = manifest
       /\ \A c \in Creators : creator[c].at # "idle" => Alone(c) /\ Owns(c)

(* The steps of the run that is alone. *)
LEMMA ManifestedStep ==
    ASSUME Inv, Manifested, NEW c \in Creators,
           CheckFree(c) \/ Snapshot(c) \/ Verify(c) \/ Replace(c)
              \/ CheckManifest(c) \/ WriteManifest(c)
    PROVE  Manifested'
<1> SUFFICES ASSUME ~overlapped' PROVE Manifested'
    BY DEF Manifested
<1>1. /\ \A d \in Creators \ {c} : creator'[d] = creator[d]
      /\ creator \in [Creators -> [at : Places, partial : FileSet \cup {None}]]
    BY CreatorStep DEF Inv, Typed
<1>2. ~overlapped /\ Alone(c)
    <2>1. CASE CheckFree(c)
        <3>1. overlapped' = (overlapped \/ \E d \in Creators \ {c} : creator[d].at # "idle")
            BY <2>1 DEF CheckFree
        <3>2. QED
            BY <3>1 DEF Alone
    <2>2. CASE ~CheckFree(c)
        <3>1. overlapped' = overlapped /\ creator[c].at # "idle"
            BY <2>2 DEF Snapshot, Verify, Replace, CheckManifest, WriteManifest, history
        <3>2. QED
            BY <3>1 DEF Manifested
    <2>3. QED
        BY <2>1, <2>2
<1>3. \A d \in Creators \ {c} : creator'[d].at = "idle"
    BY <1>1, <1>2 DEF Alone
<1>4. /\ manifest # None => copy = manifest
      /\ creator[c].at # "idle" => Owns(c)
    BY <1>2 DEF Manifested
<1>5. ASSUME NEW at, Goto(c, at)
      PROVE  creator'[c].at = at /\ creator'[c].partial = creator[c].partial
    BY <1>1, <1>5 DEF Goto
<1>6. ASSUME GiveUp(c) PROVE creator'[c].at = "idle"
    BY <1>1, <1>6 DEF GiveUp, NoCreator
<1>7. /\ manifest' # None => copy' = manifest'
      /\ creator'[c].at # "idle" =>
            /\ manifest' = None
            /\ creator'[c].at \in {"copy", "verify", "replace"} => copy' = None
            /\ creator'[c].at \in {"manifest", "describe"} => copy' = creator'[c].partial
    <2>1. CASE CheckFree(c)
        <3>1. /\ copy = None /\ manifest = None /\ copy' = copy /\ manifest' = manifest
              /\ Goto(c, "copy")
            BY <2>1 DEF CheckFree, files
        <3>2. QED
            BY <1>5, <3>1
    <2>2. CASE Snapshot(c)
        <3>1. /\ creator' = [creator EXCEPT ![c] = [at |-> "verify", partial |-> db]]
              /\ creator[c].at = "copy" /\ copy' = copy /\ manifest' = manifest
            BY <2>2 DEF Snapshot, files
        <3>2. creator'[c].at = "verify"
            BY <1>1, <3>1
        <3>3. QED
            BY <1>4, <3>1, <3>2 DEF Owns
    <2>3. CASE Verify(c)
        <3>1. /\ Goto(c, "replace") \/ GiveUp(c)
              /\ creator[c].at = "verify" /\ copy' = copy /\ manifest' = manifest
            BY <2>3 DEF Verify, files
        <3>2. QED
            BY <1>4, <1>5, <1>6, <3>1 DEF Owns
    <2>4. CASE Replace(c)
        <3>1. /\ Goto(c, "manifest") /\ copy' = creator[c].partial
              /\ creator[c].at = "replace" /\ manifest' = manifest
            BY <2>4 DEF Replace
        <3>2. QED
            BY <1>4, <1>5, <3>1 DEF Owns
    <2>5. CASE CheckManifest(c)
        <3>1. /\ Goto(c, "describe") \/ GiveUp(c)
              /\ creator[c].at = "manifest" /\ copy' = copy /\ manifest' = manifest
            BY <2>5 DEF CheckManifest, files
        <3>2. QED
            BY <1>4, <1>5, <1>6, <3>1 DEF Owns
    <2>6. CASE WriteManifest(c)
        <3>1. /\ GiveUp(c) /\ manifest' = creator[c].partial
              /\ creator[c].at = "describe" /\ copy' = copy
            BY <2>6 DEF WriteManifest
        <3>2. QED
            BY <1>4, <1>6, <3>1 DEF Owns
    <2>7. QED
        BY <2>1, <2>2, <2>3, <2>4, <2>5, <2>6
<1>8. QED
    BY <1>3, <1>7 DEF Manifested, Alone, Owns

LEMMA ManifestedKept ==
    Inv /\ Manifested /\ [Next]_vars => Manifested'
<1> SUFFICES ASSUME Inv, Manifested, [Next]_vars PROVE Manifested'
    OBVIOUS
<1>1. ASSUME NEW c \in Creators,
             CheckFree(c) \/ Snapshot(c) \/ Verify(c) \/ Replace(c)
                \/ CheckManifest(c) \/ WriteManifest(c)
      PROVE  Manifested'
    BY <1>1, ManifestedStep
<1>2. CASE Archive
    BY <1>2 DEF Archive, Manifested, history
<1>3. CASE Crash
    <2>1. /\ copy' = copy /\ manifest' = manifest /\ overlapped' = overlapped
          /\ \A c \in Creators : creator'[c].at = "idle"
        BY <1>3 DEF Crash, files, NoCreator
    <2>2. QED
        BY <2>1 DEF Manifested
<1>4. CASE \/ BeginUpgrade \/ Statement \/ CloseRevision
           \/ LockedOut \/ Start \/ Stop \/ Serve \/ Restore \/ RevokeRestored
           \/ UNCHANGED vars
    <2>1. /\ copy' = copy /\ manifest' = manifest
          /\ creator' = creator /\ overlapped' = overlapped
        BY <1>4 DEF BeginUpgrade, Statement, CloseRevision, LockedOut, Start, Stop,
                    Serve, Restore, RevokeRestored, vars, files, history
    <2>2. QED
        BY <2>1 DEF Manifested, Alone, Owns
<1>5. QED
    BY <1>1, <1>2, <1>3, <1>4 DEF Next

(* Wherever a run of "backup create" stops, a manifest that exists         *)
(* describes the copy beside it, unless two runs overlapped.               *)
THEOREM ManifestsDescribeTheirCopy == Spec => []ManifestDescribesTheCopy
<1>1. Init => Manifested
    BY DEF Init, Manifested, NoCreator
<1>2. Manifested => ManifestDescribesTheCopy
    BY DEF Manifested, ManifestDescribesTheCopy
<1>3. QED
    BY <1>1, <1>2, Invariant, ManifestedKept, PTL DEF Spec

===============================================================================
