------------------------------- MODULE Ingest -------------------------------
(***************************************************************************)
(* Notification ingestion and subscription fanout.                         *)
(*                                                                         *)
(* POST /api/v1/notifications (routers/notifications.py) and the ntfy      *)
(* publish route (routers/compatibility.py) both end in                    *)
(* notification_service.persist_notification_idempotent, which looks the   *)
(* idempotency key up, inserts, fans out (delivery_service) and commits.   *)
(* Handlers run concurrently in the server's thread pool.  A SELECT sees   *)
(* committed rows only and holds nothing; the first INSERT takes SQLite's  *)
(* single write lock, which COMMIT or ROLLBACK releases.  So a request is  *)
(* a sequence of steps and other requests run between any two of them.     *)
(***************************************************************************)
EXTENDS Naturals, Sequences, FiniteSets

CONSTANTS
    Producers,   \* token holders; each has at most one request in flight
    Sources,     \* Source slugs a request may name
    MayPublish,  \* pairs <<producer, source>>: the token's identity owns it
    Keys,        \* Idempotency-Key values
    NoKey,       \* no Idempotency-Key header (and every ntfy publish)
    Payloads,    \* what _assert_idempotent_payload_matches compares
    ChannelOf,   \* the channel a payload is addressed to
    Channels,
    Users,
    Nobody,      \* the write lock is free
    MaxFaults    \* bound: lock timeouts, failed commits, lost answers, crashes
                 \* and duplicates of answered requests

ASSUME NobodyAssumption == Nobody \notin Producers
ASSUME KeyAssumption == NoKey \notin Keys
ASSUME RouteAssumption ==
    /\ MayPublish \subseteq Producers \X Sources
    /\ ChannelOf \in [Payloads -> Channels]
ASSUME BoundAssumption == MaxFaults \in Nat

VARIABLES
    notifs,      \* committed notifications; the row with id i is notifs[i]
    deliveries,  \* committed Delivery rows, as pairs <<notification id, user>>
    subs,        \* enabled Subscription rows
    active,      \* users with is_active
    revoked,     \* producers whose token is no longer accepted
    writer,      \* the request whose transaction holds the write lock
    fan,         \* the users the open transaction has added deliveries for
    pc, req, out, \* per producer: where its request is, what it asks, its result
    answers,     \* every 200, 201 and 409 a producer has received
    faults

db == <<notifs, deliveries, subs, active, revoked>>
vars == <<db, writer, fan, pc, req, out, answers, faults>>

Entry == [src : Sources, key : Keys \cup {NoKey}, payload : Payloads]
Kinds == {"created", "replayed", "conflict", "refused"}
Result(kind, i) == [kind |-> kind, id |-> i]
NoResult == Result("refused", 0)
PC == {"idle", "auth", "lookup", "insert", "fanout", "commit", "relookup",
       "respond", "retry", "done"}

(* _existing_idempotent_notification: committed rows with this source and  *)
(* digest.                                                                 *)
Existing(q) == {i \in DOMAIN notifs :
                   notifs[i].src = q.src /\ notifs[i].key = q.key}

(* Mutant of Audience: deactivated users still get copies. *)
AudienceOfAll(c) == {u \in Users : <<u, c>> \in subs}

(* The rows fanout_notification selects: active users with an enabled      *)
(* subscription to the channel.                                            *)
Audience(c) == {u \in active : <<u, c>> \in subs}

(* Mutant of ReplayOf: the content is not compared. *)
ReplayUnchecked(q, i) == Result("replayed", i)

(* _replayed_result: the same content answers 200 with the original,       *)
(* different content answers 409.                                          *)
ReplayOf(q, i) == Result(IF notifs[i].payload = q.payload
                           THEN "replayed" ELSE "conflict", i)

Init ==
    /\ notifs = <<>>
    /\ deliveries = {}
    /\ subs \in SUBSET (Users \X Channels)
    /\ active = Users
    /\ revoked = {}
    /\ writer = Nobody
    /\ fan = {}
    /\ pc = [p \in Producers |-> "idle"]
    /\ req \in [Producers -> Entry]
    /\ out = [p \in Producers |-> NoResult]
    /\ answers = {}
    /\ faults = 0

-----------------------------------------------------------------------------
(* The request *)

Goto(p, label) == pc' = [pc EXCEPT ![p] = label]

(* The producer sends its request. *)
Send(p) ==
    /\ pc[p] = "idle"
    /\ Goto(p, "auth")
    /\ UNCHANGED <<db, writer, fan, req, out, answers, faults>>

(* require_scope, then resolve_route: a token that is off, or a source of  *)
(* another identity, is refused before anything is read or written.        *)
Authorise(p) ==
    /\ pc[p] = "auth"
    /\ IF p \in revoked \/ <<p, req[p].src>> \notin MayPublish
         THEN Goto(p, "respond")
         ELSE Goto(p, IF req[p].key = NoKey THEN "insert" ELSE "lookup")
    /\ UNCHANGED <<db, writer, fan, req, out, answers, faults>>

(* The lookup that precedes the insert. *)
Lookup(p) ==
    /\ pc[p] = "lookup"
    /\ \/ /\ Existing(req[p]) = {}
          /\ Goto(p, "insert")
          /\ UNCHANGED out
       \/ \E i \in Existing(req[p]) :
             /\ out' = [out EXCEPT ![p] = ReplayOf(req[p], i)]
             /\ Goto(p, "respond")
    /\ UNCHANGED <<db, writer, fan, req, answers, faults>>

(* Mutant of Insert: no unique constraint on source and key. *)
InsertUnchecked(p) ==
    /\ pc[p] = "insert"
    /\ writer = Nobody
    /\ Goto(p, "fanout")
    /\ writer' = p
    /\ UNCHANGED <<db, fan, req, out, answers, faults>>

(* session.flush() sends the INSERT: it waits for the write lock.  With a  *)
(* key that is taken by now, the unique constraint fails the statement and *)
(* session.rollback() gives the lock back; otherwise the lock is kept.     *)
Insert(p) ==
    /\ pc[p] = "insert"
    /\ writer = Nobody
    /\ IF req[p].key # NoKey /\ Existing(req[p]) # {}
         THEN /\ Goto(p, "relookup")
              /\ UNCHANGED writer
         ELSE /\ Goto(p, "fanout")
              /\ writer' = p
    /\ UNCHANGED <<db, fan, req, out, answers, faults>>

(* The lookup in the IntegrityError handler.  Finding nothing would        *)
(* re-raise as a 500.                                                      *)
Relookup(p) ==
    /\ pc[p] = "relookup"
    /\ \/ /\ Existing(req[p]) = {}
          /\ Goto(p, "retry")
          /\ UNCHANGED out
       \/ \E i \in Existing(req[p]) :
             /\ out' = [out EXCEPT ![p] = ReplayOf(req[p], i)]
             /\ Goto(p, "respond")
    /\ UNCHANGED <<db, writer, fan, req, answers, faults>>

(* Mutant of Fanout: keeps the subscription rows instead of their users. *)
FanoutRows(p) ==
    /\ pc[p] = "fanout"
    /\ fan' = {s \in subs : s[1] \in active}
    /\ Goto(p, "commit")
    /\ UNCHANGED <<db, writer, req, out, answers, faults>>

(* fanout_notification: one row per subscribed active user, none of whom   *)
(* has one for a notification that is not committed yet.                   *)
Fanout(p) ==
    /\ pc[p] = "fanout"
    /\ fan' = Audience(ChannelOf[req[p].payload])
    /\ Goto(p, "commit")
    /\ UNCHANGED <<db, writer, req, out, answers, faults>>

(* session.commit(): the notification and its deliveries become visible    *)
(* together and the lock is released.                                      *)
Commit(p) ==
    /\ pc[p] = "commit"
    /\ notifs' = Append(notifs, req[p])
    /\ deliveries' = deliveries \cup {<<Len(notifs) + 1, u>> : u \in fan}
    /\ out' = [out EXCEPT ![p] = Result("created", Len(notifs) + 1)]
    /\ writer' = Nobody
    /\ fan' = {}
    /\ Goto(p, "respond")
    /\ UNCHANGED <<subs, active, revoked, req, answers, faults>>

(* create_notification returns and the answer reaches the producer. *)
Respond(p) ==
    /\ pc[p] = "respond"
    /\ answers' = IF out[p].kind = "refused" THEN answers
                  ELSE answers \cup {[req |-> req[p], kind |-> out[p].kind,
                                      id |-> out[p].id]}
    /\ out' = [out EXCEPT ![p] = NoResult]
    /\ Goto(p, "done")
    /\ UNCHANGED <<db, writer, fan, req, faults>>

-----------------------------------------------------------------------------
(* What goes wrong, and what producers do about it *)

Fault == faults < MaxFaults /\ faults' = faults + 1

(* The INSERT waited out SQLite's busy timeout: OperationalError, a 500. *)
LockTimeout(p) ==
    /\ pc[p] = "insert"
    /\ writer # Nobody
    /\ Fault
    /\ Goto(p, "retry")
    /\ UNCHANGED <<db, writer, fan, req, out, answers>>

(* Mutant of TransactionFails: no rollback, the lock is never given back. *)
TransactionHangs(p) ==
    /\ pc[p] \in {"fanout", "commit"}
    /\ Fault
    /\ fan' = {}
    /\ Goto(p, "retry")
    /\ UNCHANGED <<db, writer, req, out, answers>>

(* fanout or COMMIT raises; get_db closes the session, which rolls the     *)
(* whole transaction back.                                                 *)
TransactionFails(p) ==
    /\ pc[p] \in {"fanout", "commit"}
    /\ Fault
    /\ writer' = Nobody
    /\ fan' = {}
    /\ Goto(p, "retry")
    /\ UNCHANGED <<db, req, out, answers>>

(* The answer is lost on the way: the producer cannot tell what happened. *)
LoseAnswer(p) ==
    /\ pc[p] = "respond"
    /\ Fault
    /\ out' = [out EXCEPT ![p] = NoResult]
    /\ Goto(p, "retry")
    /\ UNCHANGED <<db, writer, fan, req, answers>>

InFlight == {p \in Producers : pc[p] \notin {"idle", "retry", "done"}}

(* The process dies.  Every request in flight loses its connection, and    *)
(* SQLite's journal undoes the open transaction on the next start.         *)
Crash ==
    /\ InFlight # {}
    /\ Fault
    /\ pc' = [p \in Producers |-> IF p \in InFlight THEN "retry" ELSE pc[p]]
    /\ out' = [p \in Producers |-> NoResult]
    /\ writer' = Nobody
    /\ fan' = {}
    /\ UNCHANGED <<db, req, answers>>

(* At-least-once producer: the same request, the same key, again. *)
Retry(p) ==
    /\ pc[p] = "retry"
    /\ Goto(p, "auth")
    /\ UNCHANGED <<db, writer, fan, req, out, answers, faults>>

(* A duplicate of a request that was already answered. *)
Resend(p) ==
    /\ pc[p] = "done"
    /\ Fault
    /\ Goto(p, "auth")
    /\ UNCHANGED <<db, writer, fan, req, out, answers>>

-----------------------------------------------------------------------------
(* Other writers of the same database: each commit needs the write lock.   *)
(* Subscriptions.tla and InboxMutations.tla model these handlers step by   *)
(* step; here they are their committed effect.                             *)

Subscribe(u, c) ==
    /\ writer = Nobody
    /\ <<u, c>> \notin subs
    /\ subs' = subs \cup {<<u, c>>}
    /\ UNCHANGED <<notifs, deliveries, active, revoked, writer, fan, pc, req,
                   out, answers, faults>>

Unsubscribe(u, c) ==
    /\ writer = Nobody
    /\ <<u, c>> \in subs
    /\ subs' = subs \ {<<u, c>>}
    /\ UNCHANGED <<notifs, deliveries, active, revoked, writer, fan, pc, req,
                   out, answers, faults>>

(* No route sets is_active; an operator does, in the database. *)
Deactivate(u) ==
    /\ writer = Nobody
    /\ u \in active
    /\ active' = active \ {u}
    /\ UNCHANGED <<notifs, deliveries, subs, revoked, writer, fan, pc, req,
                   out, answers, faults>>

DeleteDelivery(d) ==
    /\ writer = Nobody
    /\ deliveries' = deliveries \ {d}
    /\ UNCHANGED <<notifs, subs, active, revoked, writer, fan, pc, req, out,
                   answers, faults>>

RevokeToken(p) ==
    /\ writer = Nobody
    /\ p \notin revoked
    /\ revoked' = revoked \cup {p}
    /\ UNCHANGED <<notifs, deliveries, subs, active, writer, fan, pc, req, out,
                   answers, faults>>

-----------------------------------------------------------------------------
Handle(p) ==
    \/ Send(p) \/ Authorise(p) \/ Lookup(p) \/ Insert(p) \/ Relookup(p)
    \/ Fanout(p) \/ Commit(p) \/ Respond(p) \/ Retry(p)

Disturb(p) ==
    \/ LockTimeout(p) \/ TransactionFails(p) \/ LoseAnswer(p) \/ Resend(p)
    \/ RevokeToken(p)

Next ==
    \/ \E p \in Producers : Handle(p) \/ Disturb(p)
    \/ Crash
    \/ \E u \in Users, c \in Channels : Subscribe(u, c) \/ Unsubscribe(u, c)
    \/ \E u \in Users : Deactivate(u)
    \/ \E d \in deliveries : DeleteDelivery(d)

Spec == Init /\ [][Next]_vars

(* The server runs every handler it has started, and at-least-once         *)
(* producers retry.  Nothing stronger is needed for the write lock: each   *)
(* transaction ends, and only finitely many compete.                       *)
Fairness == \A p \in Producers : WF_vars(Handle(p))

FairSpec == Spec /\ Fairness

-----------------------------------------------------------------------------
TypeOK ==
    /\ notifs \in Seq(Entry)
    /\ deliveries \subseteq (Nat \X Users)
    /\ subs \subseteq (Users \X Channels)
    /\ active \subseteq Users
    /\ revoked \subseteq Producers
    /\ writer \in Producers \cup {Nobody}
    /\ fan \subseteq Users
    /\ pc \in [Producers -> PC]
    /\ req \in [Producers -> Entry]
    /\ out \in [Producers -> [kind : Kinds, id : Nat]]
    /\ answers \subseteq [req : Entry, kind : Kinds, id : Nat]
    /\ faults \in 0 .. MaxFaults

(* A source never has two notifications under one idempotency key, however *)
(* many duplicates of a request race each other, time out, fail or are     *)
(* retried after a crash (persist_notification_idempotent).                *)
OneNotificationPerKey ==
    \A i, j \in DOMAIN notifs :
        /\ notifs[i].key # NoKey
        /\ notifs[i].key = notifs[j].key
        /\ notifs[i].src = notifs[j].src
        => i = j

(* All successful answers ever given for a source's key name the same      *)
(* notification and the same content, and that notification is stored; a   *)
(* 409 is given only to a request whose content differs from the stored    *)
(* one (_replayed_result, create_notification).                            *)
AnswersAgree ==
    \A a \in answers :
        /\ a.id \in DOMAIN notifs
        /\ a.kind = "conflict" <=> notifs[a.id].payload # a.req.payload
        /\ \A b \in answers :
              /\ a.req.key # NoKey
              /\ a.req.key = b.req.key
              /\ a.req.src = b.req.src
              => a.id = b.id

(* The steps of the handler, taken together, are one atomic publish: see   *)
(* IngestLog.                                                              *)
Log == INSTANCE IngestLog WITH
    notifs <- notifs, deliveries <- deliveries, subs <- subs, active <- active,
    answers <- answers
ImplementsLog == Log!LogSpec

(* Every producer that keeps retrying is told the outcome of its request.  *)
EveryRequestIsAnswered == \A p \in Producers : pc[p] = "auth" ~> pc[p] = "done"

=============================================================================
