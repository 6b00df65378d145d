------------------------------ MODULE IngestLog ------------------------------
(***************************************************************************)
(* What native ingestion promises its producers and its subscribers        *)
(* (docs/idempotent-ingestion.md, docs/notification-engine.md Slice 7):    *)
(* a publish takes effect once and at one instant.  At that instant the    *)
(* notification joins the log and every user who is then subscribed to its *)
(* channel, and active, gets one copy of it.  Whatever a producer is later *)
(* told names an entry that is already in the log.                         *)
(*                                                                         *)
(* This module knows nothing of requests, lookups, locks, retries or       *)
(* crashes; Ingest.tla is shown to implement it.                           *)
(***************************************************************************)
EXTENDS Naturals, Sequences

CONSTANTS Sources, Keys, NoKey, Payloads, ChannelOf, Users

VARIABLES
    notifs,      \* the log: notification i is notifs[i]
    deliveries,  \* the copies that exist: pairs <<i, user>>
    subs,        \* enabled subscriptions: pairs <<user, channel>>
    active,      \* users whose account is active
    answers      \* every answer a producer has received

logVars == <<notifs, deliveries, subs, active, answers>>

Entry == [src : Sources, key : Keys \cup {NoKey}, payload : Payloads]

Audience(c) == {u \in active : <<u, c>> \in subs}

LogInit ==
    /\ notifs = <<>>
    /\ deliveries = {}
    /\ answers = {}

(* A publish takes effect: the key is new to its source, the notification  *)
(* is appended, and the audience of this instant gets its copies.          *)
Accept(e) ==
    /\ e.key = NoKey \/ \A i \in DOMAIN notifs :
                           ~(notifs[i].src = e.src /\ notifs[i].key = e.key)
    /\ notifs' = Append(notifs, e)
    /\ deliveries' = deliveries \cup
          {<<Len(notifs) + 1, u>> : u \in Audience(ChannelOf[e.payload])}
    /\ UNCHANGED <<subs, active, answers>>

(* A producer is told the outcome of its request e: a stored notification  *)
(* with e's own content, or that its key already names other content.      *)
(* "created" is said of a notification once.                               *)
Truthful(e, kind, i) ==
    /\ i \in DOMAIN notifs
    /\ notifs[i].src = e.src
    /\ notifs[i].key = e.key
    /\ kind \in {"created", "replayed"} => notifs[i].payload = e.payload
    /\ kind = "conflict" => notifs[i].payload # e.payload
    /\ kind \in {"replayed", "conflict"} => e.key # NoKey

Tell(e, kind, i) ==
    /\ Truthful(e, kind, i)
    /\ kind = "created" => \A a \in answers : ~(a.kind = "created" /\ a.id = i)
    /\ answers' = answers \cup {[req |-> e, kind |-> kind, id |-> i]}
    /\ UNCHANGED <<notifs, deliveries, subs, active>>

(* A subscriber's copy goes away, at any time, for good. *)
Dismiss(d) ==
    /\ d \in deliveries
    /\ deliveries' = deliveries \ {d}
    /\ UNCHANGED <<notifs, subs, active, answers>>

(* Subscriptions and accounts change at any time; what is delivered stays. *)
Rearrange ==
    /\ <<subs, active>>' # <<subs, active>>
    /\ UNCHANGED <<notifs, deliveries, answers>>

LogNext ==
    \/ \E e \in Entry : Accept(e)
    \/ \E e \in Entry, kind \in {"created", "replayed", "conflict"} :
          \E i \in DOMAIN notifs : Tell(e, kind, i)
    \/ \E d \in deliveries : Dismiss(d)
    \/ Rearrange

LogSpec == LogInit /\ [][LogNext]_logVars

==============================================================================
