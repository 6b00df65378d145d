---------------------------- MODULE IngestProofs ----------------------------
(***************************************************************************)
(* Proofs about publishing: about Ingest, for every number of producers,   *)
(* sources, keys, payloads and users, and every bound on faults, and about *)
(* the subscriptions it fans out to (Subscriptions, whose names all differ *)
(* from those of Ingest), for every number of requests.                    *)
(***************************************************************************)
EXTENDS Ingest, Subscriptions, TLAPS

(* Requests, tables and results start in their types. *)
LEMMA InitTypeOK == Init => TypeOK
BY RouteAssumption, BoundAssumption
   DEF Init, TypeOK, Entry, PC, NoResult, Result, Kinds

(* A replayed result is a result. *)
LEMMA ReplayTyped ==
  ASSUME TypeOK, NEW q \in Entry, NEW i \in Existing(q)
  PROVE  ReplayOf(q, i) \in [kind : Kinds, id : Nat]
BY DEF TypeOK, ReplayOf, Result, Kinds, Existing

(* Each step keeps every variable in its type. *)
LEMMA NextTypeOK == TypeOK /\ [Next]_vars => TypeOK'
<1> SUFFICES ASSUME TypeOK, [Next]_vars PROVE TypeOK'
  OBVIOUS
<1> USE RouteAssumption, BoundAssumption DEF TypeOK
<1>1. ASSUME NEW p \in Producers, Handle(p) PROVE TypeOK'
  <2>1. CASE Send(p)
    BY <2>1 DEF Send, Goto, db, PC
  <2>2. CASE Authorise(p)
    BY <2>2 DEF Authorise, Goto, db, PC
  <2>3. CASE Lookup(p)
    <3>1. pc' \in [Producers -> PC]
      BY <2>3 DEF Lookup, Goto, PC
    <3>2. out' \in [Producers -> [kind : Kinds, id : Nat]]
      <4>1. req[p] \in Entry
        OBVIOUS
      <4>2. \A i \in Existing(req[p]) :
               ReplayOf(req[p], i) \in [kind : Kinds, id : Nat]
        BY <4>1, ReplayTyped
      <4>3. \/ out' = out
            \/ \E i \in Existing(req[p]) :
                  out' = [out EXCEPT ![p] = ReplayOf(req[p], i)]
        BY <2>3 DEF Lookup
      <4>4. out \in [Producers -> [kind : Kinds, id : Nat]]
        OBVIOUS
      <4> HIDE DEF TypeOK
      <4> QED
        BY <4>2, <4>3, <4>4
    <3> QED
      BY <2>3, <3>1, <3>2 DEF Lookup, db
  <2>4. CASE Insert(p)
    BY <2>4 DEF Insert, Goto, db, PC
  <2>5. CASE Relookup(p)
    <3>1. pc' \in [Producers -> PC]
      BY <2>5 DEF Relookup, Goto, PC
    <3>2. out' \in [Producers -> [kind : Kinds, id : Nat]]
      <4>1. req[p] \in Entry
        OBVIOUS
      <4>2. \A i \in Existing(req[p]) :
               ReplayOf(req[p], i) \in [kind : Kinds, id : Nat]
        BY <4>1, ReplayTyped
      <4>3. \/ out' = out
            \/ \E i \in Existing(req[p]) :
                  out' = [out EXCEPT ![p] = ReplayOf(req[p], i)]
        BY <2>5 DEF Relookup
      <4>4. out \in [Producers -> [kind : Kinds, id : Nat]]
        OBVIOUS
      <4> HIDE DEF TypeOK
      <4> QED
        BY <4>2, <4>3, <4>4
    <3> QED
      BY <2>5, <3>1, <3>2 DEF Relookup, db
  <2>6. CASE Fanout(p)
    BY <2>6 DEF Fanout, Goto, db, PC, Audience
  <2>7. CASE Commit(p)
    BY <2>7 DEF Commit, Goto, db, PC, Result, Kinds
  <2>8. CASE Respond(p)
    BY <2>8 DEF Respond, Goto, db, PC, NoResult, Result, Kinds
  <2>9. CASE Retry(p)
    BY <2>9 DEF Retry, Goto, db, PC
  <2> QED
    BY <1>1, <2>1, <2>2, <2>3, <2>4, <2>5, <2>6, <2>7, <2>8, <2>9 DEF Handle
<1>2. ASSUME NEW p \in Producers, Disturb(p) PROVE TypeOK'
  <2>1. CASE LockTimeout(p)
    BY <2>1 DEF LockTimeout, Fault, Goto, db, PC
  <2>2. CASE TransactionFails(p)
    BY <2>2 DEF TransactionFails, Fault, Goto, db, PC
  <2>3. CASE LoseAnswer(p)
    BY <2>3 DEF LoseAnswer, Fault, Goto, db, PC, NoResult, Result, Kinds
  <2>4. CASE Resend(p)
    BY <2>4 DEF Resend, Fault, Goto, db, PC
  <2>5. CASE RevokeToken(p)
    BY <2>5 DEF RevokeToken
  <2> QED
    BY <1>2, <2>1, <2>2, <2>3, <2>4, <2>5 DEF Disturb
<1>3. CASE Crash
  <2>1. pc' \in [Producers -> PC]
    BY <1>3 DEF Crash, PC
  <2>2. out' \in [Producers -> [kind : Kinds, id : Nat]]
    BY <1>3 DEF Crash, NoResult, Result, Kinds
  <2>3. faults' \in 0 .. MaxFaults
    BY <1>3 DEF Crash, Fault
  <2> QED
    BY <1>3, <2>1, <2>2, <2>3 DEF Crash, db
<1>4. ASSUME NEW u \in Users, NEW c \in Channels,
             Subscribe(u, c) \/ Unsubscribe(u, c)
      PROVE  TypeOK'
  BY <1>4 DEF Subscribe, Unsubscribe
<1>5. ASSUME NEW u \in Users, Deactivate(u) PROVE TypeOK'
  BY <1>5 DEF Deactivate
<1>6. ASSUME NEW d \in deliveries, DeleteDelivery(d) PROVE TypeOK'
  BY <1>6 DEF DeleteDelivery
<1>7. CASE UNCHANGED vars
  BY <1>7 DEF vars, db
<1> QED
  BY <1>1, <1>2, <1>3, <1>4, <1>5, <1>6, <1>7 DEF Next

(* The state of Ingest is always of its type. *)
THEOREM TypeCorrect == Spec => []TypeOK
BY InitTypeOK, NextTypeOK, PTL DEF Spec

-----------------------------------------------------------------------------
(***************************************************************************)
(* OneNotificationPerKey and AnswersAgree are not inductive: they hold     *)
(* because of what is known while a request is between two steps.          *)
(***************************************************************************)

(* Exactly the request inside a transaction has the write lock. *)
LockHeld == \A p \in Producers : pc[p] \in {"fanout", "commit"} <=> writer = p

(* Its key was free when it took the lock, and the lock keeps it free. *)
KeyIsFree ==
    \A p \in Producers :
        writer = p /\ req[p].key # NoKey => Existing(req[p]) = {}

(* Nobody can change the subscriptions it has read. *)
FanIsCurrent ==
    \A p \in Producers :
        pc[p] = "commit" => fan = Audience(ChannelOf[req[p].payload])

(* Only a request with a key looks its key up. *)
KeyedLookups ==
    \A p \in Producers : pc[p] \in {"lookup", "relookup"} => req[p].key # NoKey

(* A result is pending only between the database work and the answer, and  *)
(* what it says is true of the notification it names.                      *)
ResultsTruthful ==
    \A p \in Producers :
        out[p].kind # "refused" =>
            /\ pc[p] = "respond"
            /\ Log!Truthful(req[p], out[p].kind, out[p].id)

AnswersTruthful ==
    \A a \in answers :
        a.kind # "refused" /\ Log!Truthful(a.req, a.kind, a.id)

(* "created" is pending or was said once for a notification. *)
CreatedOnce ==
    \A p \in Producers :
        out[p].kind = "created" =>
            /\ \A a \in answers : ~(a.kind = "created" /\ a.id = out[p].id)
            /\ \A q \in Producers \ {p} :
                  ~(out[q].kind = "created" /\ out[q].id = out[p].id)

IInv ==
    /\ TypeOK
    /\ OneNotificationPerKey
    /\ LockHeld
    /\ KeyIsFree
    /\ FanIsCurrent
    /\ KeyedLookups
    /\ ResultsTruthful
    /\ AnswersTruthful
    /\ CreatedOnce

(* Before any request: no transaction is open and nothing is stored.       *)
LEMMA InitIInv == Init => IInv
<1> SUFFICES ASSUME Init PROVE IInv
  OBVIOUS
<1>1. TypeOK
  BY InitTypeOK
<1> QED
  BY <1>1, NobodyAssumption
     DEF Init, IInv, OneNotificationPerKey, LockHeld, KeyIsFree, FanIsCurrent,
         KeyedLookups, ResultsTruthful, AnswersTruthful, CreatedOnce, NoResult,
         Result

(* Each step preserves the strengthened invariant: Insert takes the lock   *)
(* only when the key is free, Commit uses that and the current fanout, and *)
(* the other steps leave a holder of the lock alone.                       *)
LEMMA NextIInv == IInv /\ [Next]_vars => IInv'
<1> SUFFICES ASSUME IInv, [Next]_vars PROVE IInv'
  OBVIOUS
<1>0. TypeOK /\ TypeOK'
  BY NextTypeOK DEF IInv
<1> USE <1>0, NobodyAssumption, KeyAssumption
<1> USE DEF IInv, OneNotificationPerKey, LockHeld, KeyIsFree, FanIsCurrent,
         KeyedLookups, ResultsTruthful, AnswersTruthful, CreatedOnce
<1>1. ASSUME NEW p \in Producers, Send(p) PROVE IInv'
  BY <1>1 DEF Send, Goto, db, TypeOK, Existing, Audience, Log!Truthful
<1>2. ASSUME NEW p \in Producers, Authorise(p) PROVE IInv'
  <2>1. pc'[p] \in {"respond", "insert", "lookup"}
        /\ (pc'[p] = "lookup" => req[p].key # NoKey)
        /\ \A q \in Producers \ {p} : pc'[q] = pc[q]
    BY <1>2 DEF Authorise, Goto, TypeOK
  <2>2. pc[p] = "auth" /\ UNCHANGED <<db, writer, fan, req, out, answers>>
    BY <1>2 DEF Authorise
  <2>3. OneNotificationPerKey' /\ KeyIsFree'
    BY <2>2 DEF db, Existing
  <2>4. LockHeld' /\ KeyedLookups'
    BY <2>1, <2>2
  <2>5. FanIsCurrent'
    BY <2>1, <2>2 DEF db, Audience
  <2>6. ResultsTruthful' /\ AnswersTruthful' /\ CreatedOnce'
    BY <2>1, <2>2 DEF db, Log!Truthful
  <2> QED
    BY <2>3, <2>4, <2>5, <2>6
<1>3. ASSUME NEW p \in Producers, Lookup(p) PROVE IInv'
  <2>1. OneNotificationPerKey' /\ LockHeld' /\ KeyIsFree' /\ FanIsCurrent'
          /\ KeyedLookups'
    <3>1. \A q \in Producers :
             \/ pc'[q] = pc[q]
             \/ /\ q = p
                /\ pc[q] \notin {"fanout", "commit"}
                /\ pc'[q] \in {"insert", "respond"}
      BY <1>3 DEF Lookup, Goto, TypeOK
    <3>2. UNCHANGED <<notifs, writer, fan, subs, active, req>>
      BY <1>3 DEF Lookup, db
    <3>3. OneNotificationPerKey' /\ KeyIsFree'
      BY <3>2 DEF Existing
    <3>4. LockHeld' /\ KeyedLookups'
      BY <3>1, <3>2
    <3>5. FanIsCurrent'
      BY <3>1, <3>2 DEF Audience
    <3> QED
      BY <3>3, <3>4, <3>5
  <2>2. AnswersTruthful'
    BY <1>3 DEF Lookup, db, Log!Truthful
  <2>3. CASE out' = out
    BY <1>3, <2>1, <2>2, <2>3 DEF Lookup, Goto, db, TypeOK, Log!Truthful
  <2>4. ASSUME NEW i \in Existing(req[p]),
               out' = [out EXCEPT ![p] = ReplayOf(req[p], i)],
               pc' = [pc EXCEPT ![p] = "respond"]
        PROVE  ResultsTruthful' /\ CreatedOnce'
    <3>1. Log!Truthful(req[p], ReplayOf(req[p], i).kind, i)
      BY <1>3 DEF Lookup, Existing, ReplayOf, Result, Log!Truthful
    <3>2. out'[p].id = i /\ out'[p].kind # "created"
      BY <2>4 DEF TypeOK, ReplayOf, Result
    <3>3. ResultsTruthful'
      BY <1>3, <2>4, <3>1 DEF Lookup, db, TypeOK, ReplayOf, Result, Log!Truthful
    <3> QED
      BY <1>3, <2>4, <3>2, <3>3 DEF Lookup, db, TypeOK
  <2> QED
    BY <1>3, <2>1, <2>2, <2>3, <2>4 DEF Lookup, Goto
<1>4. ASSUME NEW p \in Producers, Insert(p) PROVE IInv'
  <2>1. OneNotificationPerKey' /\ FanIsCurrent' /\ KeyedLookups'
        /\ ResultsTruthful' /\ AnswersTruthful' /\ CreatedOnce'
    <3>1. \A q \in Producers :
             \/ pc'[q] = pc[q]
             \/ /\ q = p
                /\ pc[q] = "insert"
                /\ pc'[q] \in {"relookup", "fanout"}
                /\ pc'[q] = "relookup" => req[q].key # NoKey
      BY <1>4 DEF Insert, Goto, TypeOK
    <3>2. UNCHANGED <<notifs, fan, subs, active, req, out, answers>>
      BY <1>4 DEF Insert, db
    <3>3. OneNotificationPerKey' /\ KeyedLookups'
      BY <3>1, <3>2
    <3>4. FanIsCurrent'
      BY <3>1, <3>2 DEF Audience
    <3>5. ResultsTruthful' /\ AnswersTruthful' /\ CreatedOnce'
      BY <3>1, <3>2 DEF Log!Truthful
    <3> QED
      BY <3>3, <3>4, <3>5
  <2>2. LockHeld'
    BY <1>4 DEF Insert, Goto, TypeOK
  <2>3. KeyIsFree'
    BY <1>4 DEF Insert, db, Existing
  <2> QED
    BY <2>1, <2>2, <2>3
<1>5. ASSUME NEW p \in Producers, Relookup(p) PROVE IInv'
  <2>1. OneNotificationPerKey' /\ LockHeld' /\ KeyIsFree' /\ FanIsCurrent'
          /\ KeyedLookups'
    <3>1. \A q \in Producers :
             \/ pc'[q] = pc[q]
             \/ /\ q = p
                /\ pc[q] \notin {"fanout", "commit"}
                /\ pc'[q] \in {"retry", "respond"}
      BY <1>5 DEF Relookup, Goto, TypeOK
    <3>2. UNCHANGED <<notifs, writer, fan, subs, active, req>>
      BY <1>5 DEF Relookup, db
    <3>3. OneNotificationPerKey' /\ KeyIsFree'
      BY <3>2 DEF Existing
    <3>4. LockHeld' /\ KeyedLookups'
      BY <3>1, <3>2
    <3>5. FanIsCurrent'
      BY <3>1, <3>2 DEF Audience
    <3> QED
      BY <3>3, <3>4, <3>5
  <2>2. AnswersTruthful'
    BY <1>5 DEF Relookup, db, Log!Truthful
  <2>3. CASE out' = out
    BY <1>5, <2>1, <2>2, <2>3 DEF Relookup, Goto, db, TypeOK, Log!Truthful
  <2>4. ASSUME NEW i \in Existing(req[p]),
               out' = [out EXCEPT ![p] = ReplayOf(req[p], i)],
               pc' = [pc EXCEPT ![p] = "respond"]
        PROVE  ResultsTruthful' /\ CreatedOnce'
    <3>1. Log!Truthful(req[p], ReplayOf(req[p], i).kind, i)
      BY <1>5 DEF Relookup, Existing, ReplayOf, Result, Log!Truthful
    <3>2. out'[p].id = i /\ out'[p].kind # "created"
      BY <2>4 DEF TypeOK, ReplayOf, Result
    <3>3. ResultsTruthful'
      BY <1>5, <2>4, <3>1 DEF Relookup, db, TypeOK, ReplayOf, Result, Log!Truthful
    <3> QED
      BY <1>5, <2>4, <3>2, <3>3 DEF Relookup, db, TypeOK
  <2> QED
    BY <1>5, <2>1, <2>2, <2>3, <2>4 DEF Relookup, Goto
<1>6. ASSUME NEW p \in Producers, Fanout(p) PROVE IInv'
  BY <1>6 DEF Fanout, Goto, db, TypeOK, Existing, Audience, Log!Truthful
<1>7. ASSUME NEW p \in Producers, Commit(p) PROVE IInv'
  <2> DEFINE n == Len(notifs) + 1
  <2>1. /\ DOMAIN notifs' = DOMAIN notifs \cup {n}
        /\ n \notin DOMAIN notifs
        /\ notifs'[n] = req[p]
        /\ \A i \in DOMAIN notifs : notifs'[i] = notifs[i]
    BY <1>7 DEF Commit, TypeOK
  <2>2. writer = p /\ writer' = Nobody
    BY <1>7 DEF Commit
  <2>3. \A q \in Producers : pc'[q] = IF q = p THEN "respond" ELSE pc[q]
    BY <1>7 DEF Commit, Goto, TypeOK
  <2>4. \A q \in Producers :
           out'[q] = IF q = p THEN Result("created", n) ELSE out[q]
    BY <1>7 DEF Commit, TypeOK
  <2>5. UNCHANGED <<subs, active, req, answers>>
    BY <1>7 DEF Commit
  <2>6. OneNotificationPerKey'
    BY <2>1, <2>2 DEF Existing
  <2>7. LockHeld' /\ KeyIsFree' /\ FanIsCurrent' /\ KeyedLookups'
    BY <2>2, <2>3, <2>5 DEF TypeOK
  <2>8. \A e, kind, i : Log!Truthful(e, kind, i) => Log!Truthful(e, kind, i)'
    BY <2>1 DEF Log!Truthful
  <2>9. ResultsTruthful'
    BY <2>1, <2>3, <2>4, <2>5, <2>8 DEF Result, Log!Truthful
  <2>10. AnswersTruthful'
    BY <2>5, <2>8
  <2>11. CreatedOnce'
    <3>1. \A a \in answers : a.id # n
      BY <2>1 DEF Log!Truthful
    <3>2. \A q \in Producers : out[q].kind = "created" => out[q].id # n
      BY <2>1 DEF Log!Truthful
    <3> QED
      BY <2>4, <2>5, <3>1, <3>2 DEF Result
  <2> QED
    BY <2>6, <2>7, <2>9, <2>10, <2>11
<1>8. ASSUME NEW p \in Producers, Respond(p) PROVE IInv'
  BY <1>8 DEF Respond, Goto, db, TypeOK, Existing, Audience, Log!Truthful, Result, NoResult
<1>9. ASSUME NEW p \in Producers, Retry(p) PROVE IInv'
  BY <1>9 DEF Retry, Goto, db, TypeOK, Existing, Audience, Log!Truthful
<1>10. ASSUME NEW p \in Producers, LockTimeout(p) PROVE IInv'
  BY <1>10 DEF LockTimeout, Fault, Goto, db, TypeOK, Existing, Audience, Log!Truthful
<1>11. ASSUME NEW p \in Producers, TransactionFails(p) PROVE IInv'
  BY <1>11 DEF TransactionFails, Fault, Goto, db, TypeOK, Existing, Audience, Log!Truthful
<1>12. ASSUME NEW p \in Producers, LoseAnswer(p) PROVE IInv'
  BY <1>12 DEF LoseAnswer, Fault, Goto, db, TypeOK, Existing, Audience, Log!Truthful, NoResult, Result
<1>13. ASSUME NEW p \in Producers, Resend(p) PROVE IInv'
  BY <1>13 DEF Resend, Fault, Goto, db, TypeOK, Existing, Audience, Log!Truthful
<1>14. ASSUME NEW p \in Producers, RevokeToken(p) PROVE IInv'
  BY <1>14 DEF RevokeToken, Existing, Audience, Log!Truthful
<1>15. CASE Crash
  BY <1>15 DEF Crash, Fault, InFlight, db, TypeOK, Existing, Audience, Log!Truthful, NoResult, Result
<1>16. ASSUME NEW u \in Users, NEW c \in Channels,
             Subscribe(u, c) \/ Unsubscribe(u, c)
      PROVE  IInv'
  BY <1>16 DEF Subscribe, Unsubscribe, Existing, Audience, Log!Truthful
<1>17. ASSUME NEW u \in Users, Deactivate(u) PROVE IInv'
  BY <1>17 DEF Deactivate, Existing, Audience, Log!Truthful
<1>18. ASSUME NEW d \in deliveries, DeleteDelivery(d) PROVE IInv'
  BY <1>18 DEF DeleteDelivery, Existing, Audience, Log!Truthful
<1>19. CASE UNCHANGED vars
  BY <1>19 DEF vars, db, Existing, Audience, Log!Truthful
<1> QED
  BY <1>1, <1>2, <1>3, <1>4, <1>5, <1>6, <1>7, <1>8, <1>9, <1>10, <1>11,
     <1>12, <1>13, <1>14, <1>15, <1>16, <1>17, <1>18, <1>19
     DEF Next, Handle, Disturb

(* So the strengthened invariant always holds. *)
LEMMA Invariance == Spec => []IInv
BY InitIInv, NextIInv, PTL DEF Spec

(* However many duplicates of a keyed request race, fail or are retried,   *)
(* a source has at most one notification under the key                     *)
(* (persist_notification_idempotent).                                      *)
THEOREM AtMostOncePerKey == Spec => []OneNotificationPerKey
BY Invariance, PTL DEF IInv

(* True answers agree: two answers for one key name notifications with     *)
(* that key, and there is only one.                                        *)
LEMMA IInvAnswersAgree == IInv => AnswersAgree
<1> SUFFICES ASSUME IInv, NEW a \in answers
             PROVE  /\ a.id \in DOMAIN notifs
                    /\ a.kind = "conflict" <=> notifs[a.id].payload # a.req.payload
                    /\ \A b \in answers :
                          /\ a.req.key # NoKey
                          /\ a.req.key = b.req.key
                          /\ a.req.src = b.req.src
                          => a.id = b.id
  BY DEF AnswersAgree
<1>1. \A b \in answers :
         /\ b.id \in DOMAIN notifs
         /\ notifs[b.id].src = b.req.src
         /\ notifs[b.id].key = b.req.key
  BY DEF IInv, AnswersTruthful, Log!Truthful
<1>2. a.kind \in {"created", "replayed", "conflict"}
  BY DEF IInv, TypeOK, Kinds, AnswersTruthful
<1>3. a.kind = "conflict" <=> notifs[a.id].payload # a.req.payload
  BY <1>2 DEF IInv, AnswersTruthful, Log!Truthful
<1>4. ASSUME NEW b \in answers, a.req.key # NoKey,
             a.req.key = b.req.key, a.req.src = b.req.src
      PROVE  a.id = b.id
  BY <1>1, <1>4 DEF IInv, OneNotificationPerKey
<1> QED
  BY <1>1, <1>3, <1>4

(* All answers a source's key ever gets name one stored notification, and  *)
(* a 409 is never given to the content that is stored (_replayed_result).  *)
THEOREM AnswersAlwaysAgree == Spec => []AnswersAgree
BY Invariance, IInvAnswersAgree, PTL

(* The tables and the set of answers start empty, as the log does. *)
LEMMA InitImplements == Init => Log!LogInit
BY DEF Init, Log!LogInit

(* Commit is where a publish takes effect and Respond is where it is told; *)
(* every other step of a request changes nothing the log can see.          *)
LEMMA NextImplements == IInv /\ [Next]_vars => [Log!LogNext]_(Log!logVars)
<1> SUFFICES ASSUME IInv, [Next]_vars
             PROVE  Log!LogNext \/ UNCHANGED Log!logVars
  OBVIOUS
<1> USE DEF Log!logVars
<1>1. ASSUME NEW p \in Producers, Commit(p) PROVE Log!LogNext
  <2>1. req[p] \in Log!Entry
    BY DEF IInv, TypeOK, Entry, Log!Entry
  <2>2. writer = p /\ fan = Log!Audience(ChannelOf[req[p].payload])
    BY <1>1 DEF Commit, IInv, LockHeld, FanIsCurrent, Audience, Log!Audience
  <2>3. req[p].key = NoKey \/ \A i \in DOMAIN notifs :
           ~(notifs[i].src = req[p].src /\ notifs[i].key = req[p].key)
    BY <2>2 DEF IInv, KeyIsFree, Existing
  <2>4. Log!Accept(req[p])
    BY <1>1, <2>2, <2>3 DEF Commit, Log!Accept
  <2> QED
    BY <2>1, <2>4 DEF Log!LogNext
<1>2. ASSUME NEW p \in Producers, Respond(p)
      PROVE  Log!LogNext \/ UNCHANGED Log!logVars
  <2>1. CASE out[p].kind = "refused"
    BY <1>2, <2>1 DEF Respond, db
  <2>2. CASE out[p].kind # "refused"
    <3>1. /\ req[p] \in Log!Entry
          /\ out[p].kind \in {"created", "replayed", "conflict"}
      BY <2>2 DEF IInv, TypeOK, Entry, Kinds, Log!Entry
    <3>2. Log!Truthful(req[p], out[p].kind, out[p].id)
      BY <2>2 DEF IInv, ResultsTruthful
    <3>3. Log!Tell(req[p], out[p].kind, out[p].id)
      BY <1>2, <2>2, <3>2 DEF Respond, db, IInv, CreatedOnce, Log!Tell
    <3> QED
      BY <3>1, <3>2, <3>3 DEF Log!LogNext, Log!Truthful
  <2> QED
    BY <2>1, <2>2
<1>3. ASSUME NEW p \in Producers,
             \/ Send(p) \/ Authorise(p) \/ Lookup(p) \/ Insert(p)
             \/ Relookup(p) \/ Fanout(p) \/ Retry(p)
      PROVE  UNCHANGED Log!logVars
  BY <1>3 DEF Send, Authorise, Lookup, Insert, Relookup, Fanout, Retry, db
<1>4. ASSUME NEW p \in Producers, Disturb(p) PROVE UNCHANGED Log!logVars
  BY <1>4 DEF Disturb, LockTimeout, TransactionFails, LoseAnswer, Resend,
     RevokeToken, db
<1>5. CASE Crash
  BY <1>5 DEF Crash, db
<1>6. ASSUME NEW u \in Users, NEW c \in Channels,
             Subscribe(u, c) \/ Unsubscribe(u, c)
      PROVE  Log!LogNext
  <2>1. UNCHANGED <<notifs, deliveries, active, answers>> /\ subs' # subs
    BY <1>6 DEF Subscribe, Unsubscribe
  <2> QED
    BY <2>1 DEF Log!LogNext, Log!Rearrange
<1>7. ASSUME NEW u \in Users, Deactivate(u) PROVE Log!LogNext
  <2>1. UNCHANGED <<notifs, deliveries, subs, answers>> /\ active' # active
    BY <1>7 DEF Deactivate
  <2> QED
    BY <2>1 DEF Log!LogNext, Log!Rearrange
<1>8. ASSUME NEW d \in deliveries, DeleteDelivery(d) PROVE Log!LogNext
  BY <1>8 DEF DeleteDelivery, Log!LogNext, Log!Dismiss
<1>9. CASE UNCHANGED vars
  BY <1>9 DEF vars, db
<1> QED
  BY <1>1, <1>2, <1>3, <1>4, <1>5, <1>6, <1>7, <1>8, <1>9 DEF Next, Handle

(* Ingestion, with its lookups, lock, retries and crashes, implements the  *)
(* atomic exactly-once publish of IngestLog.                               *)
THEOREM Refinement == Spec => ImplementsLog
BY InitImplements, NextImplements, Invariance, PTL
   DEF Spec, ImplementsLog, Log!LogSpec

-----------------------------------------------------------------------------
(* The subscriptions (Subscriptions), for every number of requests.        *)

(* A request under way has seen the row as it is now, and history only     *)
(* grows until its answer is taken.                                        *)
ToggleInv ==
    /\ row \in RowState
    /\ DOMAIN toggle = Tabs /\ DOMAIN history = Tabs
    /\ \A r \in Tabs :
          /\ toggle[r].kind \in Toggles
          /\ toggle[r].at # "idle" => row \in history[r]
    /\ AnsweredAsAsked

LEMMA ToggleInitInv == ToggleInit => ToggleInv
BY DEF ToggleInit, ToggleInv, RowState, Toggles, AnsweredAsAsked

LEMMA ToggleNextInv ==
    ASSUME ToggleInv, [ToggleNext]_toggleVars
    PROVE  ToggleInv'
<1> USE DEF ToggleInv, RowState, Toggles, AnsweredAsAsked
<1>1. ASSUME NEW r \in Tabs, NEW kind \in Toggles, BeginToggle(r, kind)
      PROVE  ToggleInv'
    BY <1>1 DEF BeginToggle
<1>2. ASSUME NEW r \in Tabs, OwnedSubscription(r)
      PROVE  ToggleInv'
    BY <1>2 DEF OwnedSubscription, AsAsked
<1>3. ASSUME NEW r \in Tabs, Write(r)
      PROVE  ToggleInv'
    <2>1. CASE toggle[r].seen = "none" /\ row # "none"
        BY <1>3, <2>1 DEF Write
    <2>2. CASE ~(toggle[r].seen = "none" /\ row # "none")
        <3> DEFINE new == IF toggle[r].kind = "put" THEN "enabled" ELSE "disabled"
        <3>1. /\ toggle[r].at = "write" /\ toggle' = [toggle EXCEPT ![r].at = "answered"]
              /\ row' = new /\ history' = [q \in Tabs |-> history[q] \cup {new}]
            BY <1>3, <2>2 DEF Write, Settle
        <3>2. /\ DOMAIN toggle' = Tabs /\ DOMAIN history' = Tabs
              /\ row' \in RowState
            BY <3>1
        <3>3. ASSUME NEW q \in Tabs
              PROVE  /\ toggle'[q].kind \in Toggles /\ toggle'[q].kind = toggle[q].kind
                     /\ row' \in history'[q]
                     /\ q # r => toggle'[q].at = toggle[q].at
                     /\ history'[q] = history[q] \cup {new}
            BY <3>1
        <3>4. AnsweredAsAsked'
            BY <3>1, <3>3
        <3> QED
            BY <3>2, <3>3, <3>4
    <2> QED
        BY <2>1, <2>2
<1>4. ASSUME NEW r \in Tabs, Done(r)
      PROVE  ToggleInv'
    BY <1>4 DEF Done
<1>5. CASE UNCHANGED toggleVars
    BY <1>5 DEF toggleVars
<1> QED
    BY <1>1, <1>2, <1>3, <1>4, <1>5 DEF ToggleNext

(* A toggle that was answered took effect at some moment between its       *)
(* arrival and its answer, however many others wrote the row in between.   *)
THEOREM TogglesTakeEffect == ToggleSpec => []AnsweredAsAsked
<1>1. ToggleInv => AnsweredAsAsked
    BY DEF ToggleInv
<1> QED
    BY <1>1, ToggleInitInv, ToggleNextInv, PTL DEF ToggleSpec

=============================================================================
