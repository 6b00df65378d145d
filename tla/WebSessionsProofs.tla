--------------------------- MODULE WebSessionsProofs ---------------------------
(***************************************************************************)
(* Proofs about WebSessions, for any number of logins, requests, resets    *)
(* and minutes: a reset ends every session, a revoked session stays        *)
(* revoked, and a session expires only when it is due.                     *)
(*                                                                         *)
(* A request acts on what it read of its session some steps ago, while     *)
(* others change the row.  The invariant therefore relates what each       *)
(* request read to the row as it is now: the time a request took for its   *)
(* session's last use is not later than the row's, and a request that      *)
(* found it expired is still right.                                        *)
(***************************************************************************)
EXTENDS WebSessions, SequenceTheorems, TLAPS

Reasons == {"no", "expire", "disable", "logout", "reset"}
Rows == [seen : Nat, expires : Nat, password : Passwords, ended : Reasons,
         used : Nat, epoch : Nat]
Users == [active : BOOLEAN, password : Passwords, rehash : BOOLEAN]
LoginStates == [at : {"idle", "rehash", "create"}, password : Passwords]
RequestStates == [at : {"idle", "user", "touch", "expire", "disable", "handler"},
                  kind : {"use", "logout"}, session : 0 .. MaxSessions,
                  seen : 0 .. MaxTime]

(* No row is from the future. *)
SessionsTyped ==
    /\ sessions \in Seq(Rows)
    /\ Len(sessions) <= MaxSessions
    /\ \A s \in Ids : /\ sessions[s].seen <= now
                      /\ sessions[s].used <= now
                      /\ sessions[s].epoch <= resets

Typed ==
    /\ now \in 0 .. MaxTime
    /\ resets \in 0 .. MaxResets
    /\ user \in Users
    /\ login \in [Logins -> LoginStates]
    /\ req \in [Requests -> RequestStates]
    /\ SessionsTyped

(* A request in progress is on a session that exists, and what it read of  *)
(* it is not later than what is there; whether the session had expired     *)
(* when it was read has not changed since.                                 *)
ReadsHold ==
    \A r \in Requests : req[r].at # "idle" =>
        LET s == req[r].session
        IN  /\ s \in Ids
            /\ req[r].at \in {"user", "touch"} =>
                   req[r].seen <= sessions[s].seen /\ now < req[r].seen + Idle
            /\ req[r].at = "expire" => Expired(s)

(* last_seen_at follows the uses of the session at less than Touch minutes. *)
SeenInTime == \A s \in Ids : sessions[s].used < sessions[s].seen + Touch

Inv == Typed /\ ReadsHold /\ SeenInTime /\ ResetEndsEverySession

-----------------------------------------------------------------------------
(* How the rows change *)

(* A request changes fields of one row. *)
LEMMA RowChange ==
    ASSUME SessionsTyped, NEW s \in Ids, NEW row \in Rows,
           sessions' = [sessions EXCEPT ![s] = row]
    PROVE  /\ sessions' \in Seq(Rows) /\ Len(sessions') = Len(sessions)
           /\ Ids' = Ids
           /\ sessions'[s] = row
           /\ \A t \in Ids : t # s => sessions'[t] = sessions[t]
<1>1. sessions \in Seq(Rows) /\ s \in 1 .. Len(sessions) /\ Ids = 1 .. Len(sessions)
    BY LenProperties DEF SessionsTyped, Ids
<1>2. /\ sessions' \in Seq(Rows) /\ Len(sessions') = Len(sessions)
      /\ \A t \in 1 .. Len(sessions) :
            sessions'[t] = IF t = s THEN row ELSE sessions[t]
    BY <1>1, ExceptSeq
<1>3. Ids' = 1 .. Len(sessions')
    BY <1>2, LenProperties DEF Ids
<1>4. QED
    BY <1>1, <1>2, <1>3

LEMMA RowsTyped ==
    ASSUME SessionsTyped
    PROVE  /\ Ids = 1 .. Len(sessions) /\ Len(sessions) \in Nat
           /\ \A s \in Ids : sessions[s] \in Rows
BY LenProperties, ElementOfSeq DEF SessionsTyped, Ids

(* A row of the next state: what changes of it, and what never does. *)
Becomes(s, seen, used, ended) ==
    /\ sessions'[s].seen = seen
    /\ sessions'[s].used = used
    /\ sessions'[s].ended = ended
    /\ sessions'[s].expires = sessions[s].expires
    /\ sessions'[s].epoch = sessions[s].epoch

(* The request of a live session is served: its row records the use, ... *)
LEMMA UseStep ==
    ASSUME Typed, NEW s \in Ids, Use(s)
    PROVE  /\ sessions' \in Seq(Rows) /\ Len(sessions') = Len(sessions)
           /\ Ids' = Ids
           /\ Becomes(s, sessions[s].seen, now, sessions[s].ended)
           /\ \A t \in Ids : t # s => sessions'[t] = sessions[t]
<1> DEFINE row == [sessions[s] EXCEPT !.used = now]
<1>1. sessions[s] \in Rows /\ now \in Nat /\ SessionsTyped
    BY RowsTyped, BoundAssumption DEF Typed
<1>2. /\ row \in Rows
      /\ row.seen = sessions[s].seen /\ row.used = now
      /\ row.ended = sessions[s].ended
      /\ row.expires = sessions[s].expires /\ row.epoch = sessions[s].epoch
    BY <1>1 DEF Rows
<1>3. sessions' = [sessions EXCEPT ![s] = row]
    BY DEF Use
<1> HIDE DEF row
<1>4. QED
    BY <1>1, <1>2, <1>3, RowChange DEF Becomes

(* and now and then that the user was seen; *)
LEMMA TouchStep ==
    ASSUME Typed, NEW s \in Ids,
           sessions' = [sessions EXCEPT ![s].seen = now, ![s].used = now]
    PROVE  /\ sessions' \in Seq(Rows) /\ Len(sessions') = Len(sessions)
           /\ Ids' = Ids
           /\ Becomes(s, now, now, sessions[s].ended)
           /\ \A t \in Ids : t # s => sessions'[t] = sessions[t]
<1> DEFINE row == [sessions[s] EXCEPT !.seen = now, !.used = now]
<1>1. sessions[s] \in Rows /\ now \in Nat /\ SessionsTyped
    BY RowsTyped, BoundAssumption DEF Typed
<1>2. /\ row \in Rows
      /\ row.seen = now /\ row.used = now
      /\ row.ended = sessions[s].ended
      /\ row.expires = sessions[s].expires /\ row.epoch = sessions[s].epoch
    BY <1>1 DEF Rows
<1>3. sessions' = [sessions EXCEPT ![s] = row]
    BY <1>1, RowsTyped
<1> HIDE DEF row
<1>4. QED
    BY <1>1, <1>2, <1>3, RowChange DEF Becomes

(* a row once revoked keeps why it was, one that is not gets a reason. *)
LEMMA EndStep ==
    ASSUME Typed, NEW s \in Ids, NEW why \in Reasons, End(s, why)
    PROVE  /\ sessions' \in Seq(Rows) /\ Len(sessions') = Len(sessions)
           /\ Ids' = Ids
           /\ Becomes(s, sessions[s].seen, sessions[s].used,
                      IF Revoked(s) THEN sessions[s].ended ELSE why)
           /\ \A t \in Ids : t # s => sessions'[t] = sessions[t]
<1> DEFINE row == [sessions[s] EXCEPT !.ended = IF @ = "no" THEN why ELSE @]
<1>1. sessions[s] \in Rows /\ SessionsTyped
    BY RowsTyped DEF Typed
<1>2. /\ row \in Rows
      /\ row.seen = sessions[s].seen /\ row.used = sessions[s].used
      /\ row.ended = IF Revoked(s) THEN sessions[s].ended ELSE why
      /\ row.expires = sessions[s].expires /\ row.epoch = sessions[s].epoch
    BY <1>1 DEF Rows, Revoked
<1>3. sessions' = [sessions EXCEPT ![s] = row]
    BY DEF End
<1> HIDE DEF row
<1>4. QED
    BY <1>1, <1>2, <1>3, RowChange DEF Becomes

(* A login appends a row of this moment. *)
LEMMA CreateStep ==
    ASSUME Typed, NEW l \in Logins, CreateSession(l)
    PROVE  /\ sessions' \in Seq(Rows) /\ Len(sessions') = Len(sessions) + 1
           /\ Len(sessions') <= MaxSessions
           /\ Ids' = 1 .. Len(sessions) + 1
           /\ \A t \in Ids : sessions'[t] = sessions[t]
           /\ LET row == sessions'[Len(sessions) + 1]
              IN  /\ row.seen = now /\ row.used = now
                  /\ row.epoch = resets /\ row.ended = "no"
<1> DEFINE row == [seen |-> now, expires |-> now + Lifetime, ended |-> "no",
                   password |-> login[l].password, used |-> now, epoch |-> resets]
<1>1. /\ now \in Nat /\ resets \in Nat /\ Lifetime \in Nat /\ MaxSessions \in Nat
      /\ login[l].password \in Passwords
      /\ sessions \in Seq(Rows)
    BY BoundAssumption, TouchAssumption DEF Typed, SessionsTyped, LoginStates
<1>2. row \in Rows
    BY <1>1 DEF Rows, Reasons
<1>3. sessions' = Append(sessions, row) /\ Len(sessions) < MaxSessions
    BY DEF CreateSession
<1>4. row.seen = now /\ row.used = now /\ row.epoch = resets /\ row.ended = "no"
    OBVIOUS
<1> HIDE DEF row
<1>5. /\ sessions' \in Seq(Rows) /\ Len(sessions') = Len(sessions) + 1
      /\ \A t \in 1 .. Len(sessions) : sessions'[t] = sessions[t]
      /\ sessions'[Len(sessions) + 1] = row
    BY <1>1, <1>2, <1>3, AppendProperties
<1>6. /\ Ids' = 1 .. Len(sessions') /\ Ids = 1 .. Len(sessions)
      /\ Len(sessions) \in Nat
    BY <1>1, <1>5, LenProperties DEF Ids
<1>7. QED
    BY <1>1, <1>3, <1>4, <1>5, <1>6

(* A reset revokes what is not revoked. *)
LEMMA ResetStep ==
    ASSUME Typed, NEW p \in Passwords, ResetPassword(p)
    PROVE  /\ sessions' \in Seq(Rows) /\ Len(sessions') = Len(sessions)
           /\ Ids' = Ids
           /\ \A s \in Ids :
                 Becomes(s, sessions[s].seen, sessions[s].used,
                         IF Revoked(s) THEN sessions[s].ended ELSE "reset")
<1>1. /\ Ids = 1 .. Len(sessions) /\ Len(sessions) \in Nat
      /\ \A s \in Ids : sessions[s] \in Rows
    BY RowsTyped DEF Typed
<1>2. sessions' = [s \in Ids |-> IF Revoked(s) THEN sessions[s]
                                 ELSE [sessions[s] EXCEPT !.ended = "reset"]]
    BY DEF ResetPassword
<1>3. \A s \in Ids : sessions'[s] \in Rows
    BY <1>1, <1>2 DEF Rows, Reasons
<1>4. \A s \in Ids :
         Becomes(s, sessions[s].seen, sessions[s].used,
                 IF Revoked(s) THEN sessions[s].ended ELSE "reset")
    BY <1>1, <1>2 DEF Rows, Becomes
<1>5. sessions' \in [1 .. Len(sessions) -> Rows]
    BY <1>1, <1>2, <1>3
<1>6. sessions' \in Seq(Rows) /\ Len(sessions') = Len(sessions)
    BY <1>1, <1>5
<1>7. QED
    BY <1>1, <1>4, <1>6, LenProperties DEF Ids

(* The steps of Next, by what they do to the rows. *)
Quiet ==
    /\ UNCHANGED <<sessions, resets>>
    /\ \/ Tick \/ \E l \in Logins : Rehash(l)
       \/ \E l \in Logins, p \in Passwords : Authenticate(l, p)
       \/ \E r \in Requests, s \in Ids, kind \in {"use", "logout"} :
             ReadSession(r, s, kind)
       \/ \E r \in Requests : ReadUser(r) \/ Serve(r)
       \/ \E active \in BOOLEAN : SetActive(active)

LEMMA StepCases ==
    ASSUME Typed, ReadsHold, [Next]_vars
    PROVE  \/ Quiet
           \/ \E l \in Logins : CreateSession(l)
           \/ \E r \in Requests :
                 /\ req[r].session \in Ids
                 /\ \/ ReadUser(r) /\ Use(req[r].session)
                    \/ TouchSession(r) \/ RevokeSession(r) \/ Logout(r)
           \/ \E p \in Passwords : ResetPassword(p)
           \/ UNCHANGED vars
<1>1. CASE Tick \/ \E l \in Logins : Rehash(l)
              \/ \E p \in Passwords : Authenticate(l, p)
    BY <1>1 DEF Tick, Rehash, Authenticate, Quiet
<1>2. ASSUME NEW r \in Requests, NEW s \in Ids, NEW kind \in {"use", "logout"},
             ReadSession(r, s, kind)
      PROVE  Quiet
    BY <1>2 DEF ReadSession, Quiet
<1>3. ASSUME NEW r \in Requests, Serve(r)
      PROVE  Quiet
    BY <1>3 DEF Serve, Quiet
<1>4. ASSUME NEW active \in BOOLEAN, SetActive(active)
      PROVE  Quiet
    BY <1>4 DEF SetActive, Quiet
<1>5. ASSUME NEW r \in Requests, ReadUser(r) \/ TouchSession(r) \/ RevokeSession(r)
                                     \/ Logout(r)
      PROVE  req[r].session \in Ids
    BY <1>5 DEF ReadUser, TouchSession, RevokeSession, Logout, ReadsHold
<1>6. ASSUME NEW r \in Requests, ReadUser(r)
      PROVE  Quiet \/ Use(req[r].session)
    BY <1>6 DEF ReadUser, Quiet
<1>7. QED
    BY <1>1, <1>2, <1>3, <1>4, <1>5, <1>6 DEF Next

(* What every step does to every row: when it ends is settled at login,    *)
(* the last use moves forward only, and not at all once the session has    *)
(* been left idle; and a revoked row stays so.                             *)
LEMMA RowsKeep ==
    ASSUME Typed, ReadsHold, [Next]_vars, NEW s \in Ids
    PROVE  /\ s \in Ids'
           /\ sessions'[s].expires = sessions[s].expires
           /\ sessions'[s].epoch = sessions[s].epoch
           /\ sessions[s].seen <= sessions'[s].seen
           /\ sessions[s].seen + Idle <= now => sessions'[s].seen = sessions[s].seen
           /\ Revoked(s) => Revoked(s)'
<1>1. /\ sessions[s] \in Rows /\ sessions[s].seen <= now
      /\ now \in Nat /\ sessions[s].seen \in Nat /\ Idle \in Nat
      /\ Ids = 1 .. Len(sessions) /\ Len(sessions) \in Nat
    BY RowsTyped, BoundAssumption, TouchAssumption DEF Typed, SessionsTyped, Rows
<1>2. CASE UNCHANGED sessions
    BY <1>1, <1>2 DEF Ids, Revoked
<1>3. ASSUME NEW l \in Logins, CreateSession(l)
      PROVE  s \in Ids' /\ sessions'[s] = sessions[s]
    BY <1>1, <1>3, CreateStep
<1>4. ASSUME NEW r \in Requests, req[r].session \in Ids, Use(req[r].session)
      PROVE  /\ s \in Ids'
             /\ \/ sessions'[s] = sessions[s]
                \/ Becomes(s, sessions[s].seen, now, sessions[s].ended)
    BY <1>4, UseStep
<1>5. ASSUME NEW r \in Requests, req[r].session \in Ids, TouchSession(r)
      PROVE  /\ s \in Ids'
             /\ \/ sessions'[s] = sessions[s]
                \/ /\ Becomes(s, now, now, sessions[s].ended)
                   /\ now < sessions[s].seen + Idle
    <2> DEFINE t == req[r].session
    <2>1. /\ s \in Ids'
          /\ Becomes(t, now, now, sessions[t].ended)
          /\ s # t => sessions'[s] = sessions[s]
        BY <1>5, TouchStep DEF TouchSession
    <2>2. /\ req[r].seen <= sessions[t].seen /\ now < req[r].seen + Idle
          /\ req[r].seen \in Nat
        BY <1>5, BoundAssumption DEF TouchSession, ReadsHold, Typed, RequestStates
    <2>3. s = t => now < sessions[s].seen + Idle
        BY <1>1, <2>2
    <2>4. QED
        BY <2>1, <2>3
<1>6. ASSUME NEW r \in Requests, req[r].session \in Ids,
             RevokeSession(r) \/ Logout(r)
      PROVE  /\ s \in Ids'
             /\ \/ sessions'[s] = sessions[s]
                \/ \E why \in Reasons \ {"no"} :
                      Becomes(s, sessions[s].seen, sessions[s].used,
                              IF Revoked(s) THEN sessions[s].ended ELSE why)
    <2>1. \E why \in Reasons \ {"no"} : End(req[r].session, why)
        BY <1>6 DEF RevokeSession, Logout, Reasons
    <2>2. QED
        BY <1>6, <2>1, EndStep
<1>7. ASSUME NEW p \in Passwords, ResetPassword(p)
      PROVE  /\ s \in Ids'
             /\ Becomes(s, sessions[s].seen, sessions[s].used,
                        IF Revoked(s) THEN sessions[s].ended ELSE "reset")
    BY <1>7, ResetStep
<1>8. \/ UNCHANGED sessions
      \/ /\ s \in Ids'
         /\ \/ sessions'[s] = sessions[s]
            \/ Becomes(s, sessions[s].seen, now, sessions[s].ended)
            \/ /\ Becomes(s, now, now, sessions[s].ended)
               /\ now < sessions[s].seen + Idle
            \/ \E why \in Reasons \ {"no"} :
                  Becomes(s, sessions[s].seen, sessions[s].used,
                          IF Revoked(s) THEN sessions[s].ended ELSE why)
            \/ Becomes(s, sessions[s].seen, sessions[s].used,
                       IF Revoked(s) THEN sessions[s].ended ELSE "reset")
    BY <1>3, <1>4, <1>5, <1>6, <1>7, StepCases DEF Quiet, vars
<1>9. QED
    BY <1>1, <1>2, <1>8 DEF Becomes, Revoked, Reasons

-----------------------------------------------------------------------------
(* The invariant *)

LEMMA InitInv == Init => Inv
<1> SUFFICES ASSUME Init
             PROVE  Inv
    OBVIOUS
<1> USE BoundAssumption
<1>1. PICK p \in Passwords, old \in BOOLEAN :
         user = [active |-> TRUE, password |-> p, rehash |-> old]
    BY DEF Init
<1>2. /\ now = 0 /\ sessions = <<>> /\ resets = 0
      /\ login = [l \in Logins |-> NoLogin]
      /\ req = [r \in Requests |-> NoReq]
      /\ Ids = {} /\ Len(sessions) = 0
    BY DEF Init, Ids
<1>3. NoLogin \in LoginStates /\ NoReq \in RequestStates /\ NoReq.at = "idle"
    BY <1>1 DEF NoLogin, NoReq, LoginStates, RequestStates
<1>4. login \in [Logins -> LoginStates] /\ req \in [Requests -> RequestStates]
    BY <1>2, <1>3
<1>5. SessionsTyped
    BY <1>2 DEF SessionsTyped
<1>6. Typed
    BY <1>1, <1>2, <1>4, <1>5 DEF Typed, Users
<1>7. ReadsHold
    BY <1>2, <1>3 DEF ReadsHold
<1>8. QED
    BY <1>2, <1>6, <1>7 DEF Inv, SeenInTime, ResetEndsEverySession

LEMMA NextTyped ==
    ASSUME Typed, ReadsHold, [Next]_vars
    PROVE  Typed'
<1> USE BoundAssumption
<1>1. /\ now \in 0 .. MaxTime /\ resets \in 0 .. MaxResets /\ user \in Users
      /\ login \in [Logins -> LoginStates] /\ req \in [Requests -> RequestStates]
      /\ sessions \in Seq(Rows) /\ Len(sessions) <= MaxSessions
      /\ \A s \in Ids : /\ sessions[s].seen <= now /\ sessions[s].used <= now
                        /\ sessions[s].epoch <= resets
      /\ now \in Nat /\ resets \in Nat
      /\ MaxSessions \in Nat /\ MaxResets \in Nat /\ MaxTime \in Nat
    BY DEF Typed, SessionsTyped
<1>2. /\ \A s \in Ids : /\ sessions[s] \in Rows
                        /\ sessions[s].seen \in Nat /\ sessions[s].used \in Nat
                        /\ sessions[s].epoch \in Nat
      /\ Ids = 1 .. Len(sessions) /\ Len(sessions) \in Nat
    BY RowsTyped DEF Typed, Rows
<1>3. /\ NoReq \in RequestStates
      /\ \A l \in Logins : login[l].password \in Passwords
    BY <1>1 DEF NoReq, RequestStates, LoginStates
<1>4. ASSUME NEW r \in Requests,
             NEW at \in {"idle", "user", "touch", "expire", "disable", "handler"},
             Goto(r, at)
      PROVE  req' \in [Requests -> RequestStates]
    BY <1>1, <1>4 DEF Goto, RequestStates
<1>5. ASSUME NEW r \in Requests, req' = [req EXCEPT ![r] = NoReq]
      PROVE  req' \in [Requests -> RequestStates]
    BY <1>1, <1>3, <1>5
<1>6. ASSUME UNCHANGED <<sessions, resets>>, now' \in Nat, now <= now'
      PROVE  SessionsTyped'
    <2>1. \A s \in Ids : sessions[s].seen \in Nat /\ sessions[s].used \in Nat
        BY <1>2 DEF Rows
    <2>2. QED
        BY <1>1, <1>6, <2>1 DEF SessionsTyped, Ids
<1>7. CASE Quiet
    <2>1. CASE Tick
        <3>1. now' \in 0 .. MaxTime /\ now <= now' /\ now' \in Nat
            BY <1>1, <2>1 DEF Tick
        <3>2. SessionsTyped'
            BY <1>6, <1>7, <3>1 DEF Quiet
        <3>3. QED
            BY <1>1, <2>1, <3>1, <3>2 DEF Tick, Typed
    <2>2. ASSUME now' = now
          PROVE  SessionsTyped'
        BY <1>1, <1>6, <1>7, <2>2 DEF Quiet
    <2>3. ASSUME NEW l \in Logins, Rehash(l)
          PROVE  Typed'
        <3>1. user' \in Users /\ login' \in [Logins -> LoginStates]
            BY <1>1, <1>3, <2>3 DEF Rehash, Users, LoginStates
        <3>2. QED
            BY <1>1, <2>2, <2>3, <3>1 DEF Rehash, Typed
    <2>4. ASSUME NEW l \in Logins, NEW p \in Passwords, Authenticate(l, p)
          PROVE  Typed'
        <3>1. login' \in [Logins -> LoginStates]
            BY <1>1, <2>4 DEF Authenticate, LoginStates
        <3>2. QED
            BY <1>1, <2>2, <2>4, <3>1 DEF Authenticate, Typed
    <2>5. ASSUME NEW r \in Requests, NEW s \in Ids, NEW kind \in {"use", "logout"},
                 ReadSession(r, s, kind)
          PROVE  Typed'
        <3> DEFINE read == [at |-> IF Expired(s) THEN "expire" ELSE "user",
                            kind |-> kind, session |-> s, seen |-> sessions[s].seen]
        <3>1. s \in 0 .. MaxSessions /\ sessions[s].seen \in 0 .. MaxTime
            BY <1>1, <1>2
        <3>2. read \in RequestStates
            BY <3>1 DEF RequestStates
        <3>3. req' = [req EXCEPT ![r] = read]
            BY <2>5 DEF ReadSession
        <3> HIDE DEF read
        <3>4. req' \in [Requests -> RequestStates]
            BY <1>1, <3>2, <3>3
        <3>5. QED
            BY <1>1, <2>2, <2>5, <3>4 DEF ReadSession, Typed
    <2>6. ASSUME NEW r \in Requests, ReadUser(r)
          PROVE  Typed'
        <3>1. req' \in [Requests -> RequestStates]
            BY <1>4, <2>6 DEF ReadUser
        <3>2. QED
            BY <1>1, <2>2, <2>6, <3>1 DEF ReadUser, Typed
    <2>7. ASSUME NEW r \in Requests, Serve(r)
          PROVE  Typed'
        BY <1>1, <1>5, <2>2, <2>7 DEF Serve, Typed
    <2>8. ASSUME NEW active \in BOOLEAN, SetActive(active)
          PROVE  Typed'
        <3>1. user' \in Users
            BY <1>1, <2>8 DEF SetActive, Users
        <3>2. QED
            BY <1>1, <2>2, <2>8, <3>1 DEF SetActive, Typed
    <2>9. QED
        BY <1>7, <2>1, <2>3, <2>4, <2>5, <2>6, <2>7, <2>8 DEF Quiet
<1>8. ASSUME NEW l \in Logins, CreateSession(l)
      PROVE  Typed'
    <2>1. login' \in [Logins -> LoginStates]
        <3>1. NoLogin \in LoginStates
            BY <1>3 DEF NoLogin, LoginStates
        <3>2. QED
            BY <1>1, <1>8, <3>1 DEF CreateSession
    <2>2. UNCHANGED <<now, user, req, resets>>
        BY <1>8 DEF CreateSession
    <2>3. /\ sessions' \in Seq(Rows) /\ Len(sessions') <= MaxSessions
          /\ \A s \in Ids' : s \in Ids \/ s = Len(sessions) + 1
        BY <1>2, <1>8, CreateStep
    <2>4. \A s \in Ids' : /\ sessions'[s].seen <= now /\ sessions'[s].used <= now
                          /\ sessions'[s].epoch <= resets
        BY <1>1, <1>8, <2>3, CreateStep
    <2>5. QED
        BY <1>1, <2>1, <2>2, <2>3, <2>4 DEF Typed, SessionsTyped
<1>9. ASSUME NEW r \in Requests, req[r].session \in Ids,
             ReadUser(r) /\ Use(req[r].session)
      PROVE  Typed'
    <2>1. req' \in [Requests -> RequestStates] /\ UNCHANGED <<now, user, login, resets>>
        BY <1>4, <1>9 DEF ReadUser
    <2>2. /\ sessions' \in Seq(Rows) /\ Len(sessions') <= MaxSessions
          /\ Ids' = Ids
          /\ \A s \in Ids : \/ sessions'[s] = sessions[s]
                            \/ Becomes(s, sessions[s].seen, now, sessions[s].ended)
        BY <1>1, <1>9, UseStep
    <2>3. \A s \in Ids : /\ sessions'[s].seen <= now /\ sessions'[s].used <= now
                         /\ sessions'[s].epoch <= resets
        BY <1>1, <1>2, <2>2 DEF Becomes
    <2>4. QED
        BY <1>1, <2>1, <2>2, <2>3 DEF Typed, SessionsTyped
<1>10. ASSUME NEW r \in Requests, req[r].session \in Ids, TouchSession(r)
       PROVE  Typed'
    <2>1. req' \in [Requests -> RequestStates] /\ UNCHANGED <<now, user, login, resets>>
        BY <1>4, <1>10 DEF TouchSession
    <2>2. /\ sessions' \in Seq(Rows) /\ Len(sessions') <= MaxSessions
          /\ Ids' = Ids
          /\ \A s \in Ids : \/ sessions'[s] = sessions[s]
                            \/ Becomes(s, now, now, sessions[s].ended)
        BY <1>1, <1>10, TouchStep DEF TouchSession
    <2>3. \A s \in Ids : /\ sessions'[s].seen <= now /\ sessions'[s].used <= now
                         /\ sessions'[s].epoch <= resets
        <3>1. now <= now
            BY <1>1
        <3>2. QED
            BY <1>1, <2>2, <3>1 DEF Becomes
    <2>4. QED
        BY <1>1, <2>1, <2>2, <2>3 DEF Typed, SessionsTyped
<1>11. ASSUME NEW r \in Requests, req[r].session \in Ids, RevokeSession(r) \/ Logout(r)
       PROVE  Typed'
    <2>1. req' \in [Requests -> RequestStates] /\ UNCHANGED <<now, user, login, resets>>
        BY <1>5, <1>11 DEF RevokeSession, Logout
    <2>2. PICK why \in Reasons : End(req[r].session, why)
        BY <1>11 DEF RevokeSession, Logout, Reasons
    <2>3. /\ sessions' \in Seq(Rows) /\ Len(sessions') <= MaxSessions
          /\ Ids' = Ids
          /\ \A s \in Ids : \/ sessions'[s] = sessions[s]
                            \/ Becomes(s, sessions[s].seen, sessions[s].used,
                                       IF Revoked(s) THEN sessions[s].ended ELSE why)
        BY <1>1, <1>11, <2>2, EndStep
    <2>4. \A s \in Ids : /\ sessions'[s].seen <= now /\ sessions'[s].used <= now
                         /\ sessions'[s].epoch <= resets
        BY <1>1, <1>2, <2>3 DEF Becomes
    <2>5. QED
        BY <1>1, <2>1, <2>3, <2>4 DEF Typed, SessionsTyped
<1>12. ASSUME NEW p \in Passwords, ResetPassword(p)
       PROVE  Typed'
    <2>1. /\ resets' \in 0 .. MaxResets /\ resets <= resets'
          /\ UNCHANGED <<now, login, req>>
        BY <1>1, <1>12 DEF ResetPassword
    <2>2. user' \in Users
        BY <1>1, <1>12 DEF ResetPassword, Users
    <2>3. /\ sessions' \in Seq(Rows) /\ Len(sessions') <= MaxSessions
          /\ Ids' = Ids
          /\ \A s \in Ids :
                Becomes(s, sessions[s].seen, sessions[s].used,
                        IF Revoked(s) THEN sessions[s].ended ELSE "reset")
        BY <1>1, <1>12, ResetStep
    <2>4. \A s \in Ids : /\ sessions'[s].seen <= now /\ sessions'[s].used <= now
                         /\ sessions'[s].epoch <= resets'
        <3>1. \A n \in Nat : n <= resets => n <= resets'
            BY <1>1, <2>1
        <3>2. QED
            BY <1>1, <1>2, <2>3, <3>1 DEF Becomes
    <2>5. QED
        BY <1>1, <2>1, <2>2, <2>3, <2>4 DEF Typed, SessionsTyped
<1>13. CASE UNCHANGED vars
    BY <1>13 DEF vars, Typed, SessionsTyped, Ids
<1>14. QED
    BY <1>7, <1>8, <1>9, <1>10, <1>11, <1>12, <1>13, StepCases

LEMMA NextReadsHold ==
    ASSUME Typed, ReadsHold, [Next]_vars
    PROVE  ReadsHold'
<1>1. SUFFICES ASSUME NEW q \in Requests, req'[q].at # "idle"
               PROVE  /\ req'[q].session \in Ids'
                      /\ req'[q].at \in {"user", "touch"} =>
                            /\ req'[q].seen <= sessions'[req'[q].session].seen
                            /\ now' < req'[q].seen + Idle
                      /\ req'[q].at = "expire" =>
                            \/ sessions'[req'[q].session].expires <= now'
                            \/ sessions'[req'[q].session].seen + Idle <= now'
    BY DEF ReadsHold, Expired
<1>2. /\ now \in Nat /\ Idle \in Nat /\ req \in [Requests -> RequestStates]
      /\ \A s \in Ids : /\ sessions[s].seen \in Nat /\ sessions[s].expires \in Nat
                        /\ sessions[s].seen <= now
    BY RowsTyped, BoundAssumption, TouchAssumption DEF Typed, SessionsTyped, Rows
<1>3. \A s \in Ids :
         /\ s \in Ids'
         /\ sessions'[s].expires = sessions[s].expires
         /\ sessions[s].seen <= sessions'[s].seen
         /\ sessions[s].seen + Idle <= now => sessions'[s].seen = sessions[s].seen
    BY RowsKeep
<1>4. \A s \in Ids : sessions'[s].seen \in Nat
    <2>1. \A s \in Ids' : sessions'[s].seen \in Nat
        <3>1. sessions' \in Seq(Rows)
            BY NextTyped DEF Typed, SessionsTyped
        <3>2. \A s \in DOMAIN sessions' : sessions'[s] \in Rows
            BY <3>1, LenProperties, ElementOfSeq
        <3>3. QED
            BY <3>2 DEF Ids, Rows
    <2>2. QED
        BY <1>3, <2>1
(* The request keeps what it read, whatever others do, *)
<1>5. CASE /\ now' = now /\ req'[q].session = req[q].session
           /\ req'[q].seen = req[q].seen /\ req[q].at # "idle"
           /\ req'[q].at = req[q].at
                \/ (req'[q].at = "touch" /\ req[q].at = "user")
                \/ req'[q].at \notin {"user", "touch", "expire"}
    <2>1. /\ req[q].session \in Ids /\ req[q].seen \in Nat
          /\ req[q].at \in {"user", "touch"} =>
                req[q].seen <= sessions[req[q].session].seen
                    /\ now < req[q].seen + Idle
          /\ req[q].at = "expire" =>
                \/ sessions[req[q].session].expires <= now
                \/ sessions[req[q].session].seen + Idle <= now
        BY <1>2, <1>5, BoundAssumption DEF ReadsHold, Expired, RequestStates
    <2>2. QED
        BY <1>2, <1>3, <1>4, <1>5, <2>1
(* time passes only when no request is between its reads and its write, *)
<1>6. CASE Tick
    BY <1>1, <1>2, <1>3, <1>6 DEF Tick, ReadsHold
(* and a request that begins reads the row. *)
<1>7. ASSUME NEW s \in Ids, NEW kind \in {"use", "logout"}, ReadSession(q, s, kind)
      PROVE  /\ req'[q].session \in Ids'
             /\ req'[q].at \in {"user", "touch"} =>
                   /\ req'[q].seen <= sessions'[req'[q].session].seen
                   /\ now' < req'[q].seen + Idle
             /\ req'[q].at = "expire" =>
                   \/ sessions'[req'[q].session].expires <= now'
                   \/ sessions'[req'[q].session].seen + Idle <= now'
    <2>1. /\ req'[q].session = s /\ req'[q].seen = sessions[s].seen
          /\ req'[q].at = IF Expired(s) THEN "expire" ELSE "user"
          /\ now' = now
        BY <1>2, <1>7 DEF ReadSession
    <2>2. /\ req'[q].at = "expire" => \/ sessions[s].expires <= now
                                      \/ sessions[s].seen + Idle <= now
          /\ req'[q].at # "expire" => /\ req'[q].at = "user"
                                      /\ ~(sessions[s].seen + Idle <= now)
        BY <2>1 DEF Expired
    <2>3. QED
        BY <1>2, <1>3, <1>4, <2>1, <2>2
<1>8. QED
    <2>1. CASE UNCHANGED <<now, req>>
        BY <1>1, <1>5, <2>1
    <2>2. ASSUME NEW r \in Requests, NEW s \in Ids, NEW kind \in {"use", "logout"},
                 ReadSession(r, s, kind), r # q
          PROVE  now' = now /\ req'[q] = req[q]
        BY <1>2, <2>2 DEF ReadSession
    <2>3. ASSUME NEW r \in Requests, ReadUser(r) \/ TouchSession(r)
          PROVE  /\ now' = now /\ req'[q].session = req[q].session
                 /\ req'[q].seen = req[q].seen /\ req[q].at # "idle"
                 /\ req'[q].at = req[q].at
                      \/ (req'[q].at = "touch" /\ req[q].at = "user")
                      \/ req'[q].at \notin {"user", "touch", "expire"}
        BY <1>1, <1>2, <2>3 DEF ReadUser, TouchSession, Goto, RequestStates
    <2>4. ASSUME NEW r \in Requests, RevokeSession(r) \/ Serve(r) \/ Logout(r)
          PROVE  now' = now /\ req'[q] = req[q]
        BY <1>1, <1>2, <2>4 DEF RevokeSession, Serve, Logout, NoReq
    <2>5. ASSUME NEW l \in Logins, CreateSession(l) \/ Rehash(l)
          PROVE  UNCHANGED <<now, req>>
        BY <2>5 DEF CreateSession, Rehash
    <2>6. ASSUME NEW p \in Passwords, ResetPassword(p)
                    \/ \E l \in Logins : Authenticate(l, p)
          PROVE  UNCHANGED <<now, req>>
        BY <2>6 DEF ResetPassword, Authenticate
    <2>7. ASSUME NEW active \in BOOLEAN, SetActive(active)
          PROVE  UNCHANGED <<now, req>>
        BY <2>7 DEF SetActive
    <2>8. UNCHANGED vars => UNCHANGED <<now, req>>
        BY DEF vars
    <2>9. CASE now' = now /\ req'[q] = req[q]
        BY <1>1, <1>5, <2>9
    <2>10. QED
        BY <1>5, <1>6, <1>7, <2>1, <2>2, <2>3, <2>4, <2>5, <2>6, <2>7, <2>8, <2>9
           DEF Next

LEMMA NextSeenInTime ==
    ASSUME Typed, ReadsHold, SeenInTime, [Next]_vars
    PROVE  SeenInTime'
<1>1. /\ now \in Nat /\ Touch \in Nat \ {0} /\ Ids = 1 .. Len(sessions)
      /\ Len(sessions) \in Nat
      /\ \A s \in Ids : /\ sessions[s] \in Rows /\ sessions[s].seen \in Nat
                        /\ sessions[s].used < sessions[s].seen + Touch
    BY RowsTyped, BoundAssumption, TouchAssumption DEF Typed, Rows, SeenInTime
<1>2. CASE UNCHANGED sessions
    BY <1>2 DEF SeenInTime, Ids
<1>3. ASSUME NEW l \in Logins, CreateSession(l)
      PROVE  SeenInTime'
    <2>1. \A s \in Ids' : s \in Ids \/ s = Len(sessions) + 1
        BY <1>1, <1>3, CreateStep
    <2>2. QED
        BY <1>1, <1>3, <2>1, CreateStep DEF SeenInTime
<1>4. ASSUME NEW r \in Requests, req[r].session \in Ids,
             ReadUser(r) /\ Use(req[r].session)
      PROVE  SeenInTime'
    <2> DEFINE t == req[r].session
    <2>1. CASE UNCHANGED sessions
        BY <1>2, <2>1
    <2>2. CASE sessions' # sessions
        <3>1. /\ req[r].at = "user" /\ ~(req[r].seen + Touch <= now)
              /\ req[r].seen <= sessions[t].seen /\ req[r].seen \in Nat
            BY <1>4, <2>2, BoundAssumption
               DEF ReadUser, ReadsHold, Typed, RequestStates
        <3>2. now < sessions[t].seen + Touch
            BY <1>1, <1>4, <3>1
        <3>3. QED
            BY <1>1, <1>4, <3>2, UseStep DEF SeenInTime, Becomes
    <2>3. QED
        BY <2>1, <2>2
<1>5. ASSUME NEW r \in Requests, req[r].session \in Ids, TouchSession(r)
      PROVE  SeenInTime'
    <2>1. now < now + Touch
        BY <1>1
    <2>2. /\ Ids' = Ids
          /\ \A s \in Ids : \/ sessions'[s] = sessions[s]
                            \/ Becomes(s, now, now, sessions[s].ended)
        BY <1>5, TouchStep DEF TouchSession
    <2>3. QED
        BY <1>1, <2>1, <2>2 DEF SeenInTime, Becomes
<1>6. ASSUME NEW r \in Requests, req[r].session \in Ids, RevokeSession(r) \/ Logout(r)
      PROVE  SeenInTime'
    <2>1. \E why \in Reasons : End(req[r].session, why)
        BY <1>6 DEF RevokeSession, Logout, Reasons
    <2>2. QED
        BY <1>1, <1>6, <2>1, EndStep DEF SeenInTime, Becomes
<1>7. ASSUME NEW p \in Passwords, ResetPassword(p)
      PROVE  SeenInTime'
    BY <1>1, <1>7, ResetStep DEF SeenInTime, Becomes
<1>8. QED
    BY <1>2, <1>3, <1>4, <1>5, <1>6, <1>7, StepCases DEF Quiet, vars

LEMMA NextResetEndsEverySession ==
    ASSUME Typed, ReadsHold, ResetEndsEverySession, [Next]_vars
    PROVE  ResetEndsEverySession'
<1>1. Ids = 1 .. Len(sessions) /\ Len(sessions) \in Nat
    BY RowsTyped DEF Typed
<1>2. \A s \in Ids : /\ sessions'[s].epoch = sessions[s].epoch
                     /\ Revoked(s) => Revoked(s)'
    BY RowsKeep
<1>3. ASSUME UNCHANGED resets, Ids' \subseteq Ids
      PROVE  ResetEndsEverySession'
    BY <1>2, <1>3 DEF ResetEndsEverySession, Revoked
<1>4. ASSUME NEW l \in Logins, CreateSession(l)
      PROVE  ResetEndsEverySession'
    <2>1. \A s \in Ids' : s \in Ids \/ s = Len(sessions) + 1
        BY <1>1, <1>4, CreateStep
    <2>2. UNCHANGED resets
        BY <1>4 DEF CreateSession
    <2>3. QED
        BY <1>2, <1>4, <2>1, <2>2, CreateStep DEF ResetEndsEverySession, Revoked
<1>5. ASSUME NEW p \in Passwords, ResetPassword(p)
      PROVE  \A s \in Ids' : Revoked(s)'
    <2>1. \A s \in Ids : sessions[s] \in Rows
        BY RowsTyped DEF Typed
    <2>2. QED
        BY <1>5, <2>1, ResetStep DEF Revoked, Becomes
<1>6. ASSUME NEW r \in Requests, req[r].session \in Ids,
             (ReadUser(r) /\ Use(req[r].session)) \/ TouchSession(r)
                 \/ RevokeSession(r) \/ Logout(r)
      PROVE  UNCHANGED resets /\ Ids' \subseteq Ids
    <2>1. CASE ReadUser(r) /\ Use(req[r].session)
        BY <1>6, <2>1, UseStep DEF ReadUser
    <2>2. CASE TouchSession(r)
        BY <1>6, <2>2, TouchStep DEF TouchSession
    <2>3. CASE RevokeSession(r) \/ Logout(r)
        <3>1. \E why \in Reasons : End(req[r].session, why)
            BY <2>3 DEF RevokeSession, Logout, Reasons
        <3>2. QED
            BY <1>6, <2>3, <3>1, EndStep DEF RevokeSession, Logout
    <2>4. QED
        BY <1>6, <2>1, <2>2, <2>3
<1>7. UNCHANGED <<sessions, resets>> => UNCHANGED resets /\ Ids' \subseteq Ids
    BY DEF Ids
<1>8. QED
    BY <1>3, <1>4, <1>5, <1>6, <1>7, StepCases
       DEF Quiet, vars, ResetEndsEverySession

LEMMA NextInv == Inv /\ [Next]_vars => Inv'
BY NextTyped, NextReadsHold, NextSeenInTime, NextResetEndsEverySession DEF Inv

-----------------------------------------------------------------------------
(* The theorems *)

(* The variables keep their types, and no session is from the future. *)
THEOREM TypeCorrect == Spec => []TypeOK
<1>1. Inv => TypeOK
    <2> SUFFICES ASSUME Inv
                 PROVE  TypeOK
        OBVIOUS
    <2>1. /\ Ids = 1 .. Len(sessions) /\ Len(sessions) \in Nat
          /\ \A s \in Ids : sessions[s] \in Rows
        BY RowsTyped DEF Inv, Typed
    <2>2. \A s \in Ids :
             /\ sessions[s] \in [seen : 0 .. now, expires : Nat, password : Passwords,
                                 ended : Reasons, used : 0 .. now, epoch : 0 .. resets]
        <3>1. now \in Nat /\ resets \in Nat
            BY BoundAssumption DEF Inv, Typed
        <3>2. \A s \in Ids : /\ sessions[s].seen <= now /\ sessions[s].used <= now
                             /\ sessions[s].epoch <= resets
            BY DEF Inv, Typed, SessionsTyped
        <3>3. QED
            BY <2>1, <3>1, <3>2 DEF Rows, Reasons
    <2>3. QED
        BY <2>1, <2>2 DEF Inv, Typed, SessionsTyped, TypeOK, Users, LoginStates,
                          RequestStates, Reasons
<1>2. QED
    BY <1>1, InitInv, NextInv, PTL DEF Spec

(* reset_user_password ends every session that exists when it commits,     *)
(* whatever is in flight on it.                                            *)
THEOREM ResetsEndSessions == Spec => []ResetEndsEverySession
<1>1. Inv => ResetEndsEverySession
    BY DEF Inv
<1>2. QED
    BY <1>1, InitInv, NextInv, PTL DEF Spec

(* No request brings back a session that a logout, an expiry, a            *)
(* deactivation or a reset revoked while the request was under way.        *)
THEOREM RevocationIsFinal == Spec => RevokedStaysRevoked
<1>1. Inv /\ [Next]_vars => [\A s \in Ids : Revoked(s) => Revoked(s)']_vars
    BY RowsKeep DEF Inv
<1>2. QED
    BY <1>1, InitInv, NextInv, PTL DEF Spec, RevokedStaysRevoked

(* Although last_seen_at is written every Touch minutes only, nobody is    *)
(* signed out who used the session within the last Idle - Touch minutes.   *)
THEOREM ExpiriesAreJustified == Spec => ExpiryIsJustified
<1>1. Inv /\ [Next]_vars =>
          [\A s \in Ids :
              sessions[s].ended = "no" /\ sessions'[s].ended = "expire" =>
                  \/ sessions[s].expires <= now
                  \/ now - sessions[s].used > Idle - Touch]_vars
    <2> SUFFICES ASSUME Inv, [Next]_vars, NEW s \in Ids,
                        sessions[s].ended = "no", sessions'[s].ended = "expire"
                 PROVE  \/ sessions[s].expires <= now
                        \/ now - sessions[s].used > Idle - Touch
        OBVIOUS
    <2>1. /\ now \in Nat /\ Idle \in Nat /\ Touch \in Nat
          /\ sessions[s] \in Rows /\ sessions[s].seen \in Nat
          /\ sessions[s].used \in Nat /\ sessions[s].used < sessions[s].seen + Touch
        BY RowsTyped, BoundAssumption, TouchAssumption
           DEF Inv, Typed, Rows, SeenInTime
    <2>2. Expired(s)
        <3>1. ASSUME NEW r \in Requests, req[r].session \in Ids, RevokeSession(r)
              PROVE  Expired(s)
            <4>1. End(req[r].session, req[r].at) /\ req[r].at \in Reasons
                BY <3>1 DEF RevokeSession, Reasons
            <4>2. req[r].session = s /\ req[r].at = "expire"
                BY <2>1, <3>1, <4>1, EndStep DEF Inv, Becomes, Revoked
            <4>3. QED
                BY <4>2 DEF Inv, ReadsHold
        <3>2. ASSUME NEW r \in Requests, req[r].session \in Ids, Logout(r)
              PROVE  FALSE
            <4>1. End(req[r].session, "logout") /\ "logout" \in Reasons
                BY <3>2 DEF Logout, Reasons
            <4>2. QED
                BY <2>1, <3>2, <4>1, EndStep DEF Inv, Becomes, Revoked
        <3>3. ASSUME NEW r \in Requests, req[r].session \in Ids,
                     Use(req[r].session) \/ TouchSession(r)
              PROVE  FALSE
            BY <2>1, <3>3, UseStep, TouchStep DEF Inv, TouchSession, Becomes
        <3>4. ASSUME NEW l \in Logins, CreateSession(l)
              PROVE  FALSE
            BY <3>4, CreateStep DEF Inv
        <3>5. ASSUME NEW p \in Passwords, ResetPassword(p)
              PROVE  FALSE
            BY <2>1, <3>5, ResetStep DEF Inv, Becomes, Revoked
        <3>6. sessions' # sessions
            OBVIOUS
        <3>7. QED
            BY <3>1, <3>2, <3>3, <3>4, <3>5, <3>6, StepCases DEF Inv, Quiet, vars
    <2>3. QED
        BY <2>1, <2>2 DEF Expired
<1>2. QED
    BY <1>1, InitInv, NextInv, PTL DEF Spec, ExpiryIsJustified

===============================================================================
