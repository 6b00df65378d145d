----------------------------- MODULE WebSessions -----------------------------
(***************************************************************************)
(* Web sessions of one user: login, the check every cookie request and     *)
(* every poll of the inbox stream makes, logout, the administrator's       *)
(* password reset (user_security.py, routers/session.py, routers/admin.py) *)
(*                                                                         *)
(* Password verification is slow and holds no lock, and each SELECT sees   *)
(* what is committed when it runs, so resets, logouts and other requests   *)
(* commit between a handler's reads and the write they lead to.            *)
(***************************************************************************)
EXTENDS Naturals, Sequences

CONSTANTS
    Logins,       \* login requests that may be in flight together
    Requests,     \* cookie requests that may be in flight together
    Passwords,
    Lifetime,     \* session_lifetime_minutes
    Idle,         \* session_idle_minutes
    Touch,        \* session_touch_minutes
    MaxSessions,  \* bound: sessions created
    MaxResets,    \* bound: password resets
    MaxTime       \* bound: the clock

(* config.py refuses an interval between touches that is less than a       *)
(* minute or as long as the idle time.                                     *)
ASSUME TouchAssumption == {Lifetime, Idle, Touch} \subseteq Nat \ {0} /\ Touch < Idle
ASSUME BoundAssumption == {MaxSessions, MaxResets, MaxTime} \subseteq Nat

VARIABLES
    now,        \* minutes
    user,       \* the User row: active, password, needs rehash
    sessions,   \* WebSession rows, in the order of their ids
    login,      \* per login request: progress and password
    req,        \* per cookie request: progress, kind, session and the
                \* last_seen_at it read
    resets      \* history: password resets committed

vars == <<now, user, sessions, login, req, resets>>

NoLogin == [at |-> "idle", password |-> CHOOSE p \in Passwords : TRUE]
NoReq == [at |-> "idle", kind |-> "use", session |-> 0, seen |-> 0]

Init ==
    /\ now = 0
    /\ \E p \in Passwords, old \in BOOLEAN :
          /\ user = [active |-> TRUE, password |-> p, rehash |-> old]
    /\ sessions = << >>
    /\ login = [l \in Logins |-> NoLogin]
    /\ req = [r \in Requests |-> NoReq]
    /\ resets = 0

(* A statement waits for SQLite's lock for seconds, not minutes. *)
Tick ==
    /\ now < MaxTime
    /\ \A r \in Requests : req[r].at \in {"idle", "handler"}
    /\ now' = now + 1
    /\ UNCHANGED <<user, sessions, login, req, resets>>

-----------------------------------------------------------------------------
(* authenticate_user: one SELECT, then the verification against what it    *)
(* read.  A login that fails changes nothing here (LoginThrottle has it).  *)
Authenticate(l, password) ==
    /\ login[l].at = "idle"
    /\ Len(sessions) < MaxSessions
    /\ user.active
    /\ user.password = password
    /\ login' = [login EXCEPT ![l] = [at |-> IF user.rehash THEN "rehash" ELSE "create",
                                      password |-> password]]
    /\ UNCHANGED <<now, user, sessions, req, resets>>

(* The hash it verified was made with older parameters: write the password *)
(* back, hashed anew.                                                      *)
Rehash(l) ==
    /\ login[l].at = "rehash"
    /\ user' = [user EXCEPT !.password = login[l].password, !.rehash = FALSE]
    /\ login' = [login EXCEPT ![l].at = "create"]
    /\ UNCHANGED <<now, sessions, req, resets>>

(* create_web_session *)
CreateSession(l) ==
    /\ login[l].at = "create"
    /\ Len(sessions) < MaxSessions
    /\ sessions' = Append(sessions, [seen |-> now, expires |-> now + Lifetime,
                                     ended |-> "no", password |-> login[l].password,
                                     used |-> now, epoch |-> resets])
    /\ login' = [login EXCEPT ![l] = NoLogin]
    /\ UNCHANGED <<now, user, req, resets>>

-----------------------------------------------------------------------------
Ids == DOMAIN sessions
Revoked(s) == sessions[s].ended # "no"
Expired(s) == sessions[s].expires <= now \/ sessions[s].seen + Idle <= now

Goto(r, at) == req' = [req EXCEPT ![r].at = at]
Use(s) == sessions' = [sessions EXCEPT ![s].used = now]
End(s, why) == sessions' = [sessions EXCEPT ![s].ended = IF @ = "no" THEN why ELSE @]

(* require_user_session, principal_session_is_active: the WebSession row.  *)
(* When it is revoked the answer is 401, or the stream ends, and nothing   *)
(* changes.                                                                *)
ReadSession(r, s, kind) ==
    /\ req[r].at = "idle"
    /\ ~Revoked(s)
    /\ req' = [req EXCEPT ![r] = [at |-> IF Expired(s) THEN "expire" ELSE "user",
                                  kind |-> kind, session |-> s,
                                  seen |-> sessions[s].seen]]
    /\ UNCHANGED <<now, user, sessions, login, resets>>

(* Mutant of ReadUser: last_seen_at is written only once Idle has passed. *)
ReadUserTouchLate(r) ==
    /\ req[r].at = "user"
    /\ IF ~user.active THEN Goto(r, "disable") /\ UNCHANGED sessions
       ELSE IF req[r].seen + Idle <= now THEN Goto(r, "touch") /\ UNCHANGED sessions
       ELSE Goto(r, "handler") /\ Use(req[r].session)
    /\ UNCHANGED <<now, user, login, resets>>

(* Then the User row, and whether last_seen_at is due to be written. *)
ReadUser(r) ==
    /\ req[r].at = "user"
    /\ IF ~user.active THEN Goto(r, "disable") /\ UNCHANGED sessions
       ELSE IF req[r].seen + Touch <= now THEN Goto(r, "touch") /\ UNCHANGED sessions
       ELSE Goto(r, "handler") /\ Use(req[r].session)
    /\ UNCHANGED <<now, user, login, resets>>

(* Mutant of TouchSession: the whole row is written back as it was read. *)
TouchWholeRow(r) ==
    /\ req[r].at = "touch"
    /\ sessions' = [sessions EXCEPT ![req[r].session].seen = now,
                                    ![req[r].session].used = now,
                                    ![req[r].session].ended = "no"]
    /\ Goto(r, "handler")
    /\ UNCHANGED <<now, user, login, resets>>

(* UPDATE web_sessions SET last_seen_at = ? WHERE id = ? *)
TouchSession(r) ==
    /\ req[r].at = "touch"
    /\ sessions' = [sessions EXCEPT ![req[r].session].seen = now,
                                    ![req[r].session].used = now]
    /\ Goto(r, "handler")
    /\ UNCHANGED <<now, user, login, resets>>

(* UPDATE web_sessions SET revoked_at = ? WHERE id = ?, and 401. *)
RevokeSession(r) ==
    /\ req[r].at \in {"expire", "disable"}
    /\ End(req[r].session, req[r].at)
    /\ req' = [req EXCEPT ![r] = NoReq]
    /\ UNCHANGED <<now, user, login, resets>>

(* A GET, or the stream's poll, is served. *)
Serve(r) ==
    /\ req[r].at = "handler"
    /\ req[r].kind = "use"
    /\ req' = [req EXCEPT ![r] = NoReq]
    /\ UNCHANGED <<now, user, sessions, login, resets>>

(* require_csrf_user_session reads the row once more, and logout then      *)
(* revokes it; it answers 204, or 401 when the row was revoked meanwhile.  *)
Logout(r) ==
    /\ req[r].at = "handler"
    /\ req[r].kind = "logout"
    /\ End(req[r].session, "logout")
    /\ req' = [req EXCEPT ![r] = NoReq]
    /\ UNCHANGED <<now, user, login, resets>>

-----------------------------------------------------------------------------
(* Mutant of ResetPassword: the newest session is spared. *)
ResetSparesTheLast(password) ==
    /\ resets < MaxResets
    /\ resets' = resets + 1
    /\ user' = [user EXCEPT !.password = password, !.rehash = FALSE]
    /\ sessions' = [s \in Ids |-> IF Revoked(s) \/ s = Len(sessions) THEN sessions[s]
                                  ELSE [sessions[s] EXCEPT !.ended = "reset"]]
    /\ UNCHANGED <<now, login, req>>

(* reset_user_password: the new hash and the revocations are one           *)
(* transaction.                                                            *)
ResetPassword(password) ==
    /\ resets < MaxResets
    /\ resets' = resets + 1
    /\ user' = [user EXCEPT !.password = password, !.rehash = FALSE]
    /\ sessions' = [s \in Ids |-> IF Revoked(s) THEN sessions[s]
                                  ELSE [sessions[s] EXCEPT !.ended = "reset"]]
    /\ UNCHANGED <<now, login, req>>

(* No route changes is_active: the operator does, in the database. *)
SetActive(active) ==
    /\ user.active # active
    /\ user' = [user EXCEPT !.active = active]
    /\ UNCHANGED <<now, sessions, login, req, resets>>

Next ==
    \/ Tick
    \/ \E l \in Logins :
          \/ \E p \in Passwords : Authenticate(l, p)
          \/ Rehash(l)
          \/ CreateSession(l)
    \/ \E r \in Requests :
          \/ \E s \in Ids, kind \in {"use", "logout"} : ReadSession(r, s, kind)
          \/ ReadUser(r) \/ TouchSession(r) \/ RevokeSession(r)
          \/ Serve(r) \/ Logout(r)
    \/ \E p \in Passwords : ResetPassword(p)
    \/ \E active \in BOOLEAN : SetActive(active)

Spec == Init /\ [][Next]_vars

-----------------------------------------------------------------------------
TypeOK ==
    /\ now \in 0 .. MaxTime
    /\ user \in [active : BOOLEAN, password : Passwords, rehash : BOOLEAN]
    /\ Ids = 1 .. Len(sessions) /\ Len(sessions) <= MaxSessions
    /\ \A s \in Ids :
          sessions[s] \in [seen : 0 .. now, expires : Nat, password : Passwords,
                          ended : {"no", "expire", "disable", "logout", "reset"},
                          used : 0 .. now, epoch : 0 .. resets]
    /\ login \in [Logins -> [at : {"idle", "rehash", "create"}, password : Passwords]]
    /\ req \in [Requests -> [at : {"idle", "user", "touch", "expire", "disable", "handler"},
                             kind : {"use", "logout"}, session : 0 .. MaxSessions,
                             seen : 0 .. MaxTime]]
    /\ resets \in 0 .. MaxResets

(* A revoked session stays revoked: a request that found it live and       *)
(* writes last_seen_at after a logout or a reset does not bring it back.   *)
RevokedStaysRevoked == [][\A s \in Ids : Revoked(s) => Revoked(s)']_vars

(* A password reset ends every session that existed when it committed,     *)
(* whatever requests on them were in flight (docs/security.md:44).         *)
ResetEndsEverySession == \A s \in Ids : ~Revoked(s) => sessions[s].epoch = resets

(* last_seen_at is written only every Touch minutes, yet a session expires *)
(* only if its time is up or it was really left unused for more than       *)
(* Idle - Touch minutes.                                                   *)
ExpiryIsJustified ==
    [][\A s \in Ids :
          sessions[s].ended = "no" /\ sessions'[s].ended = "expire" =>
              \/ sessions[s].expires <= now
              \/ now - sessions[s].used > Idle - Touch]_vars

==============================================================================
