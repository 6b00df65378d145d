---------------------------- MODULE LoginThrottle ----------------------------
(***************************************************************************)
(* The login abuse controls (login_security.py) as routers/session.py uses *)
(* them: concurrent login attempts from one source address against some    *)
(* accounts.                                                               *)
(*                                                                         *)
(* check_login_rate_limit reads the buckets before the slow Argon2         *)
(* verification; the outcome is recorded afterwards, in a transaction that *)
(* starts with the DELETE of _cleanup.  That first DML takes SQLite's      *)
(* write lock, so recordings are serialised, and each reads the buckets as *)
(* the one before left them.  Checks are not part of it: any number of     *)
(* attempts may be between their check and their recording.  Each function *)
(* reads its clock before it waits for that lock, at most 5 seconds, which *)
(* is below the minute this clock counts.  A recording that does not get   *)
(* the lock in that time, or meets a crash, is rolled back: the attempt is *)
(* answered 500 and leaves no trace.                                       *)
(***************************************************************************)
EXTENDS Integers, Sequences, FiniteSets

CONSTANTS
    Attempts,        \* login requests that may be in flight together
    Accounts,
    Source,          \* the key of the source-wide bucket
    SourceLimit,     \* login_rate_source_attempts
    AccountLimit,    \* login_rate_account_attempts
    Window,          \* login_rate_window_minutes
    Cooldown,        \* login_rate_cooldown_minutes
    Ttl,             \* login_rate_state_ttl_hours
    MaxTime          \* bound on the clock

ASSUME SourceAssumption == Source \notin Accounts
ASSUME LimitAssumption ==
    {SourceLimit, AccountLimit, Window, Cooldown, Ttl} \subseteq Nat \ {0}
ASSUME AttemptsAssumption == IsFiniteSet(Attempts)
ASSUME TimeAssumption == MaxTime \in Nat

VARIABLES
    now,       \* minutes
    bucket,    \* LoginRateBucket rows, by key: a source-wide one and one
               \* for the source with each account
    attempt,   \* per login request: progress, account and outcome
    guesses    \* history: the minutes of the failures recorded; all those
               \* answered as such (401 or 429) are among them

vars == <<now, bucket, attempt, guesses>>

Keys == Accounts \cup {Source}
Limit(k) == IF k = Source THEN SourceLimit ELSE AccountLimit
KeysOf(a) == {Source, a}

NotBlocked == -1
NoBucket == [exists |-> FALSE, start |-> 0, failures |-> 0,
             until |-> NotBlocked, updated |-> 0]

Blocked(b) == b.exists /\ b.until > now

Init ==
    /\ now = 0
    /\ bucket = [k \in Keys |-> NoBucket]
    /\ attempt = [r \in Attempts |-> [at |-> "idle", account |-> Source]]
    /\ guesses = << >>

Tick ==
    /\ now < MaxTime
    /\ now' = now + 1
    /\ UNCHANGED <<bucket, attempt, guesses>>

(* _cleanup deletes buckets untouched for longer than the time to live. *)
Cleaned(b) == IF b.exists /\ b.updated < now - Ttl THEN NoBucket ELSE b

(* _bucket: the row, created when it is missing. *)
Fetched(b) == IF b.exists THEN b
              ELSE [exists |-> TRUE, start |-> now, failures |-> 0,
                    until |-> NotBlocked, updated |-> now]

(* _reset_if_elapsed: the block has run out, or the window has. *)
Elapsed(b) == \/ b.until # NotBlocked /\ b.until <= now
              \/ b.start + Window <= now
Current(b) == IF Elapsed(b)
                THEN [b EXCEPT !.start = now, !.failures = 0, !.until = NotBlocked]
                ELSE b

(* Mutants of Failed: the limit itself is still allowed; the block ends a  *)
(* minute early.                                                           *)
FailedPastLimit(k, b) ==
    LET c == Current(Fetched(Cleaned(b)))
        n == c.failures + 1
    IN  [c EXCEPT !.failures = n, !.updated = now,
                  !.until = IF n > Limit(k) THEN now + Cooldown ELSE @]

FailedShortBlock(k, b) ==
    LET c == Current(Fetched(Cleaned(b)))
        n == c.failures + 1
    IN  [c EXCEPT !.failures = n, !.updated = now,
                  !.until = IF n >= Limit(k) THEN now + Cooldown - 1 ELSE @]

(* record_login_failure for one bucket *)
Failed(k, b) ==
    LET c == Current(Fetched(Cleaned(b)))
        n == c.failures + 1
    IN  [c EXCEPT !.failures = n, !.updated = now,
                  !.until = IF n >= Limit(k) THEN now + Cooldown ELSE @]

(* record_login_success for the source-and-account bucket *)
Forgiven(b) ==
    LET c == Cleaned(b)
    IN  IF c.exists THEN [c EXCEPT !.start = now, !.failures = 0,
                                   !.until = NotBlocked, !.updated = now]
        ELSE c

(* Mutant of Check: an attempt that is turned away restarts the window.   *)
CheckRestarts(r, a) ==
    /\ attempt[r].at = "idle"
    /\ IF \E k \in KeysOf(a) : Blocked(bucket[k])
         THEN /\ bucket' = [k \in Keys |-> Current(Cleaned(bucket[k]))]
              /\ UNCHANGED attempt
         ELSE /\ attempt' = [attempt EXCEPT ![r] = [at |-> "verify", account |-> a]]
              /\ UNCHANGED bucket
    /\ UNCHANGED <<now, guesses>>

(* check_login_rate_limit.  A blocked attempt is answered 429 after        *)
(* record_rate_limited has cleaned up; no bucket counts it.  (A cleanup    *)
(* that fails changes nothing.)                                            *)
Check(r, a) ==
    /\ attempt[r].at = "idle"
    /\ IF \E k \in KeysOf(a) : Blocked(bucket[k])
         THEN /\ bucket' = [k \in Keys |-> Cleaned(bucket[k])]
              /\ UNCHANGED attempt
         ELSE /\ attempt' = [attempt EXCEPT ![r] = [at |-> "verify", account |-> a]]
              /\ UNCHANGED bucket
    /\ UNCHANGED <<now, guesses>>

(* authenticate_user said no: record_login_failure, one transaction. *)
RecordFailure(r) ==
    /\ attempt[r].at = "verify"
    /\ LET hit == KeysOf(attempt[r].account)
       IN  /\ bucket' = [k \in Keys |-> IF k \in hit THEN Failed(k, bucket[k])
                                        ELSE Cleaned(bucket[k])]
    /\ guesses' = Append(guesses, now)
    /\ attempt' = [attempt EXCEPT ![r].at = "idle"]
    /\ UNCHANGED now

(* Mutant of RecordSuccess: the source-wide bucket is reset too. *)
RecordSuccessForAll(r) ==
    /\ attempt[r].at = "verify"
    /\ bucket' = [k \in Keys |-> IF k \in KeysOf(attempt[r].account)
                                   THEN Forgiven(bucket[k]) ELSE Cleaned(bucket[k])]
    /\ attempt' = [attempt EXCEPT ![r].at = "idle"]
    /\ UNCHANGED <<now, guesses>>

(* It said yes: record_login_success, and then create_web_session. *)
RecordSuccess(r) ==
    /\ attempt[r].at = "verify"
    /\ bucket' = [k \in Keys |-> IF k = attempt[r].account THEN Forgiven(bucket[k])
                                 ELSE Cleaned(bucket[k])]
    /\ attempt' = [attempt EXCEPT ![r].at = "idle"]
    /\ UNCHANGED <<now, guesses>>

(* The recording fails, whatever the verification said: a 500, no session, *)
(* and no bucket has changed.                                              *)
RecordingFails(r) ==
    /\ attempt[r].at = "verify"
    /\ attempt' = [attempt EXCEPT ![r].at = "idle"]
    /\ UNCHANGED <<now, bucket, guesses>>

Next ==
    \/ Tick
    \/ \E r \in Attempts :
          \/ \E a \in Accounts : Check(r, a)
          \/ RecordFailure(r)
          \/ RecordSuccess(r)
          \/ RecordingFails(r)

Spec == Init /\ [][Next]_vars

-----------------------------------------------------------------------------
(* The limit is checked before the password and counted after it, so it    *)
(* can be overshot, but only by the attempts that were being verified when *)
(* the last allowed failure was recorded.                                  *)
OvershootIsInFlight ==
    \A k \in Keys : bucket[k].failures <= Limit(k) + Cardinality(Attempts) - 1

(* The most that one window of the source-wide bucket can count.           *)
Overshot == SourceLimit + Cardinality(Attempts) - 1

(* What one source can learn: however the failures fall across the edges   *)
(* of the counting window, and although a late failure can start a new     *)
(* window and so lift a block, no Window minutes see more passwords        *)
(* answered as wrong than two windows can count, less two: of the earlier  *)
(* one the failure that opened it is too old by then, and one of its       *)
(* attempts opens the later one.  (For a cooldown that is not shorter than *)
(* the window and a window of at most the time to live, as with the        *)
(* defaults.)  Passwords verified are not bounded: one whose recording     *)
(* fails is counted nowhere, but it is answered 500 whether it was right   *)
(* or wrong, and right or wrong it opens no session.                       *)
AnsweredGuessesAreBounded ==
    \A t \in 0 .. MaxTime :
        Cardinality({i \in DOMAIN guesses : t <= guesses[i] /\ guesses[i] < t + Window})
            <= IF Overshot > 1 THEN 2 * (Overshot - 1) ELSE Overshot

AnsweredNow(r) == attempt[r].at = "verify" /\ attempt'[r].at = "idle"

(* A block outlasts every request it turns away, their cleanup included:   *)
(* it ends before its time only when an attempt on that key that had been  *)
(* let through before the block was placed is recorded after it.  (For a   *)
(* cooldown of at most the time to live, which config.py does not demand:  *)
(* _cleanup would cut a longer one short.)                                 *)
BlockOutlastsArrivals ==
    [][\A k \in Keys :
          Blocked(bucket[k]) /\ now' = now /\ ~Blocked(bucket[k])' =>
              \E r \in Attempts : AnsweredNow(r) /\ k \in KeysOf(attempt[r].account)]_vars

(* docs/security.md, "Login abuse controls": a successful login does not   *)
(* erase unrelated abuse history.  A counter goes down only when its       *)
(* window or its block has run out, or because of a login to the very      *)
(* account it counts.  (For a window of at most the time to live.)         *)
UnrelatedHistoryIsKept ==
    [][\A k \in Keys :
          bucket'[k].failures < bucket[k].failures =>
              \/ Elapsed(bucket[k])
              \/ \E r \in Attempts : AnsweredNow(r) /\ attempt[r].account = k]_vars
==============================================================================
