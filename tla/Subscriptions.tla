---------------------------- MODULE Subscriptions ----------------------------
(***************************************************************************)
(* PUT and DELETE /subscriptions/{channel} (routers/subscriptions.py), one *)
(* user and one channel: two browser tabs, or the web and the Flutter      *)
(* client, may toggle the same subscription at once.                       *)
(*                                                                         *)
(* owned_subscription is a SELECT; the INSERT or UPDATE it leads to is a   *)
(* later statement, and other handlers commit in between.                  *)
(***************************************************************************)
EXTENDS Naturals, FiniteSets

CONSTANTS
    Tabs,         \* handler invocations that may be in flight together
    MaxToggles    \* bound: requests started

ASSUME TogglesAssumption == MaxToggles \in Nat

VARIABLES
    row,      \* the Subscription row: "none", "enabled" or "disabled"
    toggle,   \* per request: kind, progress, and the row its SELECT saw
    toggles,  \* requests started so far
    history   \* history: what the row has been since each request began

toggleVars == <<row, toggle, toggles, history>>

RowState == {"none", "enabled", "disabled"}
Toggles == {"put", "delete"}
At == {"idle", "select", "write", "answered", "failed"}

ToggleInit ==
    /\ row = "none"
    /\ toggle = [r \in Tabs |-> [at |-> "idle", kind |-> "put", seen |-> "none"]]
    /\ toggles = 0
    /\ history = [r \in Tabs |-> {}]

BeginToggle(r, kind) ==
    /\ toggle[r].at = "idle"
    /\ toggles < MaxToggles
    /\ toggles' = toggles + 1
    /\ toggle' = [toggle EXCEPT ![r] = [at |-> "select", kind |-> kind, seen |-> "none"]]
    /\ history' = [history EXCEPT ![r] = {row}]
    /\ UNCHANGED row

(* Mutant of AsAsked: any row counts as a subscription. *)
AsAskedByAnyRow(kind, state) ==
    \/ kind = "put" /\ state # "none"
    \/ kind = "delete" /\ state # "enabled"

(* What the handler finds needs no write. *)
AsAsked(kind, state) ==
    \/ kind = "put" /\ state = "enabled"
    \/ kind = "delete" /\ state # "enabled"

(* owned_subscription *)
OwnedSubscription(r) ==
    /\ toggle[r].at = "select"
    /\ toggle' = [toggle EXCEPT
                     ![r].at = IF AsAsked(toggle[r].kind, row) THEN "answered" ELSE "write",
                     ![r].seen = row]
    /\ UNCHANGED <<row, toggles, history>>

Settle(new) ==
    /\ row' = new
    /\ history' = [r \in Tabs |-> history[r] \cup {new}]

(* session.commit(): INSERT when the SELECT found no row, else UPDATE.  An *)
(* INSERT fails the unique constraint if a row has appeared since; nothing *)
(* catches that IntegrityError, so the second of two first subscriptions   *)
(* is answered 500 although docs/subscriptions.md:13 calls repeating it    *)
(* idempotent.                                                             *)
Write(r) ==
    /\ toggle[r].at = "write"
    /\ LET fails == toggle[r].seen = "none" /\ row # "none"
       IN  /\ toggle' = [toggle EXCEPT ![r].at = IF fails THEN "failed" ELSE "answered"]
           /\ IF fails THEN UNCHANGED <<row, history>>
              ELSE Settle(IF toggle[r].kind = "put" THEN "enabled" ELSE "disabled")
    /\ UNCHANGED toggles

(* The tab has its answer and may ask again. *)
Done(r) ==
    /\ toggle[r].at \in {"answered", "failed"}
    /\ toggle' = [toggle EXCEPT ![r].at = "idle"]
    /\ history' = [history EXCEPT ![r] = {}]
    /\ UNCHANGED <<row, toggles>>

ToggleNext ==
    \E r \in Tabs :
        \/ \E kind \in Toggles : BeginToggle(r, kind)
        \/ OwnedSubscription(r)
        \/ Write(r)
        \/ Done(r)

ToggleSpec == ToggleInit /\ [][ToggleNext]_toggleVars

(* A toggle that is answered took effect: at some moment between its       *)
(* arrival and its answer the subscription was as it asked, even when the  *)
(* handler wrote nothing because of a row it had read earlier.             *)
AnsweredAsAsked ==
    \A r \in Tabs :
        toggle[r].at = "answered" =>
            IF toggle[r].kind = "put" THEN "enabled" \in history[r]
            ELSE history[r] \ {"enabled"} # {}

==============================================================================
