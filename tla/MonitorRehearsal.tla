--------------------------- MODULE MonitorRehearsal ---------------------------
(***************************************************************************)
(* deploy/monitoring/monitor_client.py: the commands with which an outage  *)
(* of Notify is rehearsed against a disposable stack, in any order, while  *)
(* the application stops and starts and the way to the gateway breaks.     *)
(***************************************************************************)
EXTENDS Naturals, Sequences

CONSTANTS
    MaxChanges,   \* bound: changes of the application or of the way to it
    MaxAlerts     \* bound: messages of the ntfy topic

VARIABLES
    app,        \* "up" or "stopped"
    way,        \* "clear" or "broken": from the monitor to the gateway
    acl,        \* "closed", or "open": the topic lets anybody read and publish
    history,    \* the values of app so far (ghost)
    changes,    \* counts against MaxChanges
    alerts,     \* the titles in the topic
    pending,    \* the transition an evaluate command has still to publish
    validated   \* the last sequence assert-sequence printed as validated

vars == <<app, way, acl, history, changes, alerts, pending, validated>>

Titles == {"DOWN", "RECOVERED"}

Init ==
    /\ app = "up" /\ way = "clear"
    /\ acl \in {"closed", "open"}
    /\ history = <<"up">>
    /\ changes = 0
    /\ alerts = <<>>
    /\ pending = "none"
    /\ validated = <<>>

(* notify_status: the gateway answers 502 for a stopped application, and 0 *)
(* stands for no answer at all.                                            *)
Status ==
    IF way = "broken" THEN 0
    ELSE IF app = "stopped" THEN 502 ELSE 200

RequireUp == Status = 200

(* Mutant of RequireDown: whatever is not healthy is down. *)
RequireUnhealthy == Status # 200

RequireDown == Status >= 500

(* evaluate: the probe comes first, the publication is a request later. *)
Evaluate(title) ==
    /\ pending = "none"
    /\ IF title = "DOWN" THEN RequireDown ELSE RequireUp
    /\ pending' = title
    /\ UNCHANGED <<app, way, acl, history, changes, alerts, validated>>

Publish ==
    /\ pending # "none"
    /\ Len(alerts) < MaxAlerts
    /\ alerts' = Append(alerts, pending)
    /\ pending' = "none"
    /\ UNCHANGED <<app, way, acl, history, changes, validated>>

(* The request fails before it reaches ntfy; a command that failed, before *)
(* or after, may be given again.                                           *)
PublishFails ==
    /\ pending # "none"
    /\ pending' = "none"
    /\ UNCHANGED <<app, way, acl, history, changes, alerts, validated>>

(* subscriber_cannot_publish, anonymous_cannot_publish: the attempt itself *)
(* publishes where nothing stops it.                                       *)
TryToPublish ==
    /\ pending = "none"
    /\ acl = "open"
    /\ Len(alerts) < MaxAlerts
    /\ alerts' = Append(alerts, "denied")
    /\ UNCHANGED <<app, way, acl, history, changes, pending, validated>>

(* assert_empty is AssertSequence(<<>>). *)
AssertSequence(expected) ==
    /\ pending = "none"
    /\ alerts = expected
    /\ validated' = expected
    /\ UNCHANGED <<app, way, acl, history, changes, alerts, pending>>

AppChanges ==
    /\ changes < MaxChanges
    /\ app' = IF app = "up" THEN "stopped" ELSE "up"
    /\ history' = Append(history, app')
    /\ changes' = changes + 1
    /\ UNCHANGED <<way, acl, alerts, pending, validated>>

WayChanges ==
    /\ changes < MaxChanges
    /\ way' = IF way = "clear" THEN "broken" ELSE "clear"
    /\ changes' = changes + 1
    /\ UNCHANGED <<app, acl, history, alerts, pending, validated>>

Next ==
    \/ \E title \in Titles : Evaluate(title)
    \/ Publish
    \/ PublishFails
    \/ TryToPublish
    \/ \E expected \in {<<>>, <<"DOWN">>, <<"RECOVERED">>, <<"DOWN", "RECOVERED">>} :
          AssertSequence(expected)
    \/ AppChanges
    \/ WayChanges

(* A validated DOWN means that the application was stopped, not that the   *)
(* monitor lost its way to it, and a RECOVERED behind it that the          *)
(* application came up again afterwards: the probe and the alert are two   *)
(* requests of a command that can fail between them and be repeated.       *)
AlertsTellWhatHappened ==
    /\ validated # <<>> /\ validated[1] = "DOWN" =>
          \E i \in DOMAIN history : history[i] = "stopped"
    /\ validated = <<"DOWN", "RECOVERED">> =>
          \E i, j \in DOMAIN history :
              i < j /\ history[i] = "stopped" /\ history[j] = "up"
==============================================================================
