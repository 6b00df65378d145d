-------------------------- MODULE MonitoringEvidence --------------------------
(***************************************************************************)
(* deploy/monitoring/validate_target_evidence.py: when evidence that       *)
(* outages of Notify are noticed and reported is accepted.  Documents are  *)
(* as in RecoveryEvidence.                                                 *)
(***************************************************************************)
EXTENDS Integers, Sequences

Affirms(e, statements) == statements \cap e.no = {}
Denies(e, statements) == statements \subseteq e.no

Root(e) == e.form = "complete" /\ e.kind = "monitoring" /\ Affirms(e, {"sanitized"})

(* The only validator that names the origin. *)
CandidateIs(e, revision) ==
    /\ e.site.name = "final"
    /\ e.revision = revision
    /\ Affirms(e, {"release_candidate", "acceptance_pending"})
    /\ Denies(e, {"production_accepted"})

(* _source_is_authorized: the address seen at the gateway is in a network  *)
(* of its allowlist.                                                       *)
SourceIsAuthorized(e) == \E network \in e.allowlist : e.source \in network

Provider(e) ==
    /\ e.provider = "GoreeCloud Monitor"
    /\ e.target = "https final /healthz"
    /\ e.accepted = <<200>>
    /\ Affirms(e, {"provider_production_accepted", "active", "tls_verification_enabled",
                   "observed_at_gateway", "final_private_https_route_verified",
                   "database_aware_health_verified"})
    /\ Denies(e, {"backend_socket_only"})
    /\ SourceIsAuthorized(e)

Transitions(e) ==
    /\ Affirms(e, {"healthy_no_false_alert", "down_detected", "recovered_detected"})
    /\ e.downStatus >= 1
    /\ e.recoveredStatus = 200
    /\ e.order = <<"DOWN", "RECOVERED">>

Receipt(e) ==
    Affirms(e, {"recipient_approved", "down_received", "recovered_received",
                "content_minimized"})

Rollback(e) ==
    /\ Affirms(e, {"procedure_recorded", "monitor_disable_or_remove_documented",
                   "previous_notify_release_recovery_documented"})
    /\ Denies(e, {"uptime_kuma_production_restore_required"})

OutOfBand(e) ==
    /\ Affirms(e, {"separate_failure_domain", "controlled_notify_outage_tested",
                   "approved_administrator_received_down"})
    /\ Denies(e, {"depends_on_notify", "depends_on_same_runtime_host"})

Accepts(e, revision) ==
    /\ Root(e)
    /\ CandidateIs(e, revision)
    /\ Provider(e) /\ Transitions(e) /\ Receipt(e) /\ Rollback(e) /\ OutOfBand(e)

(* As in RecoveryEvidence. *)
Noticed ==
    {"complete", "source", "sanitized", "release_candidate", "acceptance_pending",
     "production_accepted", "provider_production_accepted", "active",
     "tls_verification_enabled", "observed_at_gateway", "final_private_https_route_verified",
     "database_aware_health_verified", "backend_socket_only", "healthy_no_false_alert",
     "down_detected", "recovered_detected", "recipient_approved", "down_received",
     "recovered_received", "content_minimized", "procedure_recorded",
     "monitor_disable_or_remove_documented", "previous_notify_release_recovery_documented",
     "uptime_kuma_production_restore_required", "separate_failure_domain",
     "controlled_notify_outage_tested", "approved_administrator_received_down",
     "depends_on_notify", "depends_on_same_runtime_host"}
==============================================================================
