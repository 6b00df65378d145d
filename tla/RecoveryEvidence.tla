--------------------------- MODULE RecoveryEvidence ---------------------------
(***************************************************************************)
(* deploy/recovery/validate_target_evidence.py: when evidence of a backup  *)
(* and an alternate-location restore is accepted.                          *)
(*                                                                         *)
(* A document has a form ("complete" when every field the validator names  *)
(* is there and concrete, and no other), the statements it denies (no; it  *)
(* affirms the others) and the values that are compared with one another.  *)
(***************************************************************************)
EXTENDS Naturals

Affirms(e, statements) == statements \cap e.no = {}
Denies(e, statements) == statements \subseteq e.no

Root(e) == e.form = "complete" /\ e.kind = "recovery" /\ Affirms(e, {"sanitized"})

CandidateIs(e, revision) ==
    /\ e.site.https
    /\ e.revision = revision
    /\ Affirms(e, {"release_candidate", "acceptance_pending"})
    /\ Denies(e, {"production_accepted"})

(* Permissions per class, as sets of "r", "w" and "x". *)
RestrictiveMode(mode) ==
    /\ mode.other = {}
    /\ {"r", "w"} \subseteq mode.owner
    /\ "x" \notin mode.owner \cup mode.group

DataPath(e) == RestrictiveMode(e.mode) /\ Affirms(e, {"runtime_read_write_verified"})

Repository(e) ==
    Affirms(e, {"encrypted_or_provider_protected", "independent_from_primary_runtime",
                "independent_from_primary_storage",
                "credentials_recoverable_without_primary_host"})

Policy(e) ==
    /\ 1 <= e.policy.frequency /\ e.policy.frequency <= e.policy.rpo
    /\ Affirms(e, {"pre_change_recovery_point_required"})

BackupMonitoring(e) ==
    /\ Affirms(e, {"failed_backup_monitoring_enabled", "missed_backup_monitoring_enabled",
                   "separate_failure_domain", "controlled_failure_or_missed_backup_tested",
                   "approved_administrator_received_alert"})
    /\ Denies(e, {"depends_on_notify", "depends_on_same_runtime_host"})

Snapshot(e) ==
    /\ e.snapshot.method = "sqlite_online_backup_api"
    /\ e.snapshot.revision = e.revision
    /\ Affirms(e, {"integrity_check_passed", "foreign_key_check_passed",
                   "manifest_sanitized"})

(* Mutant of Restore: only the source of the restore is compared. *)
RestoreOfSource(e) ==
    /\ e.restore.place = "alternate"
    /\ e.restore.started >= e.snapshot.at
    /\ e.restore.completed > e.restore.started
    /\ e.restore.source = e.snapshot.digest
    /\ e.restore.revision = e.revision

(* The restored bytes are those of the snapshot, and the drill began after *)
(* it was taken.                                                           *)
Restore(e) ==
    /\ e.restore.place = "alternate"
    /\ e.restore.started >= e.snapshot.at
    /\ e.restore.completed > e.restore.started
    /\ e.restore.source = e.snapshot.digest
    /\ e.restore.restored = e.snapshot.digest
    /\ e.restore.revision = e.revision

RestoredServiceWorks(e) ==
    Affirms(e, {"alembic_validation_passed", "file_ownership_permissions_verified",
                "healthz_passed", "human_authentication_passed",
                "expected_application_state_passed", "producer_authorization_passed",
                "inbox_isolation_passed", "read_ack_state_passed"})

Reconciliation(e) ==
    Affirms(e, {"restored_web_sessions_revoked", "producer_token_state_reviewed",
                "user_active_state_reviewed", "administrator_authority_reviewed",
                "password_reset_state_reviewed",
                "login_security_state_interpreted_as_historical",
                "current_authoritative_identity_records_used"})

Disposition(e) ==
    /\ e.disposition \in {"disposed", "retained_controlled"}
    /\ Affirms(e, {"rollback_or_disposition_recorded",
                   "production_data_unchanged_by_routine_restore_test"})

Privacy(e) ==
    /\ Affirms(e, {"evidence_sanitized"})
    /\ Denies(e, {"raw_notification_content_recorded", "reusable_secrets_recorded",
                  "repository_secret_values_recorded"})

Accepts(e, revision) ==
    /\ Root(e)
    /\ CandidateIs(e, revision)
    /\ DataPath(e) /\ Repository(e) /\ Policy(e) /\ BackupMonitoring(e)
    /\ Snapshot(e) /\ Restore(e) /\ RestoredServiceWorks(e)
    /\ Reconciliation(e) /\ Disposition(e) /\ Privacy(e)

(* What an installation may fall short of that its evidence has to show:   *)
(* the values and the statements the validator looks at.                   *)
Noticed ==
    {"complete", "mode", "frequency", "sanitized", "release_candidate", "acceptance_pending",
     "production_accepted", "runtime_read_write_verified",
     "encrypted_or_provider_protected", "independent_from_primary_runtime",
     "independent_from_primary_storage", "credentials_recoverable_without_primary_host",
     "pre_change_recovery_point_required", "failed_backup_monitoring_enabled",
     "missed_backup_monitoring_enabled", "separate_failure_domain",
     "controlled_failure_or_missed_backup_tested", "approved_administrator_received_alert",
     "depends_on_notify", "depends_on_same_runtime_host", "integrity_check_passed",
     "foreign_key_check_passed", "manifest_sanitized", "alembic_validation_passed",
     "file_ownership_permissions_verified", "healthz_passed", "human_authentication_passed",
     "expected_application_state_passed", "producer_authorization_passed",
     "inbox_isolation_passed", "read_ack_state_passed", "restored_web_sessions_revoked",
     "producer_token_state_reviewed", "user_active_state_reviewed",
     "administrator_authority_reviewed", "password_reset_state_reviewed",
     "login_security_state_interpreted_as_historical",
     "current_authoritative_identity_records_used", "rollback_or_disposition_recorded",
     "production_data_unchanged_by_routine_restore_test", "evidence_sanitized",
     "raw_notification_content_recorded", "reusable_secrets_recorded",
     "repository_secret_values_recorded"}
==============================================================================
