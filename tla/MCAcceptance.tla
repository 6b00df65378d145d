----------------------------- MODULE MCAcceptance -----------------------------
EXTENDS Acceptance, TLC

MCShortcomings ==
    ("target_preflight" :> {"docker_runtime_inspection", "path_modes", "unauthenticated_session"}
     @@ "manual_browser_os" :> {"reusable_secrets_recorded"}
     @@ "backup_restore" :> {"frequency", "restored_web_sessions_revoked"}
     @@ "monitoring" :> {"source", "depends_on_notify", "rollback_exercised"}
     @@ "rehearsal" :> {})
==============================================================================
