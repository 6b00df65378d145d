---------------------------- MODULE AcceptanceProofs ----------------------------
(***************************************************************************)
(* Proofs about Acceptance, for every set of revisions, whichever of them  *)
(* are defective, every shortcoming the gates look at, every contract that *)
(* demands a check and every bound on deployments, outages and work.       *)
(***************************************************************************)
EXTENDS Acceptance, FiniteSetTheorems, SequenceTheorems, TLAPS

-----------------------------------------------------------------------------
(* What an evidence file is worth.                                         *)

KindOf ==
    [gate \in Gates |->
        IF gate = "target_preflight" THEN "preflight" ELSE Kind(gate)]

AllPass(checks) == \A entry \in checks : entry.pass

(* What a gate's document has to be, whatever the manifest says. *)
Passes(gate, document) ==
    CASE gate = "backup_restore" -> Recovery!Accepts(document, document.revision)
      [] gate = "monitoring" -> Monitoring!Accepts(document, document.revision)
      [] gate = "manual_browser_os" -> Browser!Accepts(document, document.revision)
      [] gate = "target_preflight" -> document.scope = "all" /\ AllPass(document.checks)

Restored(document) ==
    /\ document.restore.place = "alternate"
    /\ document.snapshot.digest = document.restore.from.digest
    /\ document.restore.restored = document.restore.from.digest
    /\ document.snapshot.at < document.restore.started

(* The candidate was seen, and of the gate that is worked on a document    *)
(* that passes shows no shortcoming of the installation.                   *)
Backed(gate, document, worked, shortcoming) ==
    /\ <<IF gate = "manual_browser_os" THEN document.site.name ELSE "final",
         document.revision>> \in document.truth
    /\ gate = worked =>
          /\ shortcoming \in MigrationShortcomings \cup {"nothing"}
          /\ document.revision \in Defective => Cardinality(document.truth) > 1
          /\ gate = "backup_restore" => Restored(document)

FileHolds(gate, document, worked, shortcoming) ==
    /\ document.kind = KindOf[gate]
    /\ Passes(gate, document) => Backed(gate, document, worked, shortcoming)

-----------------------------------------------------------------------------
(* The inductive invariant.                                                *)

WorldHolds ==
    /\ deployed \in [{"final", "staging"} -> Revisions]
    /\ focus \in Gates \cup {"rehearsal"}
    /\ lack \in Shortcomings[focus] \cup {"nothing"}

FilesHold ==
    /\ DOMAIN files = Gates
    /\ manifest = Missing =>
          \A gate \in Gates :
              \/ gate = focus /\ files[gate] = Missing
              \/ FileHolds(gate, files[gate], focus, lack)

(* A manifest is made when the file of the gate is written, and what it    *)
(* pins are files as they were.                                            *)
ManifestHolds ==
    manifest # Missing =>
        /\ focus \in Gates
        /\ files[focus] # Missing
        /\ manifest.refs \in [Gates -> Gates]
        /\ \A gate \in Gates :
              FileHolds(manifest.refs[gate], manifest.pinned[gate], focus, lack)

Agrees(gate, document, assembled) ==
    /\ document.kind = KindOf[gate]
    /\ document.site = assembled.site
    /\ document.revision = assembled.revision
    /\ Passes(gate, document)

CheckHolds ==
    /\ DOMAIN check = {"phase", "rewritten", "judged"}
    /\ check.phase # "none" => manifest # Missing
    /\ check.phase = "verified" /\ ~check.rewritten =>
          \A gate \in Gates : files[manifest.refs[gate]] = manifest.pinned[gate]
    /\ check.phase = "accepted" /\ ~check.rewritten =>
          /\ lack \notin MigrationShortcomings
          /\ \A gate \in Gates :
                /\ check.judged[gate] = manifest.pinned[gate]
                /\ Agrees(gate, check.judged[gate], manifest)

SoundSeen(seen) == \E pair \in seen : pair[2] \notin Defective

Session == [id : Nat, site : Sites, revision : Revisions, reader : BOOLEAN]

(* The browser sessions that are over, and what their results show. *)
SessionsHold(drill) ==
    /\ DOMAIN drill = {"sessions", "results", "seen"}
    /\ IsFiniteSet(drill.seen) /\ IsFiniteSet(drill.results)
    /\ drill.sessions \in Seq(Session)
    /\ \A i \in DOMAIN drill.sessions :
          <<drill.sessions[i].site.name, drill.sessions[i].revision>> \in drill.seen
    /\ \A result \in drill.results : result.status = "pass" => SoundSeen(drill.seen)

Backup ==
    [method : {"sqlite_online_backup_api"}, at : Nat, revision : Revisions, digest : Nat]

(* Every backup was made before or after the restore, never at its start. *)
BackupsHold(drill) ==
    /\ DOMAIN drill = {"now", "data", "backups", "restores"}
    /\ drill.now \in Nat /\ drill.data \in Nat
    /\ drill.backups \in Seq(Backup)
    /\ \A i \in DOMAIN drill.backups : drill.backups[i].at < drill.now
    /\ drill.restores # <<>> =>
          LET restore == drill.restores[1]
          IN /\ restore.source = restore.from.digest
             /\ restore.started \in Nat /\ restore.started < drill.now
             /\ \A i \in DOMAIN drill.backups : drill.backups[i].at # restore.started

WorkHolds ==
    focus \in Gates /\ files[focus] = Missing =>
        /\ focus = "manual_browser_os" => SessionsHold(work)
        /\ focus = "backup_restore" => BackupsHold(work)

(* What a walk of the tool without a failed entry has shown so far. *)
Shown(walk, shortcoming) ==
    /\ shortcoming \notin HostShortcomings
    /\ <<"final", walk.revision>> \in walk.seen
    /\ walk.phase = "report" => walk.next > 9
    /\ walk.next > 2 => shortcoming # "private_dns"
    /\ walk.next > 5 => shortcoming # "unauthenticated_session"
    /\ walk.next > 8 => SoundSeen(walk.seen)
    /\ walk.next > 9 => shortcoming # "same_origin_cors"

WalkHolds(walk, shortcoming) ==
    /\ walk.phase \in {"idle", "network", "report"}
    /\ walk.phase # "idle" =>
          /\ DOMAIN walk = {"phase", "next", "scope", "site", "revision", "checks", "seen"}
          /\ walk.next \in 1 .. 10
          /\ walk.phase = "network" => walk.next < 10
          /\ IsFiniteSet(walk.seen)
          /\ walk.scope = "all" /\ AllPass(walk.checks) => Shown(walk, shortcoming)

Evidence ==
    /\ WorldHolds
    /\ FilesHold
    /\ ManifestHolds
    /\ CheckHolds
    /\ WorkHolds
    /\ WalkHolds(tool, lack)

(* The rehearsal: DOWN is about to be published, or was, only after an     *)
(* outage, and a RECOVERED behind it only after the outage ended.          *)
WasStopped(past) == \E i \in DOMAIN past : past[i] = "stopped"
CameBack(past) == \E i, j \in DOMAIN past : i < j /\ past[i] = "stopped" /\ past[j] = "up"

DrillHolds ==
    /\ app \in {"up", "stopped"}
    /\ history \in Seq({"up", "stopped"}) /\ history # <<>> /\ history[Len(history)] = app
    /\ alerts \in Seq(Rehearsal!Titles \cup {"denied"})
    /\ pending \in Rehearsal!Titles \cup {"none"}
    /\ pending = "DOWN" => WasStopped(history)
    /\ \A k \in DOMAIN alerts : alerts[k] = "DOWN" => WasStopped(history)
    /\ alerts # <<>> /\ alerts[1] = "DOWN" =>
          /\ pending = "RECOVERED" => CameBack(history)
          /\ \A k \in DOMAIN alerts : alerts[k] = "RECOVERED" => CameBack(history)
    /\ AlertsTellWhatHappened

-----------------------------------------------------------------------------
(* Lemmas about documents.                                                 *)

(* A sequence made of a finite set holds elements of the set. *)
LEMMA SetToSeqElements ==
  ASSUME NEW S, IsFiniteSet(S)
  PROVE  \A i \in DOMAIN SetToSeq(S) : SetToSeq(S)[i] \in S
<1>1. ExistsBijection(1 .. Cardinality(S), S)
  BY FS_CardinalityType
<1>2. \E f \in [1 .. Cardinality(S) -> S] : IsInjective(f)
  BY <1>1 DEF ExistsBijection, Bijection, Injection
<1>3. SetToSeq(S) \in [1 .. Cardinality(S) -> S]
  BY <1>2 DEF SetToSeq
<1> QED
  BY <1>3

(* What is chosen from a finite sequence is finitely many things. *)
LEMMA FiniteChoice ==
  ASSUME NEW s, IsFiniteSet(DOMAIN s), NEW kept \in SUBSET DOMAIN s
  PROVE  IsFiniteSet({s[i] : i \in kept})
<1> DEFINE T == {s[i] : i \in kept}
           f == [i \in kept |-> s[i]]
<1>1. IsFiniteSet(kept)
  BY FS_Subset
<1>2. f \in Surjection(kept, T)
  BY DEF Surjection
<1> QED
  BY <1>1, <1>2, FS_Surjection

(* What a document affirms, or denies, as it has to is nothing that the    *)
(* installation falls short of.                                            *)
LEMMA StatementsShow ==
  ASSUME NEW s, NEW X
  PROVE  /\ X \cap NoFor(s) = {} => s \notin X \ Denied
         /\ X \subseteq NoFor(s) => s \notin X \cap Denied
BY DEF NoFor

(* Two different things that were seen. *)
LEMMA TwoSeen ==
  ASSUME NEW seen, IsFiniteSet(seen), SoundSeen(seen),
         NEW name, NEW revision \in Defective, <<name, revision>> \in seen
  PROVE  Cardinality(seen) > 1
<1>1. PICK pair \in seen : pair[2] \notin Defective
  BY DEF SoundSeen
<1>2. pair # <<name, revision>>
  BY <1>1
<1>3. /\ Cardinality({pair, <<name, revision>>}) <= Cardinality(seen)
      /\ IsFiniteSet({pair, <<name, revision>>})
  BY <1>1, FS_Subset
<1>4. Cardinality({pair, <<name, revision>>}) = 2
  <2>1. IsFiniteSet({pair}) /\ Cardinality({pair}) = 1
    BY FS_Singleton
  <2>2. {pair, <<name, revision>>} = {pair} \cup {<<name, revision>>}
    OBVIOUS
  <2>3. <<name, revision>> \notin {pair}
    BY <1>2
  <2>4. Cardinality({pair} \cup {<<name, revision>>}) = 1 + 1
    BY <2>1, <2>3, FS_AddElement
  <2> QED
    BY <2>2, <2>4
<1>5. Cardinality(seen) \in Nat
  BY FS_CardinalityType
<1> QED
  BY <1>3, <1>4, <1>5

(* The fields of a document are what it was written with. *)
LEMMA RecoveryFields ==
  ASSUME NEW site, NEW revision, NEW s, NEW truth, NEW snapshot, NEW restore, NEW d,
         d = RecoveryDocument(site, revision, s, truth, snapshot, restore)
  PROVE  /\ d.form = Form(s) /\ d.kind = "recovery" /\ d.no = NoFor(s)
         /\ d.site = site /\ d.revision = revision /\ d.truth = truth
         /\ d.mode.other = (IF s = "mode" THEN {"r"} ELSE {})
         /\ d.policy.frequency = (IF s = "frequency" THEN 2 ELSE 1) /\ d.policy.rpo = 1
         /\ d.snapshot = snapshot /\ d.restore = restore
BY DEF RecoveryDocument

LEMMA MonitoringFields ==
  ASSUME NEW site, NEW revision, NEW s, NEW truth, NEW order, NEW down, NEW recovered, NEW d,
         d = MonitoringDocument(site, revision, s, truth, order, down, recovered)
  PROVE  /\ d.form = Form(s) /\ d.kind = "monitoring" /\ d.no = NoFor(s)
         /\ d.site = site /\ d.revision = revision /\ d.truth = truth
         /\ d.allowlist = {{"gateway"}}
         /\ d.source = IF s = "source" THEN "elsewhere" ELSE "gateway"
BY DEF MonitoringDocument

LEMMA BrowserFields ==
  ASSUME NEW site, NEW revision, NEW s, NEW truth, NEW sessions, NEW results, NEW d,
         d = BrowserDocument(site, revision, s, truth, sessions, results)
  PROVE  /\ d.form = Form(s) /\ d.kind = "browser" /\ d.no = NoFor(s)
         /\ d.site = site /\ d.revision = revision /\ d.truth = truth
         /\ d.sessions = sessions /\ d.results = results
BY DEF BrowserDocument

(* What the recovery validator refuses. *)
LEMMA RecoveryNotices ==
  ASSUME NEW s, NEW d, d.form = Form(s), d.no = NoFor(s),
         d.mode.other = (IF s = "mode" THEN {"r"} ELSE {}),
         d.policy.frequency = (IF s = "frequency" THEN 2 ELSE 1), d.policy.rpo = 1,
         Recovery!Accepts(d, d.revision)
  PROVE  s \notin Recovery!Noticed
<1>1. /\ \A X : Recovery!Affirms(d, X) => s \notin X \ Denied
      /\ \A X : Recovery!Denies(d, X) => s \notin X \cap Denied
  BY StatementsShow DEF Recovery!Affirms, Recovery!Denies
<1>2. s \notin {"complete", "sanitized"}
  BY <1>1 DEF Recovery!Accepts, Recovery!Root, Form, Denied
<1>3. s \notin {"release_candidate", "acceptance_pending", "production_accepted"}
  BY <1>1 DEF Recovery!Accepts, Recovery!CandidateIs, Denied
<1>4. s \notin {"mode", "runtime_read_write_verified"}
  BY <1>1 DEF Recovery!Accepts, Recovery!DataPath, Recovery!RestrictiveMode, Denied
<1>5. s \notin {"encrypted_or_provider_protected", "independent_from_primary_runtime",
                "independent_from_primary_storage",
                "credentials_recoverable_without_primary_host"}
  BY <1>1 DEF Recovery!Accepts, Recovery!Repository, Denied
<1>6. s \notin {"frequency", "pre_change_recovery_point_required"}
  BY <1>1 DEF Recovery!Accepts, Recovery!Policy, Denied
<1>7. s \notin {"failed_backup_monitoring_enabled", "missed_backup_monitoring_enabled",
                "separate_failure_domain",
                "controlled_failure_or_missed_backup_tested",
                "approved_administrator_received_alert", "depends_on_notify",
                "depends_on_same_runtime_host"}
  BY <1>1 DEF Recovery!Accepts, Recovery!BackupMonitoring, Denied
<1>8. s \notin {"integrity_check_passed", "foreign_key_check_passed",
                "manifest_sanitized"}
  BY <1>1 DEF Recovery!Accepts, Recovery!Snapshot, Denied
<1>9. s \notin {"alembic_validation_passed", "file_ownership_permissions_verified",
                "healthz_passed", "human_authentication_passed",
                "expected_application_state_passed", "producer_authorization_passed",
                "inbox_isolation_passed", "read_ack_state_passed"}
  BY <1>1 DEF Recovery!Accepts, Recovery!RestoredServiceWorks, Denied
<1>10. s \notin {"restored_web_sessions_revoked", "producer_token_state_reviewed",
                 "user_active_state_reviewed", "administrator_authority_reviewed",
                 "password_reset_state_reviewed",
                 "login_security_state_interpreted_as_historical",
                 "current_authoritative_identity_records_used"}
  BY <1>1 DEF Recovery!Accepts, Recovery!Reconciliation, Denied
<1>11. s \notin {"rollback_or_disposition_recorded",
                 "production_data_unchanged_by_routine_restore_test"}
  BY <1>1 DEF Recovery!Accepts, Recovery!Disposition, Denied
<1>12. s \notin {"evidence_sanitized", "raw_notification_content_recorded",
                 "reusable_secrets_recorded", "repository_secret_values_recorded"}
  BY <1>1 DEF Recovery!Accepts, Recovery!Privacy, Denied
<1> QED
  BY <1>2, <1>3, <1>4, <1>5, <1>6, <1>7, <1>8, <1>9, <1>10, <1>11, <1>12 DEF Recovery!Noticed

(* What the monitoring validator refuses. *)
LEMMA MonitoringNotices ==
  ASSUME NEW s, NEW d, d.form = Form(s), d.no = NoFor(s),
         d.allowlist = {{"gateway"}},
         d.source = IF s = "source" THEN "elsewhere" ELSE "gateway",
         Monitoring!Accepts(d, d.revision)
  PROVE  s \notin Monitoring!Noticed
<1>1. /\ \A X : Monitoring!Affirms(d, X) => s \notin X \ Denied
      /\ \A X : Monitoring!Denies(d, X) => s \notin X \cap Denied
  BY StatementsShow DEF Monitoring!Affirms, Monitoring!Denies
<1>2. s \notin {"complete", "sanitized"}
  BY <1>1 DEF Monitoring!Accepts, Monitoring!Root, Form, Denied
<1>3. s \notin {"release_candidate", "acceptance_pending", "production_accepted"}
  BY <1>1 DEF Monitoring!Accepts, Monitoring!CandidateIs, Denied
<1>4. s \notin {"provider_production_accepted", "active", "tls_verification_enabled",
                "observed_at_gateway", "final_private_https_route_verified",
                "database_aware_health_verified", "backend_socket_only"}
  <2>1. /\ Monitoring!Affirms(d, {"provider_production_accepted", "active",
                                  "tls_verification_enabled", "observed_at_gateway",
                                  "final_private_https_route_verified",
                                  "database_aware_health_verified"})
        /\ Monitoring!Denies(d, {"backend_socket_only"})
    BY DEF Monitoring!Accepts, Monitoring!Provider
  <2> QED
    BY <1>1, <2>1 DEF Denied
<1>9. s # "source"
  BY DEF Monitoring!Accepts, Monitoring!Provider, Monitoring!SourceIsAuthorized
<1>5. s \notin {"healthy_no_false_alert", "down_detected", "recovered_detected"}
  BY <1>1 DEF Monitoring!Accepts, Monitoring!Transitions, Denied
<1>6. s \notin {"recipient_approved", "down_received", "recovered_received",
                "content_minimized"}
  BY <1>1 DEF Monitoring!Accepts, Monitoring!Receipt, Denied
<1>7. s \notin {"procedure_recorded", "monitor_disable_or_remove_documented",
                "previous_notify_release_recovery_documented",
                "uptime_kuma_production_restore_required"}
  BY <1>1 DEF Monitoring!Accepts, Monitoring!Rollback, Denied
<1>8. s \notin {"separate_failure_domain", "controlled_notify_outage_tested",
                "approved_administrator_received_down", "depends_on_notify",
                "depends_on_same_runtime_host"}
  BY <1>1 DEF Monitoring!Accepts, Monitoring!OutOfBand, Denied
<1> QED
  BY <1>2, <1>3, <1>4, <1>5, <1>6, <1>7, <1>8, <1>9 DEF Monitoring!Noticed

(* What the browser validator refuses. *)
LEMMA BrowserNotices ==
  ASSUME NEW s, NEW d, d.form = Form(s), d.no = NoFor(s),
         Browser!Accepts(d, d.revision)
  PROVE  s \notin Browser!Noticed
<1>1. /\ \A X : Browser!Affirms(d, X) => s \notin X \ Denied
      /\ \A X : Browser!Denies(d, X) => s \notin X \cap Denied
  BY StatementsShow DEF Browser!Affirms, Browser!Denies
<1>2. s \notin {"complete", "sanitized"}
  BY <1>1 DEF Browser!Accepts, Browser!Root, Form, Denied
<1>3. s \notin {"release_candidate", "acceptance_pending", "production_accepted"}
  BY <1>1 DEF Browser!Accepts, Browser!CandidateIs, Denied
<1>4. s \notin {"synthetic_test_data_only", "screenshots_sanitized_or_not_retained",
                "raw_notification_content_recorded", "reusable_secrets_recorded"}
  BY <1>1 DEF Browser!Accepts, Browser!Privacy, Denied
<1> QED
  BY <1>2, <1>3, <1>4 DEF Browser!Noticed

-----------------------------------------------------------------------------
(* The files that are written are what they are worth.                     *)

LEMMA RecoveryWritten ==
  ASSUME NEW w, BackupsHold(w), w.restores # <<>>, NEW i \in DOMAIN w.backups,
         NEW l \in Shortcomings["backup_restore"] \cup {"nothing"},
         NEW site, NEW revision, NEW s, NEW d,
         s = IF w.restores[1].revision \in Defective THEN "healthz_passed"
             ELSE IF w.restores[1].place = "production"
             THEN "production_data_unchanged_by_routine_restore_test"
             ELSE l,
         d = RecoveryDocument(site, revision, s,
                 {<<"final", w.backups[i].revision>>, <<"final", w.restores[1].revision>>},
                 w.backups[i], w.restores[1])
  PROVE  FileHolds("backup_restore", d, "backup_restore", l)
<1>1. /\ d.form = Form(s) /\ d.kind = "recovery" /\ d.no = NoFor(s)
      /\ d.revision = revision
      /\ d.truth = {<<"final", w.backups[i].revision>>, <<"final", w.restores[1].revision>>}
      /\ d.mode.other = (IF s = "mode" THEN {"r"} ELSE {})
      /\ d.policy.frequency = (IF s = "frequency" THEN 2 ELSE 1) /\ d.policy.rpo = 1
      /\ d.snapshot = w.backups[i] /\ d.restore = w.restores[1]
  BY RecoveryFields
<1>2. SUFFICES ASSUME Recovery!Accepts(d, d.revision)
               PROVE  Backed("backup_restore", d, "backup_restore", l)
  BY <1>1 DEF FileHolds, Passes, KindOf, Kind, Gates
<1>3. s \notin Recovery!Noticed
  BY <1>1, <1>2, RecoveryNotices
<1>4. w.restores[1].revision \notin Defective /\ s = l
  BY <1>3 DEF Recovery!Noticed
<1>5. l \in MigrationShortcomings \cup {"nothing"}
  BY <1>3, <1>4, ShortcomingsAssumption DEF ShortcomingsAssumption
<1>6. /\ d.restore.place = "alternate"
      /\ d.restore.started >= d.snapshot.at
      /\ d.restore.source = d.snapshot.digest
      /\ d.restore.restored = d.snapshot.digest
      /\ d.restore.revision = d.revision
  BY <1>2 DEF Recovery!Accepts, Recovery!Restore
<1>7. Restored(d)
  <2>1. d.snapshot.at \in Nat /\ d.restore.started \in Nat /\ d.snapshot.at # d.restore.started
    <3>1. w.backups[i] \in Backup
      BY ElementOfSeq, LenProperties DEF BackupsHold
    <3> QED
      BY <1>1, <3>1 DEF BackupsHold, Backup
  <2>2. d.restore.source = d.restore.from.digest
    BY <1>1 DEF BackupsHold
  <2>3. d.snapshot.at < d.restore.started
    BY <1>6, <2>1
  <2> QED
    BY <1>6, <2>2, <2>3 DEF Restored
<1> QED
  BY <1>1, <1>4, <1>5, <1>6, <1>7 DEF Backed

LEMMA MonitoringWritten ==
  ASSUME NEW l \in Shortcomings["monitoring"] \cup {"nothing"},
         NEW site, NEW revision, NEW seen, NEW order, NEW down, NEW recovered, NEW s, NEW d,
         s = IF revision \in Defective THEN "database_aware_health_verified" ELSE l,
         <<"final", revision>> \in seen,
         d = MonitoringDocument(site, revision, s, seen, order, down, recovered)
  PROVE  FileHolds("monitoring", d, "monitoring", l)
<1>1. /\ d.form = Form(s) /\ d.kind = "monitoring" /\ d.no = NoFor(s)
      /\ d.revision = revision /\ d.truth = seen
      /\ d.allowlist = {{"gateway"}}
      /\ d.source = IF s = "source" THEN "elsewhere" ELSE "gateway"
  BY MonitoringFields
<1>2. SUFFICES ASSUME Monitoring!Accepts(d, d.revision)
               PROVE  Backed("monitoring", d, "monitoring", l)
  BY <1>1 DEF FileHolds, Passes, KindOf, Kind, Gates
<1>3. s \notin Monitoring!Noticed
  BY <1>1, <1>2, MonitoringNotices
<1>4. revision \notin Defective /\ s = l
  BY <1>3 DEF Monitoring!Noticed
<1>5. l \in MigrationShortcomings \cup {"nothing"}
  BY <1>3, <1>4, ShortcomingsAssumption DEF ShortcomingsAssumption
<1> QED
  BY <1>1, <1>4, <1>5 DEF Backed

LEMMA BrowserWritten ==
  ASSUME NEW w, SessionsHold(w), NEW kept \in SUBSET DOMAIN w.sessions,
         NEW l \in Shortcomings["manual_browser_os"] \cup {"nothing"},
         NEW site, NEW revision, NEW d,
         d = BrowserDocument(site, revision, l, w.seen,
                 SetToSeq({w.sessions[i] : i \in kept}), SetToSeq(w.results))
  PROVE  FileHolds("manual_browser_os", d, "manual_browser_os", l)
<1>1. /\ d.form = Form(l) /\ d.kind = "browser" /\ d.no = NoFor(l)
      /\ d.truth = w.seen
      /\ d.sessions = SetToSeq({w.sessions[i] : i \in kept})
      /\ d.results = SetToSeq(w.results)
  BY BrowserFields
<1>2. SUFFICES ASSUME Browser!Accepts(d, d.revision)
               PROVE  Backed("manual_browser_os", d, "manual_browser_os", l)
  BY <1>1 DEF FileHolds, Passes, KindOf, Kind, Gates
<1>3. l \in MigrationShortcomings \cup {"nothing"}
  <2>1. l \notin Browser!Noticed
    BY <1>1, <1>2, BrowserNotices
  <2> QED
    BY <2>1, ShortcomingsAssumption DEF ShortcomingsAssumption
<1>4. PICK j \in DOMAIN d.results : Browser!ResultHolds(d, d.results[j])
  BY <1>2, ChecksAssumption
     DEF ChecksAssumption, Browser!Accepts, Browser!EveryCheckHasOneResult
<1>5. SoundSeen(w.seen)
  <2>1. d.results[j] \in w.results
    BY <1>1, SetToSeqElements DEF SessionsHold
  <2> QED
    BY <1>4, <2>1 DEF SessionsHold, Browser!ResultHolds
<1>6. <<d.site.name, d.revision>> \in w.seen
  <2>1. PICK i \in DOMAIN d.sessions : TRUE
    BY <1>4 DEF Browser!ResultHolds
  <2> DEFINE chosen == {w.sessions[k] : k \in kept}
  <2>2. IsFiniteSet(chosen)
    <3>1. IsFiniteSet(DOMAIN w.sessions)
      BY LenProperties, FS_Interval DEF SessionsHold
    <3> QED
      BY <3>1, FiniteChoice
  <2>3. d.sessions[i] \in chosen
    <3> HIDE DEF chosen
    <3>1. d.sessions = SetToSeq(chosen)
      BY <1>1 DEF chosen
    <3> QED
      BY <2>2, <3>1, SetToSeqElements
  <2>5. PICK k \in kept : d.sessions[i] = w.sessions[k]
    BY <2>3
  <2>4. d.sessions[i].site = d.site /\ d.sessions[i].revision = d.revision
    BY <1>2 DEF Browser!Accepts, Browser!SessionsAreOfTheCandidate
  <2> QED
    BY <2>4, <2>5 DEF SessionsHold
<1>7. d.revision \in Defective => Cardinality(w.seen) > 1
  BY <1>5, <1>6, TwoSeen DEF SessionsHold
<1> QED
  BY <1>1, <1>3, <1>6, <1>7 DEF Backed

(* Files of the other gates are sound. *)
LEMMA SoundHolds ==
  ASSUME NEW gate \in Gates, NEW worked, gate # worked, NEW revision, NEW l
  PROVE  FileHolds(gate, Sound(gate, revision), worked, l)
<1> SUFFICES ASSUME NEW d, d = Sound(gate, revision)
             PROVE  FileHolds(gate, d, worked, l)
  OBVIOUS
<1>1. /\ d.kind = KindOf[gate] /\ d.revision = revision /\ d.site = Final
      /\ d.truth = {<<"final", revision>>}
  BY DEF Sound, Gates, KindOf, Kind, RecoveryDocument, MonitoringDocument, BrowserDocument
<1> QED
  BY <1>1 DEF FileHolds, Backed, Final

-----------------------------------------------------------------------------
(* Steps at the target and of the drills.                                  *)

LEMMA SameEvidence ==
  ASSUME Evidence, UNCHANGED <<deployed, lack, focus, files, tool, work, manifest, check>>
  PROVE  Evidence'
BY DEF Evidence, WorldHolds, FilesHold, ManifestHolds, CheckHolds, WorkHolds

LEMMA DrillEvidence ==
  ASSUME Evidence, WorkHolds',
         UNCHANGED <<deployed, lack, focus, files, tool, manifest, check>>
  PROVE  Evidence'
BY DEF Evidence, WorldHolds, FilesHold, ManifestHolds, CheckHolds

LEMMA SeenGrows ==
  ASSUME NEW seen, IsFiniteSet(seen), NEW pair
  PROVE  /\ IsFiniteSet(seen \cup {pair})
         /\ SoundSeen(seen) => SoundSeen(seen \cup {pair})
         /\ pair[2] \notin Defective => SoundSeen(seen \cup {pair})
<1>1. IsFiniteSet(seen \cup {pair})
  BY FS_AddElement
<1> QED
  BY <1>1 DEF SoundSeen

(* What is appended to a sequence. *)
LEMMA AppendElements ==
  ASSUME NEW S, NEW s \in Seq(S), NEW e \in S
  PROVE  /\ Append(s, e) \in Seq(S)
         /\ \A i \in DOMAIN Append(s, e) :
               \/ i \in DOMAIN s /\ Append(s, e)[i] = s[i]
               \/ Append(s, e)[i] = e
<1>1. /\ Append(s, e) \in Seq(S)
      /\ Len(Append(s, e)) = Len(s) + 1
      /\ \A i \in 1 .. Len(s) : Append(s, e)[i] = s[i]
      /\ Append(s, e)[Len(s) + 1] = e
  BY AppendProperties
<1>2. DOMAIN Append(s, e) = 1 .. Len(s) + 1 /\ DOMAIN s = 1 .. Len(s) /\ Len(s) \in Nat
  BY <1>1, LenProperties
<1> QED
  BY <1>1, <1>2

LEMMA OpenSessionHolds ==
  ASSUME Evidence, NEW site \in Sites, NEW reader \in BOOLEAN, OpenSession(site, reader)
  PROVE  Evidence'
<1> DEFINE w == work
           session == [id |-> Len(w.sessions) + 1, site |-> site,
                       revision |-> deployed[site.name], reader |-> reader]
           pair == <<site.name, deployed[site.name]>>
<1>1. /\ focus = "manual_browser_os" /\ SessionsHold(w)
      /\ deployed \in [{"final", "staging"} -> Revisions]
      /\ UNCHANGED <<deployed, lack, focus, files, tool, manifest, check>>
  BY DEF OpenSession, Drill, Open, Evidence, WorkHolds, WorldHolds, Gates, world
<1>2. work' = [w EXCEPT !.sessions = Append(@, session), !.seen = @ \cup {pair}]
  BY DEF OpenSession, Running
<1>3. /\ DOMAIN work' = {"sessions", "results", "seen"}
      /\ work'.sessions = Append(w.sessions, session)
      /\ work'.results = w.results /\ work'.seen = w.seen \cup {pair}
  BY <1>1, <1>2 DEF SessionsHold
<1>4. session \in Session
  <2>1. Len(w.sessions) \in Nat
    BY <1>1, LenProperties DEF SessionsHold
  <2>2. deployed[site.name] \in Revisions
    BY <1>1 DEF Sites, Final
  <2> QED
    BY <2>1, <2>2 DEF Session
<1>5. /\ work'.sessions \in Seq(Session)
      /\ \A i \in DOMAIN work'.sessions :
            \/ i \in DOMAIN w.sessions /\ work'.sessions[i] = w.sessions[i]
            \/ work'.sessions[i] = session
  BY <1>1, <1>3, <1>4, AppendElements DEF SessionsHold
<1>6. /\ IsFiniteSet(work'.seen) /\ IsFiniteSet(work'.results)
      /\ SoundSeen(w.seen) => SoundSeen(work'.seen)
  <2> HIDE DEF pair
  <2>1. IsFiniteSet(w.seen) /\ IsFiniteSet(w.results)
    BY <1>1 DEF SessionsHold
  <2>2. /\ IsFiniteSet(w.seen \cup {pair})
        /\ SoundSeen(w.seen) => SoundSeen(w.seen \cup {pair})
    BY <2>1, SeenGrows
  <2> QED
    BY <1>3, <2>1, <2>2
<1>7. SessionsHold(work')
  <2>1. <<session.site.name, session.revision>> = pair
    OBVIOUS
  <2> HIDE DEF session, pair
  <2> QED
    BY <1>1, <1>3, <1>5, <1>6, <2>1 DEF SessionsHold
<1> QED
  BY <1>1, <1>7, DrillEvidence DEF WorkHolds

LEMMA TryCheckHolds ==
  ASSUME Evidence, NEW c, NEW i, TryCheck(c, i)
  PROVE  Evidence'
<1> DEFINE w == work
           site == w.sessions[i].site
           result == [check |-> c, session |-> i,
                      status |-> IF Works(site) THEN "pass" ELSE "fail"]
           kept == {r \in w.results : r.check # c}
           pair == <<site.name, deployed[site.name]>>
<1>1. /\ focus = "manual_browser_os" /\ SessionsHold(w)
      /\ UNCHANGED <<deployed, lack, focus, files, tool, manifest, check>>
  BY DEF TryCheck, Drill, Open, Evidence, WorkHolds, Gates, world
<1>2. work' = [w EXCEPT !.results = kept \cup {result}, !.seen = @ \cup {pair}]
  BY DEF TryCheck, Running
<1>3. /\ DOMAIN work' = {"sessions", "results", "seen"}
      /\ work'.sessions = w.sessions
      /\ work'.results = kept \cup {result} /\ work'.seen = w.seen \cup {pair}
  BY <1>1, <1>2 DEF SessionsHold
<1>4. /\ IsFiniteSet(work'.seen)
      /\ SoundSeen(w.seen) => SoundSeen(work'.seen)
      /\ pair[2] \notin Defective => SoundSeen(work'.seen)
  <2> HIDE DEF pair
  <2>1. IsFiniteSet(w.seen)
    BY <1>1 DEF SessionsHold
  <2> QED
    BY <1>3, <2>1, SeenGrows
<1>5. IsFiniteSet(work'.results)
  <2>1. IsFiniteSet(kept)
    BY <1>1, FS_Subset DEF SessionsHold
  <2> HIDE DEF kept, result
  <2> QED
    BY <1>3, <2>1, FS_AddElement
<1>6. result.status = "pass" => pair[2] \notin Defective
  BY DEF Works
<1>7. \A r \in work'.results : r.status = "pass" => SoundSeen(work'.seen)
  <2> HIDE DEF result, pair
  <2> QED
    BY <1>1, <1>3, <1>4, <1>6 DEF SessionsHold
<1>8. SessionsHold(work')
  BY <1>1, <1>3, <1>4, <1>5, <1>7 DEF SessionsHold
<1> QED
  BY <1>1, <1>8, DrillEvidence DEF WorkHolds

LEMMA WriteDataHolds == Evidence /\ WriteData => Evidence'
<1> SUFFICES ASSUME Evidence, WriteData
             PROVE  Evidence'
  OBVIOUS
<1> DEFINE w == work
<1>1. /\ focus = "backup_restore" /\ BackupsHold(w)
      /\ UNCHANGED <<deployed, lack, focus, files, tool, manifest, check>>
  BY DEF WriteData, Drill, Open, Evidence, WorkHolds, Gates, world
<1>2. /\ DOMAIN work' = DOMAIN w
      /\ work'.backups = w.backups /\ work'.restores = w.restores
      /\ work'.data = w.data + 1 /\ work'.now = w.now + 1
  BY <1>1 DEF WriteData, BackupsHold
<1>3. \A at \in Nat : at < w.now => at < w.now + 1
  BY <1>1 DEF BackupsHold
<1>4. \A i \in DOMAIN w.backups : w.backups[i].at \in Nat
  <2>1. \A i \in DOMAIN w.backups : w.backups[i] \in Backup
    BY <1>1, ElementOfSeq, LenProperties DEF BackupsHold
  <2> QED
    BY <2>1 DEF Backup
<1>5. BackupsHold(work')
  BY <1>1, <1>2, <1>3, <1>4 DEF BackupsHold
<1> QED
  BY <1>1, <1>5, DrillEvidence DEF WorkHolds

LEMMA BackUpHolds == Evidence /\ BackUp => Evidence'
<1> SUFFICES ASSUME Evidence, BackUp
             PROVE  Evidence'
  OBVIOUS
<1> DEFINE w == work
           backup == [method |-> "sqlite_online_backup_api", at |-> w.now,
                      revision |-> deployed["final"], digest |-> w.data]
<1>1. /\ focus = "backup_restore" /\ BackupsHold(w)
      /\ deployed \in [{"final", "staging"} -> Revisions]
      /\ UNCHANGED <<deployed, lack, focus, files, tool, manifest, check>>
  BY DEF BackUp, Drill, Open, Evidence, WorkHolds, WorldHolds, Gates, world
<1>2. /\ DOMAIN work' = DOMAIN w
      /\ work'.backups = Append(w.backups, backup) /\ work'.restores = w.restores
      /\ work'.data = w.data /\ work'.now = w.now + 1
  BY <1>1 DEF BackUp, BackupsHold
<1>3. backup \in Backup /\ backup.at = w.now
  BY <1>1 DEF BackupsHold, Backup
<1>4. /\ work'.backups \in Seq(Backup)
      /\ \A i \in DOMAIN work'.backups :
            \/ i \in DOMAIN w.backups /\ work'.backups[i] = w.backups[i]
            \/ work'.backups[i] = backup
  <2> HIDE DEF backup
  <2> QED
    BY <1>1, <1>2, <1>3, AppendElements DEF BackupsHold
<1>5. /\ w.now < w.now + 1
      /\ \A at \in Nat : at < w.now => at < w.now + 1 /\ at # w.now
  BY <1>1 DEF BackupsHold
<1>6. \A i \in DOMAIN w.backups : w.backups[i].at \in Nat
  <2>1. \A i \in DOMAIN w.backups : w.backups[i] \in Backup
    BY <1>1, ElementOfSeq, LenProperties DEF BackupsHold
  <2> QED
    BY <2>1 DEF Backup
<1>7. BackupsHold(work')
  <2> HIDE DEF backup
  <2> QED
    BY <1>1, <1>2, <1>3, <1>4, <1>5, <1>6 DEF BackupsHold
<1> QED
  BY <1>1, <1>7, DrillEvidence DEF WorkHolds

LEMMA RestoreHolds ==
  ASSUME Evidence, NEW i, NEW place, NEW bytes, RestoreBackup(i, place, bytes)
  PROVE  Evidence'
<1> DEFINE w == work
           restore == [place |-> place, started |-> w.now, completed |-> w.now + 1,
                       source |-> w.backups[i].digest, restored |-> bytes,
                       from |-> w.backups[i], revision |-> deployed["final"]]
<1>1. /\ focus = "backup_restore" /\ BackupsHold(w)
      /\ i \in DOMAIN w.backups /\ bytes \in {0, w.backups[i].digest}
      /\ UNCHANGED <<deployed, lack, focus, files, tool, manifest, check>>
  BY DEF RestoreBackup, Drill, Open, Evidence, WorkHolds, Gates, world
<1>2. /\ DOMAIN work' = DOMAIN w
      /\ work'.backups = w.backups /\ work'.restores = <<restore>>
      /\ work'.data = (IF place = "production" THEN bytes ELSE w.data)
      /\ work'.now = w.now + 2
  BY <1>1 DEF RestoreBackup, BackupsHold
<1>3. \A k \in DOMAIN w.backups : w.backups[k] \in Backup
  BY <1>1, ElementOfSeq, LenProperties DEF BackupsHold
<1>4. work'.data \in Nat
  BY <1>1, <1>2, <1>3 DEF BackupsHold, Backup
<1>5. /\ w.now < w.now + 2 /\ w.now + 2 \in Nat
      /\ \A at \in Nat : at < w.now => at < w.now + 2 /\ at # w.now
  BY <1>1 DEF BackupsHold
<1>6. /\ work'.restores[1].source = work'.restores[1].from.digest
      /\ work'.restores[1].started = w.now
  BY <1>2
<1>7. \A k \in DOMAIN w.backups : w.backups[k].at \in Nat
  BY <1>3 DEF Backup
<1>8. BackupsHold(work')
  <2> HIDE DEF restore
  <2> QED
    BY <1>1, <1>2, <1>4, <1>5, <1>6, <1>7 DEF BackupsHold
<1> QED
  BY <1>1, <1>8, DrillEvidence DEF WorkHolds

LEMMA NoticeHolds == Evidence /\ Notice => Evidence'
<1> SUFFICES ASSUME Evidence, Notice
             PROVE  Evidence'
  OBVIOUS
<1>1. /\ focus = "monitoring"
      /\ UNCHANGED <<deployed, lack, focus, files, tool, manifest, check>>
  BY DEF Notice, Drill, Open, world
<1> QED
  BY <1>1, DrillEvidence DEF WorkHolds

LEMMA DeployHolds == Evidence /\ Deploy => Evidence'
<1> SUFFICES ASSUME Evidence, Deploy
             PROVE  Evidence'
  OBVIOUS
<1>1. UNCHANGED <<lack, focus, files, tool, work, manifest, check>>
  BY DEF Deploy
<1>2. deployed' \in [{"final", "staging"} -> Revisions]
  BY DEF Deploy, Evidence, WorldHolds
<1> QED
  BY <1>1, <1>2
     DEF Evidence, WorldHolds, FilesHold, ManifestHolds, CheckHolds, WorkHolds

-----------------------------------------------------------------------------
(* Steps that write files.                                                 *)

LEMMA FileWritten ==
  ASSUME Evidence, manifest = Missing, focus \in Gates,
         NEW d, FileHolds(focus, d, focus, lack),
         files' = [files EXCEPT ![focus] = d], WalkHolds(tool', lack),
         UNCHANGED <<deployed, lack, focus, manifest, check>>
  PROVE  Evidence'
<1>1. /\ DOMAIN files' = Gates /\ files'[focus] = d
      /\ \A gate \in Gates \ {focus} : files'[gate] = files[gate]
  BY DEF Evidence, FilesHold
<1>2. FilesHold'
  BY <1>1 DEF Evidence, FilesHold
<1>3. d # Missing
  BY DEF FileHolds, KindOf, Kind, Gates, Missing
<1>4. CheckHolds'
  BY DEF Evidence, CheckHolds
<1> QED
  BY <1>1, <1>2, <1>3, <1>4 DEF Evidence, WorldHolds, ManifestHolds, WorkHolds

(* As long as the file of the gate is not written nothing is assembled.    *)
LEMMA NothingAssembled ==
  ASSUME Evidence, NEW gate \in Gates, Open(gate)
  PROVE  /\ focus = gate /\ manifest = Missing /\ files[gate] = Missing
         /\ lack \in Shortcomings[gate] \cup {"nothing"}
         /\ WalkHolds(tool, lack)
BY DEF Evidence, Open, ManifestHolds, WorldHolds

LEMMA WriteBrowserHolds ==
  ASSUME Evidence, NEW site, NEW revision, WriteBrowserEvidence(site, revision)
  PROVE  Evidence'
<1>1. /\ focus = "manual_browser_os" /\ focus \in Gates /\ manifest = Missing
      /\ lack \in Shortcomings["manual_browser_os"] \cup {"nothing"}
      /\ SessionsHold(work) /\ WalkHolds(tool, lack)
  BY NothingAssembled DEF WriteBrowserEvidence, Gates, Evidence, WorkHolds, Open
<1>2. PICK kept \in SUBSET (DOMAIN work.sessions) :
         Write(BrowserDocument(site, revision, lack, work.seen,
                   SetToSeq({work.sessions[i] : i \in kept}), SetToSeq(work.results)))
  BY DEF WriteBrowserEvidence
<1>3. PICK d : d = BrowserDocument(site, revision, lack, work.seen,
                       SetToSeq({work.sessions[i] : i \in kept}), SetToSeq(work.results))
  OBVIOUS
<1>4. FileHolds(focus, d, focus, lack)
  BY <1>1, <1>3, BrowserWritten
<1>5. /\ files' = [files EXCEPT ![focus] = d]
      /\ UNCHANGED <<deployed, lack, focus, tool, manifest, check>>
  BY <1>2, <1>3 DEF Write, world
<1> QED
  BY <1>1, <1>4, <1>5, FileWritten

LEMMA WriteRecoveryHolds ==
  ASSUME Evidence, NEW site, NEW revision, WriteRecoveryEvidence(site, revision)
  PROVE  Evidence'
<1>1. /\ focus = "backup_restore" /\ focus \in Gates /\ manifest = Missing
      /\ lack \in Shortcomings["backup_restore"] \cup {"nothing"}
      /\ BackupsHold(work) /\ WalkHolds(tool, lack)
  BY NothingAssembled DEF WriteRecoveryEvidence, Gates, Evidence, WorkHolds, Open
<1> DEFINE s == IF work.restores[1].revision \in Defective THEN "healthz_passed"
                ELSE IF work.restores[1].place = "production"
                THEN "production_data_unchanged_by_routine_restore_test"
                ELSE lack
           document(i) ==
               RecoveryDocument(site, revision, s,
                   {<<"final", work.backups[i].revision>>, <<"final", work.restores[1].revision>>},
                   work.backups[i], work.restores[1])
<1>2. work.restores # <<>>
  BY DEF WriteRecoveryEvidence
<1>3. PICK i \in DOMAIN work.backups : Write(document(i))
  BY DEF WriteRecoveryEvidence
<1>4. PICK d : d = document(i)
  OBVIOUS
<1>5. FileHolds(focus, d, focus, lack)
  BY <1>1, <1>2, <1>4, RecoveryWritten
<1>6. /\ files' = [files EXCEPT ![focus] = d]
      /\ UNCHANGED <<deployed, lack, focus, tool, manifest, check>>
  BY <1>3, <1>4 DEF Write, world
<1> QED
  BY <1>1, <1>5, <1>6, FileWritten

LEMMA WriteMonitoringHolds ==
  ASSUME Evidence, NEW site, NEW revision, WriteMonitoringEvidence(site, revision)
  PROVE  Evidence'
<1>1. /\ focus = "monitoring" /\ focus \in Gates /\ manifest = Missing
      /\ lack \in Shortcomings["monitoring"] \cup {"nothing"}
      /\ WalkHolds(tool, lack)
  BY NothingAssembled DEF WriteMonitoringEvidence, Gates
<1> DEFINE s == IF deployed["final"] \in Defective THEN "database_aware_health_verified"
                ELSE lack
           seen == work.seen \cup {Running(Final)}
<1>2. /\ revision = deployed["final"]
      /\ Write(MonitoringDocument(site, revision, s, seen, work.order, work.down,
                                  work.recovered))
  BY DEF WriteMonitoringEvidence
<1>3. PICK d : d = MonitoringDocument(site, revision, s, seen, work.order, work.down,
                                      work.recovered)
  OBVIOUS
<1>4. FileHolds(focus, d, focus, lack)
  <2>1. <<"final", revision>> \in seen
    BY <1>2 DEF Running, Final
  <2> HIDE DEF seen
  <2> QED
    BY <1>1, <1>2, <1>3, <2>1, MonitoringWritten
<1>5. /\ files' = [files EXCEPT ![focus] = d]
      /\ UNCHANGED <<deployed, lack, focus, tool, manifest, check>>
  BY <1>2, <1>3 DEF Write, world
<1> QED
  BY <1>1, <1>4, <1>5, FileWritten

-----------------------------------------------------------------------------
(* Steps of the preflight tool.                                            *)

LEMMA ToolEvidence ==
  ASSUME Evidence, WalkHolds(tool', lack),
         UNCHANGED <<deployed, lack, focus, files, work, manifest, check>>
  PROVE  Evidence'
BY DEF Evidence, WorldHolds, FilesHold, ManifestHolds, CheckHolds, WorkHolds

LEMMA StartHolds ==
  ASSUME NEW scope \in Scopes, NEW site, NEW revision, StartPreflight(scope, site, revision)
  PROVE  WalkHolds(tool', lack)
<1> DEFINE host == scope \in {"host", "all"}
           entries == DockerEntries(revision) \cup PathEntries \cup LogEntries
<1>1. tool' = [phase |-> IF scope = "host" THEN "report" ELSE "network", next |-> 1,
               scope |-> scope, site |-> site, revision |-> revision,
               checks |-> IF host THEN entries ELSE {},
               seen |-> IF host THEN {<<"final", deployed["final"]>>} ELSE {}]
  BY DEF StartPreflight
<1>2. IsFiniteSet(tool'.seen)
  BY <1>1, FS_EmptySet, FS_Singleton
<1>3. ASSUME scope = "all", AllPass(entries)
      PROVE  lack \notin HostShortcomings /\ deployed["final"] = revision
  <2>1. \A name, ok : Entry(name, ok) \in entries => ok
    BY <1>3 DEF AllPass, Entry
  <2>2. lack # "docker_runtime_inspection"
    <3>1. lack = "docker_runtime_inspection"
              => Entry("docker_runtime_inspection", FALSE) \in entries
      BY DEF DockerEntries
    <3> HIDE DEF entries
    <3> QED
      BY <2>1, <3>1
  <2>3. /\ Entry("hardening", lack # "hardening") \in entries
        /\ Entry("image_revision", deployed["final"] = revision) \in entries
        /\ Entry("path_modes", lack # "path_modes") \in entries
        /\ Entry("runtime_log_scan", lack # "runtime_log_scan") \in entries
    BY <2>2 DEF DockerEntries, PathEntries, LogEntries
  <2> QED
    BY <2>1, <2>2, <2>3 DEF HostShortcomings
<1>4. scope = "all" /\ AllPass(tool'.checks) => Shown(tool', lack)
  BY <1>1, <1>3 DEF Shown
<1> HIDE DEF entries
<1> QED
  BY <1>1, <1>2, <1>4 DEF WalkHolds, Scopes

LEMMA NetworkCheckHolds ==
  ASSUME WalkHolds(tool, lack), NetworkCheck
  PROVE  WalkHolds(tool', lack)
<1> DEFINE n == tool.next
           request == NetworkChecks[n]
           ok == Holds(request, tool.site, tool.revision)
           recorded == IF request \in {"https_scheme", "private_dns"} \/ ok
                       THEN Entry(request, ok)
                       ELSE Entry("https_private_path", FALSE)
           ends == (~ok /\ request # "private_dns") \/ n = Len(NetworkChecks)
           pair == <<tool.site.name, deployed[tool.site.name]>>
<1>1. /\ tool.phase = "network" /\ n \in 1 .. 9
      /\ DOMAIN tool = {"phase", "next", "scope", "site", "revision", "checks", "seen"}
      /\ IsFiniteSet(tool.seen)
      /\ tool.scope = "all" /\ AllPass(tool.checks) => Shown(tool, lack)
  BY DEF WalkHolds, NetworkCheck
<1>2. tool' = [tool EXCEPT
          !.phase = IF ends THEN "report" ELSE @,
          !.next = @ + 1,
          !.checks = @ \cup {recorded},
          !.seen = IF tool.next <= 2 THEN @ ELSE @ \cup {pair}]
  BY DEF NetworkCheck
<1>3. Len(NetworkChecks) = 9
  BY DEF NetworkChecks
<1>4. recorded.pass => ok
  BY DEF Entry
<1>5. /\ DOMAIN tool' = {"phase", "next", "scope", "site", "revision", "checks", "seen"}
      /\ tool'.phase = (IF ends THEN "report" ELSE "network")
      /\ tool'.next = n + 1
      /\ tool'.checks = tool.checks \cup {recorded}
      /\ tool'.seen = (IF n <= 2 THEN tool.seen ELSE tool.seen \cup {pair})
      /\ tool'.scope = tool.scope /\ tool'.revision = tool.revision
  <2> HIDE DEF ends, recorded, pair
  <2> QED
    BY <1>1, <1>2
<1>6. /\ IsFiniteSet(tool'.seen)
      /\ SoundSeen(tool.seen) => SoundSeen(tool'.seen)
      /\ n > 2 /\ pair[2] \notin Defective => SoundSeen(tool'.seen)
  <2> HIDE DEF pair
  <2>1. /\ IsFiniteSet(tool.seen \cup {pair})
        /\ SoundSeen(tool.seen) => SoundSeen(tool.seen \cup {pair})
        /\ pair[2] \notin Defective => SoundSeen(tool.seen \cup {pair})
    BY <1>1, SeenGrows
  <2> QED
    BY <1>1, <1>5, <2>1
<1>7. ASSUME tool.scope = "all", AllPass(tool'.checks)
      PROVE  Shown(tool', lack)
  <2>1. Shown(tool, lack) /\ ok
    BY <1>1, <1>4, <1>5, <1>7 DEF AllPass
  <2>2. /\ n = 2 => lack # "private_dns"
        /\ n = 5 => lack # "unauthenticated_session"
        /\ n = 8 => pair[2] \notin Defective
        /\ n = 9 => lack # "same_origin_cors"
    BY <2>1 DEF NetworkChecks, Holds, Works
  <2>3. ends => n = 9
    BY <1>3, <2>1
  <2>4. tool'.phase = "report" => tool'.next > 9
    BY <1>5, <2>3
  <2>5. <<"final", tool.revision>> \in tool'.seen /\ lack \notin HostShortcomings
    BY <1>5, <2>1 DEF Shown
  <2> HIDE DEF n, ends, ok, recorded, pair
  <2>6. /\ tool'.next > 2 => n > 2 \/ n = 2
        /\ tool'.next > 5 => n > 5 \/ n = 5
        /\ tool'.next > 8 => n > 8 \/ n = 8
        /\ tool'.next > 9 => n = 9
        /\ n = 8 => n > 2
    BY <1>1, <1>5
  <2>7. /\ n > 2 => lack # "private_dns"
        /\ n > 5 => lack # "unauthenticated_session"
        /\ n > 8 => SoundSeen(tool.seen)
    BY <2>1 DEF Shown, n
  <2> QED
    BY <1>5, <1>6, <2>2, <2>4, <2>5, <2>6, <2>7 DEF Shown
<1>8. n + 1 \in 1 .. 10 /\ (tool'.phase = "network" => n + 1 < 10)
  BY <1>1, <1>3, <1>5
<1> HIDE DEF ends, ok, recorded, pair
<1> QED
  BY <1>5, <1>6, <1>7, <1>8 DEF WalkHolds

LEMMA WriteReportHolds ==
  ASSUME Evidence, focus = "target_preflight", manifest = Missing, WriteReport,
         UNCHANGED <<work, manifest, check>>
  PROVE  Evidence'
<1> DEFINE d == Report
<1>1. /\ d.kind = "preflight" /\ d.scope = tool.scope /\ d.revision = tool.revision
      /\ d.checks = tool.checks /\ d.truth = tool.seen
  BY DEF Report
<1>2. /\ tool.phase = "report" /\ tool' = Idle
      /\ files' = [files EXCEPT ![focus] = d]
      /\ UNCHANGED <<deployed, lack, focus, manifest, check>>
  BY DEF WriteReport
<1>3. /\ IsFiniteSet(tool.seen) /\ tool.next \in 1 .. 10
      /\ tool.scope = "all" /\ AllPass(tool.checks) => Shown(tool, lack)
      /\ lack \in Shortcomings["target_preflight"] \cup {"nothing"}
  BY <1>2 DEF Evidence, WalkHolds, WorldHolds
<1> HIDE DEF d
<1>4. ASSUME d.scope = "all", AllPass(d.checks)
      PROVE  Backed("target_preflight", d, "target_preflight", lack)
  <2>1. Shown(tool, lack)
    BY <1>1, <1>3, <1>4
  <2>2. /\ lack \notin HostShortcomings /\ lack \notin NetworkShortcomings
        /\ <<"final", d.revision>> \in d.truth
        /\ SoundSeen(tool.seen)
    BY <1>1, <1>2, <1>3, <2>1 DEF Shown, NetworkShortcomings
  <2>3. lack \in MigrationShortcomings \cup {"nothing"}
    BY <1>3, <2>2, ShortcomingsAssumption DEF ShortcomingsAssumption
  <2>4. d.revision \in Defective => Cardinality(d.truth) > 1
    BY <1>1, <1>3, <2>2, TwoSeen
  <2> QED
    BY <2>2, <2>3, <2>4 DEF Backed
<1>5. FileHolds(focus, d, focus, lack)
  BY <1>1, <1>4 DEF FileHolds, Passes, KindOf, Gates
<1>6. WalkHolds(tool', lack)
  BY <1>2 DEF WalkHolds, Idle
<1> QED
  BY <1>2, <1>5, <1>6, FileWritten DEF Gates

LEMMA PreflightHolds ==
  ASSUME Evidence, focus = "target_preflight", manifest = Missing, PreflightNext,
         UNCHANGED <<work, manifest, check>>
  PROVE  Evidence'
<1>1. ASSUME NEW scope \in Scopes, NEW site, NEW revision,
             StartPreflight(scope, site, revision)
      PROVE  Evidence'
  BY <1>1, StartHolds, ToolEvidence DEF StartPreflight
<1>2. CASE NetworkCheck
  BY <1>2, NetworkCheckHolds, ToolEvidence DEF NetworkCheck, Evidence
<1>3. CASE ToolDies
  <2>1. WalkHolds(tool', lack)
    BY <1>3 DEF ToolDies, Idle, WalkHolds
  <2> QED
    BY <1>3, <2>1, ToolEvidence DEF ToolDies
<1>4. CASE WriteReport
  BY <1>4, WriteReportHolds
<1> QED
  BY <1>1, <1>2, <1>3, <1>4 DEF PreflightNext

-----------------------------------------------------------------------------
(* Steps of the manifest and of its validation.                            *)

LEMMA RewriteHolds == Evidence /\ Rewrite => Evidence'
<1> SUFFICES ASSUME Evidence, Rewrite
             PROVE  Evidence'
  OBVIOUS
<1>1. PICK revision \in Revisions \ Defective :
         files' = [files EXCEPT ![focus] = Sound(focus, revision)]
  BY DEF Rewrite
<1>2. /\ manifest # Missing /\ focus \in Gates /\ DOMAIN files = Gates
      /\ check.phase \in {"none", "verified"}
      /\ check' = [check EXCEPT !.rewritten = check.phase = "verified"]
      /\ UNCHANGED <<deployed, lack, focus, tool, work, manifest>>
  BY DEF Rewrite, Evidence, ManifestHolds, FilesHold, world
<1>3. DOMAIN files' = Gates /\ files'[focus] # Missing
  <2>1. Sound(focus, revision).kind # "none"
    BY <1>2 DEF Sound, Gates, RecoveryDocument, MonitoringDocument, BrowserDocument
  <2>2. DOMAIN files' = Gates /\ files'[focus] = Sound(focus, revision)
    BY <1>1, <1>2
  <2> QED
    BY <2>1, <2>2 DEF Missing
<1>4. /\ DOMAIN check' = DOMAIN check /\ check'.phase = check.phase
      /\ check'.rewritten = (check.phase = "verified")
  BY <1>2 DEF Evidence, CheckHolds
<1>5. CheckHolds'
  BY <1>2, <1>4 DEF Evidence, CheckHolds
<1> QED
  BY <1>2, <1>3, <1>5 DEF Evidence, WorldHolds, FilesHold, ManifestHolds, WorkHolds

LEMMA AssembleHolds == Evidence /\ Assemble => Evidence'
<1> SUFFICES ASSUME Evidence, Assemble
             PROVE  Evidence'
  OBVIOUS
<1>1. /\ focus \in Gates /\ files[focus] # Missing /\ manifest = Missing
      /\ UNCHANGED <<deployed, lack, focus, files, tool, work, check>>
  BY DEF Assemble, world
<1>2. PICK named \in Gates, refs \in References :
         manifest' = [site |-> files[named].site, revision |-> files[named].revision,
                      refs |-> refs, pinned |-> [gate \in Gates |-> files[refs[gate]]]]
  BY DEF Assemble
<1>3. refs \in [Gates -> Gates]
  BY DEF References, Gates
<1>4. manifest' # Missing
  BY <1>2 DEF Missing
<1>5. ASSUME NEW gate \in Gates
      PROVE  FileHolds(manifest'.refs[gate], manifest'.pinned[gate], focus, lack)
  <2>1. \A g \in Gates : FileHolds(g, files[g], focus, lack)
    BY <1>1 DEF Evidence, FilesHold
  <2>2. manifest'.refs[gate] = refs[gate] /\ manifest'.pinned[gate] = files[refs[gate]]
    BY <1>2
  <2> QED
    BY <1>3, <2>1, <2>2
<1>6. ManifestHolds'
  BY <1>1, <1>2, <1>3, <1>5 DEF ManifestHolds
<1>7. FilesHold' /\ CheckHolds'
  BY <1>1, <1>4 DEF Evidence, FilesHold, CheckHolds
<1> QED
  BY <1>1, <1>6, <1>7 DEF Evidence, WorldHolds, WorkHolds

LEMMA CheckEvidence ==
  ASSUME Evidence, CheckHolds',
         UNCHANGED <<deployed, lack, focus, files, tool, work, manifest>>
  PROVE  Evidence'
BY DEF Evidence, WorldHolds, FilesHold, ManifestHolds, WorkHolds

(* A refusal ends the validation. *)
LEMMA RefusalHolds ==
  ASSUME manifest' # Missing, check' = Checking("refused")
  PROVE  CheckHolds'
BY DEF Checking, CheckHolds

LEMMA VerifyHolds ==
  ASSUME Evidence, NEW expected, Verify(expected)
  PROVE  Evidence'
<1>1. /\ manifest # Missing /\ check.phase = "none"
      /\ DOMAIN check = {"phase", "rewritten", "judged"}
      /\ UNCHANGED <<deployed, lack, focus, files, tool, work, manifest>>
  BY DEF Verify, Evidence, CheckHolds, world
<1>2. CASE check' = Checking("refused")
  BY <1>1, <1>2, RefusalHolds, CheckEvidence
<1>3. CASE /\ \A gate \in Gates : files[manifest.refs[gate]] = manifest.pinned[gate]
           /\ check' = [check EXCEPT !.phase = "verified"]
  <2>1. DOMAIN check' = DOMAIN check /\ check'.phase = "verified"
    BY <1>1, <1>3
  <2>2. CheckHolds'
    BY <1>1, <1>3, <2>1 DEF CheckHolds
  <2> QED
    BY <1>1, <2>2, CheckEvidence
<1> QED
  BY <1>2, <1>3 DEF Verify, Matches

LEMMA JudgeHolds == Evidence /\ Judge => Evidence'
<1> SUFFICES ASSUME Evidence, Judge
             PROVE  Evidence'
  OBVIOUS
<1> DEFINE document == [gate \in Gates |-> files[manifest.refs[gate]]]
<1>1. /\ manifest # Missing /\ check.phase = "verified"
      /\ DOMAIN check = {"phase", "rewritten", "judged"}
      /\ UNCHANGED <<deployed, lack, focus, files, tool, work, manifest>>
  BY DEF Judge, Evidence, CheckHolds, world
<1>2. CASE check' = Checking("refused")
  BY <1>1, <1>2, RefusalHolds, CheckEvidence
<1>3. CASE /\ \A gate \in Gates \ {"target_preflight"} :
                 ValidateSubordinate(gate, document[gate])
           /\ ValidatePreflight(document["target_preflight"])
           /\ Migration
           /\ check' = [check EXCEPT !.phase = "accepted", !.judged = document]
  <2> HIDE DEF document
  <2>1. /\ DOMAIN check' = DOMAIN check /\ check'.phase = "accepted"
        /\ check'.judged = document /\ check'.rewritten = check.rewritten
    BY <1>1, <1>3
  <2>2. ASSUME NEW gate \in Gates
        PROVE  Agrees(gate, document[gate], manifest)
    <3>1. CASE gate = "target_preflight"
      BY <1>3, <3>1 DEF ValidatePreflight, Agrees, KindOf, Gates, Passes, AllPass
    <3>2. CASE gate # "target_preflight"
      BY <1>3, <2>2, <3>2 DEF ValidateSubordinate, Agrees, KindOf, Gates, Passes
    <3> QED
      BY <3>1, <3>2
  <2>3. ~check.rewritten => \A gate \in Gates : document[gate] = manifest.pinned[gate]
    BY <1>1 DEF Evidence, CheckHolds, document
  <2>4. lack \notin MigrationShortcomings
    BY <1>3 DEF Migration
  <2>5. CheckHolds'
    BY <1>1, <2>1, <2>2, <2>3, <2>4 DEF CheckHolds, Agrees
  <2> QED
    BY <1>1, <2>5, CheckEvidence
<1> QED
  BY <1>2, <1>3 DEF Judge

-----------------------------------------------------------------------------
(* The invariant.                                                          *)

LEMMA InitEvidence == Init => Evidence
<1> SUFFICES ASSUME Init
             PROVE  Evidence
  OBVIOUS
<1>1. /\ focus \in Gates \cup {"rehearsal"}
      /\ lack \in Shortcomings[focus] \cup {"nothing"}
      /\ tool = Idle /\ work = NoWork /\ manifest = Missing /\ check = Checking("none")
      /\ deployed \in [{"final", "staging"} -> Revisions]
  BY DEF Init
<1>2. PICK others \in Revisions :
         files = [gate \in Gates |-> IF gate = focus THEN Missing ELSE Sound(gate, others)]
  BY DEF Init
<1>3. FilesHold
  <2>1. DOMAIN files = Gates
    BY <1>2
  <2>2. ASSUME NEW gate \in Gates, gate # focus
        PROVE  FileHolds(gate, files[gate], focus, lack)
    <3>1. files[gate] = Sound(gate, others)
      BY <1>2, <2>2
    <3> QED
      BY <2>2, <3>1, SoundHolds
  <2>3. focus \in Gates => files[focus] = Missing
    BY <1>2
  <2> QED
    BY <2>1, <2>2, <2>3 DEF FilesHold
<1>4. CheckHolds
  BY <1>1 DEF CheckHolds, Checking
<1>5. WalkHolds(tool, lack)
  BY <1>1 DEF WalkHolds, Idle
<1>6. ASSUME focus = "manual_browser_os"
      PROVE  SessionsHold(work)
  <2>1. work = [sessions |-> <<>>, results |-> {}, seen |-> {}]
    BY <1>1, <1>6 DEF NoWork
  <2> QED
    BY <2>1, FS_EmptySet DEF SessionsHold
<1>7. ASSUME focus = "backup_restore"
      PROVE  BackupsHold(work)
  <2>1. work = [now |-> 1, data |-> 1, backups |-> <<>>, restores |-> <<>>]
    BY <1>1, <1>7 DEF NoWork
  <2> QED
    BY <2>1 DEF BackupsHold
<1> QED
  BY <1>1, <1>3, <1>4, <1>5, <1>6, <1>7 DEF Evidence, WorldHolds, ManifestHolds, WorkHolds

LEMMA NextEvidence == Evidence /\ [Next]_vars => Evidence'
<1> SUFFICES ASSUME Evidence, [Next]_vars
             PROVE  Evidence'
  OBVIOUS
<1>1. CASE UNCHANGED vars
  BY <1>1, SameEvidence DEF vars, world
<1>2. CASE Deploy
  BY <1>2, DeployHolds
<1>3. CASE ServiceChanges
  BY <1>3, SameEvidence DEF ServiceChanges
<1>4. ASSUME NEW site \in Sites, NEW reader \in BOOLEAN, OpenSession(site, reader)
      PROVE  Evidence'
  BY <1>4, OpenSessionHolds
<1>5. ASSUME NEW c \in RequiredChecks, NEW i \in 1 .. MaxWork, TryCheck(c, i)
      PROVE  Evidence'
  BY <1>5, TryCheckHolds
<1>6. CASE WriteData
  BY <1>6, WriteDataHolds
<1>7. CASE BackUp
  BY <1>7, BackUpHolds
<1>8. ASSUME NEW i \in 1 .. MaxWork, NEW place \in {"alternate", "production"},
             NEW bytes \in 0 .. MaxWork, RestoreBackup(i, place, bytes)
      PROVE  Evidence'
  BY <1>8, RestoreHolds
<1>9. CASE Notice
  BY <1>9, NoticeHolds
<1>10. ASSUME NEW site \in Sites, NEW revision \in Revisions,
              \/ WriteBrowserEvidence(site, revision)
              \/ WriteRecoveryEvidence(site, revision)
              \/ WriteMonitoringEvidence(site, revision)
       PROVE  Evidence'
  BY <1>10, WriteBrowserHolds, WriteRecoveryHolds, WriteMonitoringHolds
<1>11. CASE /\ focus = "target_preflight"
            /\ Gathering
            /\ PreflightNext
            /\ UNCHANGED <<work, manifest, check, left, rehearsal>>
  BY <1>11, PreflightHolds DEF Gathering
<1>12. CASE Rewrite
  BY <1>12, RewriteHolds
<1>13. CASE Assemble
  BY <1>13, AssembleHolds
<1>14. ASSUME NEW expected \in Revisions, Verify(expected)
       PROVE  Evidence'
  BY <1>14, VerifyHolds
<1>15. CASE Judge
  BY <1>15, JudgeHolds
<1>16. CASE /\ focus = "rehearsal"
            /\ Rehearsal!Next
            /\ UNCHANGED <<world, files, tool, work, manifest, check, left>>
  BY <1>16, SameEvidence DEF world
<1> QED
  BY <1>1, <1>2, <1>3, <1>4, <1>5, <1>6, <1>7, <1>8, <1>9, <1>10, <1>11, <1>12, <1>13,
     <1>14, <1>15, <1>16 DEF Next

LEMMA EvidenceIsInvariant == Spec => []Evidence
BY InitEvidence, NextEvidence, PTL DEF Spec

(* What is accepted is the gate's own file, and it is worth what the file  *)
(* was worth when it was pinned. *)
LEMMA AcceptedIsBacked ==
  ASSUME Evidence, Accepted, ~check.rewritten, NEW gate \in Gates
  PROVE  /\ check.judged[gate] = manifest.pinned[gate]
         /\ check.judged[gate].revision = manifest.revision
         /\ Backed(gate, check.judged[gate], focus, lack)
         /\ gate = "manual_browser_os" => check.judged[gate].site.name = "final"
<1>1. /\ manifest # Missing /\ check.judged[gate] = manifest.pinned[gate]
      /\ \A g \in Gates : Agrees(g, check.judged[g], manifest)
      /\ manifest.refs[gate] \in Gates
      /\ FileHolds(manifest.refs[gate], check.judged[gate], focus, lack)
  BY DEF Accepted, Evidence, CheckHolds, ManifestHolds
<1>2. manifest.refs[gate] = gate
  BY <1>1 DEF FileHolds, Agrees, KindOf, Kind, Gates
<1>3. Backed(gate, check.judged[gate], focus, lack)
  BY <1>1, <1>2 DEF FileHolds, Agrees
<1>4. manifest.site.name = "final"
  <2>1. Agrees("monitoring", check.judged["monitoring"], manifest)
    BY <1>1 DEF Gates
  <2> QED
    BY <2>1 DEF Agrees, Passes, Monitoring!Accepts, Monitoring!CandidateIs
<1> QED
  BY <1>1, <1>3, <1>4 DEF Agrees

-----------------------------------------------------------------------------
(* The theorems.                                                           *)

(* An accepted candidate was running at its final origin while each gate's *)
(* evidence was gathered, the installation falls short of nothing the      *)
(* gates look at, and a defective candidate is accepted only where another *)
(* revision was seen during the same work: _validate_subordinate and       *)
(* _validate_preflight tie every document to one candidate.                *)
THEOREM Examined == Spec => []AcceptedCandidateWasExamined
<1>1. Evidence => AcceptedCandidateWasExamined
  <2> SUFFICES ASSUME Evidence, Accepted, ~check.rewritten
               PROVE  /\ \A gate \in Gates :
                            <<"final", manifest.revision>> \in check.judged[gate].truth
                      /\ lack = "nothing"
                      /\ manifest.revision \in Defective
                             => Cardinality(check.judged[focus].truth) > 1
    BY DEF AcceptedCandidateWasExamined
  <2>1. ASSUME NEW gate \in Gates
        PROVE  <<"final", manifest.revision>> \in check.judged[gate].truth
    BY AcceptedIsBacked DEF Backed
  <2>2. focus \in Gates /\ lack \notin MigrationShortcomings
    BY DEF Evidence, CheckHolds, ManifestHolds, Accepted
  <2> QED
    BY <2>1, <2>2, AcceptedIsBacked DEF Backed
<1> QED
  BY <1>1, EvidenceIsInvariant, PTL

(* The documents that were judged are those the manifest pinned, unless a  *)
(* file was replaced between _verify_digest and its second reading.        *)
THEOREM PinnedIsJudged == Spec => []JudgedAsPinned
<1>1. Evidence => JudgedAsPinned
  BY AcceptedIsBacked DEF JudgedAsPinned
<1> QED
  BY <1>1, EvidenceIsInvariant, PTL

(* Accepted recovery evidence names a snapshot with the bytes the service  *)
(* was really restored with, taken before a restore to another place.      *)
THEOREM NamedSnapshot == Spec => []RestoredFromTheNamedSnapshot
<1>1. Evidence => RestoredFromTheNamedSnapshot
  <2> SUFFICES ASSUME Evidence, Accepted, ~check.rewritten, focus = "backup_restore"
               PROVE  Restored(check.judged["backup_restore"])
    BY DEF RestoredFromTheNamedSnapshot, Restored
  <2> QED
    BY AcceptedIsBacked DEF Backed, Gates
<1> QED
  BY <1>1, EvidenceIsInvariant, PTL

-----------------------------------------------------------------------------
(* The rehearsal.                                                          *)

(* What has happened stays so. *)
LEMMA HistoryGrows ==
  ASSUME NEW past \in Seq({"up", "stopped"}), NEW now \in {"up", "stopped"}
  PROVE  /\ Append(past, now) \in Seq({"up", "stopped"})
         /\ Append(past, now) # <<>>
         /\ Append(past, now)[Len(Append(past, now))] = now
         /\ WasStopped(past) => WasStopped(Append(past, now))
         /\ CameBack(past) => CameBack(Append(past, now))
         /\ now = "stopped" => WasStopped(Append(past, now))
<1> DEFINE s == Append(past, now)
<1>1. /\ s \in Seq({"up", "stopped"}) /\ Len(s) = Len(past) + 1 /\ Len(past) \in Nat
      /\ \A i \in 1 .. Len(past) : s[i] = past[i]
      /\ s[Len(past) + 1] = now
  BY AppendProperties, LenProperties
<1>2. DOMAIN s = 1 .. Len(past) + 1 /\ DOMAIN past = 1 .. Len(past)
  BY <1>1, LenProperties
<1> HIDE DEF s
<1>3. s # <<>>
  BY <1>1, EmptySeq
<1>4. \A i \in DOMAIN past : i \in DOMAIN s /\ s[i] = past[i]
  BY <1>1, <1>2
<1>5. Len(past) + 1 \in DOMAIN s
  BY <1>1, <1>2
<1>6. /\ WasStopped(past) => WasStopped(s)
      /\ CameBack(past) => CameBack(s)
      /\ now = "stopped" => WasStopped(s)
  BY <1>1, <1>4, <1>5 DEF WasStopped, CameBack
<1> QED
  BY <1>1, <1>3, <1>6 DEF s

(* An application that is up and was stopped came back. *)
LEMMA UpAgain ==
  ASSUME NEW past \in Seq({"up", "stopped"}), past # <<>>, past[Len(past)] = "up",
         WasStopped(past)
  PROVE  CameBack(past)
<1>1. Len(past) \in Nat \ {0} /\ DOMAIN past = 1 .. Len(past)
  BY EmptySeq, LenProperties
<1>2. PICK i \in DOMAIN past : past[i] = "stopped"
  BY DEF WasStopped
<1>3. i < Len(past) /\ Len(past) \in DOMAIN past
  BY <1>1, <1>2
<1> QED
  BY <1>2, <1>3 DEF CameBack

LEMMA InitDrill == Init => DrillHolds
BY EmptySeq
   DEF Init, Rehearsal!Init, DrillHolds, AlertsTellWhatHappened,
       Rehearsal!AlertsTellWhatHappened, Rehearsal!Titles, WasStopped

(* A message is added behind those that are there. *)
LEMMA TopicGrows ==
  ASSUME DrillHolds, NEW title \in Rehearsal!Titles \cup {"denied"},
         alerts' = Append(alerts, title),
         pending' = "none", UNCHANGED <<app, history, validated>>,
         title = "DOWN" => WasStopped(history),
         title = "RECOVERED" /\ alerts # <<>> /\ alerts[1] = "DOWN" => CameBack(history)
  PROVE  DrillHolds'
<1>1. /\ alerts \in Seq(Rehearsal!Titles \cup {"denied"})
      /\ alerts' \in Seq(Rehearsal!Titles \cup {"denied"})
      /\ Len(alerts) \in Nat
      /\ \A k \in DOMAIN alerts' :
            \/ k \in DOMAIN alerts /\ alerts'[k] = alerts[k]
            \/ alerts'[k] = title
  BY AppendElements, LenProperties DEF DrillHolds
<1>2. CASE alerts = <<>>
  <2>1. alerts' = <<title>>
    BY <1>2
  <2>2. \A k \in DOMAIN alerts' : alerts'[k] = alerts'[1]
    BY <2>1
  <2> QED
    BY <1>1, <1>2, <2>1, <2>2
       DEF DrillHolds, AlertsTellWhatHappened, Rehearsal!AlertsTellWhatHappened
<1>3. CASE alerts # <<>>
  <2>1. 1 \in 1 .. Len(alerts)
    BY <1>1, <1>3, EmptySeq
  <2>2. alerts'[1] = alerts[1]
    BY <1>1, <2>1, AppendProperties
  <2> QED
    BY <1>1, <1>3, <2>2
       DEF DrillHolds, AlertsTellWhatHappened, Rehearsal!AlertsTellWhatHappened
<1> QED
  BY <1>2, <1>3

LEMMA EvaluateDrill ==
  ASSUME DrillHolds, NEW title \in Rehearsal!Titles, Rehearsal!Evaluate(title)
  PROVE  DrillHolds'
<1>1. /\ pending' = title /\ UNCHANGED <<app, history, alerts, validated>>
      /\ IF title = "DOWN" THEN app = "stopped" ELSE app = "up"
  BY DEF Rehearsal!Evaluate, Rehearsal!RequireDown, Rehearsal!RequireUp, Rehearsal!Status,
         DrillHolds
<1>2. title = "DOWN" => WasStopped(history)
  BY <1>1, EmptySeq, LenProperties DEF DrillHolds, WasStopped
<1>3. title = "RECOVERED" /\ WasStopped(history) => CameBack(history)
  BY <1>1, UpAgain DEF DrillHolds
<1>4. alerts # <<>> /\ alerts[1] = "DOWN" => WasStopped(history)
  BY EmptySeq, LenProperties DEF DrillHolds
<1> QED
  BY <1>1, <1>2, <1>3, <1>4
     DEF DrillHolds, AlertsTellWhatHappened, Rehearsal!AlertsTellWhatHappened

LEMMA AppDrill ==
  ASSUME DrillHolds, Rehearsal!AppChanges
  PROVE  DrillHolds'
<1>1. /\ app' \in {"up", "stopped"} /\ history' = Append(history, app')
      /\ UNCHANGED <<alerts, pending, validated>>
  BY DEF Rehearsal!AppChanges
<1>2. /\ history' \in Seq({"up", "stopped"}) /\ history' # <<>>
      /\ history'[Len(history')] = app'
      /\ WasStopped(history) => WasStopped(history')
      /\ CameBack(history) => CameBack(history')
  BY <1>1, HistoryGrows DEF DrillHolds
<1>3. /\ validated # <<>> /\ validated[1] = "DOWN" => WasStopped(history)
      /\ validated = <<"DOWN", "RECOVERED">> => CameBack(history)
  BY DEF DrillHolds, AlertsTellWhatHappened, Rehearsal!AlertsTellWhatHappened,
         WasStopped, CameBack
<1>4. AlertsTellWhatHappened'
  BY <1>1, <1>2, <1>3
     DEF AlertsTellWhatHappened, Rehearsal!AlertsTellWhatHappened, WasStopped, CameBack
<1> QED
  BY <1>1, <1>2, <1>4 DEF DrillHolds

LEMMA ValidateDrill ==
  ASSUME DrillHolds,
         NEW expected \in {<<>>, <<"DOWN">>, <<"RECOVERED">>, <<"DOWN", "RECOVERED">>},
         Rehearsal!AssertSequence(expected)
  PROVE  DrillHolds'
<1>1. /\ alerts = expected /\ validated' = expected
      /\ UNCHANGED <<app, history, alerts, pending>>
  BY DEF Rehearsal!AssertSequence
<1>2. expected # <<>> /\ expected[1] = "DOWN" => WasStopped(history)
  <2>1. expected # <<>> => 1 \in DOMAIN expected
    OBVIOUS
  <2> QED
    BY <1>1, <2>1 DEF DrillHolds
<1>3. expected = <<"DOWN", "RECOVERED">> => CameBack(history)
  <2> SUFFICES ASSUME expected = <<"DOWN", "RECOVERED">>
               PROVE  CameBack(history)
    OBVIOUS
  <2>1. /\ expected # <<>> /\ expected[1] = "DOWN"
        /\ 2 \in DOMAIN expected /\ expected[2] = "RECOVERED"
    OBVIOUS
  <2> QED
    BY <1>1, <2>1 DEF DrillHolds
<1>4. AlertsTellWhatHappened'
  BY <1>1, <1>2, <1>3
     DEF AlertsTellWhatHappened, Rehearsal!AlertsTellWhatHappened, WasStopped, CameBack
<1> QED
  BY <1>1, <1>4 DEF DrillHolds

LEMMA SameDrill ==
  ASSUME DrillHolds, UNCHANGED <<app, history, alerts, validated>>,
         pending' = pending \/ pending' = "none"
  PROVE  DrillHolds'
BY DEF DrillHolds, AlertsTellWhatHappened, Rehearsal!AlertsTellWhatHappened

LEMMA NextDrill == DrillHolds /\ [Next]_vars => DrillHolds'
<1> SUFFICES ASSUME DrillHolds, [Next]_vars
             PROVE  DrillHolds'
  OBVIOUS
<1>1. CASE UNCHANGED rehearsal
  BY <1>1, SameDrill DEF rehearsal
<1>2. CASE Rehearsal!Next
  <2>1. ASSUME NEW title \in Rehearsal!Titles, Rehearsal!Evaluate(title)
        PROVE  DrillHolds'
    BY <2>1, EvaluateDrill
  <2>2. CASE Rehearsal!Publish
    BY <2>2, TopicGrows DEF Rehearsal!Publish, DrillHolds
  <2>3. CASE Rehearsal!PublishFails
    BY <2>3, SameDrill DEF Rehearsal!PublishFails
  <2>4. CASE Rehearsal!TryToPublish
    BY <2>4, TopicGrows DEF Rehearsal!TryToPublish
  <2>5. ASSUME NEW expected \in {<<>>, <<"DOWN">>, <<"RECOVERED">>, <<"DOWN", "RECOVERED">>},
               Rehearsal!AssertSequence(expected)
        PROVE  DrillHolds'
    BY <2>5, ValidateDrill
  <2>6. CASE Rehearsal!AppChanges
    BY <2>6, AppDrill
  <2>7. CASE Rehearsal!WayChanges
    BY <2>7, SameDrill DEF Rehearsal!WayChanges
  <2> QED
    BY <1>2, <2>1, <2>2, <2>3, <2>4, <2>5, <2>6, <2>7 DEF Rehearsal!Next
<1>3. UNCHANGED rehearsal \/ Rehearsal!Next
  BY DEF Next, vars, Deploy, ServiceChanges, OpenSession, TryCheck, WriteData, BackUp,
         RestoreBackup, Notice, Drill, WriteBrowserEvidence, WriteRecoveryEvidence,
         WriteMonitoringEvidence, Write, Rewrite, Assemble, Verify, Judge
<1> QED
  BY <1>1, <1>2, <1>3

(* A validated DOWN tells of an outage of the application, and a RECOVERED *)
(* behind it of its end, although require_down and the publication are two *)
(* requests of a command that can fail in between and be repeated.         *)
THEOREM AlertsAreTrue == Spec => []AlertsTellWhatHappened
<1>1. DrillHolds => AlertsTellWhatHappened
  BY DEF DrillHolds
<1> QED
  BY <1>1, InitDrill, NextDrill, PTL DEF Spec

=============================================================================
