------------------------------ MODULE Acceptance ------------------------------
(***************************************************************************)
(* Acceptance of a release candidate before cutover: evidence of four      *)
(* gates is gathered at a target that may be deployed again meanwhile, is  *)
(* pinned by a manifest, and is judged by                                  *)
(* deploy/acceptance/validate_pre_cutover_acceptance.py.                   *)
(*                                                                         *)
(* The operator records what was seen, but may name any candidate and put  *)
(* together pieces of different work: that is what validators are for.     *)
(* One gate, the focus, is worked on; the other gates' files are sound.    *)
(***************************************************************************)
EXTENDS Preflight, SequencesExt

CONSTANTS
    Shortcomings,         \* [focus -> what the installation may fall short of]
    RequiredChecks,       \* of the browser
    ScreenReaderChecks,   \* those of them that need a screen reader
    MaxDeploys,           \* bound: deployments while the evidence is gathered
    MaxOutages,           \* bound: changes of the service
    MaxWork,              \* bound: sessions, backups, or alerts of a drill
    MaxChanges, MaxAlerts \* bounds of MonitorRehearsal

VARIABLES
    work,       \* the drill of the gate that is worked on
    manifest,   \* the assembled manifest
    check,      \* the running validation, or its verdict
    left,       \* deployments and outages the bounds leave
    app, way, acl, history, changes, alerts, pending, validated   \* the rehearsal

world == <<deployed, service, lack, focus>>
rehearsal == <<app, way, acl, history, changes, alerts, pending, validated>>
vars == <<world, files, tool, work, manifest, check, left, rehearsal>>

Recovery == INSTANCE RecoveryEvidence
Monitoring == INSTANCE MonitoringEvidence
Browser == INSTANCE BrowserEvidence
Rehearsal == INSTANCE MonitorRehearsal

(* What the manifest itself states of the migration. *)
MigrationShortcomings ==
    {"ntfy_active", "ntfy_retired", "parallel_producer_validation_passed",
     "parallel_consumer_validation_passed", "authorization_validation_passed",
     "rollback_exercised", "rollback_procedure_recorded", "cutover_performed"}

Gates == {"backup_restore", "monitoring", "manual_browser_os", "target_preflight"}

(* The contract demands checks (_load_contract), and an installation falls *)
(* short of what its gate looks at or of what the manifest says itself.    *)
ASSUME ChecksAssumption == RequiredChecks # {}
ASSUME ShortcomingsAssumption ==
    /\ Shortcomings["backup_restore"] \subseteq Recovery!Noticed \cup MigrationShortcomings
    /\ Shortcomings["monitoring"] \subseteq Monitoring!Noticed \cup MigrationShortcomings
    /\ Shortcomings["manual_browser_os"] \subseteq Browser!Noticed \cup MigrationShortcomings
    /\ Shortcomings["target_preflight"] \subseteq
           HostShortcomings \cup NetworkShortcomings \cup MigrationShortcomings

Missing == [kind |-> "none"]

Running(site) == <<site.name, deployed[site.name]>>

(* The statements an acceptable document denies. *)
Denied ==
    {"production_accepted", "raw_notification_content_recorded",
     "reusable_secrets_recorded", "repository_secret_values_recorded",
     "depends_on_notify", "depends_on_same_runtime_host", "backend_socket_only",
     "uptime_kuma_production_restore_required"}

NoFor(shortcoming) ==
    IF shortcoming \in Denied THEN Denied \ {shortcoming} ELSE Denied \cup {shortcoming}

Form(shortcoming) == IF shortcoming = "complete" THEN "template" ELSE "complete"

RecoveryDocument(site, revision, shortcoming, truth, snapshot, restore) ==
    [form |-> Form(shortcoming), kind |-> "recovery", no |-> NoFor(shortcoming),
     site |-> site, revision |-> revision, truth |-> truth,
     mode |-> [owner |-> {"r", "w"}, group |-> {"r"},
               other |-> IF shortcoming = "mode" THEN {"r"} ELSE {}],
     policy |-> [frequency |-> IF shortcoming = "frequency" THEN 2 ELSE 1, rpo |-> 1],
     snapshot |-> snapshot, restore |-> restore, disposition |-> "disposed"]

MonitoringDocument(site, revision, shortcoming, truth, order, downStatus, recoveredStatus) ==
    [form |-> Form(shortcoming), kind |-> "monitoring", no |-> NoFor(shortcoming),
     site |-> site, revision |-> revision, truth |-> truth,
     allowlist |-> {{"gateway"}},
     source |-> IF shortcoming = "source" THEN "elsewhere" ELSE "gateway",
     provider |-> "GoreeCloud Monitor", target |-> "https final /healthz", accepted |-> <<200>>,
     order |-> order, downStatus |-> downStatus, recoveredStatus |-> recoveredStatus]

BrowserDocument(site, revision, shortcoming, truth, sessions, results) ==
    [form |-> Form(shortcoming), kind |-> "browser", no |-> NoFor(shortcoming),
     site |-> site, revision |-> revision, truth |-> truth,
     sessions |-> sessions, results |-> results]

(* Evidence of a gate that is not worked on. *)
Sound(gate, revision) ==
    LET truth == {<<"final", revision>>}
    IN CASE gate = "backup_restore" ->
              RecoveryDocument(Final, revision, "nothing", truth,
                  [method |-> "sqlite_online_backup_api", revision |-> revision,
                   at |-> 1, digest |-> 1],
                  [place |-> "alternate", started |-> 2, completed |-> 3, source |-> 1,
                   restored |-> 1, revision |-> revision])
         [] gate = "monitoring" ->
              MonitoringDocument(Final, revision, "nothing", truth,
                  <<"DOWN", "RECOVERED">>, 502, 200)
         [] gate = "manual_browser_os" ->
              BrowserDocument(Final, revision, "nothing", truth,
                  <<[id |-> 1, site |-> Final, revision |-> revision, reader |-> TRUE]>>,
                  SetToSeq({[check |-> c, session |-> 1, status |-> "pass"] : c \in RequiredChecks}))
         [] gate = "target_preflight" ->
              [kind |-> "preflight", scope |-> "all", site |-> Final, revision |-> revision,
               result |-> "pass", checks |-> {Entry("https_meta", TRUE)}, truth |-> truth]

NoWork ==
    CASE focus = "manual_browser_os" -> [sessions |-> <<>>, results |-> {}, seen |-> {}]
      [] focus = "backup_restore" ->
             [now |-> 1, data |-> 1, backups |-> <<>>, restores |-> <<>>]
      [] focus = "monitoring" ->
             [known |-> "up", order |-> <<>>, down |-> 0, recovered |-> 0, seen |-> {}]
      [] OTHER -> <<>>

Checking(phase) == [phase |-> phase, rewritten |-> FALSE, judged |-> <<>>]

Init ==
    /\ focus \in Gates \cup {"rehearsal"}
    /\ \E revision \in Revisions : deployed = [name \in {"final", "staging"} |-> revision]
    /\ service = "up"
    /\ lack \in Shortcomings[focus] \cup {"nothing"}
    /\ \E others \in Revisions :
          files = [gate \in Gates |->
                      IF gate = focus THEN Missing ELSE Sound(gate, others)]
    /\ tool = Idle
    /\ work = NoWork
    /\ manifest = Missing
    /\ check = Checking("none")
    /\ left = [deploys |-> MaxDeploys, outages |-> MaxOutages]
    /\ Rehearsal!Init
    /\ focus # "rehearsal" => acl = "closed"
------------------------------------------------------------------------------
(* The target, as long as evidence is gathered at it.                      *)

Gathering == focus \in Gates /\ manifest = Missing

Deploy ==
    /\ Gathering
    /\ left.deploys > 0
    /\ \E revision \in Revisions \ {deployed["final"]} :
          deployed' = [deployed EXCEPT !["final"] = revision]
    /\ left' = [left EXCEPT !.deploys = @ - 1]
    /\ UNCHANGED <<service, lack, focus, files, tool, work, manifest, check, rehearsal>>

ServiceChanges ==
    /\ Gathering
    /\ focus \in {"monitoring", "target_preflight"}
    /\ left.outages > 0
    /\ service' \in {"up", "stopped", "unreachable"} \ {service}
    /\ left' = [left EXCEPT !.outages = @ - 1]
    /\ UNCHANGED <<deployed, lack, focus, files, tool, work, manifest, check, rehearsal>>
------------------------------------------------------------------------------
(* The drills.                                                             *)

Open(gate) == focus = gate /\ files[gate] = Missing

Drill(gate) ==
    /\ Open(gate)
    /\ UNCHANGED <<world, files, tool, manifest, check, left, rehearsal>>

OpenSession(site, reader) ==
    /\ Drill("manual_browser_os")
    /\ Len(work.sessions) < MaxWork
    /\ work' = [work EXCEPT
          !.sessions = Append(@, [id |-> Len(@) + 1, site |-> site,
                                  revision |-> deployed[site.name], reader |-> reader]),
          !.seen = @ \cup {Running(site)}]

(* A check that is tried again replaces its result. *)
TryCheck(c, i) ==
    /\ Drill("manual_browser_os")
    /\ i \in DOMAIN work.sessions
    /\ LET site == work.sessions[i].site
           result == [check |-> c, session |-> i,
                      status |-> IF Works(site) THEN "pass" ELSE "fail"]
       IN work' = [work EXCEPT
              !.results = {r \in @ : r.check # c} \cup {result},
              !.seen = @ \cup {Running(site)}]

WriteData ==
    /\ Drill("backup_restore")
    /\ work.data < MaxWork
    /\ work' = [work EXCEPT !.data = @ + 1, !.now = @ + 1]

BackUp ==
    /\ Drill("backup_restore")
    /\ Len(work.backups) < MaxWork
    /\ work' = [work EXCEPT
          !.backups = Append(@, [method |-> "sqlite_online_backup_api", at |-> work.now,
                                 revision |-> deployed["final"], digest |-> work.data]),
          !.now = @ + 1]

(* The restored service runs the candidate; the copy may be damaged (0) on *)
(* its way in a manner its checks do not notice.                           *)
RestoreBackup(i, place, bytes) ==
    /\ Drill("backup_restore")
    /\ i \in DOMAIN work.backups
    /\ work.restores = <<>>
    /\ bytes \in {0, work.backups[i].digest}
    /\ work' = [work EXCEPT
          !.restores = <<[place |-> place, started |-> work.now, completed |-> work.now + 1,
                          source |-> work.backups[i].digest, restored |-> bytes,
                          from |-> work.backups[i],
                          revision |-> deployed["final"]]>>,
          !.data = IF place = "production" THEN bytes ELSE @,
          !.now = @ + 2]

(* The monitor notices that the service is not, or again, as it should be. *)
Notice ==
    /\ Drill("monitoring")
    /\ Len(work.order) < MaxWork
    /\ (service = "up") # (work.known = "up")
    /\ LET status == CASE service = "up" -> 200 [] service = "stopped" -> 502 [] OTHER -> 0
       IN work' = [work EXCEPT
              !.known = service,
              !.order = Append(@, IF service = "up" THEN "RECOVERED" ELSE "DOWN"),
              !.down = IF service = "up" THEN @ ELSE status,
              !.recovered = IF service = "up" THEN status ELSE @,
              !.seen = IF service = "up" THEN @ \cup {Running(Final)} ELSE @]
------------------------------------------------------------------------------
(* The files.                                                              *)

(* The work is over when its evidence is written. *)
Write(document) ==
    /\ files' = [files EXCEPT ![focus] = document]
    /\ work' = <<>>
    /\ UNCHANGED <<world, tool, manifest, check, left, rehearsal>>

(* Evidence of other work, on a revision without a defect, takes the place *)
(* of a pinned file, perhaps while the validator runs.                     *)
Rewrite ==
    /\ manifest # Missing
    /\ check.phase \in {"none", "verified"}
    /\ \E revision \in Revisions \ Defective :
          files' = [files EXCEPT ![focus] = Sound(focus, revision)]
    /\ check' = [check EXCEPT !.rewritten = check.phase = "verified"]
    /\ UNCHANGED <<world, tool, work, manifest, left, rehearsal>>

WriteBrowserEvidence(site, revision) ==
    /\ Open("manual_browser_os")
    /\ \E kept \in SUBSET (DOMAIN work.sessions) :
          Write(BrowserDocument(site, revision, lack, work.seen,
                    SetToSeq({work.sessions[i] : i \in kept}), SetToSeq(work.results)))

(* Any of the backups may be taken for the one that was restored. *)
WriteRecoveryEvidence(site, revision) ==
    /\ Open("backup_restore")
    /\ work.restores # <<>>
    /\ \E i \in DOMAIN work.backups :
          LET restore == work.restores[1]
              snapshot == work.backups[i]
              shortcoming ==
                  IF restore.revision \in Defective THEN "healthz_passed"
                  ELSE IF restore.place = "production"
                  THEN "production_data_unchanged_by_routine_restore_test"
                  ELSE lack
          IN Write(RecoveryDocument(site, revision, shortcoming,
                       {<<"final", snapshot.revision>>, <<"final", restore.revision>>},
                       snapshot, restore))

(* The tools print no revision to copy: the operator is taken to write down *)
(* the deployed one.                                                       *)
WriteMonitoringEvidence(site, revision) ==
    /\ Open("monitoring")
    /\ revision = deployed["final"]
    /\ Write(MonitoringDocument(site, revision,
                 IF deployed["final"] \in Defective THEN "database_aware_health_verified" ELSE lack,
                 work.seen \cup {Running(Final)}, work.order, work.down, work.recovered))

(* The manifest names each gate's file with its digest; all files bear one *)
(* name per gate, and a slip of the operator exchanges or repeats two.     *)
References ==
    LET own == [gate \in Gates |-> gate]
    IN {own,
        [own EXCEPT !["backup_restore"] = "monitoring", !["monitoring"] = "backup_restore"],
        [own EXCEPT !["manual_browser_os"] = "monitoring"]}

Assemble ==
    /\ focus \in Gates
    /\ files[focus] # Missing
    /\ tool.phase = "idle"
    /\ manifest = Missing
    /\ \E named \in Gates, refs \in References :
          manifest' = [site |-> files[named].site, revision |-> files[named].revision,
                       refs |-> refs,
                       pinned |-> [gate \in Gates |-> files[refs[gate]]]]
    /\ UNCHANGED <<world, files, tool, work, check, left, rehearsal>>
------------------------------------------------------------------------------
(* validate_pre_cutover_acceptance.py                                      *)

(* Mutant of Matches: the digests are not compared. *)
MatchesAny(file, pinned) == file # Missing

Matches(file, pinned) == file = pinned

CandidateHolds(expected) ==
    /\ manifest.site.https
    /\ manifest.revision = expected

DistinctFiles == \A g, h \in Gates : manifest.refs[g] = manifest.refs[h] => g = h

(* Each file is read for its digest. *)
Verify(expected) ==
    /\ manifest # Missing
    /\ check.phase = "none"
    /\ check' = IF /\ CandidateHolds(expected)
                   /\ \A gate \in Gates : Matches(files[manifest.refs[gate]], manifest.pinned[gate])
                   /\ DistinctFiles
                THEN [check EXCEPT !.phase = "verified"] ELSE Checking("refused")
    /\ UNCHANGED <<world, files, tool, work, manifest, left, rehearsal>>

Kind(gate) ==
    CASE gate = "backup_restore" -> "recovery"
      [] gate = "monitoring" -> "monitoring"
      [] gate = "manual_browser_os" -> "browser"

ValidateSubordinate(gate, document) ==
    /\ document.kind = Kind(gate)
    /\ document.revision = manifest.revision
    /\ document.site = manifest.site
    /\ CASE gate = "backup_restore" -> Recovery!Accepts(document, manifest.revision)
         [] gate = "monitoring" -> Monitoring!Accepts(document, manifest.revision)
         [] gate = "manual_browser_os" -> Browser!Accepts(document, manifest.revision)

ValidatePreflight(report) ==
    /\ report.kind = "preflight"
    /\ report.scope = "all"
    /\ report.result = "pass"
    /\ report.site = manifest.site
    /\ report.revision = manifest.revision
    /\ report.checks # {}
    /\ \A entry \in report.checks : entry.pass

Migration == lack \notin MigrationShortcomings

(* Each file is read again to be judged. *)
Judge ==
    /\ check.phase = "verified"
    /\ LET document == [gate \in Gates |-> files[manifest.refs[gate]]]
       IN check' =
             IF /\ \A gate \in Gates \ {"target_preflight"} :
                      ValidateSubordinate(gate, document[gate])
                /\ ValidatePreflight(document["target_preflight"])
                /\ Migration
             THEN [check EXCEPT !.phase = "accepted", !.judged = document] ELSE Checking("refused")
    /\ UNCHANGED <<world, files, tool, work, manifest, left, rehearsal>>

Next ==
    \/ Deploy
    \/ ServiceChanges
    \/ \E site \in Sites, reader \in BOOLEAN : OpenSession(site, reader)
    \/ \E c \in RequiredChecks, i \in 1 .. MaxWork : TryCheck(c, i)
    \/ WriteData
    \/ BackUp
    \/ \E i \in 1 .. MaxWork, place \in {"alternate", "production"}, bytes \in 0 .. MaxWork :
          RestoreBackup(i, place, bytes)
    \/ Notice
    \/ \E site \in Sites, revision \in Revisions :
          \/ WriteBrowserEvidence(site, revision)
          \/ WriteRecoveryEvidence(site, revision)
          \/ WriteMonitoringEvidence(site, revision)
    \/ /\ focus = "target_preflight"
       /\ Gathering
       /\ PreflightNext
       /\ UNCHANGED <<work, manifest, check, left, rehearsal>>
    \/ Rewrite
    \/ Assemble
    \/ \E expected \in Revisions : Verify(expected)
    \/ Judge
    \/ /\ focus = "rehearsal"
       /\ Rehearsal!Next
       /\ UNCHANGED <<world, files, tool, work, manifest, check, left>>

Spec == Init /\ [][Next]_vars
------------------------------------------------------------------------------
Accepted == check.phase = "accepted"

(* An accepted candidate was running at the origin it is to be published   *)
(* at while each gate's evidence was gathered, the installation falls      *)
(* short of nothing, and the candidate is not defective, unless another    *)
(* revision was seen during the same work: the operator may name any       *)
(* candidate, join pieces of different work and repeat failed checks.      *)
AcceptedCandidateWasExamined ==
    Accepted /\ ~check.rewritten =>
        /\ \A gate \in Gates : <<"final", manifest.revision>> \in check.judged[gate].truth
        /\ lack = "nothing"
        /\ manifest.revision \in Defective => Cardinality(check.judged[focus].truth) > 1

(* What was judged is what the manifest pinned, unless a file was          *)
(* replaced while the validator ran: it reads each file once for its       *)
(* digest and again, later, to judge it.                                   *)
JudgedAsPinned ==
    Accepted /\ ~check.rewritten =>
        \A gate \in Gates : check.judged[gate] = manifest.pinned[gate]

(* Accepted recovery evidence names a snapshot that holds what the service *)
(* was really restored with, undamaged, elsewhere than in production, and  *)
(* that existed before the restore, although any backup may be named.      *)
RestoredFromTheNamedSnapshot ==
    Accepted /\ ~check.rewritten /\ focus = "backup_restore" =>
        LET evidence == check.judged["backup_restore"]
        IN /\ evidence.restore.place = "alternate"
           /\ evidence.snapshot.digest = evidence.restore.from.digest
           /\ evidence.restore.restored = evidence.restore.from.digest
           /\ evidence.snapshot.at < evidence.restore.started

(* The same of the rehearsal. *)
AlertsTellWhatHappened == Rehearsal!AlertsTellWhatHappened
==============================================================================
