------------------------------ MODULE Preflight ------------------------------
(***************************************************************************)
(* deploy/target/preflight.py: the tool that inspects the target's         *)
(* container and walks its HTTPS interface, one request after the other,   *)
(* while the target may be deployed again, stopped or cut off.             *)
(***************************************************************************)
EXTENDS Naturals, Sequences, FiniteSets

CONSTANTS
    Revisions,   \* builds of Notify
    Defective    \* those of them that do not pass the checks of the gate worked on

VARIABLES
    deployed,   \* the revision running at each origin, by the origin's name
    service,    \* "up", "stopped" (the gateway answers 5xx) or "unreachable"
    lack,       \* what the installation falls short of, or "nothing"
    focus,      \* the gate that is worked on
    files,      \* the evidence file of each gate
    tool        \* the running preflight

(* The origin the release is to be published at, one it is tried at, and   *)
(* the first without TLS.                                                  *)
Final == [name |-> "final", https |-> TRUE]
Sites == {Final, [name |-> "staging", https |-> TRUE]}
Plain == [name |-> "final", https |-> FALSE]

Scopes == {"all", "host", "network"}

NetworkChecks ==
    <<"https_scheme", "private_dns", "https_health", "https_meta",
      "unauthenticated_session", "unauthenticated_sse", "frontend_cache_policy",
      "application_identity", "same_origin_cors">>

(* What the target may fall short of that an entry of the tool is about. *)
HostShortcomings ==
    {"docker_runtime_inspection", "hardening", "path_modes", "runtime_log_scan"}
NetworkShortcomings == {"private_dns", "unauthenticated_session", "same_origin_cors"}

Entry(name, ok) == [name |-> name, pass |-> ok]

Idle == [phase |-> "idle"]

Works(site) == service = "up" /\ deployed[site.name] \notin Defective

(* host_checks: a container that cannot be inspected leaves one entry in   *)
(* place of those of the inspection.                                       *)
DockerEntries(revision) ==
    IF lack = "docker_runtime_inspection"
    THEN {Entry("docker_runtime_inspection", FALSE)}
    ELSE {Entry("hardening", lack # "hardening"),
          Entry("container_health", service # "stopped"),
          Entry("image_revision", deployed["final"] = revision)}

PathEntries == {Entry("path_modes", lack # "path_modes")}

LogEntries == {Entry("runtime_log_scan", lack # "runtime_log_scan")}

(* validate_release_meta, of which the revision is what can change. *)
ReleaseMeta(site, revision) == deployed[site.name] = revision

(* One request and the assertions on its answer. *)
Holds(check, site, revision) ==
    CASE check = "https_scheme" -> site.https
      [] check = "private_dns" -> lack # "private_dns"
      [] check = "https_meta" -> service = "up" /\ ReleaseMeta(site, revision)
      [] check \in {"unauthenticated_session", "same_origin_cors"} ->
             service = "up" /\ lack # check
      [] check = "application_identity" -> Works(site)
      [] OTHER -> service = "up"

(* main, up to the first request. *)
StartPreflight(scope, site, revision) ==
    /\ tool.phase = "idle"
    /\ LET host == scope \in {"host", "all"}
       IN tool' = [phase |-> IF scope = "host" THEN "report" ELSE "network", next |-> 1,
                   scope |-> scope, site |-> site, revision |-> revision,
                   checks |-> IF host THEN DockerEntries(revision) \cup PathEntries \cup LogEntries
                                      ELSE {},
                   seen |-> IF host THEN {<<"final", deployed["final"]>>} ELSE {}]
    /\ UNCHANGED <<deployed, service, lack, focus, files>>

(* Mutant of NetworkCheck: an answer that is not as it should be ends the  *)
(* walk and leaves no entry.                                               *)
NetworkCheckGivesUp ==
    /\ tool.phase = "network"
    /\ LET check == NetworkChecks[tool.next]
           ok == Holds(check, tool.site, tool.revision)
           last == tool.next = Len(NetworkChecks)
       IN tool' = [tool EXCEPT
              !.phase = IF ~ok \/ last THEN "report" ELSE @,
              !.next = @ + 1,
              !.checks = IF ok THEN @ \cup {Entry(check, TRUE)} ELSE @,
              !.seen = @ \cup {<<tool.site.name, deployed[tool.site.name]>>}]
    /\ UNCHANGED <<deployed, service, lack, focus, files>>

(* network_checks: the scheme ends the walk, the DNS answer does not, and  *)
(* the first request that fails leaves https_private_path in place of all  *)
(* that follow.                                                            *)
NetworkCheck ==
    /\ tool.phase = "network"
    /\ LET check == NetworkChecks[tool.next]
           ok == Holds(check, tool.site, tool.revision)
           recorded == IF check \in {"https_scheme", "private_dns"} \/ ok
                       THEN Entry(check, ok)
                       ELSE Entry("https_private_path", FALSE)
           ends == (~ok /\ check # "private_dns") \/ tool.next = Len(NetworkChecks)
       IN tool' = [tool EXCEPT
              !.phase = IF ends THEN "report" ELSE @,
              !.next = @ + 1,
              !.checks = @ \cup {recorded},
              !.seen = IF tool.next <= 2 THEN @
                       ELSE @ \cup {<<tool.site.name, deployed[tool.site.name]>>}]
    /\ UNCHANGED <<deployed, service, lack, focus, files>>

(* A connection that is closed before its answer is not among the          *)
(* exceptions network_checks handles: the tool ends and the last report    *)
(* stays.                                                                  *)
ToolDies ==
    /\ tool.phase = "network"
    /\ tool.next > 2
    /\ service # "up"
    /\ tool' = Idle
    /\ UNCHANGED <<deployed, service, lack, focus, files>>

Report ==
    [kind |-> "preflight", scope |-> tool.scope, site |-> tool.site, revision |-> tool.revision,
     result |-> IF tool.checks # {} /\ \A entry \in tool.checks : entry.pass
                THEN "pass" ELSE "fail",
     checks |-> tool.checks, truth |-> tool.seen]

WriteReport ==
    /\ tool.phase = "report"
    /\ files' = [files EXCEPT !["target_preflight"] = Report]
    /\ tool' = Idle
    /\ UNCHANGED <<deployed, service, lack, focus>>

PreflightNext ==
    \/ \E scope \in Scopes, site \in Sites \cup {Plain}, revision \in Revisions :
          StartPreflight(scope, site, revision)
    \/ NetworkCheck
    \/ ToolDies
    \/ WriteReport
==============================================================================
