---------------------------- MODULE BrowserEvidence ----------------------------
(***************************************************************************)
(* deploy/acceptance/validate_manual_browser_evidence.py: when evidence of *)
(* a manual acceptance session is accepted.  A document has a sequence of  *)
(* sessions and a sequence of results.  Documents are otherwise as in      *)
(* RecoveryEvidence.                                                       *)
(***************************************************************************)
EXTENDS Naturals, Sequences

CONSTANTS
    RequiredChecks,      \* the contract's required checks
    ScreenReaderChecks   \* those whose id starts with "screen_reader."

Affirms(e, statements) == statements \cap e.no = {}
Denies(e, statements) == statements \subseteq e.no

Root(e) == e.form = "complete" /\ e.kind = "browser" /\ Affirms(e, {"sanitized"})

CandidateIs(e, revision) ==
    /\ e.site.https
    /\ e.revision = revision
    /\ Affirms(e, {"release_candidate", "acceptance_pending"})
    /\ Denies(e, {"production_accepted"})

(* Mutant of SessionsAreOfTheCandidate: the session's revision is not      *)
(* compared.                                                               *)
SessionsAreOfTheSite(e) ==
    /\ e.sessions # <<>>
    /\ \A i, j \in DOMAIN e.sessions : e.sessions[i].id = e.sessions[j].id => i = j
    /\ \A i \in DOMAIN e.sessions : e.sessions[i].site = e.site

SessionsAreOfTheCandidate(e) ==
    /\ e.sessions # <<>>
    /\ \A i, j \in DOMAIN e.sessions : e.sessions[i].id = e.sessions[j].id => i = j
    /\ \A i \in DOMAIN e.sessions :
          e.sessions[i].site = e.site /\ e.sessions[i].revision = e.revision

(* A result belongs to a recorded session, which used a screen reader if   *)
(* the check needs one, and passed: a failed one is refused, with or       *)
(* without the link to its defect.                                         *)
ResultHolds(e, result) ==
    /\ result.check \in RequiredChecks
    /\ \E i \in DOMAIN e.sessions :
          /\ e.sessions[i].id = result.session
          /\ result.check \in ScreenReaderChecks => e.sessions[i].reader
    /\ result.status = "pass"

EveryCheckHasOneResult(e) ==
    /\ \A i, j \in DOMAIN e.results : e.results[i].check = e.results[j].check => i = j
    /\ \A check \in RequiredChecks : \E i \in DOMAIN e.results : e.results[i].check = check

Privacy(e) ==
    /\ Affirms(e, {"synthetic_test_data_only", "screenshots_sanitized_or_not_retained"})
    /\ Denies(e, {"raw_notification_content_recorded", "reusable_secrets_recorded"})

Accepts(e, revision) ==
    /\ Root(e)
    /\ CandidateIs(e, revision)
    /\ SessionsAreOfTheCandidate(e)
    /\ \A i \in DOMAIN e.results : ResultHolds(e, e.results[i])
    /\ EveryCheckHasOneResult(e)
    /\ Privacy(e)

(* As in RecoveryEvidence. *)
Noticed ==
    {"complete", "sanitized", "release_candidate", "acceptance_pending", "production_accepted",
     "synthetic_test_data_only", "screenshots_sanitized_or_not_retained",
     "raw_notification_content_recorded", "reusable_secrets_recorded"}
==============================================================================
