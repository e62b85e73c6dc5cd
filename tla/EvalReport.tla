----------------------------- MODULE EvalReport -----------------------------
(***************************************************************************)
(* The eval report, which two pieces of code decide on separately: the     *)
(* runner makes it of one evaluation's results (core/src/eval/runner.rs),  *)
(* and the validator accepts or rejects the one it finds in a bundle       *)
(* (core/src/validator/mod.rs).                                            *)
(*                                                                         *)
(* A list of results is a function on some index set; the report indexes   *)
(* its entries by the gate, as the BTreeMap does that it is made from. An  *)
(* entry's metadata is its category and its evidence pointers, and is      *)
(* named by the gate of the registry that they belong to.                  *)
(***************************************************************************)
EXTENDS Naturals, GateRegistry

GateStatuses == {"PASS", "FAIL", "NOT_APPLICABLE"}
Severities == {"MINOR", "MAJOR", "BLOCKER"}
SeverityRank(s) == CASE s = "MINOR" -> 1 [] s = "MAJOR" -> 2 [] s = "BLOCKER" -> 3

----------------------------------------------------------------------------
\* What is asked of each entry, alike on both sides.
EntryOk(e, pack) ==
  /\ e.status \in GateStatuses
  /\ e.status = "NOT_APPLICABLE" => NotApplicableAllowed(e.gate, pack)
  /\ e.severity \in Severities
  /\ SeverityRank(e.severity) >= SeverityRank(RegistrySeverity(e.gate))
  /\ e.metadata = e.gate

\* No two entries are of one gate; every gate of the policy has an entry.
NoDuplicates(list) ==
  \A i, j \in DOMAIN list : list[i].gate = list[j].gate => i = j
Complete(list, policy) ==
  \A g \in GatesOf(policy) : \E i \in DOMAIN list : list[i].gate = g

Failing(list, severities) ==
  \E i \in DOMAIN list :
    list[i].status = "FAIL" /\ list[i].severity \in severities

----------------------------------------------------------------------------
(***************************************************************************)
(* The runner.                                                             *)
(***************************************************************************)
\* overall_status_for_gates
OverallStatus(list) ==
  IF Failing(list, {"BLOCKER"}) THEN "FAIL"
  ELSE IF \E i \in DOMAIN list : list[i].status = "FAIL" THEN "WARN" ELSE "PASS"

\* report_from_results: what it rejects, and what it returns.
ResultsAccepted(results, policy, pack) ==
  /\ pack # ""
  /\ \A i \in DOMAIN results :
       results[i].gate \in GatesOf(policy) /\ EntryOk(results[i], pack)
  /\ NoDuplicates(results)
  /\ Complete(results, policy)

ReportFromResults(results, policy) ==
  LET entry(g) == results[CHOOSE i \in DOMAIN results : results[i].gate = g]
      gates == [g \in GatesOf(policy) |-> entry(g)] IN
  [registry |-> "gates_registry_v3", overall |-> OverallStatus(gates),
   gates |-> gates]

\* gate_satisfied_for_export: a gate without exactly one entry is not satisfied.
GateSatisfied(report, g, policy) ==
  g \in GatesOf(policy) =>
    /\ \E i \in DOMAIN report.gates : report.gates[i].gate = g
    /\ \A i, j \in DOMAIN report.gates :
         report.gates[i].gate = g /\ report.gates[j].gate = g =>
           i = j /\ report.gates[i].status \in {"PASS", "NOT_APPLICABLE"}

----------------------------------------------------------------------------
(***************************************************************************)
(* The validator, given the manifest's gate_status.                        *)
(***************************************************************************)
\* eval_overall_status
ValidatorOverall(list) ==
  IF Failing(list, {"BLOCKER"}) THEN "FAIL"
  ELSE IF \E i \in DOMAIN list : list[i].status \in {"FAIL", "WARN"} THEN "WARN"
  ELSE "PASS"

\* validate_eval_report
ReportAccepted(report, gateStatus, policy, pack) ==
  /\ report.registry = "gates_registry_v3"
  /\ report.overall \in {"PASS", "FAIL", "WARN"}
  /\ DOMAIN report.gates # {}
  /\ \A i \in DOMAIN report.gates :
       report.gates[i].gate \in Gates /\ EntryOk(report.gates[i], pack)
  /\ NoDuplicates(report.gates)
  /\ Complete(report.gates, policy)
  /\ {report.gates[i].gate : i \in DOMAIN report.gates} \subseteq GatesOf(policy)
  /\ report.overall = ValidatorOverall(report.gates)
  /\ gateStatus = report.overall
  /\ report.overall # "FAIL"

\* check_eval_report_preflight: the placeholder is let through.
PreflightReportOk(report) == report.registry = "gates_registry_v3"
=============================================================================
