----------------------------- MODULE Evaluation -----------------------------
(***************************************************************************)
(* EvalRunner on a bundle (core/src/eval/runner.rs): the preflight's       *)
(* checks and three evaluators of its own, mapped to the gates of the      *)
(* policy. An event has further fields: origin is evidence_origin, reason  *)
(* is block_reason, rule is allowlist_rule_id.                             *)
(***************************************************************************)
EXTENDS Validator

EvidenceOsPack(b) ==
  Readable(b, "BUNDLE_INFO.json") /\ Field(Info(b), "pack_id", "") = "evidenceos"

----------------------------------------------------------------------------
\* Mutant: a simulated egress counts as one observed at run time.
ObservedAnyOrigin(e) ==
  Field(e, "origin", "") \in {"RUNTIME_OBSERVATION", "CONTROL_SIMULATION"}
----------------------------------------------------------------------------
\* The arms of map_validator_to_gates that rest on the validator's checks;
\* s is a summary.
CheckedGates == {"BUNDLE_FORMAT", "AUDIT_HASH_CHAIN", "EVIDENCE_AUTHORITY",
  "MODE_PROOF", "MODEL_PINNING", "VAULT_CRYPTO", "CITATIONS", "REDACTION",
  "ZIP_PACKAGING"}

ChecksBehind(g, s) ==
  CASE g = "BUNDLE_FORMAT" -> s.required_files /\ s.version
    [] g = "AUDIT_HASH_CHAIN" -> s.audit_chain
    [] g = "EVIDENCE_AUTHORITY" -> s.authority
    [] g = "MODE_PROOF" -> s.network_snapshot /\ s.proof_source
    [] g = "MODEL_PINNING" -> s.model_pinning /\ s.run_snapshot
    [] g = "VAULT_CRYPTO" -> s.vault_crypto
    [] g = "CITATIONS" -> s.citations
    [] g = "REDACTION" -> s.redactions
    [] g = "ZIP_PACKAGING" -> s.zip_rules

----------------------------------------------------------------------------
\* policy_declares_no_egress_observation
DeclaresNoEgress(b) ==
  /\ Readable(b, "network_snapshot.json")
  /\ Field(Network(b), "proof_source", "") = "POLICY_DECLARATION"
  /\ Offline(Network(b))
  /\ Field(Network(b), "adapter_endpoints", <<"absent">>) = << >>
  /\ \A n \in DOMAIN AuditLines(b) :
       /\ "event" \in DOMAIN AuditLines(b)[n]
       /\ Field(AuditLines(b)[n].event, "type", "") \notin
            {"EGRESS_REQUEST_ALLOWED", "EGRESS_REQUEST_BLOCKED"}

Observed(e) == Field(e, "origin", "") = "RUNTIME_OBSERVATION"
Simulated(e) == Field(e, "origin", "") = "CONTROL_SIMULATION"

\* evaluate_offline_allowlist_from_ndjson
AllowlistFromLog(log) ==
  LET events(type) == {log[n].event : n \in
        {k \in DOMAIN log : /\ "event" \in DOMAIN log[k]
                            /\ Field(log[k].event, "type", "") = type}}
      blocked == events("EGRESS_REQUEST_BLOCKED")
      sound == /\ \A n \in DOMAIN log : "event" \in DOMAIN log[n]
               /\ events("ALLOWLIST_UPDATED") # {}
               /\ blocked # {}
               /\ \A e \in blocked :
                    /\ Observed(e) \/ Simulated(e)
                    /\ Field(e, "reason", "") \in {"OFFLINE_MODE",
                         "NOT_ALLOWLISTED", "UI_DIRECT_EGRESS_BLOCKED"}
               /\ \A e \in events("EGRESS_REQUEST_ALLOWED") :
                    Field(e, "rule", "") # "" IN
  IF ~sound THEN "FAIL"
  ELSE IF \E e \in blocked : Observed(e) THEN "PASS" ELSE "NOT_APPLICABLE"

\* evaluate_offline_allowlist_gate
AllowlistGate(b) ==
  IF DeclaresNoEgress(b) THEN "NOT_APPLICABLE" ELSE AllowlistFromLog(AuditLines(b))

\* evaluate_evidenceos_outputs_gate and evaluate_evidenceos_mapping_review_gate
OutputsGate(b) ==
  IF ~EvidenceOsPack(b) THEN "NOT_APPLICABLE"
  ELSE IF OutputPaths \subseteq Paths(b) THEN "PASS" ELSE "FAIL"

MappingReviewGate(b) ==
  IF ~EvidenceOsPack(b) THEN "NOT_APPLICABLE"
  ELSE IF /\ Readable(b, "evidence_mapping_review.json")
          /\ Field(b.content["evidence_mapping_review.json"], "schema", "") =
               "EVIDENCE_MAPPING_REVIEW_V1"
       THEN "PASS" ELSE "FAIL"

----------------------------------------------------------------------------
\* map_validator_to_gates: every gate of the registry has its evaluator, and
\* keeps the registry's severity and metadata.
GateStatus(g, b, s) ==
  CASE g \in CheckedGates -> IF ChecksBehind(g, s) THEN "PASS" ELSE "FAIL"
    [] g = "PDF_CAPABLE" -> "NOT_APPLICABLE"
    [] g = "ALLOWLIST_MATCH" -> AllowlistGate(b)
    [] g = "OUTPUTS_PRESENT" -> OutputsGate(b)
    [] g = "MAPPING_REVIEW_PRESENT" -> MappingReviewGate(b)

\* run_all_for_bundle; without an audit log there is no evaluation.
Evaluable(b) == "audit_log.ndjson" \in Paths(b)

GateResults(b, policy) ==
  LET s == Summary(b, policy, "EvaluationPreflight") IN
  [g \in GatesOf(policy) |->
     [gate |-> g, status |-> GateStatus(g, b, s),
      severity |-> RegistrySeverity(g), metadata |-> g]]
=============================================================================
