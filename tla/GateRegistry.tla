---------------------------- MODULE GateRegistry ----------------------------
(***************************************************************************)
(* The gate registry v3 (core/src/eval/registry_v3.json and registry.rs):  *)
(* which gates there are, how severe a failure of each is, which policies  *)
(* it applies to and where it may be NOT_APPLICABLE all the same.          *)
(***************************************************************************)
EXTENDS ExportGate

EverywhereGates == {"BUNDLE_FORMAT", "AUDIT_HASH_CHAIN", "EVIDENCE_AUTHORITY",
  "MODE_PROOF", "VAULT_CRYPTO", "OUTPUTS_PRESENT", "MAPPING_REVIEW_PRESENT"}
NotDraftGates == {"ALLOWLIST_MATCH", "REDACTION", "MODEL_PINNING",
  "ZIP_PACKAGING", "PDF_CAPABLE"}

Gates == EverywhereGates \union NotDraftGates \union {"CITATIONS"}

----------------------------------------------------------------------------
\* Mutant: the policy named wrongly in applies_to_policies.
GatesOfMisnamed(policy) ==
  EverywhereGates
    \union (IF policy = "BALANCED" THEN {} ELSE NotDraftGates)
    \union (IF policy = "STRICT" THEN {"CITATIONS"} ELSE {})
----------------------------------------------------------------------------
\* applies_to_policies
GatesOf(policy) ==
  EverywhereGates
    \union (IF policy = "DRAFT_ONLY" THEN {} ELSE NotDraftGates)
    \union (IF policy = "STRICT" THEN {"CITATIONS"} ELSE {})

RegistrySeverity(g) == IF g = "PDF_CAPABLE" THEN "MAJOR" ELSE "BLOCKER"

NotApplicableAllowed(g, pack) ==
  \/ g \in {"ALLOWLIST_MATCH", "PDF_CAPABLE"}
  \/ g \in {"OUTPUTS_PRESENT", "MAPPING_REVIEW_PRESENT"} /\ pack # "evidenceos"
=============================================================================
