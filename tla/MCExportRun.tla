---------------------------- MODULE MCExportRun ----------------------------
(***************************************************************************)
(* A small instance of ExportRun for TLC: five gates of registry_v3, by    *)
(* number BUNDLE_FORMAT, CITATIONS, DETERMINISM.ZIP_PACKAGING,             *)
(* OFFLINE_ENFORCEMENT.ALLOWLIST_MATCH and REDACTION.                      *)
(***************************************************************************)
EXTENDS ExportRun

MCAppliesTo == [STRICT |-> Gates, BALANCED |-> {1, 3, 4, 5}, DRAFT_ONLY |-> {1}]
=============================================================================
