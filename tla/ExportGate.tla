----------------------------- MODULE ExportGate -----------------------------
(***************************************************************************)
(* evaluate_export_gate (core/src/policy/export_gate.rs): the policy       *)
(* decision on an export, a pure function of the request and of what the   *)
(* evaluation found.                                                       *)
(***************************************************************************)
PolicyModes == {"STRICT", "BALANCED", "DRAFT_ONLY"}
NetworkModes == {"OFFLINE", "ONLINE_ALLOWLISTED"}
ProofLevels == {"OFFLINE_STRICT", "ONLINE_ALLOWLIST_CORE_ONLY",
                "ONLINE_ALLOWLIST_WITH_OS_FIREWALL_PROFILE"}
PinningLevels == {"CRYPTO_PINNED", "VERSION_PINNED", "NAME_ONLY"}

\* "NONE": the bundle names no model.
ExportRequests ==
  [policy: PolicyModes, network: NetworkModes, proof: ProofLevels,
   pinning: PinningLevels \union {"NONE"}]

PinningOk(req) ==
  req.policy = "DRAFT_ONLY" \/ req.pinning # "NAME_ONLY"

OfflineOk(req) ==
  req.policy = "STRICT" => req.network = "OFFLINE" /\ req.proof = "OFFLINE_STRICT"

\* The blocker failures are a set of gates; citations, redactions and
\* determinism tell whether the gate of that name is satisfied.
PermitsExport(req, blockers, citations, redactions, determinism) ==
  /\ blockers = {}
  /\ determinism
  /\ PinningOk(req)
  /\ req.policy = "STRICT" => citations
  /\ req.policy \in {"STRICT", "BALANCED"} => redactions
  /\ OfflineOk(req)
=============================================================================
