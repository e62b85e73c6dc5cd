---------------------------- MODULE EvidencePack ----------------------------
(***************************************************************************)
(* Who makes bundles: the EvidenceOS workflow (core/src/evidenceos), the   *)
(* two callers that put its files into the inputs of a bundle (the desktop *)
(* command, src-tauri/src/export/mod.rs, and tools/gate_runner), and the   *)
(* builder (core/src/evidence_bundle/builder.rs).                          *)
(*                                                                         *)
(* The inputs are [pack, content]: what the files of the bundle will hold, *)
(* with the authority not yet bound to the log. Texts are known by the     *)
(* claim markers in them; an artifact's digest is the digest of its id.    *)
(***************************************************************************)
EXTENDS Evaluation, TLC

\* default_control_library: the capability and the family of each control.
ControlLibrary ==
  [AC |-> [capability |-> "Access Control", family |-> "AccessControl"],
   AU |-> [capability |-> "Auditability", family |-> "Auditability"],
   CI |-> [capability |-> "Traceability", family |-> "Traceability"],
   DP |-> [capability |-> "Data Protection", family |-> "DataProtection"],
   MG |-> [capability |-> "Model Governance", family |-> "ModelGovernance"],
   NW |-> [capability |-> "Network Governance", family |-> "NetworkGovernance"]]

\* controls_for_capabilities: all of them for no capability.
ControlsFor(capabilities) ==
  {c \in DOMAIN ControlLibrary :
     capabilities = {} \/ ControlLibrary[c].capability \in capabilities}

\* build_mapping_review_rows: the artifacts mapped to each control; a control
\* with none is MISSING.
MappingRows(controls, items) ==
  [c \in controls |->
     {i.artifact_id : i \in {x \in items : ControlLibrary[c].family \in x.families}}]

\* The early returns of generate_evidenceos_artifacts.
GenerateAccepts(req) ==
  /\ req.pack # "" /\ req.run # ""
  /\ ControlsFor(req.capabilities) # {}
  /\ \A id \in DOMAIN req.claims :
       /\ id # "" /\ ~req.claims[id].blank
       /\ req.policy = "STRICT" => req.claims[id].citations # {}

\* Its deliverables and attachments. render_narrative_markdown puts a marker in
\* front of each claim; what markers the texts hold comes through.
GenerateFiles(req) ==
  LET rows == MappingRows(ControlsFor(req.capabilities), req.items)
      titles == UNION {i.markers : i \in req.items}
      texts == UNION {req.claims[id].markers : id \in DOMAIN req.claims} IN
  [p \in OutputPaths \union AttachmentPaths \union {"evidence_mapping_review.json"} |->
     CASE p \in {"evidence_index.csv", "evidence_index.pdf"} -> [items |-> req.items]
       [] p = "evidence_index.md" -> [items |-> req.items, markers |-> titles]
       [] p = "evidence_narrative.md" ->
            [claims |-> DOMAIN req.claims, markers |-> DOMAIN req.claims \union texts]
       [] p = "missing_evidence_checklist.md" ->
            [missing |-> {c \in DOMAIN rows : rows[c] = {}}, markers |-> {}]
       [] p = "evidence_mapping_review.json" ->
            [schema |-> "EVIDENCE_MAPPING_REVIEW_V1", mappings |-> rows]
       [] p = "templates_used.json" ->
            [templates |-> OutputPaths \union {"evidence_mapping_review.json"}]
       [] p = "citations_map.json" ->
            [schema |-> "LOCATOR_SCHEMA_V1",
             claims |-> [id \in DOMAIN req.claims |-> req.claims[id].citations]]
       [] p = "redactions_map.json" ->
            [schema |-> "REDACTION_SCHEMA_V1", artifacts |-> {}]]

----------------------------------------------------------------------------
\* A log of one run and vault: the chain of its events.
Event(type, run) == [type |-> type, run |-> run, vault |-> "vault"]
Chain(events) ==
  [n \in DOMAIN events |->
     [prev |-> SubSeq(events, 1, n - 1), event |-> events[n],
      hash |-> SubSeq(events, 1, n)]]
EventsOf(log) == [n \in DOMAIN log |-> log[n].event]

\* An event with details, which are fields of their own here.
EventWith(type, run, details) ==
  LET e == Event(type, run) IN
  [f \in DOMAIN e \union DOMAIN details |->
     IF f \in DOMAIN e THEN e[f] ELSE details[f]]

SimulatedBlock(run) ==
  EventWith("EGRESS_REQUEST_BLOCKED", run,
    [origin |-> "CONTROL_SIMULATION", reason |-> "OFFLINE_MODE"])

TextSpan(artifact, end) ==
  [artifact |-> artifact, type |-> "PDF_TEXT_SPAN_V1", start |-> 0, end |-> end]

\* NetworkSnapshot::offline_policy
OfflinePolicy ==
  [network_mode |-> "OFFLINE", proof_level |-> "OFFLINE_STRICT",
   proof_source |-> "POLICY_DECLARATION", allowlist |-> {},
   ui_remote_fetch_disabled |-> TRUE, adapter_endpoints |-> << >>]

\* The rows of artifact_hashes.csv, as render_artifact_hashes_csv sorts them:
\* the artifact without a path, then every file of the pack.
HashRows(artifact, files) ==
  LET row(p) == [output |-> TRUE, artifact |-> "", path |-> p,
                 sha |-> Sha(files[p]), bytes |-> 1]
      paths == SelectSeq(PathOrder, LAMBDA p : p \in DOMAIN files) IN
  <<[output |-> FALSE, artifact |-> artifact, path |-> "",
     sha |-> Sha(artifact), bytes |-> 1]>>
    \o [n \in DOMAIN paths |-> row(paths[n])]

\* The files that all callers fill in alike, of a pack with the given others:
\* the report is a placeholder, and no model was used.
OwnFiles(pack, run, authority, events, artifact, encryption, files) ==
  LET placeholder == [registry |-> "gates_registry_v3", overall |-> "PASS",
                      gates |-> << >>]
      manifest == [run_id |-> run, vault_id |-> "vault", authority |-> authority,
                   digests |-> {Sha(artifact.artifact_id)}, calls |-> {},
                   gate_status |-> "PASS"]
      info == [bundle_version |-> <<1, 1, 0>>, run_manifest |-> "RUN_MANIFEST_V2",
               pack_id |-> pack, run_id |-> run] IN
  [p \in TopPaths \union SnapshotPaths |->
     CASE p = "BUNDLE_INFO.json" -> info
       [] p = "run_manifest.json" -> manifest
       [] p = "audit_log.ndjson" -> Chain(events)
       [] p = "eval_report.json" -> placeholder
       [] p = "artifact_hashes.csv" -> HashRows(artifact.artifact_id, files)
       [] p = "artifact_list.json" -> {artifact}
       [] p = "policy_snapshot.json" ->
            encryption @@ [determinism |-> TRUE, inputs |-> "HASH_ONLY"]
       [] p = "network_snapshot.json" -> OfflinePolicy
       [] p = "model_snapshot.json" -> NullModel]

\* The EvidenceBundleInputs.
BundleInputs(pack, run, authority, events, artifact, encryption, files) ==
  LET own == OwnFiles(pack, run, authority, events, artifact, encryption, files) IN
  [pack |-> pack,
   content |-> [p \in DOMAIN own \union DOMAIN files |->
                  IF p \in DOMAIN own THEN own[p] ELSE files[p]]]

Unencrypted ==
  [encryption_at_rest |-> FALSE, encryption_algorithm |-> "none"]

Artifact(id, classification, tags) ==
  [artifact_id |-> id, sha |-> Sha(id), classification |-> classification,
   tags |-> tags]

----------------------------------------------------------------------------
\* generate_evidenceos_bundle: d is what the user typed in, now the clock. It
\* fills in a capability, a family and a claim where there is none.
DesktopRequest(d) ==
  [pack |-> "evidenceos", run |-> "r_ui", policy |-> "STRICT",
   capabilities |-> IF d.capabilities = {} THEN {"Traceability"}
                    ELSE d.capabilities,
   items |-> {[artifact_id |-> "a_ui", tags |-> d.tags, markers |-> d.title,
               families |-> IF d.families = {} THEN {"Traceability"}
                            ELSE d.families]},
   claims |-> [C0001 |-> [blank |-> FALSE, markers |-> d.claim,
                          citations |-> {TextSpan("a_ui", 30)}]]]

DesktopInputs(d, now) ==
  BundleInputs("evidenceos", "r_ui",
    ControlledManifest("LOCAL_ARTIFACT_EXPORT", "r_ui", "aigccore-tauri",
                       now, now + Day),
    <<Event("NETWORK_MODE_SET", "r_ui"), Event("ALLOWLIST_UPDATED", "r_ui")>>,
    Artifact("a_ui", "Internal", d.tags), Unencrypted,
    GenerateFiles(DesktopRequest(d)))

\* controlled_gate_authority: fixed instants a day apart.
GateRunnerAuthority(run, producer) ==
  ControlledManifest("CONTROL_SIMULATION", run, producer, 0, Day)

\* make_self_audit_inputs
SelfAuditFiles ==
  [p \in AttachmentPaths \union {"report.md"} |->
     CASE p = "report.md" -> [claims |-> {"C0001"}, markers |-> {"C0001"}]
       [] p = "templates_used.json" -> [templates |-> {"report.md"}]
       [] p = "citations_map.json" ->
            [schema |-> "LOCATOR_SCHEMA_V1",
             claims |-> [C0001 |-> {TextSpan("a_0001", 12)}]]
       [] p = "redactions_map.json" ->
            [schema |-> "REDACTION_SCHEMA_V1",
             artifacts |-> {[artifact |-> "a_0001", redactions |->
               {[type |-> "TEXT_SPAN", start |-> 0, end |-> 12]}]}]]

SelfAuditInputs ==
  BundleInputs("self_audit", "r_self",
    GateRunnerAuthority("r_self", "gate-runner:self-audit"),
    <<EventWith("VAULT_ENCRYPTION_STATUS", "r_self",
        [encrypted |-> TRUE, algorithm |-> "XCHACHA20_POLY1305",
         key_storage |-> "FILE_FALLBACK"]),
      Event("VAULT_KEY_ROTATED", "r_self"), Event("NETWORK_MODE_SET", "r_self"),
      Event("ALLOWLIST_UPDATED", "r_self"), SimulatedBlock("r_self")>>,
    Artifact("a_0001", "Restricted", {"PII"}),
    [encryption_at_rest |-> TRUE, encryption_algorithm |-> "XCHACHA20_POLY1305"],
    SelfAuditFiles)

\* make_evidenceos_inputs
EvidenceOsInputs ==
  LET req == [pack |-> "evidenceos", run |-> "r_ev", policy |-> "STRICT",
        capabilities |-> {},
        items |-> {[artifact_id |-> "a_ev", tags |-> {"OPS"}, markers |-> {},
          families |-> {"Auditability", "NetworkGovernance", "Traceability"}]},
        claims |-> [C0001 |-> [blank |-> FALSE, markers |-> {},
                               citations |-> {TextSpan("a_ev", 20)}]]] IN
  BundleInputs("evidenceos", "r_ev",
    GateRunnerAuthority("r_ev", "gate-runner:evidenceos"),
    <<Event("NETWORK_MODE_SET", "r_ev"), Event("ALLOWLIST_UPDATED", "r_ev"),
      SimulatedBlock("r_ev")>>,
    Artifact("a_ev", "Internal", {"OPS"}), Unencrypted, GenerateFiles(req))

----------------------------------------------------------------------------
\* build_zip sorts and normalizes the entries: each file has the position of its
\* path in the order of all paths.
Listing(paths) ==
  [n \in {k \in DOMAIN PathOrder : PathOrder[k] \in paths} |->
     [path |-> PathOrder[n], bytes |-> 1, deflated |-> TRUE, stamped |-> TRUE,
      moded |-> TRUE]]

\* build_dir, which binds the authority to the log, and build_zip.
Build(inputs) ==
  [comment |-> FALSE, entries |-> Listing(DOMAIN inputs.content),
   unreadable |-> {},
   content |-> [inputs.content EXCEPT !["run_manifest.json"].authority =
                  BindLog(@, inputs.content["audit_log.ndjson"])]]
=============================================================================
