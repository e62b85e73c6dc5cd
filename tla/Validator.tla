------------------------------ MODULE Validator ------------------------------
(***************************************************************************)
(* BundleValidator (core/src/validator/mod.rs): what a bundle is, and the  *)
(* checks of the checklist v3 on it. There is one predicate per check; a   *)
(* validation is the record of their values.                               *)
(*                                                                         *)
(* A bundle is [comment, entries, unreadable, content]: whether the        *)
(* archive has a comment; its central directory, an entry at each of some  *)
(* positions; the paths whose bytes are not the JSON or CSV they should    *)
(* be; and what the others hold.                                           *)
(* A missing key is a field that the record does not have. Paths are named *)
(* without their directories. The audit log is a sequence of lines         *)
(* [prev, event, hash]; the hash of a chain is the sequence of the events  *)
(* it covers, and a line that is not JSON is a record without an event.    *)
(***************************************************************************)
EXTENDS Authority, EvalReport, FiniteSets

AttachmentPaths == {"citations_map.json", "redactions_map.json",
                    "templates_used.json"}
OutputPaths == {"evidence_index.csv", "evidence_index.md", "evidence_index.pdf",
  "evidence_narrative.md", "missing_evidence_checklist.md"}
DeliverablePaths ==
  OutputPaths \union {"evidence_mapping_review.json", "report.md"}
MarkdownPaths == {"evidence_index.md", "evidence_narrative.md",
                  "missing_evidence_checklist.md", "report.md"}
SnapshotPaths == {"artifact_list.json", "policy_snapshot.json",
                  "network_snapshot.json", "model_snapshot.json"}
TopPaths == {"BUNDLE_INFO.json", "run_manifest.json", "audit_log.ndjson",
             "eval_report.json", "artifact_hashes.csv"}

\* All of them, with their directories in lexicographic order; input_bytes is
\* inputs_snapshot/artifacts/<artifact_id>/bytes.
PathOrder == <<"BUNDLE_INFO.json", "artifact_hashes.csv", "audit_log.ndjson",
  "eval_report.json", "citations_map.json", "redactions_map.json",
  "templates_used.json", "evidence_index.csv", "evidence_index.md",
  "evidence_index.pdf", "evidence_mapping_review.json", "evidence_narrative.md",
  "missing_evidence_checklist.md", "report.md", "artifact_list.json",
  "input_bytes", "model_snapshot.json", "network_snapshot.json",
  "policy_snapshot.json", "run_manifest.json">>
PathRank(p) == CHOOSE n \in DOMAIN PathOrder : PathOrder[n] = p

Paths(b) == {b.entries[n].path : n \in DOMAIN b.entries}
Readable(b, p) == p \in Paths(b) /\ p \notin b.unreadable
Ascending(ranks) ==
  \A m, n \in DOMAIN ranks : m < n => ranks[m] <= ranks[n]

Info(b) == b.content["BUNDLE_INFO.json"]
Manifest(b) == b.content["run_manifest.json"]
AuditLines(b) == b.content["audit_log.ndjson"]
Network(b) == b.content["network_snapshot.json"]
Model(b) == b.content["model_snapshot.json"]
PolicySnapshot(b) == b.content["policy_snapshot.json"]

NullModel == [null |-> TRUE]
LoopbackEndpoints == {"http://127.0.0.1:8080", "http://[::1]:8080"}
Offline(n) ==
  /\ Field(n, "network_mode", "") = "OFFLINE"
  /\ Field(n, "proof_level", "") = "OFFLINE_STRICT"
  /\ Field(n, "allowlist", {"absent"}) = {}
  /\ Field(n, "ui_remote_fetch_disabled", FALSE)

----------------------------------------------------------------------------
RequiredFiles(b) ==
  /\ TopPaths \union SnapshotPaths \subseteq Paths(b)
  /\ Paths(b) \intersect (AttachmentPaths \union DeliverablePaths) # {}

ExportsLayout(b) == "templates_used.json" \in Paths(b)

\* is_legacy_bundle_version: << >> is a version that does not parse.
LegacyVersion(v) ==
  Len(v) # 3 \/ v[1] < 1 \/ (v[1] = 1 /\ v[2] < 1)

Legacy(b) ==
  /\ Readable(b, "BUNDLE_INFO.json")
  /\ LegacyVersion(Field(Info(b), "bundle_version", << >>))

NetworkSnapshotPresent(b) ==
  /\ Readable(b, "network_snapshot.json")
  /\ {"network_mode", "proof_level", "allowlist", "ui_remote_fetch_disabled",
      "adapter_endpoints"} \subseteq DOMAIN Network(b)
  /\ Legacy(b) \/ "proof_source" \in DOMAIN Network(b)
  /\ Network(b).ui_remote_fetch_disabled
  /\ \A n \in DOMAIN Network(b).adapter_endpoints :
       Network(b).adapter_endpoints[n].is_loopback

AuditChain(b) ==
  /\ "audit_log.ndjson" \in Paths(b)
  /\ LET log == AuditLines(b) IN
     \A n \in DOMAIN log :
       /\ {"prev", "event", "hash"} \subseteq DOMAIN log[n]
       /\ {"type", "run", "vault"} \subseteq DOMAIN log[n].event
       /\ log[n].prev = IF n = 1 THEN << >> ELSE log[n - 1].hash
       /\ log[n].hash = Append(log[n].prev, log[n].event)

\* The typed structures have all their fields.
InfoTyped(b) ==
  /\ Readable(b, "BUNDLE_INFO.json")
  /\ {"bundle_version", "run_manifest", "pack_id", "run_id"}
       \subseteq DOMAIN Info(b)
ManifestTyped(b) ==
  /\ Readable(b, "run_manifest.json")
  /\ {"run_id", "vault_id", "authority", "digests", "calls", "gate_status"}
       \subseteq DOMAIN Manifest(b)

AuthorityContract(b) ==
  /\ InfoTyped(b) /\ Info(b).run_manifest = "RUN_MANIFEST_V2"
  /\ ManifestTyped(b) /\ Info(b).run_id = Manifest(b).run_id
  /\ "audit_log.ndjson" \in Paths(b)
  /\ ValidInternal(Manifest(b).authority, Manifest(b).run_id, AuditLines(b))

----------------------------------------------------------------------------
\* A row of artifact_hashes.csv is of an output, whose artifact_id is "o:" and
\* its path, or of an input, whose path may be empty.
RowRank(row) == IF row.output THEN PathRank(row.path) ELSE 0

----------------------------------------------------------------------------
\* Mutant: the size of a file stands for its digest.
RowHoldsSize(b, row) ==
  row.path # "" =>
    \E n \in DOMAIN b.entries : /\ b.entries[n].path = row.path
                                 /\ b.entries[n].bytes = row.bytes
----------------------------------------------------------------------------
\* What is checked of a row that has a path.
RowHolds(b, row) ==
  row.path # "" =>
    /\ row.path \in Paths(b)
    /\ \E n \in DOMAIN b.entries : /\ b.entries[n].path = row.path
                                   /\ b.entries[n].bytes = row.bytes
    /\ Sha(b.content[row.path]) = row.sha
    /\ PolicySnapshot(b).inputs = "INCLUDE_INPUT_BYTES" /\ ~row.output =>
         "input_bytes" \in Paths(b)

DeclaredDigests(b) ==
  Field(Manifest(b), "digests", {})
    \union UNION {c.digests : c \in Field(Manifest(b), "calls", {})}
    \union {a.sha : a \in b.content["artifact_list.json"]}
    \union (IF "sha" \in DOMAIN Model(b) THEN {Model(b).sha} ELSE {})

ArtifactHashes(b) ==
  /\ \A p \in {"artifact_hashes.csv", "policy_snapshot.json",
               "run_manifest.json", "artifact_list.json",
               "model_snapshot.json"} : Readable(b, p)
  /\ LET rows == b.content["artifact_hashes.csv"] IN
     /\ \A n \in DOMAIN rows : IsSha(rows[n].sha)
     /\ Ascending([n \in DOMAIN rows |-> RowRank(rows[n])])
     /\ \A d \in DeclaredDigests(b) : IsSha(d)
     /\ \A n \in DOMAIN rows : RowHolds(b, rows[n])

----------------------------------------------------------------------------
ModelPinning(b, policy) ==
  /\ Readable(b, "model_snapshot.json")
  /\ Model(b) = NullModel \/ Field(Model(b), "pinning_level", "") \in
       PinningLevels \ (IF policy = "DRAFT_ONLY" THEN {} ELSE {"NAME_ONLY"})

RunSnapshotConsistency(b) ==
  /\ \A p \in {"model_snapshot.json", "network_snapshot.json",
               "run_manifest.json"} : Readable(b, p)
  /\ "adapter_endpoints" \in DOMAIN Network(b) /\ "calls" \in DOMAIN Manifest(b)
  /\ LET model == Model(b)
         endpoints == Network(b).adapter_endpoints
         calls == Manifest(b).calls IN
     \/ model = NullModel /\ endpoints = << >> /\ calls = {}
     \/ /\ model # NullModel
        /\ \A f \in {"endpoint", "model_id", "version"} : Field(model, f, "") # ""
        /\ Len(endpoints) = 1 /\ endpoints[1].endpoint = model.endpoint
        /\ model.endpoint \in LoopbackEndpoints
        /\ calls # {}
        /\ \A c \in calls : /\ c.model_id = model.model_id
                            /\ c.version = model.version

\* regex_find_claim_markers, over every Markdown deliverable.
Markers(b) ==
  UNION {b.content[p].markers : p \in MarkdownPaths \intersect Paths(b)}

CitationsStrict(b, policy) ==
  policy = "STRICT" =>
    /\ Readable(b, "citations_map.json")
    /\ LET map == b.content["citations_map.json"] IN
       /\ map.schema = "LOCATOR_SCHEMA_V1"
       /\ Markers(b) \subseteq {c \in DOMAIN map.claims : map.claims[c] # {}}

----------------------------------------------------------------------------
\* bbox_contains and redaction_covers_citation; a bbox is [x, y, w, h], and a
\* coordinate that is missing is -1.
BboxContains(outer, inner) ==
  /\ \A f \in {"x", "y", "w", "h"} : outer[f] >= 0 /\ inner[f] >= 0
  /\ outer.x <= inner.x /\ outer.x + outer.w >= inner.x + inner.w
  /\ outer.y <= inner.y /\ outer.y + outer.h >= inner.y + inner.h

Covers(r, c) ==
  \/ /\ r.type = "TEXT_SPAN" /\ c.type = "PDF_TEXT_SPAN_V1"
     /\ \A n \in {r.start, r.end, c.start, c.end} : n >= 0
     /\ r.start <= c.start /\ r.end >= c.end
  \/ /\ r.type = "IMAGE_BBOX" /\ c.type \in {"IMAGE_BBOX_V1", "PDF_BBOX_V1"}
     /\ BboxContains(r.bbox, c.bbox)

Sensitive(a) ==
  \/ a.classification = "Restricted"
  \/ a.tags \intersect {"PII", "PHI", "PCI", "SECRET"} # {}

RedactionGate(b, policy) ==
  policy # "DRAFT_ONLY" =>
    /\ \A p \in {"redactions_map.json", "citations_map.json",
                 "artifact_list.json"} : Readable(b, p)
    /\ LET map == b.content["redactions_map.json"]
           claims == b.content["citations_map.json"].claims
           sensitive == {a.artifact_id :
             a \in {x \in b.content["artifact_list.json"] : Sensitive(x)}} IN
       /\ map.schema = "REDACTION_SCHEMA_V1"
       /\ \A c \in UNION {claims[id] : id \in DOMAIN claims} :
            c.artifact \in sensitive =>
              \E a \in map.artifacts : /\ a.artifact = c.artifact
                                       /\ \E r \in a.redactions : Covers(r, c)

----------------------------------------------------------------------------
\* check_eval_report, and what stands for it before there is a report.
EvalReportCheck(b, policy) ==
  /\ \A p \in {"eval_report.json", "run_manifest.json", "BUNDLE_INFO.json"} :
       Readable(b, p)
  /\ "gate_status" \in DOMAIN Manifest(b)
  /\ Field(Info(b), "pack_id", "") # ""
  /\ ReportAccepted(b.content["eval_report.json"], Manifest(b).gate_status,
                    policy, Info(b).pack_id)

EvalReportPreflight(b) ==
  /\ Readable(b, "eval_report.json")
  /\ PreflightReportOk(b.content["eval_report.json"])

\* check_zip_determinism
ZipRules(b) ==
  /\ Readable(b, "policy_snapshot.json")
  /\ Field(PolicySnapshot(b), "determinism", FALSE) =>
       /\ ~b.comment
       /\ \A n \in DOMAIN b.entries :
            b.entries[n].deflated /\ b.entries[n].stamped /\ b.entries[n].moded
       /\ Ascending([n \in DOMAIN b.entries |-> PathRank(b.entries[n].path)])

\* The lines of the audit log about the vault of this run: none if the manifest
\* does not name the run and the vault.
VaultStatusEvents(b) ==
  LET m == Manifest(b)
      events == {AuditLines(b)[n].event :
        n \in {k \in DOMAIN AuditLines(b) : "event" \in DOMAIN AuditLines(b)[k]}} IN
  {e \in events : /\ Readable(b, "run_manifest.json")
                  /\ Field(m, "run_id", "") # "" /\ Field(m, "vault_id", "") # ""
                  /\ Field(e, "type", "") = "VAULT_ENCRYPTION_STATUS"
                  /\ Field(e, "run", "") = m.run_id
                  /\ Field(e, "vault", "") = m.vault_id}

\* check_vault_crypto_policy_snapshot: the snapshot and the log agree.
VaultCrypto(b) ==
  /\ Readable(b, "policy_snapshot.json")
  /\ "encryption_at_rest" \in DOMAIN PolicySnapshot(b)
  /\ LET algorithm == Field(PolicySnapshot(b), "encryption_algorithm", "none") IN
     \/ /\ ~PolicySnapshot(b).encryption_at_rest /\ algorithm = "none"
        /\ \A e \in VaultStatusEvents(b) : ~Field(e, "encrypted", FALSE)
     \/ /\ PolicySnapshot(b).encryption_at_rest
        /\ algorithm \in {"XCHACHA20_POLY1305", "AES_256_GCM"}
        /\ \E e \in VaultStatusEvents(b) :
             /\ Field(e, "key_storage", "") \in
                  {"MACOS_KEYCHAIN", "WINDOWS_DPAPI", "FILE_FALLBACK"}
             /\ Field(e, "encrypted", FALSE)
             /\ Field(e, "algorithm", "none") = algorithm

\* check_network_proof_source
NetworkProofSource(b) ==
  /\ Readable(b, "network_snapshot.json")
  /\ IF "proof_source" \notin DOMAIN Network(b) THEN Legacy(b)
     ELSE /\ Network(b).proof_source = "POLICY_DECLARATION"
          /\ Offline(Network(b))
          /\ "adapter_endpoints" \in DOMAIN Network(b)
          /\ \A n \in DOMAIN Network(b).adapter_endpoints :
               LET e == Network(b).adapter_endpoints[n] IN
               e.is_loopback /\ e.endpoint \in LoopbackEndpoints

----------------------------------------------------------------------------
(***************************************************************************)
(* A validation: the results of the checks, and the verdict. All results   *)
(* are of severity BLOCKER unless they are a PASS, so that the severity    *)
(* decides nothing.                                                        *)
(***************************************************************************)
Modes == {"Final", "EvaluationPreflight"}

Summary(b, policy, mode) ==
  [required_files |-> RequiredFiles(b),
   exports_layout |-> ExportsLayout(b),
   network_snapshot |-> NetworkSnapshotPresent(b),
   version |-> TRUE,
   audit_chain |-> AuditChain(b),
   authority |-> AuthorityContract(b),
   artifact_hashes |-> ArtifactHashes(b),
   model_pinning |-> ModelPinning(b, policy),
   citations |-> CitationsStrict(b, policy),
   redactions |-> RedactionGate(b, policy),
   eval_report |-> IF mode = "Final" THEN EvalReportCheck(b, policy)
                   ELSE EvalReportPreflight(b),
   zip_rules |-> ZipRules(b),
   vault_crypto |-> VaultCrypto(b),
   run_snapshot |-> RunSnapshotConsistency(b),
   proof_source |-> NetworkProofSource(b)]

\* overall_validation_status
Overall(b, policy, mode) ==
  LET checks == Summary(b, policy, mode)
      excused == IF Legacy(b)
                 THEN {"vault_crypto", "run_snapshot", "proof_source"} ELSE {} IN
  IF \E c \in DOMAIN checks \ excused : ~checks[c] THEN "FAIL"
  ELSE IF Legacy(b) THEN "LEGACY_UNVERIFIABLE" ELSE "PASS"
=============================================================================
