---------------------------- MODULE BundleReview ----------------------------
(***************************************************************************)
(* What the run manager and the gate runner decide about a bundle from its *)
(* content: evaluate a preflight archive, make the report, ask the policy, *)
(* build the archive with the report and the longer log, and validate it;  *)
(* and what BundleValidator says of the archive when it has been changed   *)
(* since. ExportRun has the same steps with the verdicts left open, and    *)
(* the failures of every file operation; here the verdicts are computed.   *)
(***************************************************************************)
EXTENDS EvidencePack

CONSTANTS
  DesktopOrders,   \* what users type in
  Policies,        \* the policies the manager is asked for
  MaxChanges       \* bound on Vary and Edit together

ASSUME ReviewAssumption == Policies \subseteq PolicyModes /\ MaxChanges \in Nat

VARIABLES
  via,       \* "manager" or "gate_runner"
  policy,    \* the policy that is asked for
  inputs,    \* the EvidenceBundleInputs
  log,       \* the events of the manager's audit log
  stage,     \* how far the export has come
  results,   \* gate_results
  report,    \* the eval report made of them
  bundle,    \* the archive
  verdict,   \* the last validation of it
  shipped,   \* history: the archive whose final validation passed
  preflight, \* history: the archive that was evaluated, and whether its copy of
             \* the log was then the manager's
  changes    \* how many changes were made to inputs and archive

request == <<via, policy>>
vars == <<request, inputs, log, stage, results, report, bundle, verdict,
          shipped, preflight, changes>>

None == [none |-> TRUE]
Stages == {"inputs", "evaluated", "reported", "blocked", "permitted", "built",
           "again", "rebuilt", "rejected", "shipped", "edited", "checked"}
Verdicts == {"none", "PASS", "FAIL", "LEGACY_UNVERIFIABLE"}

----------------------------------------------------------------------------
(***************************************************************************)
(* What may vary in the inputs of a caller of RunManager, whose types      *)
(* leave it open (schemas.rs), and in an archive.                          *)
(***************************************************************************)
Put(f, p, v) == [f EXCEPT ![p] = v]
Keep(f, S) == [q \in DOMAIN f \intersect S |-> f[q]]
Without(f, p) == Keep(f, DOMAIN f \ {p})

\* A model, the endpoint and the call that go with it.
ModelOf(level) ==
  [pinning_level |-> level, endpoint |-> "http://127.0.0.1:8080",
   model_id |-> "m", version |-> "1", sha |-> Sha("m")]
Call(version) == [model_id |-> "m", version |-> version, digests |-> {Sha("c")}]
Endpoint(url, loopback) == <<[endpoint |-> url, is_loopback |-> loopback]>>

WithModel(c, model, endpoints, calls) ==
  Put(Put(Put(c, "model_snapshot.json", model),
          "network_snapshot.json", [c["network_snapshot.json"] EXCEPT
            !.adapter_endpoints = endpoints]),
      "run_manifest.json", [c["run_manifest.json"] EXCEPT !.calls = calls])

\* One more event; a log that is not what append wrote.
MoreEvents(run) ==
  {SimulatedBlock(run), Event("NETWORK_MODE_SET", "other"),
   EventWith("EGRESS_REQUEST_ALLOWED", run, [rule |-> "r1"]),
   [SimulatedBlock(run) EXCEPT !.origin = "RUNTIME_OBSERVATION"],
   EventWith("VAULT_ENCRYPTION_STATUS", run, [encrypted |-> TRUE,
     algorithm |-> "AES_256_GCM", key_storage |-> "MACOS_KEYCHAIN"])}

OtherLogs(lines) ==
  {Chain(SelectSeq(EventsOf(lines), LAMBDA e : e.type # "ALLOWLIST_UPDATED")),
   SubSeq(lines, 2, Len(lines)), [lines EXCEPT ![1].event.type = "OTHER"]}

ModelVariants(c) ==
  {WithModel(c, ModelOf(l), Endpoint("http://127.0.0.1:8080", TRUE), {Call("1")}) :
     l \in PinningLevels}
  \union {WithModel(c, ModelOf("CRYPTO_PINNED"), << >>, {Call("1")}),
     WithModel(c, ModelOf("CRYPTO_PINNED"), Endpoint("http://127.0.0.1:8080", TRUE),
               {Call("2")}),
     WithModel(c, NullModel, Endpoint("http://10.0.0.1", FALSE), {})}

\* Values of single files.
ContentVariants(c) ==
  LET m == c["run_manifest.json"]
      artifact == CHOOSE a \in c["artifact_list.json"] : TRUE IN
  {<<"policy_snapshot.json", [c["policy_snapshot.json"] EXCEPT !.determinism = FALSE]>>,
   <<"policy_snapshot.json", [c["policy_snapshot.json"] EXCEPT
       !.encryption_at_rest = TRUE, !.encryption_algorithm = "AES_256_GCM"]>>,
   <<"network_snapshot.json", [OfflinePolicy EXCEPT
       !.network_mode = "ONLINE_ALLOWLISTED",
       !.proof_level = "ONLINE_ALLOWLIST_CORE_ONLY", !.allowlist = {"host"}]>>,
   <<"network_snapshot.json", [OfflinePolicy EXCEPT !.ui_remote_fetch_disabled = FALSE]>>,
   <<"artifact_list.json", {[artifact EXCEPT !.classification = "Restricted"]}>>,
   <<"artifact_list.json", {[artifact EXCEPT !.sha = Malformed]}>>,
   <<"redactions_map.json", [c["redactions_map.json"] EXCEPT !.artifacts = {}]>>,
   <<"BUNDLE_INFO.json", [c["BUNDLE_INFO.json"] EXCEPT !.bundle_version = <<1, 0, 0>>]>>,
   <<"BUNDLE_INFO.json", [c["BUNDLE_INFO.json"] EXCEPT !.run_id = "other"]>>,
   <<"run_manifest.json", [m EXCEPT !.authority.validUntil = @ + 1]>>,
   <<"run_manifest.json", [m EXCEPT !.authority.origin = "LIVE"]>>,
   <<"run_manifest.json", [m EXCEPT !.authority.may = Claims]>>}
  \union {<<p, [c[p] EXCEPT !.claims = << >>]>> :
            p \in {"citations_map.json"} \intersect DOMAIN c}

InputVariants(c) ==
  {Put(c, v[1], v[2]) : v \in ContentVariants(c)}
    \union ModelVariants(c)
    \union {Put(c, "audit_log.ndjson", lines) :
              lines \in OtherLogs(c["audit_log.ndjson"])}
    \union {Without(c, p) : p \in {"citations_map.json", "evidence_index.csv",
              "evidence_mapping_review.json"} \intersect DOMAIN c}

\* The report with one entry changed, and the overall status, here and in the
\* manifest, that goes with the change.
ReportVariants(c) ==
  LET r == c["eval_report.json"]
      m == c["run_manifest.json"] IN
  {Put(Put(c, "eval_report.json", [r EXCEPT !.gates = gates, !.overall = overall]),
       "run_manifest.json", [m EXCEPT !.gate_status = overall]) :
     gates \in {Without(r.gates, "MAPPING_REVIEW_PRESENT"),
                Put(r.gates, "AUDIT_HASH_CHAIN",
                    [r.gates["AUDIT_HASH_CHAIN"] EXCEPT !.status = "FAIL"]),
                Put(r.gates, "AUDIT_HASH_CHAIN", [r.gates["AUDIT_HASH_CHAIN"]
                    EXCEPT !.status = "FAIL", !.severity = "MINOR"])},
     overall \in {"PASS", "WARN"}}

\* An archive with other content; or with other entries. The log may have been
\* bound again, as the builder does it, or not.
Edited(b) ==
  LET c == b.content
      first == CHOOSE n \in DOMAIN b.entries : \A k \in DOMAIN b.entries : n <= k
      last == CHOOSE n \in DOMAIN b.entries : \A k \in DOMAIN b.entries : k <= n
      lines == c["audit_log.ndjson"]
      more == {Chain(Append(EventsOf(lines), e)) :
                 e \in MoreEvents(c["run_manifest.json"].run_id)}
      rebound(l) == [b EXCEPT !.content = Put(Put(c, "audit_log.ndjson", l),
        "run_manifest.json", [c["run_manifest.json"] EXCEPT
          !.authority = BindLog(@, l)])] IN
  {[b EXCEPT !.content = d,
             !.entries = Keep(@, {n \in DOMAIN @ : @[n].path \in DOMAIN d})] :
     d \in InputVariants(c) \union ReportVariants(c)
       \union {Put(c, "audit_log.ndjson", l) : l \in more}}
    \union {rebound(l) : l \in OtherLogs(lines) \union more}
    \union {[b EXCEPT !.content["evidence_narrative.md"].markers = {}] :
              p \in {"evidence_narrative.md"} \intersect DOMAIN c}
    \union {[b EXCEPT !.content["templates_used.json"].templates = {}],
            [b EXCEPT !.content["artifact_hashes.csv"][2].sha = Malformed],
            [b EXCEPT !.comment = TRUE],
            [b EXCEPT !.entries[first].stamped = FALSE],
            [b EXCEPT !.entries[first] = b.entries[last],
                      !.entries[last] = b.entries[first]],
            [b EXCEPT !.entries[last].bytes = 2],
            [b EXCEPT !.entries = Without(@, first)],
            [b EXCEPT !.entries = Without(@, last)]}
    \union {[b EXCEPT !.unreadable = {p}] :
              p \in {"run_manifest.json", "eval_report.json", "citations_map.json"}}

----------------------------------------------------------------------------
\* The manager is given the desktop's inputs, or another caller's; the gate
\* runner makes its own two bundles.
Init ==
  /\ \/ /\ via = "manager" /\ policy \in Policies
        /\ inputs \in {SelfAuditInputs} \union {DesktopInputs(d, 1) : d \in
             {x \in DesktopOrders : GenerateAccepts(DesktopRequest(x))}}
     \/ /\ via = "gate_runner" /\ policy = "STRICT"
        /\ inputs \in {SelfAuditInputs, EvidenceOsInputs}
  /\ log = EventsOf(inputs.content["audit_log.ndjson"])
  /\ stage = "inputs"
  /\ results = << >> /\ report = None /\ bundle = None /\ shipped = None
  /\ verdict = "none" /\ preflight = None
  /\ changes = 0

\* The inputs of the manager differ from those; or its log has one more event,
\* which the inputs' copy has too.
Vary ==
  /\ stage = "inputs" /\ via = "manager" /\ changes < MaxChanges
  /\ LET c == inputs.content IN
     \/ /\ \E d \in InputVariants(c) : inputs' = [inputs EXCEPT !.content = d]
        /\ UNCHANGED log
     \/ \E e \in MoreEvents(c["run_manifest.json"].run_id) :
          /\ log' = Append(log, e)
          /\ inputs' = [inputs EXCEPT !.content["audit_log.ndjson"] = Chain(log')]
  /\ changes' = changes + 1
  /\ UNCHANGED <<request, stage, results, report, bundle, verdict, shipped, preflight>>

\* The preflight archive is built and evaluated.
Evaluate ==
  /\ stage = "inputs"
  /\ bundle' = Build(inputs)
  /\ Evaluable(bundle')
  /\ results' = GateResults(bundle', policy)
  /\ preflight' = [archive |-> bundle',
                   current |-> inputs.content["audit_log.ndjson"] = Chain(log)]
  /\ stage' = "evaluated"
  /\ UNCHANGED <<request, inputs, log, report, verdict, shipped, changes>>

\* report_from_results; its error ends the export.
Materialize ==
  /\ stage = "evaluated"
  /\ ResultsAccepted(results, policy, inputs.pack)
  /\ report' = ReportFromResults(results, policy)
  /\ stage' = "reported"
  /\ UNCHANGED <<request, inputs, log, results, bundle, verdict, shipped, preflight,
                 changes>>

\* evaluate_export_gate, given what export_run gives it. The network mode and
\* the proof level of the request are those of the snapshot that comes with it,
\* as in the desktop command.
RequestOf(c, p) ==
  [policy |-> p, network |-> c["network_snapshot.json"].network_mode,
   proof |-> c["network_snapshot.json"].proof_level,
   pinning |-> Field(c["model_snapshot.json"], "pinning_level", "NONE")]

BlockerFails(rs) ==
  {g \in DOMAIN rs : rs[g].severity = "BLOCKER" /\ rs[g].status = "FAIL"}

Permits(c, rs, rep, p) ==
  PermitsExport(RequestOf(c, p), BlockerFails(rs),
    GateSatisfied(rep, "CITATIONS", p), GateSatisfied(rep, "REDACTION", p),
    GateSatisfied(rep, "ZIP_PACKAGING", p))

\* The gate runner has no such step.
Decide ==
  /\ stage = "reported"
  /\ stage' = IF via = "gate_runner" \/ Permits(inputs.content, results, report, policy)
              THEN "permitted" ELSE "blocked"
  /\ UNCHANGED <<request, inputs, log, results, report, bundle, verdict,
                 shipped, preflight, changes>>

----------------------------------------------------------------------------
\* The records of export_run until it reads the log, the first time and the
\* second; those of the gates are one here. The gate runner records none.
Records(run) ==
  LET types == IF via = "gate_runner" THEN << >>
        ELSE IF stage = "permitted"
        THEN <<"EXPORT_REQUESTED", "RUN_STATE_CHANGED", "EVAL_STARTED",
               "EVAL_GATE_RESULT", "EVAL_COMPLETED", "RUN_STATE_CHANGED",
               "BUNDLE_GENERATION_STARTED">>
        ELSE <<"BUNDLE_GENERATION_COMPLETED", "BUNDLE_VALIDATION_STARTED",
               "BUNDLE_VALIDATION_RESULT">> IN
  [n \in DOMAIN types |-> Event(types[n], run)]

----------------------------------------------------------------------------
\* Mutant: the new records are added to the caller's copy of the log, instead of
\* reading the log again.
RebuildOnCopy ==
  /\ stage \in {"permitted", "again"}
  /\ LET c == inputs.content
         m == c["run_manifest.json"] IN
     /\ log' = log \o Records(m.run_id)
     /\ inputs' = [inputs EXCEPT !.content = Put(Put(Put(c, "audit_log.ndjson",
          c["audit_log.ndjson"] \o SubSeq(Chain(log'), Len(log) + 1, Len(log'))),
          "eval_report.json", report),
          "run_manifest.json", [m EXCEPT !.gate_status = report.overall])]
  /\ bundle' = Build(inputs')
  /\ verdict' = "none"
  /\ stage' = IF stage = "permitted" THEN "built" ELSE "rebuilt"
  /\ UNCHANGED <<request, results, report, shipped, preflight, changes>>
----------------------------------------------------------------------------
\* The bundle is built with the report and the log so far.
Rebuild ==
  /\ stage \in {"permitted", "again"}
  /\ LET c == inputs.content
         m == c["run_manifest.json"] IN
     /\ log' = log \o Records(m.run_id)
     /\ inputs' = [inputs EXCEPT !.content = Put(Put(Put(c,
          "audit_log.ndjson", Chain(log')), "eval_report.json", report),
          "run_manifest.json", [m EXCEPT !.gate_status = report.overall])]
  /\ bundle' = Build(inputs')
  /\ verdict' = "none"
  /\ stage' = IF stage = "permitted" THEN "built" ELSE "rebuilt"
  /\ UNCHANGED <<request, results, report, shipped, preflight, changes>>

----------------------------------------------------------------------------
\* Mutant: what is handed over is the archive of the first validation.
ValidateShipsFirst ==
  /\ stage \in {"built", "rebuilt"}
  /\ verdict' = Overall(bundle, policy, "Final")
  /\ stage' = IF verdict' # "PASS" THEN "rejected"
              ELSE IF via = "manager" /\ stage = "built" THEN "again"
              ELSE "shipped"
  /\ shipped' = IF stage = "built" /\ verdict' = "PASS" THEN bundle ELSE shipped
  /\ UNCHANGED <<request, inputs, log, results, report, bundle, preflight, changes>>
----------------------------------------------------------------------------
\* validate_zip: the manager builds once more after the first time it passes.
Validate ==
  /\ stage \in {"built", "rebuilt"}
  /\ verdict' = Overall(bundle, policy, "Final")
  /\ stage' = IF verdict' # "PASS" THEN "rejected"
              ELSE IF via = "manager" /\ stage = "built" THEN "again"
              ELSE "shipped"
  /\ shipped' = IF stage' = "shipped" THEN bundle ELSE shipped
  /\ UNCHANGED <<request, inputs, log, results, report, bundle, preflight, changes>>

----------------------------------------------------------------------------
Edit ==
  /\ stage \in {"shipped", "checked"} /\ changes < MaxChanges
  /\ bundle' \in Edited(bundle)
  /\ verdict' = "none" /\ stage' = "edited" /\ changes' = changes + 1
  /\ UNCHANGED <<request, inputs, log, results, report, shipped, preflight>>

\* Somebody validates the archive later.
Recheck ==
  /\ stage = "edited"
  /\ verdict' = Overall(bundle, policy, "Final")
  /\ stage' = "checked"
  /\ UNCHANGED <<request, inputs, log, results, report, bundle, shipped, preflight,
                 changes>>

Next == Vary \/ Evaluate \/ Materialize \/ Decide \/ Rebuild \/ Validate \/ Edit
          \/ Recheck

Spec == Init /\ [][Next]_vars

----------------------------------------------------------------------------
(***************************************************************************)
(* Properties.                                                             *)
(***************************************************************************)
Validated == stage \in {"again", "shipped", "checked"} /\ verdict = "PASS"

\* The variables have their types; an archive that was shipped has passed.
ReviewTypeOK ==
  /\ via \in {"manager", "gate_runner"} /\ policy \in PolicyModes
  /\ stage \in Stages /\ verdict \in Verdicts
  /\ changes \in 0..MaxChanges
  /\ shipped # None => stage \in {"shipped", "edited", "checked"}

\* The evaluation speaks for the bundle: every check behind a gate that the
\* preflight archive passed holds of the archives with the report and the longer
\* log too, and the report is accepted unless a blocker failed. So the archive
\* of a permitted export is rejected only for what no gate of its policy covers,
\* or because it is in the format that cannot be verified.
\* The two checks that read the events speak only of the log they were given,
\* which in the preflight is the caller's copy: a copy that is not the
\* manager's may be permitted, and its bundle rejected.
ReadEvents == {"EVIDENCE_AUTHORITY", "VAULT_CRYPTO"}

EvaluationCarriesOver ==
  stage \in {"again", "shipped", "rejected"} =>
    LET s == Summary(bundle, policy, "Final") IN
    /\ \A g \in CheckedGates \intersect DOMAIN results :
         results[g].status = "PASS" /\ (g \in ReadEvents => preflight.current) =>
           ChecksBehind(g, s)
    /\ s.eval_report \/ BlockerFails(results) # {}
    /\ stage = "rejected" /\ via = "manager" /\ preflight.current =>
         \/ Legacy(bundle) \/ ~s.exports_layout \/ ~s.artifact_hashes
         \/ \E g \in CheckedGates \ GatesOf(policy) : ~ChecksBehind(g, s)

\* A bundle that passes validation carries a report of exactly the gates of the
\* policy, none of which failed where the registry calls that a blocker, and
\* its manifest repeats the overall status. It is proved (BundleReviewProofs).
PassCarriesReport ==
  Validated =>
    LET r == bundle.content["eval_report.json"] IN
    /\ {r.gates[i].gate : i \in DOMAIN r.gates} = GatesOf(policy)
    /\ \A i \in DOMAIN r.gates :
         r.gates[i].status = "FAIL" => RegistrySeverity(r.gates[i].gate) # "BLOCKER"
    /\ Manifest(bundle).gate_status = r.overall

\* If an archive still passes after a change, then either its authority or its
\* table of hashes was changed, or its log, and every file of the table, is
\* the one that was shipped.
EditDetected ==
  stage = "checked" /\ verdict = "PASS" =>
    LET rows == shipped.content["artifact_hashes.csv"] IN
    \/ Manifest(bundle).authority # Manifest(shipped).authority
    \/ bundle.content["artifact_hashes.csv"] # rows
    \/ /\ AuditLines(bundle) = AuditLines(shipped)
       /\ \A n \in DOMAIN rows : rows[n].path # "" =>
            /\ rows[n].path \in Paths(bundle)
            /\ bundle.content[rows[n].path] = shipped.content[rows[n].path]

\* A claim that is authorized in the context of the shipped bundle, by a bundle
\* that passes, is one of the permitted ones, rests on the log that was
\* shipped, and is made within the window, not before and not more than a day
\* after the bundle was made.
AuthorizedMeansShipped ==
  stage \in {"shipped", "checked"} /\ verdict = "PASS" =>
    LET a == Manifest(bundle).authority
        s == Manifest(shipped).authority IN
    \A claim \in Claims, t \in s.generated - 1 .. s.validUntil + 2 :
      EvaluateClaim(a, claim, [case |-> s.case, source |-> s.source, asOf |-> t,
                               credentials |-> FALSE, tool |-> ""]) = "AUTHORIZED" =>
        /\ claim \notin ProhibitedClaims
        /\ AuditLines(bundle) = AuditLines(shipped)
        /\ a.generated <= t /\ t <= a.generated + Day

\* A stricter policy permits less: what STRICT exports, BALANCED does, and what
\* that exports, DRAFT_ONLY does, although each evaluates gates of its own.
PermittedUnder(p) ==
  LET rs == GateResults(Build(inputs), p) IN
  /\ ResultsAccepted(rs, p, inputs.pack)
  /\ Permits(inputs.content, rs, ReportFromResults(rs, p), p)

PolicyMonotone ==
  stage = "inputs" =>
    /\ PermittedUnder("STRICT") => PermittedUnder("BALANCED")
    /\ PermittedUnder("BALANCED") => PermittedUnder("DRAFT_ONLY")

\* No exported bundle says that it observed live egress being blocked: its
\* gate about the allowlist is not applicable, though it could pass.
NoLiveEgressClaimed ==
  stage = "shipped" =>
    \A i \in DOMAIN report.gates :
      report.gates[i].gate = "ALLOWLIST_MATCH" =>
        report.gates[i].status = "NOT_APPLICABLE"
=============================================================================
