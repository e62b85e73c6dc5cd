-------------------------- MODULE BundleReviewProofs --------------------------
(* What a report that the runner makes is worth to the validator, and what a  *)
(* validation that passes says of the bundle: for all inputs and edits.       *)
EXTENDS BundleReview, SequenceTheorems, TLAPS

----------------------------------------------------------------------------
(***************************************************************************)
(* Reports.                                                                *)
(***************************************************************************)
\* The report has one entry for each gate of the policy, one of the results.
LEMMA ReportEntries ==
  ASSUME NEW results0, NEW policy0, NEW pack0,
         ResultsAccepted(results0, policy0, pack0)
  PROVE  LET r == ReportFromResults(results0, policy0) IN
         /\ r.registry = "gates_registry_v3"
         /\ DOMAIN r.gates = GatesOf(policy0)
         /\ \A g \in GatesOf(policy0) :
              r.gates[g].gate = g /\ EntryOk(r.gates[g], pack0)
         /\ r.overall = OverallStatus(r.gates)
<1> DEFINE entry(g) == CHOOSE i \in DOMAIN results0 : results0[i].gate = g
           gates == [g \in GatesOf(policy0) |-> results0[entry(g)]]
<1>1. \A g \in GatesOf(policy0) :
        entry(g) \in DOMAIN results0 /\ results0[entry(g)].gate = g
  BY DEF ResultsAccepted, Complete
<1>2. \A g \in GatesOf(policy0) : EntryOk(results0[entry(g)], pack0)
  BY <1>1 DEF ResultsAccepted
<1>3. ReportFromResults(results0, policy0) =
        [registry |-> "gates_registry_v3", overall |-> OverallStatus(gates),
         gates |-> gates]
  BY DEF ReportFromResults
<1> HIDE DEF entry
<1> QED BY <1>1, <1>2, <1>3

\* The entry of a gate is its result.
LEMMA ResultsAreReported ==
  ASSUME NEW results0, NEW policy0, DOMAIN results0 = GatesOf(policy0),
         \A g \in GatesOf(policy0) : results0[g].gate = g,
         NEW g \in GatesOf(policy0)
  PROVE  ReportFromResults(results0, policy0).gates[g] = results0[g]
<1> DEFINE j == CHOOSE k \in DOMAIN results0 : results0[k].gate = g
<1>1. j \in DOMAIN results0 /\ results0[j].gate = g
  OBVIOUS
<1>2. j = g
  BY <1>1
<1>3. ReportFromResults(results0, policy0).gates[g] = results0[j]
  BY DEF ReportFromResults
<1> QED BY <1>2, <1>3

\* The two definitions of the overall status agree: no status is WARN.
LEMMA OverallAgree ==
  ASSUME NEW gates, \A g \in DOMAIN gates : gates[g].status \in GateStatuses
  PROVE  /\ ValidatorOverall(gates) = OverallStatus(gates)
         /\ OverallStatus(gates) \in {"PASS", "FAIL", "WARN"}
<1>1. \A g \in DOMAIN gates : gates[g].status # "WARN"
  BY DEF GateStatuses
<1> QED BY <1>1 DEF ValidatorOverall, OverallStatus

\* The validator accepts exactly those reports of the runner in which no blocker
\* failed: report_from_results and validate_eval_report are each other's mirror.
THEOREM ReportMirrors ==
  ASSUME NEW results0, NEW policy0, NEW pack0,
         ResultsAccepted(results0, policy0, pack0)
  PROVE  LET r == ReportFromResults(results0, policy0) IN
         ReportAccepted(r, r.overall, policy0, pack0) <=> r.overall # "FAIL"
<1> DEFINE r == ReportFromResults(results0, policy0)
<1>1. /\ r.registry = "gates_registry_v3"
      /\ DOMAIN r.gates = GatesOf(policy0)
      /\ \A g \in GatesOf(policy0) : r.gates[g].gate = g
      /\ \A g \in GatesOf(policy0) : EntryOk(r.gates[g], pack0)
      /\ r.overall = OverallStatus(r.gates)
  BY ReportEntries
<1> HIDE DEF r
<1>2. \A g \in DOMAIN r.gates : r.gates[g].status \in GateStatuses
  BY <1>1 DEF EntryOk
<1>3. /\ r.overall = ValidatorOverall(r.gates)
      /\ r.overall \in {"PASS", "FAIL", "WARN"}
  BY <1>1, <1>2, OverallAgree
<1>4. "BUNDLE_FORMAT" \in GatesOf(policy0) /\ GatesOf(policy0) \subseteq Gates
  BY DEF GatesOf, Gates, EverywhereGates, NotDraftGates
<1>5. NoDuplicates(r.gates) /\ Complete(r.gates, policy0)
  BY <1>1 DEF NoDuplicates, Complete
<1>6. {r.gates[i].gate : i \in DOMAIN r.gates} \subseteq GatesOf(policy0)
  BY <1>1
<1>7. \A i \in DOMAIN r.gates : r.gates[i].gate \in Gates /\ EntryOk(r.gates[i], pack0)
  BY <1>1, <1>4
<1>8. ReportAccepted(r, r.overall, policy0, pack0) <=> r.overall # "FAIL"
  BY <1>1, <1>3, <1>4, <1>5, <1>6, <1>7 DEF ReportAccepted
<1> QED BY <1>8 DEF r

\* What an accepted report holds.
LEMMA AcceptedReport ==
  ASSUME NEW r, NEW status, NEW policy0, NEW pack0,
         ReportAccepted(r, status, policy0, pack0)
  PROVE  /\ {r.gates[i].gate : i \in DOMAIN r.gates} = GatesOf(policy0)
         /\ \A i \in DOMAIN r.gates :
              r.gates[i].status = "FAIL" => RegistrySeverity(r.gates[i].gate) # "BLOCKER"
         /\ status = r.overall
<1>1. \A g \in GatesOf(policy0) : \E i \in DOMAIN r.gates : r.gates[i].gate = g
  BY DEF ReportAccepted, Complete
<1>2. {r.gates[i].gate : i \in DOMAIN r.gates} = GatesOf(policy0)
  BY <1>1 DEF ReportAccepted
<1>3. ~Failing(r.gates, {"BLOCKER"})
  BY DEF ReportAccepted, ValidatorOverall
<1>4. ASSUME NEW i \in DOMAIN r.gates, r.gates[i].status = "FAIL"
      PROVE  RegistrySeverity(r.gates[i].gate) # "BLOCKER"
  <2>1. r.gates[i].severity # "BLOCKER"
    BY <1>3, <1>4 DEF Failing
  <2>2. /\ r.gates[i].severity \in {"MINOR", "MAJOR"}
        /\ SeverityRank(r.gates[i].severity)
             >= SeverityRank(RegistrySeverity(r.gates[i].gate))
    BY <2>1 DEF ReportAccepted, EntryOk, Severities
  <2>3. SeverityRank(r.gates[i].severity) \in 1..2
    BY <2>2 DEF SeverityRank
  <2>4. SeverityRank("BLOCKER") = 3
    BY DEF SeverityRank
  <2> QED BY <2>2, <2>3, <2>4
<1> QED BY <1>2, <1>4 DEF ReportAccepted

----------------------------------------------------------------------------
(***************************************************************************)
(* Verdicts.                                                               *)
(***************************************************************************)
\* A PASS is the conjunction of the checks: nothing is excused.
LEMMA PassChecks ==
  ASSUME NEW b, NEW policy0, NEW mode, Overall(b, policy0, mode) = "PASS"
  PROVE  LET s == Summary(b, policy0, mode) IN
         /\ s.audit_chain /\ s.authority /\ s.artifact_hashes /\ s.eval_report
         /\ s.version
<1> DEFINE s == Summary(b, policy0, mode)
<1>1. /\ ~Legacy(b)
      /\ \A c \in DOMAIN s : s[c]
  BY DEF Overall
<1>2. {"audit_chain", "authority", "artifact_hashes", "eval_report", "version"}
        \subseteq DOMAIN s
  BY DEF Summary
<1> HIDE DEF s
<1>3. s.audit_chain /\ s.authority /\ s.artifact_hashes /\ s.eval_report /\ s.version
  BY <1>1, <1>2
<1> QED BY <1>3 DEF s

\* What the checks that the theorems below rest on say of the bundle.
LEMMA PassMeans ==
  ASSUME NEW b, NEW policy0, Overall(b, policy0, "Final") = "PASS"
  PROVE  /\ AuthorityContract(b)
         /\ ArtifactHashes(b)
         /\ EvalReportCheck(b, policy0)
<1>1. LET s == Summary(b, policy0, "Final") IN
      s.authority /\ s.artifact_hashes /\ s.eval_report
  BY PassChecks
<1> QED BY <1>1 DEF Summary

LEMMA Verdict ==
  ASSUME NEW b, NEW policy0, NEW mode
  PROVE  Overall(b, policy0, mode) \in {"PASS", "FAIL", "LEGACY_UNVERIFIABLE"}
BY DEF Overall

LEMMA Instants ==
  ASSUME NEW c, AuthorityContract(c),
         NEW t \in Manifest(c).authority.generated - 1 ..
                   Manifest(c).authority.validUntil + 2
  PROVE  t \in Int
<1> DEFINE s == Manifest(c).authority
<1>1. s.generated \in Nat /\ s.validUntil \in Nat
  BY DEF AuthorityContract, ValidInternal, Contract, WindowOk
<1>2. t \in s.generated - 1 .. s.validUntil + 2
  OBVIOUS
<1> HIDE DEF s
<1> QED BY <1>1, <1>2

\* Digests stand for what they are of.
LEMMA ShaInjective == ASSUME NEW x, NEW y, Sha(x) = Sha(y) PROVE x = y
<1>1. Sha(x).sha256 = x /\ Sha(y).sha256 = y
  BY DEF Sha
<1> QED BY <1>1

\* Bundles with the same digest of the log, both accepted, have the same log.
LEMMA LogIsBound ==
  ASSUME NEW b, NEW c, AuthorityContract(b), AuthorityContract(c),
         Manifest(b).authority.source.logSha = Manifest(c).authority.source.logSha
  PROVE  AuditLines(b) = AuditLines(c)
<1>1. /\ Manifest(b).authority.source.logSha = Sha(AuditLines(b))
      /\ Manifest(c).authority.source.logSha = Sha(AuditLines(c))
  BY DEF AuthorityContract, ValidInternal
<1> QED BY <1>1, ShaInjective

\* What an authorized claim is, to a bundle that is accepted.
LEMMA Authorized ==
  ASSUME NEW b, AuthorityContract(b), NEW claim \in Claims, NEW ctx,
         ctx.asOf \in Int,
         EvaluateClaim(Manifest(b).authority, claim, ctx) = "AUTHORIZED"
  PROVE  /\ claim \notin ProhibitedClaims
         /\ Manifest(b).authority.source.logSha = ctx.source.logSha
         /\ Manifest(b).authority.generated <= ctx.asOf
         /\ ctx.asOf <= Manifest(b).authority.generated + Day
<1> DEFINE a == Manifest(b).authority
<1>1. /\ a.mustNot = ProhibitedClaims
      /\ a.generated \in Nat /\ a.validUntil \in Nat
      /\ a.validUntil - a.generated <= Day
  BY DEF AuthorityContract, ValidInternal, Contract, WindowOk
<1> HIDE DEF a
<1>2. /\ a.source.logSha = ctx.source.logSha
      /\ Within(ctx.asOf, a)
      /\ claim \notin a.mustNot
  <2>1. EvaluateClaim(a, claim, ctx) = "AUTHORIZED"
    BY DEF a
  <2> QED BY <2>1 DEF EvaluateClaim
<1>3. a.generated <= ctx.asOf /\ ctx.asOf <= a.generated + Day
  BY <1>1, <1>2, DayAssumption DEF Within
<1> QED BY <1>1, <1>2, <1>3 DEF a

----------------------------------------------------------------------------
(***************************************************************************)
(* The inductive invariant: a verdict is about the archive there is, and   *)
(* the archive that was shipped passed under the policy.                   *)
(***************************************************************************)
VerdictIsCurrent ==
  /\ stage \in {"again", "shipped", "checked"} /\ verdict = "PASS" =>
       Overall(bundle, policy, "Final") = "PASS"
  /\ stage \in {"shipped", "edited", "checked"} =>
       Overall(shipped, policy, "Final") = "PASS"
  /\ stage = "shipped" => shipped = bundle

ReviewInv == ReviewTypeOK /\ VerdictIsCurrent

LEMMA ReviewInit == Init => ReviewInv
<1> SUFFICES ASSUME Init PROVE ReviewInv
  OBVIOUS
<1>1. stage = "inputs" /\ verdict = "none" /\ changes = 0 /\ shipped = None
  BY DEF Init
<1>2. via \in {"manager", "gate_runner"} /\ policy \in PolicyModes
  BY ReviewAssumption DEF Init, PolicyModes
<1>3. ReviewTypeOK
  BY <1>1, <1>2, ReviewAssumption DEF ReviewTypeOK, Stages, Verdicts
<1>4. VerdictIsCurrent
  BY <1>1 DEF VerdictIsCurrent
<1> QED BY <1>3, <1>4 DEF ReviewInv

LEMMA ReviewStep == ReviewInv /\ [Next]_vars => ReviewInv'
<1> SUFFICES ASSUME ReviewInv, [Next]_vars PROVE ReviewInv'
  OBVIOUS
<1>0. /\ ReviewTypeOK
      /\ VerdictIsCurrent
  BY DEF ReviewInv
<1>1. CASE Vary
  <2>1. /\ stage = "inputs" /\ stage' = stage /\ shipped' = shipped
        /\ verdict' = verdict /\ via' = via /\ policy' = policy
        /\ changes < MaxChanges /\ changes' = changes + 1
    BY <1>1 DEF Vary, request
  <2>2. ReviewTypeOK'
    BY <1>0, <2>1, ReviewAssumption DEF ReviewTypeOK
  <2>3. VerdictIsCurrent'
    BY <1>0, <2>1 DEF VerdictIsCurrent
  <2> QED BY <2>2, <2>3 DEF ReviewInv
<1>2. CASE Evaluate \/ Materialize \/ Decide
  <2>1. /\ stage \in {"inputs", "evaluated", "reported"}
        /\ stage' \in {"evaluated", "reported", "permitted", "blocked"}
        /\ shipped' = shipped /\ verdict' = verdict /\ via' = via
        /\ policy' = policy /\ changes' = changes
    BY <1>2 DEF Evaluate, Materialize, Decide, request
  <2>2. ReviewTypeOK'
    BY <1>0, <2>1 DEF ReviewTypeOK, Stages
  <2>3. VerdictIsCurrent'
    BY <1>0, <2>1 DEF VerdictIsCurrent
  <2> QED BY <2>2, <2>3 DEF ReviewInv
<1>3. CASE Rebuild
  <2>1. /\ stage \in {"permitted", "again"} /\ stage' \in {"built", "rebuilt"}
        /\ shipped' = shipped /\ verdict' = "none" /\ via' = via
        /\ policy' = policy /\ changes' = changes
    BY <1>3 DEF Rebuild, request
  <2>2. ReviewTypeOK'
    BY <1>0, <2>1 DEF ReviewTypeOK, Stages, Verdicts
  <2>3. VerdictIsCurrent'
    BY <2>1 DEF VerdictIsCurrent
  <2> QED BY <2>2, <2>3 DEF ReviewInv
<1>4. CASE Validate
  <2>1. /\ stage \in {"built", "rebuilt"}
        /\ stage' \in {"rejected", "again", "shipped"}
        /\ verdict' = Overall(bundle, policy, "Final")
        /\ stage' # "rejected" => verdict' = "PASS"
        /\ shipped' = IF stage' = "shipped" THEN bundle ELSE shipped
        /\ bundle' = bundle /\ via' = via /\ policy' = policy /\ changes' = changes
    BY <1>4 DEF Validate, request
  <2>2. verdict' \in {"PASS", "FAIL", "LEGACY_UNVERIFIABLE"}
    BY <2>1, Verdict
  <2>3. ReviewTypeOK'
    BY <1>0, <2>1, <2>2 DEF ReviewTypeOK, Stages, Verdicts
  <2>4. VerdictIsCurrent'
    BY <2>1 DEF VerdictIsCurrent
  <2> QED BY <2>3, <2>4 DEF ReviewInv
<1>5. CASE Edit
  <2>1. /\ stage \in {"shipped", "checked"} /\ stage' = "edited"
        /\ shipped' = shipped /\ verdict' = "none" /\ via' = via
        /\ policy' = policy /\ changes < MaxChanges /\ changes' = changes + 1
    BY <1>5 DEF Edit, request
  <2>2. ReviewTypeOK'
    BY <1>0, <2>1, ReviewAssumption DEF ReviewTypeOK, Stages, Verdicts
  <2>3. VerdictIsCurrent'
    BY <1>0, <2>1 DEF VerdictIsCurrent
  <2> QED BY <2>2, <2>3 DEF ReviewInv
<1>6. CASE Recheck
  <2>1. /\ stage = "edited" /\ stage' = "checked"
        /\ verdict' = Overall(bundle, policy, "Final") /\ bundle' = bundle
        /\ shipped' = shipped /\ via' = via /\ policy' = policy
        /\ changes' = changes
    BY <1>6 DEF Recheck, request
  <2>2. verdict' \in {"PASS", "FAIL", "LEGACY_UNVERIFIABLE"}
    BY <2>1, Verdict
  <2>3. ReviewTypeOK'
    BY <1>0, <2>1, <2>2 DEF ReviewTypeOK, Stages, Verdicts
  <2>4. VerdictIsCurrent'
    BY <1>0, <2>1 DEF VerdictIsCurrent
  <2> QED BY <2>3, <2>4 DEF ReviewInv
<1>7. CASE UNCHANGED vars
  <2>1. /\ stage' = stage /\ shipped' = shipped /\ verdict' = verdict
        /\ via' = via /\ policy' = policy /\ bundle' = bundle
        /\ changes' = changes
    BY <1>7 DEF vars, request
  <2>2. ReviewTypeOK' /\ VerdictIsCurrent'
    BY <1>0, <2>1 DEF ReviewTypeOK, VerdictIsCurrent
  <2> QED BY <2>2 DEF ReviewInv
<1> QED BY <1>1, <1>2, <1>3, <1>4, <1>5, <1>6, <1>7 DEF Next

LEMMA ReviewInvariant == Spec => []ReviewInv
BY ReviewInit, ReviewStep, PTL DEF Spec

----------------------------------------------------------------------------
(***************************************************************************)
(* The theorems.                                                           *)
(***************************************************************************)
\* The variables have their types, and nothing is handed over that has not
\* passed its last validation.
THEOREM ReviewTypes == Spec => []ReviewTypeOK
<1>1. ReviewInv => ReviewTypeOK
  BY DEF ReviewInv
<1> QED BY <1>1, ReviewInvariant, PTL

\* Whatever is in a bundle, if it passes then its report is one of exactly the
\* gates of the policy, of which no blocker failed, and its manifest agrees.
THEOREM ReportCarried == Spec => []PassCarriesReport
<1>1. ReviewInv => PassCarriesReport
  <2> SUFFICES ASSUME ReviewInv, Validated
               PROVE  LET r == bundle.content["eval_report.json"] IN
                 /\ {r.gates[i].gate : i \in DOMAIN r.gates} = GatesOf(policy)
                 /\ \A i \in DOMAIN r.gates :
                      r.gates[i].status = "FAIL" =>
                        RegistrySeverity(r.gates[i].gate) # "BLOCKER"
                 /\ Manifest(bundle).gate_status = r.overall
    BY DEF PassCarriesReport
  <2>1. Overall(bundle, policy, "Final") = "PASS"
    BY DEF ReviewInv, VerdictIsCurrent, Validated
  <2>2. EvalReportCheck(bundle, policy)
    BY <2>1, PassMeans
  <2>3. ReportAccepted(bundle.content["eval_report.json"],
                       Manifest(bundle).gate_status, policy, Info(bundle).pack_id)
    BY <2>2 DEF EvalReportCheck
  <2> QED BY <2>3, AcceptedReport
<1> QED BY <1>1, ReviewInvariant, PTL

\* A changed archive that passes has another authority or another table of
\* hashes than the one shipped, or the same log and the same files of the table.
THEOREM EditsDetected == Spec => []EditDetected
<1>1. ReviewInv => EditDetected
  <2> SUFFICES ASSUME ReviewInv, stage = "checked", verdict = "PASS",
                      Manifest(bundle).authority = Manifest(shipped).authority,
                      bundle.content["artifact_hashes.csv"]
                        = shipped.content["artifact_hashes.csv"]
               PROVE  LET rows == shipped.content["artifact_hashes.csv"] IN
                 /\ AuditLines(bundle) = AuditLines(shipped)
                 /\ \A n \in DOMAIN rows : rows[n].path # "" =>
                      /\ rows[n].path \in Paths(bundle)
                      /\ bundle.content[rows[n].path] = shipped.content[rows[n].path]
    BY DEF EditDetected
  <2> DEFINE rows == shipped.content["artifact_hashes.csv"]
  <2>1. /\ AuthorityContract(bundle) /\ ArtifactHashes(bundle)
        /\ AuthorityContract(shipped) /\ ArtifactHashes(shipped)
    BY PassMeans DEF ReviewInv, VerdictIsCurrent
  <2>2. AuditLines(bundle) = AuditLines(shipped)
    BY <2>1, LogIsBound
  <2>3. ASSUME NEW n \in DOMAIN rows, rows[n].path # ""
        PROVE  /\ rows[n].path \in Paths(bundle)
               /\ bundle.content[rows[n].path] = shipped.content[rows[n].path]
    <3>1. RowHolds(bundle, rows[n]) /\ RowHolds(shipped, rows[n])
      BY <2>1 DEF ArtifactHashes
    <3>2. /\ rows[n].path \in Paths(bundle)
          /\ Sha(bundle.content[rows[n].path]) = rows[n].sha
          /\ Sha(shipped.content[rows[n].path]) = rows[n].sha
      BY <2>3, <3>1 DEF RowHolds
    <3> QED BY <3>2, ShaInjective
  <2> QED BY <2>2, <2>3
<1> QED BY <1>1, ReviewInvariant, PTL

\* A claim that is authorized in the context of the shipped bundle is a
\* permitted one, rests on the log that was shipped, and is made in time.
THEOREM AuthorizedAsShipped == Spec => []AuthorizedMeansShipped
<1>1. ReviewInv => AuthorizedMeansShipped
  <2> SUFFICES ASSUME ReviewInv, stage \in {"shipped", "checked"}, verdict = "PASS",
                      NEW claim \in Claims,
                      NEW t \in Manifest(shipped).authority.generated - 1 ..
                                Manifest(shipped).authority.validUntil + 2,
                      EvaluateClaim(Manifest(bundle).authority, claim,
                        [case |-> Manifest(shipped).authority.case,
                         source |-> Manifest(shipped).authority.source, asOf |-> t,
                         credentials |-> FALSE, tool |-> ""]) = "AUTHORIZED"
               PROVE  /\ claim \notin ProhibitedClaims
                      /\ AuditLines(bundle) = AuditLines(shipped)
                      /\ Manifest(bundle).authority.generated <= t
                      /\ t <= Manifest(bundle).authority.generated + Day
    BY DEF AuthorizedMeansShipped
  <2> DEFINE a == Manifest(bundle).authority
             s == Manifest(shipped).authority
  <2>1. AuthorityContract(bundle) /\ AuthorityContract(shipped)
    BY PassMeans DEF ReviewInv, VerdictIsCurrent
  <2>2. /\ claim \notin ProhibitedClaims
        /\ a.source.logSha = s.source.logSha
        /\ a.generated <= t /\ t <= a.generated + Day
    <3> DEFINE ctx == [case |-> s.case, source |-> s.source, asOf |-> t,
                       credentials |-> FALSE, tool |-> ""]
    <3>2. t \in Int
      BY <2>1, Instants
    <3>3. /\ ctx.asOf = t /\ ctx.source = s.source
          /\ EvaluateClaim(a, claim, ctx) = "AUTHORIZED"
      OBVIOUS
    <3> HIDE DEF ctx, s
    <3> QED BY Authorized, <2>1, <3>2, <3>3
  <2>3. AuditLines(bundle) = AuditLines(shipped)
    BY <2>1, <2>2, LogIsBound
  <2> QED BY <2>2, <2>3
<1> QED BY <1>1, ReviewInvariant, PTL

----------------------------------------------------------------------------
(***************************************************************************)
(* The shape of the inputs, whatever varies in them.                       *)
(***************************************************************************)
\* The files that an export itself writes anew.
Renewed == {"audit_log.ndjson", "eval_report.json", "run_manifest.json"}

ManifestFields == {"run_id", "vault_id", "authority", "digests", "calls",
                   "gate_status"}
AuthorityFields == {"schema", "case", "requested", "observed", "origin",
  "productionEquivalent", "generated", "validUntil", "source", "allowedEffects",
  "observedEffects", "credentials", "tools", "cache", "reused", "may", "mustNot",
  "limitations"}
SourceFields == {"producer", "revision", "executable", "executableSha",
  "argumentsSha", "environmentSha", "logSha"}

AuthorityTyped(a) == DOMAIN a = AuthorityFields /\ DOMAIN a.source = SourceFields
RunManifestTyped(m) == DOMAIN m = ManifestFields /\ AuthorityTyped(m.authority)

ContentTyped(c, pack) ==
  /\ TopPaths \subseteq DOMAIN c
  /\ RunManifestTyped(c["run_manifest.json"])
  /\ "pack_id" \in DOMAIN c["BUNDLE_INFO.json"]
  /\ c["BUNDLE_INFO.json"].pack_id = pack

InputsTyped(i) == DOMAIN i = {"pack", "content"} /\ ContentTyped(i.content, i.pack)

EventTyped(e) == {"type", "run", "vault"} \subseteq DOMAIN e
LogTyped(l) == \E S : l \in Seq(S) /\ \A e \in S : EventTyped(e)

LEMMA PutTyped ==
  ASSUME NEW c, NEW pack, ContentTyped(c, pack), NEW p, NEW v,
         p = "run_manifest.json" => RunManifestTyped(v),
         p = "BUNDLE_INFO.json" => "pack_id" \in DOMAIN v /\ v.pack_id = pack
  PROVE  ContentTyped(Put(c, p, v), pack)
<1>1. DOMAIN Put(c, p, v) = DOMAIN c
  BY DEF Put
<1>2. \A q \in DOMAIN c : Put(c, p, v)[q] = IF q = p THEN v ELSE c[q]
  BY DEF Put
<1>3. {"run_manifest.json", "BUNDLE_INFO.json"} \subseteq DOMAIN c
  BY DEF ContentTyped, TopPaths
<1> QED BY <1>1, <1>2, <1>3 DEF ContentTyped

LEMMA InputsOfCallers ==
  ASSUME NEW pack, NEW run, NEW origin, NEW case, NEW producer, NEW from, NEW until,
         NEW events, NEW artifact, NEW encryption, NEW files
  PROVE  LET i == BundleInputs(pack, run,
                    ControlledManifest(origin, case, producer, from, until),
                    events, artifact, encryption, files) IN
         InputsTyped(i) /\ i.content["audit_log.ndjson"] = Chain(events)
<1> DEFINE a == ControlledManifest(origin, case, producer, from, until)
           own == OwnFiles(pack, run, a, events, artifact, encryption, files)
           c == [p \in DOMAIN own \union DOMAIN files |->
                   IF p \in DOMAIN own THEN own[p] ELSE files[p]]
           i == BundleInputs(pack, run, a, events, artifact, encryption, files)
<1>1. i = [pack |-> pack, content |-> c]
  BY DEF BundleInputs
<1>2. AuthorityTyped(a)
  BY DEF AuthorityTyped, AuthorityFields, SourceFields, ControlledManifest
<1> HIDE DEF a
<1>3. /\ DOMAIN own = TopPaths \union SnapshotPaths
      /\ own["audit_log.ndjson"] = Chain(events)
      /\ own["run_manifest.json"] =
           [run_id |-> run, vault_id |-> "vault", authority |-> a,
            digests |-> {Sha(artifact.artifact_id)}, calls |-> {},
            gate_status |-> "PASS"]
      /\ own["BUNDLE_INFO.json"] =
           [bundle_version |-> <<1, 1, 0>>, run_manifest |-> "RUN_MANIFEST_V2",
            pack_id |-> pack, run_id |-> run]
  BY DEF OwnFiles, TopPaths
<1> HIDE DEF own
<1>4. /\ TopPaths \subseteq DOMAIN c
      /\ \A p \in TopPaths : c[p] = own[p]
  BY <1>3
<1>5. {"audit_log.ndjson", "run_manifest.json", "BUNDLE_INFO.json"} \subseteq TopPaths
  BY DEF TopPaths
<1> HIDE DEF c
<1>6. RunManifestTyped(c["run_manifest.json"])
  BY <1>2, <1>3, <1>4, <1>5 DEF RunManifestTyped, ManifestFields
<1>7. "pack_id" \in DOMAIN c["BUNDLE_INFO.json"] /\ c["BUNDLE_INFO.json"].pack_id = pack
  BY <1>3, <1>4, <1>5
<1>8. ContentTyped(c, pack)
  BY <1>4, <1>6, <1>7 DEF ContentTyped
<1>9. /\ DOMAIN i = {"pack", "content"} /\ i.pack = pack /\ i.content = c
      /\ c["audit_log.ndjson"] = Chain(events)
  BY <1>1, <1>3, <1>4, <1>5
<1> QED BY <1>8, <1>9 DEF InputsTyped, a

\* No variant loses what a caller always fills in.
LEMMA VariantsTyped ==
  ASSUME NEW c, NEW pack, ContentTyped(c, pack), NEW d \in InputVariants(c)
  PROVE  ContentTyped(d, pack)
<1> DEFINE m == c["run_manifest.json"]
           info == c["BUNDLE_INFO.json"]
<1>1. ASSUME NEW v \in ContentVariants(c)
      PROVE  ContentTyped(Put(c, v[1], v[2]), pack)
  <2>1. /\ v[1] = "run_manifest.json" => RunManifestTyped(v[2])
        /\ v[1] = "BUNDLE_INFO.json" => "pack_id" \in DOMAIN v[2] /\ v[2].pack_id = pack
    <3>1. CASE v[1] \notin {"run_manifest.json", "BUNDLE_INFO.json"}
      BY <3>1
    <3>2. CASE v[1] = "BUNDLE_INFO.json"
      <4>1. \/ v[2] = [info EXCEPT !.bundle_version = <<1, 0, 0>>]
            \/ v[2] = [info EXCEPT !.run_id = "other"]
        BY <3>2 DEF ContentVariants
      <4>2. "pack_id" \in DOMAIN info /\ info.pack_id = pack
        BY DEF ContentTyped
      <4> HIDE DEF info
      <4>3. "pack_id" \in DOMAIN v[2] /\ v[2].pack_id = pack
        BY <4>1, <4>2
      <4> QED BY <3>2, <4>3
    <3>3. CASE v[1] = "run_manifest.json"
      <4>1. \/ v[2] = [m EXCEPT !.authority.validUntil = @ + 1]
            \/ v[2] = [m EXCEPT !.authority.origin = "LIVE"]
            \/ v[2] = [m EXCEPT !.authority.may = Claims]
        BY <3>3 DEF ContentVariants
      <4>2. RunManifestTyped(m)
        BY DEF ContentTyped
      <4> HIDE DEF m
      <4>3. RunManifestTyped(v[2])
        BY <4>1, <4>2 DEF RunManifestTyped, AuthorityTyped, ManifestFields, AuthorityFields
      <4> QED BY <3>3, <4>3
    <3> QED BY <3>1, <3>2, <3>3
  <2> QED BY <2>1, PutTyped
<1>2. ASSUME NEW model, NEW endpoints, NEW calls
      PROVE  ContentTyped(WithModel(c, model, endpoints, calls), pack)
  <2>1. RunManifestTyped([m EXCEPT !.calls = calls])
    BY DEF ContentTyped, RunManifestTyped, ManifestFields
  <2> DEFINE n == [c["network_snapshot.json"] EXCEPT !.adapter_endpoints = endpoints]
             c1 == Put(c, "model_snapshot.json", model)
             c2 == Put(c1, "network_snapshot.json", n)
  <2>2. WithModel(c, model, endpoints, calls)
          = Put(c2, "run_manifest.json", [m EXCEPT !.calls = calls])
    BY DEF WithModel
  <2> HIDE DEF n
  <2>3. ContentTyped(c1, pack) BY PutTyped
  <2> HIDE DEF c1
  <2>4. ContentTyped(c2, pack) BY <2>3, PutTyped
  <2> HIDE DEF c2
  <2> QED BY <2>1, <2>2, <2>4, PutTyped
<1>3. ASSUME NEW lines
      PROVE  ContentTyped(Put(c, "audit_log.ndjson", lines), pack)
  BY PutTyped
<1>4. ASSUME NEW p \in {"citations_map.json", "evidence_index.csv",
                        "evidence_mapping_review.json"}
      PROVE  ContentTyped(Without(c, p), pack)
  <2>1. /\ p \notin TopPaths
        /\ {"run_manifest.json", "BUNDLE_INFO.json"} \subseteq TopPaths
    BY <1>4 DEF TopPaths
  <2>2. /\ DOMAIN Without(c, p) = DOMAIN c \ {p}
        /\ \A q \in DOMAIN c \ {p} : Without(c, p)[q] = c[q]
    BY DEF Without, Keep
  <2> QED BY <2>1, <2>2 DEF ContentTyped
<1>5. \A e \in ModelVariants(c) : ContentTyped(e, pack)
  BY <1>2 DEF ModelVariants
<1> QED BY <1>1, <1>3, <1>4, <1>5 DEF InputVariants


----------------------------------------------------------------------------
(***************************************************************************)
(* Logs: chains of events, and what the checks read of them.               *)
(***************************************************************************)
\* The records of an export add events of these types, of its own run.
RecordTypes == {"EXPORT_REQUESTED", "RUN_STATE_CHANGED", "EVAL_STARTED",
  "EVAL_GATE_RESULT", "EVAL_COMPLETED", "BUNDLE_GENERATION_STARTED",
  "BUNDLE_GENERATION_COMPLETED", "BUNDLE_VALIDATION_STARTED",
  "BUNDLE_VALIDATION_RESULT"}
ExportEvents(run) == {Event(type, run) : type \in RecordTypes}

EventsIn(l) == {l[n] : n \in DOMAIN l}

\* The lines are all events, the log has them, and what else it has are
\* records of the export.
LogGrown(lines, l, run) ==
  /\ \A n \in DOMAIN lines : "event" \in DOMAIN lines[n]
  /\ \A n \in DOMAIN lines : lines[n].event \in EventsIn(l)
  /\ \A e \in EventsIn(l) :
       e \in ExportEvents(run) \/ \E n \in DOMAIN lines : lines[n].event = e

LEMMA ChainLines ==
  ASSUME NEW l, LogTyped(l)
  PROVE  /\ DOMAIN Chain(l) = DOMAIN l
         /\ \A n \in DOMAIN l :
              /\ DOMAIN Chain(l)[n] = {"prev", "event", "hash"}
              /\ Chain(l)[n].event = l[n] /\ EventTyped(l[n])
<1>1. PICK S : l \in Seq(S) /\ \A e \in S : EventTyped(e)
  BY DEF LogTyped
<1>2. \A n \in DOMAIN l : l[n] \in S
  BY <1>1, LenProperties, ElementOfSeq
<1> QED BY <1>1, <1>2 DEF Chain

\* A chain is one: each line is linked to the line before it.
LEMMA ChainIsLinked ==
  ASSUME NEW l, LogTyped(l), NEW n \in DOMAIN l
  PROVE  /\ Chain(l)[n].prev = IF n = 1 THEN << >> ELSE Chain(l)[n - 1].hash
         /\ Chain(l)[n].hash = Append(Chain(l)[n].prev, Chain(l)[n].event)
<1>1. PICK S : l \in Seq(S)
  BY DEF LogTyped
<1>2. n \in 1..Len(l) /\ Len(l) \in Nat /\ DOMAIN l = 1..Len(l)
  BY <1>1, LenProperties
<1>3. \A k \in 1..Len(l) : l[k] \in S
  BY <1>1, ElementOfSeq
<1>4. /\ Chain(l)[n].prev = SubSeq(l, 1, n - 1)
      /\ Chain(l)[n].hash = SubSeq(l, 1, n)
      /\ Chain(l)[n].event = l[n]
  BY DEF Chain
<1>5. n = 1 => SubSeq(l, 1, n - 1) = << >>
  <2>1. n - 1 \in Int /\ (n = 1 => n - 1 < 1)
    BY <1>2
  <2> QED BY <2>1, SubSeqEmpty
<1>6. n # 1 => Chain(l)[n - 1].hash = SubSeq(l, 1, n - 1)
  <2>1. n # 1 => n - 1 \in DOMAIN l
    BY <1>2
  <2> QED BY <2>1 DEF Chain
<1>7. SubSeq(l, 1, n) = Append(SubSeq(l, 1, n - 1), l[n])
  <2> DEFINE s == SubSeq(l, 1, n - 1)
             t == SubSeq(l, 1, n)
  <2>1. /\ s \in Seq(S) /\ Len(s) = n - 1
        /\ \A k \in 1..n - 1 : s[k] = l[k]
    <3>1. \A k \in 1..n - 1 : l[k] \in S
      BY <1>2, <1>3
    <3> QED BY <1>2, <3>1, SubSeqProperties
  <2>2. /\ t \in Seq(S) /\ Len(t) = n
        /\ \A k \in 1..n : t[k] = l[k]
    <3>1. \A k \in 1..n : l[k] \in S
      BY <1>2, <1>3
    <3> QED BY <1>2, <3>1, SubSeqProperties
  <2> HIDE DEF s, t
  <2> DEFINE a == Append(s, l[n])
  <2>3. /\ a \in Seq(S) /\ Len(a) = n
        /\ \A k \in 1..n - 1 : a[k] = l[k]
        /\ a[n] = l[n]
    BY <1>2, <1>3, <2>1, AppendProperties
  <2> HIDE DEF a
  <2>4. \A k \in 1..n : t[k] = a[k]
    BY <1>2, <2>2, <2>3
  <2>5. t = a
    BY <2>2, <2>3, <2>4, SeqEqual
  <2> QED BY <2>5 DEF s, t, a
<1> QED BY <1>4, <1>5, <1>6, <1>7

\* A log that a caller puts together of events is the one its chain holds.
LEMMA LogOfLines ==
  ASSUME NEW l, LogTyped(l)
  PROVE  EventsOf(Chain(l)) = l
<1>1. PICK S : l \in Seq(S)
  BY DEF LogTyped
<1>2. l = [n \in DOMAIN l |-> l[n]]
  BY <1>1, LenProperties
<1>3. DOMAIN Chain(l) = DOMAIN l /\ \A n \in DOMAIN l : Chain(l)[n].event = l[n]
  BY ChainLines
<1> QED BY <1>2, <1>3 DEF EventsOf

LEMMA AppendTyped ==
  ASSUME NEW l, LogTyped(l), NEW e, EventTyped(e)
  PROVE  LogTyped(Append(l, e))
<1>1. PICK S : l \in Seq(S) /\ \A x \in S : EventTyped(x)
  BY DEF LogTyped
<1> DEFINE T == S \union {e}
<1>2. l \in Seq(T)
  <2>1. Seq(S) \subseteq Seq(T)
    OBVIOUS
  <2> QED BY <1>1, <2>1
<1>3. Append(l, e) \in Seq(T)
  BY <1>2, AppendProperties
<1> QED BY <1>1, <1>3 DEF LogTyped

\* The records make the log longer.
LEMMA RecordsGrow ==
  ASSUME NEW l, LogTyped(l), NEW run
  PROVE  /\ LogTyped(l \o Records(run))
         /\ EventsIn(l) \subseteq EventsIn(l \o Records(run))
         /\ EventsIn(l \o Records(run)) \subseteq EventsIn(l) \union ExportEvents(run)
<1>1. PICK S : l \in Seq(S) /\ \A x \in S : EventTyped(x)
  BY DEF LogTyped
<1> DEFINE T == S \union ExportEvents(run)
           r == Records(run)
<1>2. \A e \in T : EventTyped(e)
  BY <1>1 DEF EventTyped, ExportEvents, Event
<1>3. l \in Seq(T)
  <2>1. Seq(S) \subseteq Seq(T)
    OBVIOUS
  <2> QED BY <1>1, <2>1
<1>4. r \in Seq(ExportEvents(run))
  <2> DEFINE first == <<"EXPORT_REQUESTED", "RUN_STATE_CHANGED", "EVAL_STARTED",
               "EVAL_GATE_RESULT", "EVAL_COMPLETED", "RUN_STATE_CHANGED",
               "BUNDLE_GENERATION_STARTED">>
             second == <<"BUNDLE_GENERATION_COMPLETED", "BUNDLE_VALIDATION_STARTED",
               "BUNDLE_VALIDATION_RESULT">>
             types == IF via = "gate_runner" THEN << >>
                      ELSE IF stage = "permitted" THEN first ELSE second
  <2>1. types \in Seq(RecordTypes) /\ r = [n \in DOMAIN types |-> Event(types[n], run)]
    <3>1. first \in Seq(RecordTypes)
      BY DEF RecordTypes
    <3>2. second \in Seq(RecordTypes)
      BY DEF RecordTypes
    <3>3. << >> \in Seq(RecordTypes)
      BY EmptySeq
    <3>4. r = [n \in DOMAIN types |-> Event(types[n], run)]
      BY DEF Records
    <3> QED BY <3>1, <3>2, <3>3, <3>4
  <2> HIDE DEF types
  <2>2. DOMAIN types = 1..Len(types) /\ Len(types) \in Nat
    BY <2>1, LenProperties
  <2>3. \A n \in 1..Len(types) : Event(types[n], run) \in ExportEvents(run)
    BY <2>1, ElementOfSeq DEF ExportEvents
  <2> QED BY <2>1, <2>2, <2>3
<1>5. r \in Seq(T)
  <2>1. Seq(ExportEvents(run)) \subseteq Seq(T)
    OBVIOUS
  <2> QED BY <1>4, <2>1
<1> HIDE DEF T
<1>6. /\ l \o r \in Seq(T) /\ Len(l \o r) = Len(l) + Len(r)
      /\ \A i \in 1..Len(l) + Len(r) :
           (l \o r)[i] = IF i <= Len(l) THEN l[i] ELSE r[i - Len(l)]
  BY <1>3, <1>5, ConcatProperties
<1>7. /\ DOMAIN l = 1..Len(l) /\ Len(l) \in Nat
      /\ DOMAIN r = 1..Len(r) /\ Len(r) \in Nat
      /\ DOMAIN (l \o r) = 1..Len(l) + Len(r)
      /\ \A n \in 1..Len(r) : r[n] \in ExportEvents(run)
  BY <1>3, <1>4, <1>5, <1>6, LenProperties, ElementOfSeq
<1> HIDE DEF r
<1>8. LogTyped(l \o r)
  BY <1>2, <1>6 DEF LogTyped
<1>9. ASSUME NEW n \in DOMAIN l PROVE l[n] \in EventsIn(l \o r)
  BY <1>6, <1>7 DEF EventsIn
<1>10. ASSUME NEW n \in DOMAIN (l \o r)
       PROVE  (l \o r)[n] \in EventsIn(l) \union ExportEvents(run)
  <2>1. CASE n <= Len(l)
    BY <1>6, <1>7, <2>1 DEF EventsIn
  <2>2. CASE n > Len(l)
    <3>1. n - Len(l) \in 1..Len(r)
      BY <1>7, <2>2
    <3> QED BY <1>6, <1>7, <2>2, <3>1
  <2> QED BY <1>7, <2>1, <2>2
<1> QED BY <1>8, <1>9, <1>10 DEF EventsIn, r

LEMMA ChainGrown ==
  ASSUME NEW l, LogTyped(l), NEW run
  PROVE  LogGrown(Chain(l), l, run)
BY ChainLines DEF LogGrown, EventsIn

LEMMA GrownFurther ==
  ASSUME NEW lines, NEW l, NEW k, NEW run, LogGrown(lines, l, run),
         EventsIn(l) \subseteq EventsIn(k),
         EventsIn(k) \subseteq EventsIn(l) \union ExportEvents(run)
  PROVE  LogGrown(lines, k, run)
BY DEF LogGrown

----------------------------------------------------------------------------
(***************************************************************************)
(* Archives that differ in the files an export writes anew, and no more.   *)
(***************************************************************************)
\* Authorities that are bound to different logs.
SameButLog(a, b) ==
  /\ \A f \in AuthorityFields \ {"source"} : a[f] = b[f]
  /\ \A f \in SourceFields \ {"logSha"} : a.source[f] = b.source[f]

SameRun(m, n) ==
  /\ \A f \in ManifestFields \ {"authority", "gate_status"} : m[f] = n[f]
  /\ SameButLog(m.authority, n.authority)

Alike(b, d) ==
  /\ d.entries = b.entries /\ d.comment = b.comment /\ d.unreadable = b.unreadable
  /\ \A p \in Paths(b) \ Renewed : d.content[p] = b.content[p]
  /\ RunManifestTyped(Manifest(b)) /\ RunManifestTyped(Manifest(d))
  /\ SameRun(Manifest(b), Manifest(d))

LEMMA AlikeTrans ==
  ASSUME NEW b, NEW c, NEW d, Alike(b, c), Alike(c, d)
  PROVE  Alike(b, d)
<1>1. Paths(c) = Paths(b)
  BY DEF Alike, Paths
<1>2. SameRun(Manifest(b), Manifest(d))
  BY DEF Alike, SameRun, SameButLog
<1> QED BY <1>1, <1>2 DEF Alike

LEMMA BindLogTyped ==
  ASSUME NEW a, AuthorityTyped(a), NEW lines
  PROVE  /\ AuthorityTyped(BindLog(a, lines))
         /\ SameButLog(a, BindLog(a, lines))
         /\ BindLog(a, lines).source.logSha = Sha(lines)
<1> DEFINE b == BindLog(a, lines)
           s == [a.source EXCEPT !.logSha = Sha(lines)]
<1>1. b = [a EXCEPT !.source = s]
  BY DEF BindLog
<1>2. /\ DOMAIN s = SourceFields /\ s.logSha = Sha(lines)
      /\ \A f \in SourceFields \ {"logSha"} : s[f] = a.source[f]
  BY DEF AuthorityTyped, SourceFields
<1> HIDE DEF s
<1>3. /\ DOMAIN b = AuthorityFields /\ b.source = s
      /\ \A f \in AuthorityFields \ {"source"} : b[f] = a[f]
  BY <1>1 DEF AuthorityTyped, AuthorityFields
<1> HIDE DEF b
<1>4. AuthorityTyped(b) /\ SameButLog(a, b) /\ b.source.logSha = Sha(lines)
  BY <1>2, <1>3 DEF AuthorityTyped, SameButLog
<1> QED BY <1>4 DEF b

\* What the builder makes of the inputs.
LEMMA BuildMakes ==
  ASSUME NEW i, InputsTyped(i)
  PROVE  LET b == Build(i)
             m == i.content["run_manifest.json"] IN
         /\ b.entries = Listing(DOMAIN i.content)
         /\ b.comment = FALSE /\ b.unreadable = {}
         /\ DOMAIN b.content = DOMAIN i.content
         /\ \A p \in DOMAIN i.content \ {"run_manifest.json"} :
              b.content[p] = i.content[p]
         /\ RunManifestTyped(Manifest(b)) /\ SameRun(m, Manifest(b))
         /\ Manifest(b).gate_status = m.gate_status
         /\ Manifest(b).authority.source.logSha = Sha(i.content["audit_log.ndjson"])
<1> DEFINE b == Build(i)
           c == i.content
           m == c["run_manifest.json"]
           a == BindLog(m.authority, c["audit_log.ndjson"])
           n == [m EXCEPT !.authority = a]
<1>1. /\ "run_manifest.json" \in DOMAIN c /\ RunManifestTyped(m)
  BY DEF InputsTyped, ContentTyped, TopPaths
<1>2. /\ AuthorityTyped(a) /\ SameButLog(m.authority, a)
      /\ a.source.logSha = Sha(c["audit_log.ndjson"])
  BY <1>1, BindLogTyped DEF RunManifestTyped
<1>3. /\ b.entries = Listing(DOMAIN c) /\ b.comment = FALSE /\ b.unreadable = {}
      /\ b.content = [c EXCEPT !["run_manifest.json"] = n]
  BY DEF Build
<1> HIDE DEF a, b
<1>4. /\ DOMAIN n = ManifestFields /\ n.authority = a
      /\ \A f \in ManifestFields \ {"authority"} : n[f] = m[f]
  BY <1>1 DEF RunManifestTyped, ManifestFields
<1> HIDE DEF n
<1>5. /\ DOMAIN b.content = DOMAIN c /\ Manifest(b) = n
      /\ \A p \in DOMAIN c \ {"run_manifest.json"} : b.content[p] = c[p]
  BY <1>1, <1>3 DEF Manifest
<1> HIDE DEF m, c
<1>6. /\ RunManifestTyped(n) /\ SameRun(m, n) /\ n.gate_status = m.gate_status
      /\ n.authority.source.logSha = Sha(c["audit_log.ndjson"])
  BY <1>2, <1>4 DEF RunManifestTyped, SameRun, ManifestFields
<1>7. /\ b.entries = Listing(DOMAIN c) /\ b.comment = FALSE /\ b.unreadable = {}
      /\ DOMAIN b.content = DOMAIN c
      /\ \A p \in DOMAIN c \ {"run_manifest.json"} : b.content[p] = c[p]
      /\ RunManifestTyped(Manifest(b)) /\ SameRun(m, Manifest(b))
      /\ Manifest(b).gate_status = m.gate_status
      /\ Manifest(b).authority.source.logSha = Sha(c["audit_log.ndjson"])
  BY <1>3, <1>5, <1>6
<1> QED BY <1>7 DEF b, c, m

\* An archive lists the files it was built of.
LEMMA BuiltPaths ==
  ASSUME NEW i, InputsTyped(i)
  PROVE  /\ Paths(Build(i)) \subseteq DOMAIN i.content
         /\ TopPaths \subseteq Paths(Build(i))
<1> DEFINE c == i.content
           N == {k \in DOMAIN PathOrder : PathOrder[k] \in DOMAIN c}
<1>1. /\ DOMAIN Build(i).entries = N
      /\ \A n \in N : Build(i).entries[n].path = PathOrder[n]
  <2> DEFINE es == Build(i).entries
  <2>1. es = Listing(DOMAIN c)
    BY BuildMakes
  <2> HIDE DEF es, c
  <2>2. DOMAIN es = N /\ \A n \in N : es[n].path = PathOrder[n]
    BY <2>1 DEF Listing
  <2> QED BY <2>2 DEF es
<1>2. Paths(Build(i)) \subseteq DOMAIN c
  BY <1>1 DEF Paths
<1>3. ASSUME NEW p \in TopPaths PROVE p \in Paths(Build(i))
  <2>1. \E n \in DOMAIN PathOrder : PathOrder[n] = p
    <3>1. /\ {1, 2, 3, 4, 20} \subseteq DOMAIN PathOrder
          /\ PathOrder[1] = "BUNDLE_INFO.json"
          /\ PathOrder[2] = "artifact_hashes.csv"
          /\ PathOrder[3] = "audit_log.ndjson"
          /\ PathOrder[4] = "eval_report.json"
          /\ PathOrder[20] = "run_manifest.json"
      BY DEF PathOrder
    <3> QED BY <3>1 DEF TopPaths
  <2>2. p \in DOMAIN c
    BY DEF InputsTyped, ContentTyped
  <2> QED BY <1>1, <2>1, <2>2 DEF Paths
<1> QED BY <1>2, <1>3

\* Inputs that agree but for the renewed files are built into archives alike.
LEMMA BuiltAlike ==
  ASSUME NEW i, InputsTyped(i), NEW j, InputsTyped(j),
         DOMAIN i.content = DOMAIN j.content,
         \A p \in DOMAIN i.content \ Renewed : i.content[p] = j.content[p],
         SameRun(i.content["run_manifest.json"], j.content["run_manifest.json"])
  PROVE  Alike(Build(i), Build(j))
<1> DEFINE b == Build(i)
           d == Build(j)
           m == i.content["run_manifest.json"]
           n == j.content["run_manifest.json"]
<1>1. /\ b.entries = Listing(DOMAIN i.content)
      /\ b.comment = FALSE /\ b.unreadable = {}
      /\ \A p \in DOMAIN i.content \ Renewed : b.content[p] = i.content[p]
      /\ RunManifestTyped(Manifest(b)) /\ SameRun(m, Manifest(b))
  BY BuildMakes DEF Renewed
<1>2. /\ d.entries = Listing(DOMAIN j.content)
      /\ d.comment = FALSE /\ d.unreadable = {}
      /\ \A p \in DOMAIN j.content \ Renewed : d.content[p] = j.content[p]
      /\ RunManifestTyped(Manifest(d)) /\ SameRun(n, Manifest(d))
  BY BuildMakes DEF Renewed
<1>3. Paths(b) \subseteq DOMAIN i.content
  BY BuiltPaths
<1> HIDE DEF b, d, m, n
<1>4. SameRun(m, n)
  BY DEF m, n
<1>5. SameRun(Manifest(b), Manifest(d))
  BY <1>1, <1>2, <1>4 DEF SameRun, SameButLog
<1>6. Alike(b, d)
  BY <1>1, <1>2, <1>3, <1>5 DEF Alike
<1> QED BY <1>6 DEF b, d

LEMMA SameRunRefl == ASSUME NEW m PROVE SameRun(m, m)
BY DEF SameRun, SameButLog

----------------------------------------------------------------------------
(***************************************************************************)
(* The inductive invariant behind what an evaluation says of the bundle:   *)
(* the results are those of the preflight archive, the archive that would  *)
(* be built now is alike, and one that was built carries the report of the *)
(* results and the log as it is.                                           *)
(***************************************************************************)
ResultsAreOfPreflight ==
  stage # "inputs" =>
    LET pre == preflight.archive IN
    /\ results = GateResults(pre, policy)
    /\ Alike(pre, Build(inputs))
    /\ preflight.current => LogGrown(AuditLines(pre), log, Manifest(pre).run_id)

ReportIsOfResults ==
  stage \notin {"inputs", "evaluated"} =>
    /\ ResultsAccepted(results, policy, inputs.pack)
    /\ report = ReportFromResults(results, policy)

BundleCarriesReport ==
  stage \in {"built", "again", "rebuilt", "rejected", "shipped"} =>
    LET c == inputs.content IN
    /\ bundle = Build(inputs)
    /\ c["audit_log.ndjson"] = Chain(log)
    /\ c["eval_report.json"] = report
    /\ c["run_manifest.json"].gate_status = report.overall

CarryInv ==
  /\ InputsTyped(inputs) /\ LogTyped(log)
  /\ ResultsAreOfPreflight
  /\ ReportIsOfResults
  /\ BundleCarriesReport

LEMMA EventsTyped ==
  /\ \A type, run : EventTyped(Event(type, run))
  /\ \A type, run, details : EventTyped(EventWith(type, run, details))
<1>1. \A type, run : EventTyped(Event(type, run))
  BY DEF EventTyped, Event
<1>2. ASSUME NEW type, NEW run, NEW details
      PROVE  EventTyped(EventWith(type, run, details))
  BY <1>1 DEF EventTyped, EventWith
<1> QED BY <1>1, <1>2

LEMMA CallersLog ==
  ASSUME NEW i, NEW events, LogTyped(events), InputsTyped(i),
         i.content["audit_log.ndjson"] = Chain(events)
  PROVE  LogTyped(EventsOf(i.content["audit_log.ndjson"]))
BY LogOfLines

LEMMA CarryInit == Init => CarryInv
<1> SUFFICES ASSUME Init PROVE CarryInv
  OBVIOUS
<1>1. \/ inputs = SelfAuditInputs
      \/ inputs = EvidenceOsInputs
      \/ \E d : inputs = DesktopInputs(d, 1)
  BY DEF Init
<1>2. InputsTyped(inputs)
        /\ \E events : LogTyped(events)
             /\ inputs.content["audit_log.ndjson"] = Chain(events)
  <2>1. CASE inputs = SelfAuditInputs
    <3> DEFINE a == EventWith("VAULT_ENCRYPTION_STATUS", "r_self",
                      [encrypted |-> TRUE, algorithm |-> "XCHACHA20_POLY1305",
                       key_storage |-> "FILE_FALLBACK"])
               b == Event("VAULT_KEY_ROTATED", "r_self")
               c == Event("NETWORK_MODE_SET", "r_self")
               d == Event("ALLOWLIST_UPDATED", "r_self")
               e == SimulatedBlock("r_self")
               events == <<a, b, c, d, e>>
               S == {a, b, c, d, e}
    <3>1. InputsTyped(inputs) /\ inputs.content["audit_log.ndjson"] = Chain(events)
      BY <2>1, InputsOfCallers DEF SelfAuditInputs, GateRunnerAuthority
    <3>2. \A x \in S : EventTyped(x)
      BY EventsTyped DEF SimulatedBlock
    <3> HIDE DEF a, b, c, d, e
    <3>3. events \in Seq(S)
      OBVIOUS
    <3>4. LogTyped(events)
      <4> HIDE DEF S, events
      <4> QED BY <3>2, <3>3 DEF LogTyped
    <3> QED BY <3>1, <3>4
  <2>2. CASE inputs = EvidenceOsInputs
    <3> DEFINE c == Event("NETWORK_MODE_SET", "r_ev")
               d == Event("ALLOWLIST_UPDATED", "r_ev")
               e == SimulatedBlock("r_ev")
               events == <<c, d, e>>
               S == {c, d, e}
    <3>1. InputsTyped(inputs) /\ inputs.content["audit_log.ndjson"] = Chain(events)
      BY <2>2, InputsOfCallers DEF EvidenceOsInputs, GateRunnerAuthority
    <3>2. \A x \in S : EventTyped(x)
      BY EventsTyped DEF SimulatedBlock
    <3> HIDE DEF c, d, e
    <3>3. events \in Seq(S)
      OBVIOUS
    <3>4. LogTyped(events)
      <4> HIDE DEF S, events
      <4> QED BY <3>2, <3>3 DEF LogTyped
    <3> QED BY <3>1, <3>4
  <2>3. ASSUME NEW order, inputs = DesktopInputs(order, 1)
        PROVE  InputsTyped(inputs)
                 /\ \E events : LogTyped(events)
                      /\ inputs.content["audit_log.ndjson"] = Chain(events)
    <3> DEFINE c == Event("NETWORK_MODE_SET", "r_ui")
               d == Event("ALLOWLIST_UPDATED", "r_ui")
               events == <<c, d>>
               S == {c, d}
    <3>1. InputsTyped(inputs) /\ inputs.content["audit_log.ndjson"] = Chain(events)
      BY <2>3, InputsOfCallers DEF DesktopInputs
    <3>2. \A x \in S : EventTyped(x)
      BY EventsTyped
    <3> HIDE DEF c, d
    <3>3. events \in Seq(S)
      OBVIOUS
    <3>4. LogTyped(events)
      <4> HIDE DEF S, events
      <4> QED BY <3>2, <3>3 DEF LogTyped
    <3> QED BY <3>1, <3>4
  <2> QED BY <1>1, <2>1, <2>2, <2>3
<1>3. LogTyped(log)
  BY <1>2, CallersLog DEF Init
<1>4. stage = "inputs"
  BY DEF Init
<1> QED BY <1>2, <1>3, <1>4
        DEF CarryInv, ResultsAreOfPreflight, ReportIsOfResults, BundleCarriesReport

\* Replacing the content keeps the inputs what they are.
LEMMA ContentReplaced ==
  ASSUME NEW i, InputsTyped(i), NEW d, ContentTyped(d, i.pack)
  PROVE  LET j == [i EXCEPT !.content = d] IN
         InputsTyped(j) /\ j.content = d /\ j.pack = i.pack
<1>1. LET j == [i EXCEPT !.content = d] IN
      DOMAIN j = {"pack", "content"} /\ j.content = d /\ j.pack = i.pack
  BY DEF InputsTyped
<1> QED BY <1>1 DEF InputsTyped

\* What a rebuild makes of the inputs.
Rebuilt(i, lines, rep) ==
  LET m == i.content["run_manifest.json"] IN
  [i EXCEPT !.content =
     Put(Put(Put(i.content, "audit_log.ndjson", lines), "eval_report.json", rep),
         "run_manifest.json", [m EXCEPT !.gate_status = rep.overall])]

LEMMA RebuildKeeps ==
  ASSUME NEW i, InputsTyped(i), NEW lines, NEW rep
  PROVE  LET j == Rebuilt(i, lines, rep) IN
         /\ InputsTyped(j) /\ j.pack = i.pack
         /\ Alike(Build(i), Build(j))
         /\ j.content["audit_log.ndjson"] = lines
         /\ j.content["eval_report.json"] = rep
         /\ j.content["run_manifest.json"].gate_status = rep.overall
<1> DEFINE c == i.content
           m == c["run_manifest.json"]
           n == [m EXCEPT !.gate_status = rep.overall]
           d1 == Put(c, "audit_log.ndjson", lines)
           d2 == Put(d1, "eval_report.json", rep)
           d == Put(d2, "run_manifest.json", n)
           j == [i EXCEPT !.content = d]
<1>1. /\ ContentTyped(c, i.pack) /\ RunManifestTyped(m)
      /\ {"audit_log.ndjson", "eval_report.json", "run_manifest.json"} \subseteq DOMAIN c
  BY DEF InputsTyped, ContentTyped, TopPaths
<1>2. RunManifestTyped(n) /\ SameRun(m, n) /\ n.gate_status = rep.overall
  <2> HIDE DEF m
  <2>1. /\ DOMAIN n = ManifestFields /\ n.gate_status = rep.overall
        /\ \A f \in ManifestFields \ {"gate_status"} : n[f] = m[f]
    BY <1>1 DEF RunManifestTyped, ManifestFields
  <2>2. n.authority = m.authority
    BY <2>1 DEF ManifestFields
  <2> HIDE DEF n
  <2>3. SameButLog(m.authority, n.authority)
    BY <2>2 DEF SameButLog
  <2> QED BY <1>1, <2>1, <2>2, <2>3 DEF RunManifestTyped, SameRun
<1> HIDE DEF n, m
<1>3. ContentTyped(d, i.pack)
  <2>1. ContentTyped(d1, i.pack) BY <1>1, PutTyped
  <2> HIDE DEF d1
  <2>2. ContentTyped(d2, i.pack) BY <2>1, PutTyped
  <2> HIDE DEF d2
  <2> QED BY <1>2, <2>2, PutTyped
<1>4. /\ DOMAIN d = DOMAIN c
      /\ \A p \in DOMAIN c \ Renewed : d[p] = c[p]
      /\ d["audit_log.ndjson"] = lines
      /\ d["eval_report.json"] = rep
      /\ d["run_manifest.json"] = n
  <2>1. \A f, p, v : /\ DOMAIN Put(f, p, v) = DOMAIN f
                     /\ \A q \in DOMAIN f : Put(f, p, v)[q] = IF q = p THEN v ELSE f[q]
    BY DEF Put
  <2> HIDE DEF c
  <2> QED BY <1>1, <2>1 DEF Renewed
<1> HIDE DEF d
<1>5. InputsTyped(j) /\ j.content = d /\ j.pack = i.pack
  BY <1>3, ContentReplaced
<1> HIDE DEF j
<1>6. SameRun(i.content["run_manifest.json"], j.content["run_manifest.json"])
  BY <1>2, <1>4, <1>5 DEF m
<1>7. Alike(Build(i), Build(j))
  BY <1>4, <1>5, <1>6, BuiltAlike
<1>8. /\ j.content["audit_log.ndjson"] = lines
      /\ j.content["eval_report.json"] = rep
      /\ j.content["run_manifest.json"].gate_status = rep.overall
  BY <1>2, <1>4, <1>5
<1>9. /\ InputsTyped(j) /\ j.pack = i.pack
      /\ Alike(Build(i), Build(j))
      /\ j.content["audit_log.ndjson"] = lines
      /\ j.content["eval_report.json"] = rep
      /\ j.content["run_manifest.json"].gate_status = rep.overall
  BY <1>5, <1>7, <1>8
<1>10. Rebuilt(i, lines, rep) = j
  BY DEF Rebuilt, j, d, n, m
<1> QED BY <1>9, <1>10

LEMMA CarryStep == CarryInv /\ [Next]_vars => CarryInv'
<1> SUFFICES ASSUME CarryInv, [Next]_vars PROVE CarryInv'
  OBVIOUS
<1>0. /\ InputsTyped(inputs) /\ LogTyped(log)
      /\ ResultsAreOfPreflight /\ ReportIsOfResults /\ BundleCarriesReport
  BY DEF CarryInv
<1>1. CASE Vary
  <2> DEFINE c == inputs.content
             m == c["run_manifest.json"]
  <2>1. stage' = "inputs"
    BY <1>1 DEF Vary
  <2>2. InputsTyped(inputs') /\ LogTyped(log')
    <3>0. ContentTyped(c, inputs.pack)
      BY <1>0 DEF InputsTyped
    <3>1. CASE /\ \E d \in InputVariants(c) : inputs' = [inputs EXCEPT !.content = d]
               /\ log' = log
      <4>1. PICK d \in InputVariants(c) : inputs' = [inputs EXCEPT !.content = d]
        BY <3>1
      <4>2. ContentTyped(d, inputs.pack)
        BY <3>0, VariantsTyped
      <4> QED BY <1>0, <3>1, <4>1, <4>2, ContentReplaced
    <3>2. ASSUME NEW e \in MoreEvents(m.run_id), log' = Append(log, e),
                 inputs' = [inputs EXCEPT !.content["audit_log.ndjson"] = Chain(log')]
          PROVE  InputsTyped(inputs') /\ LogTyped(log')
      <4>1. EventTyped(e)
        <5> DEFINE block == SimulatedBlock(m.run_id)
        <5>1. EventTyped(block)
          BY EventsTyped DEF SimulatedBlock
        <5>2. EventTyped([block EXCEPT !.origin = "RUNTIME_OBSERVATION"])
          BY <5>1 DEF EventTyped
        <5> HIDE DEF block
        <5> QED BY <3>2, <5>1, <5>2, EventsTyped DEF MoreEvents, block
      <4>2. LogTyped(log')
        BY <1>0, <3>2, <4>1, AppendTyped
      <4> DEFINE d == Put(c, "audit_log.ndjson", Chain(log'))
      <4>3. inputs' = [inputs EXCEPT !.content = d]
        BY <3>2 DEF Put
      <4>4. ContentTyped(d, inputs.pack)
        BY <3>0, PutTyped
      <4> HIDE DEF d
      <4> QED BY <1>0, <4>2, <4>3, <4>4, ContentReplaced
    <3>3. \/ /\ \E d \in InputVariants(c) : inputs' = [inputs EXCEPT !.content = d]
             /\ log' = log
          \/ \E e \in MoreEvents(m.run_id) :
               /\ log' = Append(log, e)
               /\ inputs' = [inputs EXCEPT !.content["audit_log.ndjson"] = Chain(log')]
      BY <1>1 DEF Vary
    <3> QED BY <3>1, <3>2, <3>3
  <2> QED BY <2>1, <2>2
        DEF CarryInv, ResultsAreOfPreflight, ReportIsOfResults, BundleCarriesReport
<1>2. CASE Evaluate
  <2> DEFINE b == Build(inputs)
             current == inputs.content["audit_log.ndjson"] = Chain(log)
  <2>1. /\ inputs' = inputs /\ log' = log /\ policy' = policy /\ stage' = "evaluated"
        /\ results' = GateResults(b, policy)
        /\ preflight' = [archive |-> b, current |-> current]
    BY <1>2 DEF Evaluate, request
  <2>2. Alike(b, b)
    BY <1>0, BuiltAlike, SameRunRefl
  <2>3. current => LogGrown(AuditLines(b), log, Manifest(b).run_id)
    <3>1. AuditLines(b) = inputs.content["audit_log.ndjson"]
      BY <1>0, BuildMakes DEF AuditLines, InputsTyped, ContentTyped, TopPaths
    <3> HIDE DEF b
    <3> QED BY <1>0, <3>1, ChainGrown
  <2> HIDE DEF current
  <2>4. ResultsAreOfPreflight'
    <3>1. preflight'.archive = b /\ preflight'.current = current
      BY <2>1
    <3>2. Build(inputs') = b
      BY <2>1
    <3> HIDE DEF b
    <3> QED BY <2>1, <2>2, <2>3, <3>1, <3>2 DEF ResultsAreOfPreflight
  <2> QED BY <1>0, <2>1, <2>4 DEF CarryInv, ReportIsOfResults, BundleCarriesReport
<1>3. CASE Materialize
  <2>1. /\ inputs' = inputs /\ log' = log /\ policy' = policy
        /\ stage = "evaluated" /\ stage' = "reported" /\ results' = results
        /\ preflight' = preflight
        /\ ResultsAccepted(results, policy, inputs.pack)
        /\ report' = ReportFromResults(results, policy)
    BY <1>3 DEF Materialize, request
  <2>2. ResultsAreOfPreflight'
    BY <1>0, <2>1 DEF ResultsAreOfPreflight
  <2>3. ReportIsOfResults'
    BY <2>1 DEF ReportIsOfResults
  <2> QED BY <1>0, <2>1, <2>2, <2>3 DEF CarryInv, BundleCarriesReport
<1>4. CASE Decide
  <2>1. /\ inputs' = inputs /\ log' = log /\ policy' = policy
        /\ stage = "reported" /\ stage' \in {"permitted", "blocked"}
        /\ results' = results /\ report' = report /\ preflight' = preflight
    BY <1>4 DEF Decide, request
  <2>2. ResultsAreOfPreflight'
    BY <1>0, <2>1 DEF ResultsAreOfPreflight
  <2>3. ReportIsOfResults'
    BY <1>0, <2>1 DEF ReportIsOfResults
  <2> QED BY <1>0, <2>1, <2>2, <2>3 DEF CarryInv, BundleCarriesReport
<1>5. CASE Rebuild
  <2> DEFINE pre == preflight.archive
             run == inputs.content["run_manifest.json"].run_id
  <2>1. /\ policy' = policy /\ stage \in {"permitted", "again"}
        /\ stage' \in {"built", "rebuilt"} /\ results' = results
        /\ report' = report /\ preflight' = preflight /\ bundle' = Build(inputs')
        /\ log' = log \o Records(run)
    BY <1>5 DEF Rebuild, request
  <2>2. /\ InputsTyped(inputs') /\ inputs'.pack = inputs.pack
        /\ Alike(Build(inputs), Build(inputs'))
        /\ inputs'.content["audit_log.ndjson"] = Chain(log')
        /\ inputs'.content["eval_report.json"] = report
        /\ inputs'.content["run_manifest.json"].gate_status = report.overall
    <3>1. inputs' = Rebuilt(inputs, Chain(log'), report)
      BY <1>5 DEF Rebuild, Rebuilt
    <3> QED BY <1>0, <3>1, RebuildKeeps
  <2>3. /\ LogTyped(log') /\ EventsIn(log) \subseteq EventsIn(log')
        /\ EventsIn(log') \subseteq EventsIn(log) \union ExportEvents(run)
    BY <1>0, <2>1, RecordsGrow
  <2>4. /\ results = GateResults(pre, policy) /\ Alike(pre, Build(inputs))
        /\ preflight.current => LogGrown(AuditLines(pre), log, Manifest(pre).run_id)
    BY <1>0, <2>1 DEF ResultsAreOfPreflight
  <2>5. Manifest(pre).run_id = run
    <3>1. Manifest(pre).run_id = Manifest(Build(inputs)).run_id
      BY <2>4 DEF Alike, SameRun, ManifestFields
    <3>2. run = Manifest(Build(inputs)).run_id
      BY <1>0, BuildMakes DEF SameRun, ManifestFields
    <3> QED BY <3>1, <3>2
  <2>6. ResultsAreOfPreflight'
    <3>1. Alike(pre, Build(inputs'))
      BY <2>2, <2>4, AlikeTrans
    <3> HIDE DEF run
    <3>2. preflight.current => LogGrown(AuditLines(pre), log', Manifest(pre).run_id)
      BY <2>3, <2>4, <2>5, GrownFurther
    <3> QED BY <2>1, <2>4, <3>1, <3>2 DEF ResultsAreOfPreflight
  <2>7. ReportIsOfResults'
    BY <1>0, <2>1, <2>2 DEF ReportIsOfResults
  <2>8. BundleCarriesReport'
    BY <2>1, <2>2 DEF BundleCarriesReport
  <2> QED BY <2>2, <2>3, <2>6, <2>7, <2>8 DEF CarryInv
<1>6. CASE Validate \/ Edit \/ Recheck
  <2>1. /\ inputs' = inputs /\ log' = log /\ policy' = policy
        /\ stage \in {"built", "rebuilt", "shipped", "checked", "edited"}
        /\ stage' \in {"rejected", "again", "shipped", "edited", "checked"}
        /\ stage' \notin {"edited", "checked"} =>
             stage \in {"built", "rebuilt"} /\ bundle' = bundle
        /\ results' = results /\ report' = report /\ preflight' = preflight
    BY <1>6 DEF Validate, Edit, Recheck, request
  <2>2. ResultsAreOfPreflight'
    BY <1>0, <2>1 DEF ResultsAreOfPreflight
  <2>3. ReportIsOfResults'
    BY <1>0, <2>1 DEF ReportIsOfResults
  <2>4. BundleCarriesReport'
    BY <1>0, <2>1 DEF BundleCarriesReport
  <2> QED BY <1>0, <2>1, <2>2, <2>3, <2>4 DEF CarryInv
<1>7. CASE UNCHANGED vars
  <2>1. /\ inputs' = inputs /\ log' = log /\ policy' = policy /\ stage' = stage
        /\ results' = results /\ report' = report /\ bundle' = bundle
        /\ preflight' = preflight
    BY <1>7 DEF vars, request
  <2>2. ResultsAreOfPreflight' /\ ReportIsOfResults' /\ BundleCarriesReport'
    BY <1>0, <2>1 DEF ResultsAreOfPreflight, ReportIsOfResults, BundleCarriesReport
  <2> QED BY <1>0, <2>1, <2>2 DEF CarryInv
<1> QED BY <1>1, <1>2, <1>3, <1>4, <1>5, <1>6, <1>7 DEF Next

LEMMA CarryInvariant == Spec => []CarryInv
BY CarryInit, CarryStep, PTL DEF Spec

----------------------------------------------------------------------------
(***************************************************************************)
(* Each check that an archive passes, an archive alike passes.             *)
(***************************************************************************)
LEMMA AlikeReads ==
  ASSUME NEW b, NEW d, Alike(b, d)
  PROVE  /\ Paths(d) = Paths(b)
         /\ \A p : Readable(d, p) <=> Readable(b, p)
         /\ \A p \in Paths(b) \ Renewed : d.content[p] = b.content[p]
         /\ \A p : Readable(b, p) /\ p \notin Renewed => d.content[p] = b.content[p]
         /\ Legacy(d) <=> Legacy(b)
<1>1. /\ Paths(d) = Paths(b)
      /\ \A p : Readable(d, p) <=> Readable(b, p)
      /\ \A p \in Paths(b) \ Renewed : d.content[p] = b.content[p]
  BY DEF Alike, Paths, Readable
<1>2. \A p : Readable(b, p) /\ p \notin Renewed => d.content[p] = b.content[p]
  BY <1>1 DEF Readable
<1>3. Legacy(d) <=> Legacy(b)
  <2>1. Readable(b, "BUNDLE_INFO.json") => Info(d) = Info(b)
    BY <1>2 DEF Info, Renewed
  <2> QED BY <1>1, <2>1 DEF Legacy
<1> QED BY <1>1, <1>2, <1>3

LEMMA AlikeFiles ==
  ASSUME NEW b, NEW d, Alike(b, d)
  PROVE  /\ RequiredFiles(b) => RequiredFiles(d)
         /\ NetworkSnapshotPresent(b) => NetworkSnapshotPresent(d)
         /\ NetworkProofSource(b) => NetworkProofSource(d)
         /\ ZipRules(b) => ZipRules(d)
<1>1. /\ Paths(d) = Paths(b)
      /\ \A p : Readable(d, p) <=> Readable(b, p)
      /\ \A p : Readable(b, p) /\ p \notin Renewed => d.content[p] = b.content[p]
      /\ Legacy(d) <=> Legacy(b)
  BY AlikeReads
<1>2. RequiredFiles(b) => RequiredFiles(d)
  BY <1>1 DEF RequiredFiles
<1>3. Readable(b, "network_snapshot.json") => Network(d) = Network(b)
  BY <1>1 DEF Network, Renewed
<1>4. NetworkSnapshotPresent(b) => NetworkSnapshotPresent(d)
  BY <1>1, <1>3 DEF NetworkSnapshotPresent
<1>5. NetworkProofSource(b) => NetworkProofSource(d)
  BY <1>1, <1>3 DEF NetworkProofSource
<1>6. ZipRules(b) => ZipRules(d)
  <2>1. Readable(b, "policy_snapshot.json") => PolicySnapshot(d) = PolicySnapshot(b)
    BY <1>1 DEF PolicySnapshot, Renewed
  <2>2. d.comment = b.comment /\ d.entries = b.entries
    BY DEF Alike
  <2> QED BY <1>1, <2>1, <2>2 DEF ZipRules
<1> QED BY <1>2, <1>4, <1>5, <1>6

LEMMA AlikeRun ==
  ASSUME NEW b, NEW d, Alike(b, d), NEW p
  PROVE  /\ ModelPinning(b, p) => ModelPinning(d, p)
         /\ RunSnapshotConsistency(b) => RunSnapshotConsistency(d)
<1>1. /\ \A q : Readable(d, q) <=> Readable(b, q)
      /\ \A q : Readable(b, q) /\ q \notin Renewed => d.content[q] = b.content[q]
  BY AlikeReads
<1>2. Readable(b, "model_snapshot.json") => Model(d) = Model(b)
  BY <1>1 DEF Model, Renewed
<1>3. Readable(b, "network_snapshot.json") => Network(d) = Network(b)
  BY <1>1 DEF Network, Renewed
<1>4. ModelPinning(b, p) => ModelPinning(d, p)
  BY <1>1, <1>2 DEF ModelPinning
<1>5. "calls" \in DOMAIN Manifest(d) /\ Manifest(d).calls = Manifest(b).calls
  BY DEF Alike, SameRun, RunManifestTyped, ManifestFields
<1>6. RunSnapshotConsistency(b) => RunSnapshotConsistency(d)
  BY <1>1, <1>2, <1>3, <1>5 DEF RunSnapshotConsistency
<1> QED BY <1>4, <1>6

LEMMA AlikeClaims ==
  ASSUME NEW b, NEW d, Alike(b, d), NEW p
  PROVE  /\ CitationsStrict(b, p) => CitationsStrict(d, p)
         /\ RedactionGate(b, p) => RedactionGate(d, p)
<1>1. /\ Paths(d) = Paths(b)
      /\ \A q : Readable(d, q) <=> Readable(b, q)
      /\ \A q \in Paths(b) \ Renewed : d.content[q] = b.content[q]
      /\ \A q : Readable(b, q) /\ q \notin Renewed => d.content[q] = b.content[q]
  BY AlikeReads
<1>2. \A q \in {"redactions_map.json", "citations_map.json", "artifact_list.json"} :
        Readable(b, q) => d.content[q] = b.content[q]
  BY <1>1 DEF Renewed
<1>3. Markers(d) = Markers(b)
  <2>1. \A q \in MarkdownPaths \intersect Paths(b) :
          d.content[q].markers = b.content[q].markers
    BY <1>1 DEF MarkdownPaths, Renewed
  <2> QED BY <1>1, <2>1 DEF Markers
<1>4. CitationsStrict(b, p) => CitationsStrict(d, p)
  BY <1>1, <1>2, <1>3 DEF CitationsStrict
<1>5. RedactionGate(b, p) => RedactionGate(d, p)
  BY <1>1, <1>2 DEF RedactionGate
<1> QED BY <1>4, <1>5

\* The chain of a log passes.
LEMMA ChainPasses ==
  ASSUME NEW d, NEW l, LogTyped(l), AuditLines(d) = Chain(l),
         "audit_log.ndjson" \in Paths(d)
  PROVE  AuditChain(d)
<1>1. ASSUME NEW n \in DOMAIN Chain(l)
      PROVE  /\ {"prev", "event", "hash"} \subseteq DOMAIN Chain(l)[n]
             /\ {"type", "run", "vault"} \subseteq DOMAIN Chain(l)[n].event
             /\ Chain(l)[n].prev = IF n = 1 THEN << >> ELSE Chain(l)[n - 1].hash
             /\ Chain(l)[n].hash = Append(Chain(l)[n].prev, Chain(l)[n].event)
  <2>1. n \in DOMAIN l
    BY ChainLines
  <2> QED BY <2>1, ChainLines, ChainIsLinked DEF EventTyped
<1> QED BY <1>1 DEF AuditChain

\* The records of an export break no agreement of authority and log.
LEMMA AgreesWhenGrown ==
  ASSUME NEW lines, NEW l, LogTyped(l), NEW case, NEW origin,
         LogGrown(lines, l, case), AuditAgrees(lines, case, origin)
  PROVE  AuditAgrees(Chain(l), case, origin)
<1> DEFINE Egress == {"EGRESS_REQUEST_ALLOWED", "EGRESS_REQUEST_BLOCKED"}
<1>1. /\ DOMAIN Chain(l) = DOMAIN l
      /\ \A n \in DOMAIN l : /\ "event" \in DOMAIN Chain(l)[n]
                             /\ Chain(l)[n].event = l[n]
  BY ChainLines
<1>2. ASSUME NEW e \in ExportEvents(case)
      PROVE  Field(e, "run", "") = case /\ Field(e, "type", "") \notin Egress
  <2>1. PICK type \in RecordTypes : e = Event(type, case)
    BY DEF ExportEvents
  <2>2. {"type", "run"} \subseteq DOMAIN e /\ e.type = type /\ e.run = case
    BY <2>1 DEF Event
  <2> QED BY <2>2 DEF Field, RecordTypes
<1>3. ASSUME NEW n \in DOMAIN l
      PROVE  /\ Field(l[n], "run", "") = case
             /\ Field(l[n], "type", "") \in Egress =>
                  /\ origin # "LOCAL_ARTIFACT_EXPORT"
                  /\ l[n].type = "EGRESS_REQUEST_BLOCKED"
                  /\ Field(l[n], "origin", "") = "CONTROL_SIMULATION"
  <2>1. l[n] \in ExportEvents(case) \/ \E k \in DOMAIN lines : lines[k].event = l[n]
    BY DEF LogGrown, EventsIn
  <2>2. CASE l[n] \in ExportEvents(case)
    BY <1>2, <2>2
  <2>3. ASSUME NEW k \in DOMAIN lines, lines[k].event = l[n]
        PROVE  /\ Field(l[n], "run", "") = case
               /\ Field(l[n], "type", "") \in Egress =>
                    /\ origin # "LOCAL_ARTIFACT_EXPORT"
                    /\ l[n].type = "EGRESS_REQUEST_BLOCKED"
                    /\ Field(l[n], "origin", "") = "CONTROL_SIMULATION"
    BY <2>3 DEF AuditAgrees
  <2> QED BY <2>1, <2>2, <2>3
<1>4. origin = "CONTROL_SIMULATION" =>
        \E n \in DOMAIN l : Field(l[n], "type", "") \in Egress
  <2> SUFFICES ASSUME origin = "CONTROL_SIMULATION"
               PROVE  \E n \in DOMAIN l : Field(l[n], "type", "") \in Egress
    OBVIOUS
  <2>1. PICK k \in DOMAIN lines : Field(lines[k].event, "type", "") \in Egress
    <3>1. {n \in DOMAIN lines : Field(lines[n].event, "type", "") \in Egress} # {}
      BY DEF AuditAgrees
    <3> QED BY <3>1
  <2>2. lines[k].event \in EventsIn(l)
    BY DEF LogGrown
  <2> QED BY <2>1, <2>2 DEF EventsIn
<1> DEFINE k == Chain(l)
           E == {n \in DOMAIN k : Field(k[n].event, "type", "") \in Egress}
<1>5. /\ \A n \in DOMAIN k : "event" \in DOMAIN k[n]
      /\ \A n \in DOMAIN k : Field(k[n].event, "run", "") = case
      /\ \A n \in E : /\ origin # "LOCAL_ARTIFACT_EXPORT"
                      /\ k[n].event.type = "EGRESS_REQUEST_BLOCKED"
                      /\ Field(k[n].event, "origin", "") = "CONTROL_SIMULATION"
  BY <1>1, <1>3
<1>6. origin = "CONTROL_SIMULATION" => E # {}
  <2> SUFFICES ASSUME origin = "CONTROL_SIMULATION" PROVE E # {}
    OBVIOUS
  <2>1. PICK n \in DOMAIN l : Field(l[n], "type", "") \in Egress
    BY <1>4
  <2>2. n \in E
    BY <1>1, <2>1
  <2> QED BY <2>2
<1> HIDE DEF k
<1>7. AuditAgrees(k, case, origin)
  BY <1>5, <1>6 DEF AuditAgrees
<1> QED BY <1>7 DEF k

LEMMA AuthorityCarries ==
  ASSUME NEW b, NEW d, Alike(b, d), NEW l, LogTyped(l),
         LogGrown(AuditLines(b), l, Manifest(b).run_id),
         AuditLines(d) = Chain(l),
         Manifest(d).authority.source.logSha = Sha(AuditLines(d)),
         AuthorityContract(b)
  PROVE  AuthorityContract(d)
<1> DEFINE m == Manifest(b)
           n == Manifest(d)
<1>1. /\ InfoTyped(d) /\ Info(d).run_manifest = "RUN_MANIFEST_V2"
      /\ Info(d).run_id = Info(b).run_id
      /\ "audit_log.ndjson" \in Paths(d) /\ Readable(d, "run_manifest.json")
  <2>1. /\ Paths(d) = Paths(b)
        /\ \A q : Readable(d, q) <=> Readable(b, q)
        /\ Readable(b, "BUNDLE_INFO.json") => Info(d) = Info(b)
    BY AlikeReads DEF Info, Renewed
  <2> QED BY <2>1 DEF AuthorityContract, InfoTyped, ManifestTyped
<1>2. /\ RunManifestTyped(m) /\ RunManifestTyped(n)
      /\ n.run_id = m.run_id /\ SameButLog(m.authority, n.authority)
  BY DEF Alike, SameRun, ManifestFields
<1>3. ManifestTyped(d)
  BY <1>1, <1>2 DEF ManifestTyped, RunManifestTyped, ManifestFields
<1>4. /\ ValidInternal(m.authority, m.run_id, AuditLines(b))
      /\ Info(b).run_id = m.run_id
  BY DEF AuthorityContract
<1>5. n.authority.source.logSha = Sha(AuditLines(d))
  OBVIOUS
<1>6. AuditAgrees(AuditLines(d), m.run_id, m.authority.origin)
  BY <1>4, AgreesWhenGrown DEF ValidInternal
<1> HIDE DEF m, n
<1>7. Contract(n.authority)
  <2> DEFINE a == m.authority
             c == n.authority
  <2>1. /\ \A f \in AuthorityFields \ {"source"} : a[f] = c[f]
        /\ \A f \in SourceFields \ {"logSha"} : a.source[f] = c.source[f]
    BY <1>2 DEF SameButLog
  <2>2. Contract(a)
    BY <1>4 DEF ValidInternal
  <2>3. IsSha(c.source.logSha)
    BY <1>5 DEF IsSha, Sha
  <2> HIDE DEF a, c
  <2>4. SourceOk(c.source)
    <3>1. SourceOk(a.source)
      BY <2>2 DEF Contract
    <3> QED BY <2>1, <2>3, <3>1 DEF SourceOk, SourceFields
  <2>5. WindowOk(c)
    <3>1. c.generated = a.generated /\ c.validUntil = a.validUntil
      BY <2>1 DEF AuthorityFields
    <3>2. WindowOk(a)
      BY <2>2 DEF Contract
    <3> QED BY <3>1, <3>2 DEF WindowOk
  <2> QED BY <2>1, <2>2, <2>4, <2>5 DEF Contract, AuthorityFields, c
<1>8. n.authority.case = m.run_id /\ n.authority.origin = m.authority.origin
  BY <1>2, <1>4 DEF SameButLog, AuthorityFields, ValidInternal
<1>9. ValidInternal(n.authority, n.run_id, AuditLines(d))
  BY <1>2, <1>5, <1>6, <1>7, <1>8 DEF ValidInternal
<1> QED BY <1>1, <1>2, <1>3, <1>4, <1>9 DEF AuthorityContract, n

\* Nor do they say anything of the vault.
LEMMA VaultStatusKept ==
  ASSUME NEW b, NEW d, Alike(b, d), NEW l, LogTyped(l),
         LogGrown(AuditLines(b), l, Manifest(b).run_id), AuditLines(d) = Chain(l)
  PROVE  VaultStatusEvents(d) = VaultStatusEvents(b)
<1> DEFINE m == Manifest(b)
           About(e) == /\ Readable(b, "run_manifest.json")
                       /\ Field(m, "run_id", "") # "" /\ Field(m, "vault_id", "") # ""
                       /\ Field(e, "type", "") = "VAULT_ENCRYPTION_STATUS"
                       /\ Field(e, "run", "") = m.run_id
                       /\ Field(e, "vault", "") = m.vault_id
           E == {AuditLines(b)[n].event :
                   n \in {k \in DOMAIN AuditLines(b) : "event" \in DOMAIN AuditLines(b)[k]}}
           F == {AuditLines(d)[n].event :
                   n \in {k \in DOMAIN AuditLines(d) : "event" \in DOMAIN AuditLines(d)[k]}}
<1>1. VaultStatusEvents(b) = {e \in E : About(e)}
  BY DEF VaultStatusEvents
<1>2. VaultStatusEvents(d) = {e \in F : About(e)}
  <2>1. /\ DOMAIN Manifest(d) = DOMAIN m
        /\ Manifest(d).run_id = m.run_id /\ Manifest(d).vault_id = m.vault_id
    BY DEF Alike, SameRun, RunManifestTyped, ManifestFields
  <2>2. Readable(d, "run_manifest.json") <=> Readable(b, "run_manifest.json")
    BY AlikeReads
  <2>3. /\ Field(Manifest(d), "run_id", "") = Field(m, "run_id", "")
        /\ Field(Manifest(d), "vault_id", "") = Field(m, "vault_id", "")
    BY <2>1 DEF Field
  <2> QED BY <2>1, <2>2, <2>3 DEF VaultStatusEvents
<1>3. F = EventsIn(l)
  <2>1. /\ DOMAIN Chain(l) = DOMAIN l
        /\ \A n \in DOMAIN l : /\ "event" \in DOMAIN Chain(l)[n]
                               /\ Chain(l)[n].event = l[n]
    BY ChainLines
  <2> QED BY <2>1 DEF EventsIn
<1>4. /\ \A e \in E : e \in F
      /\ \A e \in F : e \in E \/ e \in ExportEvents(m.run_id)
  BY <1>3 DEF LogGrown
<1>5. ASSUME NEW e \in ExportEvents(m.run_id) PROVE ~About(e)
  <2>1. PICK type \in RecordTypes : e = Event(type, m.run_id)
    BY DEF ExportEvents
  <2>2. "type" \in DOMAIN e /\ e.type = type
    BY <2>1 DEF Event
  <2> QED BY <2>2 DEF Field, RecordTypes
<1> HIDE DEF E, F, About, m
<1> QED BY <1>1, <1>2, <1>4, <1>5

LEMMA VaultCryptoCarries ==
  ASSUME NEW b, NEW d, Alike(b, d), NEW l, LogTyped(l),
         LogGrown(AuditLines(b), l, Manifest(b).run_id), AuditLines(d) = Chain(l),
         VaultCrypto(b)
  PROVE  VaultCrypto(d)
<1>1. VaultStatusEvents(d) = VaultStatusEvents(b)
  BY VaultStatusKept
<1>2. /\ Readable(d, "policy_snapshot.json") <=> Readable(b, "policy_snapshot.json")
      /\ Readable(b, "policy_snapshot.json") => PolicySnapshot(d) = PolicySnapshot(b)
  BY AlikeReads DEF PolicySnapshot, Renewed
<1> QED BY <1>1, <1>2 DEF VaultCrypto

\* All of the checks behind the gates.
LEMMA ChecksCarry ==
  ASSUME NEW b, NEW d, Alike(b, d), NEW p, NEW l, LogTyped(l),
         AuditLines(d) = Chain(l), "audit_log.ndjson" \in Paths(d),
         Manifest(d).authority.source.logSha = Sha(AuditLines(d)),
         NEW g \in CheckedGates,
         g \in ReadEvents => LogGrown(AuditLines(b), l, Manifest(b).run_id),
         ChecksBehind(g, Summary(b, p, "EvaluationPreflight"))
  PROVE  ChecksBehind(g, Summary(d, p, "Final"))
<1> DEFINE s == Summary(b, p, "EvaluationPreflight")
           t == Summary(d, p, "Final")
<1>1. /\ s.required_files => t.required_files
      /\ s.network_snapshot => t.network_snapshot
      /\ s.proof_source => t.proof_source
      /\ s.zip_rules => t.zip_rules
  BY AlikeFiles DEF Summary
<1>2. /\ s.model_pinning => t.model_pinning
      /\ s.run_snapshot => t.run_snapshot
  BY AlikeRun DEF Summary
<1>3. /\ s.citations => t.citations
      /\ s.redactions => t.redactions
  BY AlikeClaims DEF Summary
<1>4. t.audit_chain /\ t.version
  BY ChainPasses DEF Summary
<1>5. g = "EVIDENCE_AUTHORITY" => (s.authority => t.authority)
  BY AuthorityCarries DEF Summary, ReadEvents
<1>6. g = "VAULT_CRYPTO" => (s.vault_crypto => t.vault_crypto)
  BY VaultCryptoCarries DEF Summary, ReadEvents
<1>7. ChecksBehind(g, s)
  OBVIOUS
<1> HIDE DEF s, t
<1>8. ChecksBehind(g, t)
  BY <1>1, <1>2, <1>3, <1>4, <1>5, <1>6, <1>7 DEF ChecksBehind, CheckedGates
<1> QED BY <1>8 DEF t

\* The report is accepted, unless a blocker failed.
LEMMA NoBlockerNoFail ==
  ASSUME NEW rs, NEW p, DOMAIN rs = GatesOf(p), \A g \in GatesOf(p) : rs[g].gate = g,
         NEW pack, ResultsAccepted(rs, p, pack)
  PROVE  ReportFromResults(rs, p).overall # "FAIL" <=> BlockerFails(rs) = {}
<1> DEFINE r == ReportFromResults(rs, p)
<1>1. /\ DOMAIN r.gates = GatesOf(p) /\ r.overall = OverallStatus(r.gates)
  BY ReportEntries
<1>2. \A g \in GatesOf(p) : r.gates[g] = rs[g]
  BY ResultsAreReported
<1> HIDE DEF r
<1>3. Failing(r.gates, {"BLOCKER"}) <=> BlockerFails(rs) # {}
  BY <1>1, <1>2 DEF Failing, BlockerFails
<1>4. r.overall # "FAIL" <=> BlockerFails(rs) = {}
  BY <1>1, <1>3 DEF OverallStatus
<1> QED BY <1>4 DEF r

\* A gate that rests on checks passes or fails.
LEMMA PassOrFail ==
  ASSUME NEW g \in CheckedGates, NEW b, NEW s
  PROVE  /\ GateStatus(g, b, s) \in {"PASS", "FAIL"}
         /\ GateStatus(g, b, s) = "PASS" => ChecksBehind(g, s)
<1>1. g \notin {"PDF_CAPABLE", "ALLOWLIST_MATCH", "OUTPUTS_PRESENT",
                "MAPPING_REVIEW_PRESENT"}
  BY DEF CheckedGates
<1>2. /\ ChecksBehind(g, s) => GateStatus(g, b, s) = "PASS"
      /\ ~ChecksBehind(g, s) => GateStatus(g, b, s) = "FAIL"
  BY <1>1 DEF GateStatus
<1> QED BY <1>2

\* What was decided: the manager goes on only if no blocker failed, and rejects
\* only what does not pass.
DecisionInv ==
  /\ via = "manager"
       /\ stage \in {"permitted", "built", "again", "rebuilt", "rejected", "shipped"} =>
         BlockerFails(results) = {}
  /\ stage = "rejected" => Overall(bundle, policy, "Final") # "PASS"

LEMMA DecisionInvariant == Spec => []DecisionInv
<1>1. Init => DecisionInv
  BY DEF Init, DecisionInv
<1>2. DecisionInv /\ [Next]_vars => DecisionInv'
  <2> SUFFICES ASSUME DecisionInv, [Next]_vars PROVE DecisionInv'
    OBVIOUS
  <2>1. CASE Vary \/ Evaluate \/ Materialize \/ Edit \/ Recheck
    <3>1. stage' \in {"inputs", "evaluated", "reported", "edited", "checked"}
      BY <2>1 DEF Vary, Evaluate, Materialize, Edit, Recheck
    <3> QED BY <3>1 DEF DecisionInv
  <2>2. CASE Decide
    <3>1. /\ via' = via /\ results' = results /\ stage' \in {"permitted", "blocked"}
          /\ via = "manager" /\ stage' = "permitted" =>
               Permits(inputs.content, results, report, policy)
      BY <2>2 DEF Decide, request
    <3>2. via = "manager" /\ stage' = "permitted" => BlockerFails(results) = {}
      BY <3>1 DEF Permits, PermitsExport
    <3>3. BlockerFails(results)' = BlockerFails(results)
      BY <3>1 DEF BlockerFails
    <3> QED BY <3>1, <3>2, <3>3 DEF DecisionInv
  <2>3. CASE Rebuild
    <3>1. /\ via' = via /\ results' = results /\ stage' \in {"built", "rebuilt"}
          /\ stage \in {"permitted", "again"}
      BY <2>3 DEF Rebuild, request
    <3>2. BlockerFails(results)' = BlockerFails(results)
      BY <3>1 DEF BlockerFails
    <3> QED BY <3>1, <3>2 DEF DecisionInv
  <2>4. CASE Validate
    <3>1. /\ via' = via /\ results' = results /\ bundle' = bundle /\ policy' = policy
          /\ stage \in {"built", "rebuilt"}
          /\ stage' \in {"rejected", "again", "shipped"}
          /\ stage' = "rejected" => Overall(bundle, policy, "Final") # "PASS"
      BY <2>4 DEF Validate, request
    <3>2. BlockerFails(results)' = BlockerFails(results)
      BY <3>1 DEF BlockerFails
    <3> QED BY <3>1, <3>2 DEF DecisionInv
  <2>5. CASE UNCHANGED vars
    <3>1. /\ via' = via /\ results' = results /\ bundle' = bundle /\ policy' = policy
          /\ stage' = stage
      BY <2>5 DEF vars, request
    <3>2. BlockerFails(results)' = BlockerFails(results)
      BY <3>1 DEF BlockerFails
    <3> QED BY <3>1, <3>2 DEF DecisionInv
  <2> QED BY <2>1, <2>2, <2>3, <2>4, <2>5 DEF Next
<1> QED BY <1>1, <1>2, PTL DEF Spec

\* An archive that does not pass although its report is accepted is legacy, or
\* a check failed that is behind one of the gates or behind none.
LEMMA NotPassed ==
  ASSUME NEW b, NEW p, Overall(b, p, "Final") # "PASS", EvalReportCheck(b, p)
  PROVE  LET s == Summary(b, p, "Final") IN
         \/ Legacy(b) \/ ~s.exports_layout \/ ~s.artifact_hashes
         \/ \E g \in CheckedGates : ~ChecksBehind(g, s)
<1> DEFINE s == Summary(b, p, "Final")
<1>1. \/ Legacy(b)
      \/ \E c \in DOMAIN s : ~s[c]
  BY DEF Overall
<1>2. /\ DOMAIN s = {"required_files", "exports_layout", "network_snapshot", "version",
           "audit_chain", "authority", "artifact_hashes", "model_pinning", "citations",
           "redactions", "eval_report", "zip_rules", "vault_crypto", "run_snapshot",
           "proof_source"}
      /\ s.eval_report
  BY DEF Summary
<1> HIDE DEF s
<1>3. ASSUME \A g \in CheckedGates : ChecksBehind(g, s)
      PROVE  /\ s.required_files /\ s.version /\ s.audit_chain /\ s.authority
             /\ s.network_snapshot /\ s.proof_source /\ s.model_pinning
             /\ s.run_snapshot /\ s.vault_crypto /\ s.citations /\ s.redactions
             /\ s.zip_rules
  <2>1. /\ ChecksBehind("BUNDLE_FORMAT", s) /\ ChecksBehind("AUDIT_HASH_CHAIN", s)
        /\ ChecksBehind("EVIDENCE_AUTHORITY", s) /\ ChecksBehind("MODE_PROOF", s)
        /\ ChecksBehind("MODEL_PINNING", s) /\ ChecksBehind("VAULT_CRYPTO", s)
        /\ ChecksBehind("CITATIONS", s) /\ ChecksBehind("REDACTION", s)
        /\ ChecksBehind("ZIP_PACKAGING", s)
    BY <1>3 DEF CheckedGates
  <2> QED BY <2>1 DEF ChecksBehind
<1>4. \/ Legacy(b) \/ ~s.exports_layout \/ ~s.artifact_hashes
      \/ \E g \in CheckedGates : ~ChecksBehind(g, s)
  BY <1>1, <1>2, <1>3
<1> QED BY <1>4 DEF s

\* What the preflight archive passed, the bundle does; the validator rejects its
\* report only if a blocker failed, and a permitted archive only for what no gate
\* of the policy covers.
THEOREM EvaluationCarries == Spec => []EvaluationCarriesOver
<1>1. CarryInv /\ DecisionInv => EvaluationCarriesOver
  <2> SUFFICES ASSUME CarryInv, DecisionInv, stage \in {"again", "shipped", "rejected"}
               PROVE  LET s == Summary(bundle, policy, "Final") IN
                 /\ \A g \in CheckedGates \intersect DOMAIN results :
                      results[g].status = "PASS"
                        /\ (g \in ReadEvents => preflight.current) => ChecksBehind(g, s)
                 /\ s.eval_report \/ BlockerFails(results) # {}
                 /\ stage = "rejected" /\ via = "manager" /\ preflight.current =>
                      \/ Legacy(bundle) \/ ~s.exports_layout \/ ~s.artifact_hashes
                      \/ \E g \in CheckedGates \ GatesOf(policy) : ~ChecksBehind(g, s)
    BY DEF EvaluationCarriesOver
  <2> DEFINE pre == preflight.archive
             c == inputs.content
  <2>1. /\ InputsTyped(inputs) /\ LogTyped(log)
        /\ results = GateResults(pre, policy) /\ Alike(pre, Build(inputs))
        /\ preflight.current => LogGrown(AuditLines(pre), log, Manifest(pre).run_id)
        /\ ResultsAccepted(results, policy, inputs.pack)
        /\ report = ReportFromResults(results, policy)
        /\ bundle = Build(inputs)
        /\ c["audit_log.ndjson"] = Chain(log) /\ c["eval_report.json"] = report
        /\ c["run_manifest.json"].gate_status = report.overall
    BY DEF CarryInv, ResultsAreOfPreflight, ReportIsOfResults, BundleCarriesReport
  <2>2. /\ TopPaths \subseteq DOMAIN c
        /\ "pack_id" \in DOMAIN c["BUNDLE_INFO.json"]
        /\ c["BUNDLE_INFO.json"].pack_id = inputs.pack
    BY <2>1 DEF InputsTyped, ContentTyped
  <2>3. /\ AuditLines(bundle) = Chain(log)
        /\ bundle.content["eval_report.json"] = report
        /\ Info(bundle) = c["BUNDLE_INFO.json"]
        /\ bundle.unreadable = {}
        /\ RunManifestTyped(Manifest(bundle))
        /\ Manifest(bundle).gate_status = report.overall
        /\ Manifest(bundle).authority.source.logSha = Sha(AuditLines(bundle))
    BY <2>1, <2>2, BuildMakes DEF AuditLines, Info, TopPaths
  <2>4. TopPaths \subseteq Paths(bundle)
    BY <2>1, BuiltPaths
  <2>5. /\ DOMAIN results = GatesOf(policy)
        /\ \A g \in GatesOf(policy) :
             /\ results[g].gate = g
             /\ results[g].status =
                  GateStatus(g, pre, Summary(pre, policy, "EvaluationPreflight"))
    BY <2>1 DEF GateResults
  <2>6. ASSUME NEW g \in CheckedGates \intersect DOMAIN results,
               results[g].status = "PASS", g \in ReadEvents => preflight.current
        PROVE  ChecksBehind(g, Summary(bundle, policy, "Final"))
    <3>1. ChecksBehind(g, Summary(pre, policy, "EvaluationPreflight"))
      BY <2>5, <2>6, PassOrFail
    <3>2. Alike(pre, bundle)
      BY <2>1
    <3>3. g \in ReadEvents => LogGrown(AuditLines(pre), log, Manifest(pre).run_id)
      BY <2>1, <2>6
    <3>4. "audit_log.ndjson" \in Paths(bundle)
      BY <2>4 DEF TopPaths
    <3> HIDE DEF pre
    <3> QED BY <2>1, <2>3, <2>6, <3>1, <3>2, <3>3, <3>4, ChecksCarry
  <2>7. BlockerFails(results) = {} => EvalReportCheck(bundle, policy)
    <3> SUFFICES ASSUME BlockerFails(results) = {}
                 PROVE  EvalReportCheck(bundle, policy)
      OBVIOUS
    <3>1. report.overall # "FAIL"
      BY <2>1, <2>5, NoBlockerNoFail
    <3>2. ReportAccepted(report, report.overall, policy, inputs.pack)
      BY <2>1, <3>1, ReportMirrors
    <3>3. \A p \in {"eval_report.json", "run_manifest.json", "BUNDLE_INFO.json"} :
            Readable(bundle, p)
      BY <2>3, <2>4 DEF Readable, TopPaths
    <3>4. "gate_status" \in DOMAIN Manifest(bundle)
      BY <2>3 DEF RunManifestTyped, ManifestFields
    <3>5. Field(Info(bundle), "pack_id", "") = inputs.pack /\ inputs.pack # ""
            /\ Info(bundle).pack_id = inputs.pack
      BY <2>1, <2>2, <2>3 DEF Field, ResultsAccepted
    <3> QED BY <2>3, <3>2, <3>3, <3>4, <3>5 DEF EvalReportCheck
  <2>8. Summary(bundle, policy, "Final").eval_report = EvalReportCheck(bundle, policy)
    BY DEF Summary
  <2>9. ASSUME stage = "rejected", via = "manager", preflight.current
        PROVE  LET s == Summary(bundle, policy, "Final") IN
               \/ Legacy(bundle) \/ ~s.exports_layout \/ ~s.artifact_hashes
               \/ \E g \in CheckedGates \ GatesOf(policy) : ~ChecksBehind(g, s)
    <3> DEFINE s == Summary(bundle, policy, "Final")
    <3>1. BlockerFails(results) = {} /\ Overall(bundle, policy, "Final") # "PASS"
      BY <2>9 DEF DecisionInv
    <3>2. \/ Legacy(bundle) \/ ~s.exports_layout \/ ~s.artifact_hashes
          \/ \E g \in CheckedGates : ~ChecksBehind(g, s)
      BY <2>7, <3>1, NotPassed
    <3>3. ASSUME NEW g \in CheckedGates \intersect GatesOf(policy)
          PROVE  ChecksBehind(g, s)
      <4>1. results[g].severity = "BLOCKER"
        BY <2>1 DEF GateResults, RegistrySeverity, CheckedGates
      <4>2. results[g].status \in {"PASS", "FAIL"}
        BY <2>5, PassOrFail
      <4>3. results[g].status = "PASS"
        BY <2>5, <3>1, <4>1, <4>2 DEF BlockerFails
      <4> QED BY <2>5, <2>6, <2>9, <4>3
    <3> HIDE DEF s
    <3>4. \/ Legacy(bundle) \/ ~s.exports_layout \/ ~s.artifact_hashes
          \/ \E g \in CheckedGates \ GatesOf(policy) : ~ChecksBehind(g, s)
      BY <3>2, <3>3
    <3> QED BY <3>4 DEF s
  <2> QED BY <2>6, <2>7, <2>8, <2>9
<1> QED BY <1>1, CarryInvariant, DecisionInvariant, PTL

----------------------------------------------------------------------------
(***************************************************************************)
(* What an exported report does not claim.                                 *)
(***************************************************************************)
\* The allowlist gate passes no log that the authority contract accepts.
LEMMA NothingObserved ==
  ASSUME NEW b, AuthorityContract(b)
  PROVE  AllowlistGate(b) # "PASS"
<1>1. AuditAgrees(AuditLines(b), Manifest(b).run_id, Manifest(b).authority.origin)
  BY DEF AuthorityContract, ValidInternal
<1>2. ASSUME NEW n \in DOMAIN AuditLines(b),
             "event" \in DOMAIN AuditLines(b)[n],
             Field(AuditLines(b)[n].event, "type", "") = "EGRESS_REQUEST_BLOCKED"
      PROVE  ~Observed(AuditLines(b)[n].event)
  <2>1. Field(AuditLines(b)[n].event, "origin", "") = "CONTROL_SIMULATION"
    BY <1>1, <1>2 DEF AuditAgrees
  <2> QED BY <2>1 DEF Observed
<1>3. AllowlistFromLog(AuditLines(b)) # "PASS"
  BY <1>2 DEF AllowlistFromLog
<1> QED BY <1>3 DEF AllowlistGate

\* No exported bundle claims that live egress was observed being blocked.
THEOREM NoLiveEgress == Spec => []NoLiveEgressClaimed
<1>1. ReviewInv /\ CarryInv => NoLiveEgressClaimed
  <2> SUFFICES ASSUME ReviewInv, CarryInv, stage = "shipped",
                      NEW i \in DOMAIN report.gates,
                      report.gates[i].gate = "ALLOWLIST_MATCH"
               PROVE  report.gates[i].status = "NOT_APPLICABLE"
    BY DEF NoLiveEgressClaimed
  <2>1. Overall(bundle, policy, "Final") = "PASS"
    BY DEF ReviewInv, VerdictIsCurrent
  <2>2. PICK status, pack0 : ReportAccepted(report, status, policy, pack0)
    <3>1. EvalReportCheck(bundle, policy)
      BY <2>1, PassMeans
    <3>2. bundle.content["eval_report.json"] = report
      <4>1. /\ InputsTyped(inputs) /\ bundle = Build(inputs)
            /\ inputs.content["eval_report.json"] = report
        BY DEF CarryInv, BundleCarriesReport
      <4>2. "eval_report.json" \in DOMAIN inputs.content
        BY <4>1 DEF InputsTyped, ContentTyped, TopPaths
      <4> QED BY <4>1, <4>2, BuildMakes
    <3> QED BY <3>1, <3>2 DEF EvalReportCheck
  <2>3. PICK b : results = GateResults(b, policy)
    BY DEF CarryInv, ResultsAreOfPreflight
  <2>4. /\ \E pack1 : ResultsAccepted(results, policy, pack1)
        /\ report = ReportFromResults(results, policy)
    BY DEF CarryInv, ReportIsOfResults
  <2>5. /\ DOMAIN report.gates = GatesOf(policy)
        /\ \A g \in GatesOf(policy) :
             report.gates[g].gate = g /\ report.gates[g].status \in GateStatuses
    BY <2>4, ReportEntries DEF EntryOk
  <2>6. \A g \in GatesOf(policy) :
          report.gates[g].status = GateStatus(g, b, Summary(b, policy, "EvaluationPreflight"))
    <3>1. /\ DOMAIN results = GatesOf(policy)
          /\ \A g \in GatesOf(policy) :
               /\ results[g].gate = g
               /\ results[g].status =
                    GateStatus(g, b, Summary(b, policy, "EvaluationPreflight"))
      BY <2>3 DEF GateResults
    <3>2. \A g \in GatesOf(policy) : report.gates[g] = results[g]
      BY <2>4, <3>1, ResultsAreReported
    <3> QED BY <3>1, <3>2
  <2>7. i = "ALLOWLIST_MATCH" /\ i \in GatesOf(policy)
    BY <2>5
  <2>8. /\ report.gates["EVIDENCE_AUTHORITY"].status # "FAIL"
        /\ report.gates["ALLOWLIST_MATCH"].status # "FAIL"
    <3>1. \A k \in DOMAIN report.gates : report.gates[k].status = "FAIL" =>
             RegistrySeverity(report.gates[k].gate) # "BLOCKER"
      BY <2>2, AcceptedReport
    <3>2. "EVIDENCE_AUTHORITY" \in GatesOf(policy)
      BY DEF GatesOf, EverywhereGates
    <3> QED BY <2>5, <2>7, <3>1, <3>2 DEF RegistrySeverity
  <2>9. AuthorityContract(b)
    <3> DEFINE s == Summary(b, policy, "EvaluationPreflight")
    <3>1. "EVIDENCE_AUTHORITY" \in GatesOf(policy)
      BY DEF GatesOf, EverywhereGates
    <3>2. GateStatus("EVIDENCE_AUTHORITY", b, s) # "FAIL"
      BY <2>6, <2>8, <3>1
    <3>3. ChecksBehind("EVIDENCE_AUTHORITY", s)
      BY <3>2 DEF GateStatus, CheckedGates
    <3>4. s.authority
      BY <3>3 DEF ChecksBehind
    <3> QED BY <3>4 DEF Summary
  <2>10. report.gates[i].status = AllowlistGate(b)
    <3>1. GateStatus("ALLOWLIST_MATCH", b, Summary(b, policy, "EvaluationPreflight"))
            = AllowlistGate(b)
      BY DEF GateStatus, CheckedGates
    <3> QED BY <2>6, <2>7, <3>1
  <2>11. AllowlistGate(b) # "PASS"
    BY <2>9, NothingObserved
  <2> QED BY <2>5, <2>7, <2>8, <2>10, <2>11 DEF GateStatuses
<1> QED BY <1>1, ReviewInvariant, CarryInvariant, PTL

----------------------------------------------------------------------------
(***************************************************************************)
(* Stricter policies permit less.                                          *)
(***************************************************************************)
Laxer(p, q) == <<p, q>> \in {<<"STRICT", "BALANCED">>, <<"BALANCED", "DRAFT_ONLY">>}

LEMMA LaxerGates ==
  ASSUME NEW p, NEW q, Laxer(p, q)
  PROVE  GatesOf(q) \subseteq GatesOf(p)
BY DEF Laxer, GatesOf

\* Each check that holds under a policy holds under a laxer one.
LEMMA LaxerChecks ==
  ASSUME NEW p, NEW q, Laxer(p, q), NEW b, NEW g \in CheckedGates,
         ChecksBehind(g, Summary(b, p, "EvaluationPreflight"))
  PROVE  ChecksBehind(g, Summary(b, q, "EvaluationPreflight"))
<1> DEFINE s == Summary(b, p, "EvaluationPreflight")
           t == Summary(b, q, "EvaluationPreflight")
<1>1. /\ s.required_files = t.required_files /\ s.version = t.version
      /\ s.audit_chain = t.audit_chain /\ s.authority = t.authority
      /\ s.network_snapshot = t.network_snapshot
      /\ s.proof_source = t.proof_source /\ s.run_snapshot = t.run_snapshot
      /\ s.vault_crypto = t.vault_crypto /\ s.zip_rules = t.zip_rules
  BY DEF Summary
<1>2. s.model_pinning => t.model_pinning
  <2>1. ModelPinning(b, p) => ModelPinning(b, q)
    BY DEF ModelPinning, Laxer
  <2> QED BY <2>1 DEF Summary
<1>3. s.citations => t.citations
  <2>1. CitationsStrict(b, q)
    BY DEF CitationsStrict, Laxer
  <2> QED BY <2>1 DEF Summary
<1>4. s.redactions => t.redactions
  <2>1. RedactionGate(b, p) => RedactionGate(b, q)
    BY DEF RedactionGate, Laxer
  <2> QED BY <2>1 DEF Summary
<1>5. ChecksBehind(g, s)
  OBVIOUS
<1> HIDE DEF s, t
<1>6. ChecksBehind(g, t)
  BY <1>1, <1>2, <1>3, <1>4, <1>5 DEF ChecksBehind, CheckedGates
<1> QED BY <1>6 DEF t

\* The other gates do not look at the checks.
LEMMA UncheckedGates ==
  ASSUME NEW b, NEW s, NEW t,
         NEW g \in {"PDF_CAPABLE", "ALLOWLIST_MATCH", "OUTPUTS_PRESENT",
                    "MAPPING_REVIEW_PRESENT"}
  PROVE  GateStatus(g, b, s) = GateStatus(g, b, t)
<1>1. g \notin CheckedGates
  BY DEF CheckedGates
<1>2. CASE g = "PDF_CAPABLE"
  BY <1>1, <1>2 DEF GateStatus
<1>3. CASE g = "ALLOWLIST_MATCH"
  BY <1>1, <1>3 DEF GateStatus
<1>4. CASE g = "OUTPUTS_PRESENT"
  BY <1>1, <1>4 DEF GateStatus
<1>5. CASE g = "MAPPING_REVIEW_PRESENT"
  BY <1>1, <1>5 DEF GateStatus
<1> QED BY <1>2, <1>3, <1>4, <1>5

\* An evaluation under a laxer policy: the same gates or fewer, each with the
\* same status or a better one.
LEMMA LaxerResults ==
  ASSUME NEW p, NEW q, Laxer(p, q), NEW b, NEW g \in GatesOf(q)
  PROVE  LET rp == GateResults(b, p)
             rq == GateResults(b, q) IN
         /\ rq[g].gate = g /\ rp[g].gate = g
         /\ rq[g].severity = rp[g].severity /\ rq[g].metadata = rp[g].metadata
         /\ rq[g].status = rp[g].status
              \/ (rp[g].status = "FAIL" /\ rq[g].status = "PASS")
<1> DEFINE s == Summary(b, p, "EvaluationPreflight")
           t == Summary(b, q, "EvaluationPreflight")
<1>1. g \in GatesOf(p)
  BY LaxerGates
<1>2. /\ GateResults(b, p)[g] = [gate |-> g, status |-> GateStatus(g, b, s),
           severity |-> RegistrySeverity(g), metadata |-> g]
      /\ GateResults(b, q)[g] = [gate |-> g, status |-> GateStatus(g, b, t),
           severity |-> RegistrySeverity(g), metadata |-> g]
  BY <1>1 DEF GateResults
<1>3. g \in CheckedGates => (ChecksBehind(g, s) => ChecksBehind(g, t))
  BY LaxerChecks
<1> HIDE DEF s, t
<1>4. GateStatus(g, b, t) = GateStatus(g, b, s)
        \/ (GateStatus(g, b, s) = "FAIL" /\ GateStatus(g, b, t) = "PASS")
  <2>1. CASE g \in CheckedGates
    <3>1. g \notin {"PDF_CAPABLE", "ALLOWLIST_MATCH", "OUTPUTS_PRESENT",
                    "MAPPING_REVIEW_PRESENT"}
      BY <2>1 DEF CheckedGates
    <3>2. /\ ChecksBehind(g, s) => GateStatus(g, b, s) = "PASS"
          /\ ~ChecksBehind(g, s) => GateStatus(g, b, s) = "FAIL"
          /\ ChecksBehind(g, t) => GateStatus(g, b, t) = "PASS"
          /\ ~ChecksBehind(g, t) => GateStatus(g, b, t) = "FAIL"
      BY <2>1, <3>1 DEF GateStatus
    <3> QED BY <1>3, <2>1, <3>2
  <2>2. CASE g \in {"PDF_CAPABLE", "ALLOWLIST_MATCH", "OUTPUTS_PRESENT",
                    "MAPPING_REVIEW_PRESENT"}
    <3>1. GateStatus(g, b, t) = GateStatus(g, b, s)
      BY <2>2, UncheckedGates
    <3> QED BY <3>1
  <2>3. g \in CheckedGates \union {"PDF_CAPABLE", "ALLOWLIST_MATCH",
                                   "OUTPUTS_PRESENT", "MAPPING_REVIEW_PRESENT"}
    BY DEF CheckedGates, GatesOf, EverywhereGates, NotDraftGates
  <2> QED BY <2>1, <2>2, <2>3
<1> QED BY <1>2, <1>4

LEMMA LaxerPermits ==
  ASSUME NEW p, NEW q, Laxer(p, q), PermittedUnder(p)
  PROVE  PermittedUnder(q)
<1> DEFINE b == Build(inputs)
           rp == GateResults(b, p)
           rq == GateResults(b, q)
           pp == ReportFromResults(rp, p)
           pq == ReportFromResults(rq, q)
<1>1. /\ ResultsAccepted(rp, p, inputs.pack)
      /\ Permits(inputs.content, rp, pp, p)
  BY DEF PermittedUnder
<1>2. /\ DOMAIN rp = GatesOf(p) /\ DOMAIN rq = GatesOf(q)
      /\ GatesOf(q) \subseteq GatesOf(p)
      /\ \A g \in GatesOf(p) : rp[g].gate = g
  BY LaxerGates DEF GateResults
<1>3. \A g \in GatesOf(q) :
        /\ rq[g].gate = g /\ rp[g].gate = g
        /\ rq[g].severity = rp[g].severity /\ rq[g].metadata = rp[g].metadata
        /\ rq[g].status = rp[g].status
             \/ (rp[g].status = "FAIL" /\ rq[g].status = "PASS")
  BY LaxerResults
<1> HIDE DEF rp, rq
<1>4. ResultsAccepted(rq, q, inputs.pack)
  <2>1. \A g \in GatesOf(q) : EntryOk(rp[g], inputs.pack)
    BY <1>1, <1>2 DEF ResultsAccepted
  <2>2. \A g \in GatesOf(q) : EntryOk(rq[g], inputs.pack)
    BY <1>3, <2>1 DEF EntryOk, GateStatuses
  <2>3. NoDuplicates(rq) /\ Complete(rq, q)
    BY <1>2, <1>3 DEF NoDuplicates, Complete
  <2>4. inputs.pack # ""
    BY <1>1 DEF ResultsAccepted
  <2>5. \A i \in DOMAIN rq : rq[i].gate \in GatesOf(q) /\ EntryOk(rq[i], inputs.pack)
    BY <1>2, <1>3, <2>2
  <2> QED BY <2>3, <2>4, <2>5 DEF ResultsAccepted
<1>5. BlockerFails(rp) = {}
  BY <1>1 DEF Permits, PermitsExport
<1>6. BlockerFails(rq) = {}
  BY <1>2, <1>3, <1>5 DEF BlockerFails
<1>7. \A g \in GatesOf(q) : pq.gates[g] = rq[g] /\ pp.gates[g] = rp[g]
  <2>1. \A g \in GatesOf(p) : pp.gates[g] = rp[g]
    BY <1>2, ResultsAreReported
  <2>2. \A g \in GatesOf(q) : pq.gates[g] = rq[g]
    BY <1>2, <1>3, ResultsAreReported
  <2> QED BY <1>2, <2>1, <2>2
<1>8. DOMAIN pq.gates = GatesOf(q) /\ DOMAIN pp.gates = GatesOf(p)
  BY <1>1, <1>4, ReportEntries
<1>9. ASSUME NEW g, GateSatisfied(pp, g, p)
      PROVE  GateSatisfied(pq, g, q)
  <2>1. CASE g \notin GatesOf(q)
    BY <2>1 DEF GateSatisfied
  <2>2. CASE g \in GatesOf(q)
    <3>1. pp.gates[g].status \in {"PASS", "NOT_APPLICABLE"}
      BY <1>2, <1>3, <1>7, <1>8, <1>9, <2>2 DEF GateSatisfied
    <3>2. /\ pq.gates[g].status \in {"PASS", "NOT_APPLICABLE"}
          /\ \A i \in GatesOf(q) : pq.gates[i].gate = i
      BY <1>3, <1>7, <2>2, <3>1
    <3> HIDE DEF pq
    <3> QED BY <1>8, <2>2, <3>2 DEF GateSatisfied
  <2> QED BY <2>1, <2>2
<1> HIDE DEF pp, pq
<1> DEFINE reqp == RequestOf(inputs.content, p)
           reqq == RequestOf(inputs.content, q)
<1>10. /\ reqp.policy = p /\ reqq.policy = q
       /\ reqp.network = reqq.network /\ reqp.proof = reqq.proof
       /\ reqp.pinning = reqq.pinning
  BY DEF RequestOf
<1>11. PermitsExport(reqp, BlockerFails(rp), GateSatisfied(pp, "CITATIONS", p),
         GateSatisfied(pp, "REDACTION", p), GateSatisfied(pp, "ZIP_PACKAGING", p))
  BY <1>1 DEF Permits
<1> HIDE DEF reqp, reqq
<1>12. PermitsExport(reqq, BlockerFails(rq), GateSatisfied(pq, "CITATIONS", q),
         GateSatisfied(pq, "REDACTION", q), GateSatisfied(pq, "ZIP_PACKAGING", q))
  <2>1. PinningOk(reqq)
    BY <1>10, <1>11 DEF PermitsExport, PinningOk, Laxer
  <2>2. OfflineOk(reqq) /\ q # "STRICT"
    BY <1>10 DEF OfflineOk, Laxer
  <2>3. GateSatisfied(pq, "ZIP_PACKAGING", q)
    BY <1>9, <1>11 DEF PermitsExport
  <2>4. q = "BALANCED" => GateSatisfied(pq, "REDACTION", q)
    BY <1>9, <1>10, <1>11 DEF PermitsExport, Laxer
  <2>5. q \in {"BALANCED", "DRAFT_ONLY"}
    BY DEF Laxer
  <2> QED BY <1>6, <1>10, <2>1, <2>2, <2>3, <2>4, <2>5 DEF PermitsExport
<1>13. Permits(inputs.content, rq, pq, q)
  BY <1>12 DEF Permits, reqq
<1> QED BY <1>4, <1>13 DEF PermittedUnder, rq, pq

\* Whatever the inputs, a stricter policy permits no export that a laxer one
\* blocks, although each evaluates gates and checks of its own.
THEOREM StricterPermitsLess == Spec => []PolicyMonotone
<1>1. PolicyMonotone
  BY LaxerPermits DEF PolicyMonotone, Laxer
<1> QED BY <1>1, PTL
=============================================================================
