----------------------------- MODULE ExportRun ------------------------------
(***************************************************************************)
(* RunManager (core/src/run/manager.rs): export_run evaluates a run, asks  *)
(* the policy, builds the bundle, validates it, builds it again around the *)
(* audit log so far, validates it again, and records every step of it.     *)
(*                                                                         *)
(* Two artifacts have to agree, the audit log and the ZIP, and every       *)
(* operation on either may fail: an append may have written its record and *)
(* still return an error, a build may leave half an archive, a removal may *)
(* leave what it should remove. A caller may call again.                   *)
(*                                                                         *)
(* The manager is the only writer of its log (AuditLog is the log itself). *)
(* The audit log only grows, so the bundles of a run differ in how much of *)
(* it they embed, and that length identifies their bytes.                  *)
(***************************************************************************)
EXTENDS Naturals, Sequences, FiniteSets, ExportGate

CONSTANTS
  NGates,       \* gates of the registry, numbered in the order of their ids
  Blockers,     \* those of severity BLOCKER
  AppliesTo,    \* applies_to_policies: the gates of each policy
  MaybeNA,      \* not_applicable_allowed
  Citations,    \* the gates that the export policy asks about
  Redactions,
  Determinism,
  MaxCalls,     \* bound on the calls of export_run on one manager
  MaxLog        \* bound on the log: the disk is full beyond it

Gates == 1..NGates

ASSUME ExportAssumption ==
  /\ NGates \in Nat /\ MaxCalls \in Nat /\ MaxLog \in Nat
  /\ Blockers \subseteq Gates /\ MaybeNA \subseteq Gates
  /\ AppliesTo \in [PolicyModes -> SUBSET Gates]
  /\ {Citations, Redactions, Determinism} \subseteq Gates

VARIABLES
  req,      \* the request
  log,      \* the records of the audit log
  torn,     \* a record without its newline follows them
  unacked,  \* the last record is written, and append has not returned yet
  acked,    \* history: the logs whose last record append returned
  state,    \* RunManager.state
  pc,       \* what export_run does next
  outcome,  \* what it is going to return, or returned last
  calls,    \* how often it was called
  results,  \* gate_results
  todo,     \* the gates whose result is still to be recorded
  final,    \* the bundle is being built for the second time
  read,     \* audit_log_ndjson: the length of what read_all_ndjson returned
  dir,      \* the bundle directory
  zip,      \* the file at the export path
  sha,      \* bundle_sha
  passed,   \* history: the archives that passed the final validation
  stuck     \* history: a removal of the ZIP failed

audit == <<log, torn, unacked, acked>>
run == <<req, state, calls, results, todo, final>>
files == <<read, dir, zip, sha, passed, stuck>>
vars == <<audit, run, files, pc, outcome>>

----------------------------------------------------------------------------
RunStates == {"CREATED", "INGESTING", "READY", "EXECUTING", "EVALUATING",
              "EXPORTING", "COMPLETED", "FAILED", "CANCELLED"}
GateValues == {"PASS", "FAIL", "NOT_APPLICABLE"}

\* Events, without the details that no property tells apart.
Event(type) == [type |-> type]
StateChanged(to) == [type |-> "RUN_STATE_CHANGED", to |-> to]
GateResult(g, r) == [type |-> "EVAL_GATE_RESULT", gate |-> g, result |-> r]
Validation(r, f) ==
  [type |-> "BUNDLE_VALIDATION_RESULT", result |-> r, final |-> f]
Completed(s) == [type |-> "EXPORT_COMPLETED", sha |-> s]

Events ==
  {Event(t) : t \in {"EXPORT_REQUESTED", "EVAL_STARTED", "EVAL_COMPLETED",
                     "EXPORT_BLOCKED", "BUNDLE_GENERATION_STARTED",
                     "BUNDLE_GENERATION_COMPLETED", "BUNDLE_VALIDATION_STARTED",
                     "EXPORT_FAILED", "NETWORK_MODE_SET", "ALLOWLIST_UPDATED"}}
  \union {StateChanged(s) : s \in RunStates}
  \union {GateResult(g, r) : g \in Gates, r \in GateValues}
  \union {Validation(r, f) : r \in {"PASS", "FAIL"}, f \in BOOLEAN}
  \union {Completed(s) : s \in 0..MaxLog}

\* A bundle directory or archive and how much of the log it embeds. An archive
\* that is reserved, empty or cut short is "partial".
Absent == [file |-> "absent", embeds |-> 0]
Partial == [file |-> "partial", embeds |-> 0]
Whole(n) == [file |-> "whole", embeds |-> n]
Bundles == [file: {"absent", "partial", "whole"}, embeds: 0..MaxLog]

\* The points at which export_run appends (at the last two, its caller does),
\* and the others.
AppendPcs == {"request", "evaluate", "start_eval", "gate_results", "blocked",
  "to_exporting", "start_generation", "generated", "start_validation", "passed",
  "rejected", "fail", "complete", "to_completed", "to_failed",
  "network_mode", "allowlist"}
Pcs == AppendPcs \union {"idle", "preflight", "gate", "read_log", "refresh",
  "build_dir", "build_zip", "validate", "discard", "return"}

TypeOK ==
  /\ req \in ExportRequests
  /\ log \in Seq(Events) /\ Len(log) <= MaxLog /\ acked \subseteq Seq(Events)
  /\ torn \in BOOLEAN /\ unacked \in BOOLEAN /\ (unacked => log # << >>)
  /\ state \in RunStates
  /\ pc \in Pcs
  /\ outcome \in {"none", "completed", "blocked", "failed", "error"}
  /\ calls \in 0..MaxCalls
  /\ results \in [Gates -> GateValues]
  /\ todo \subseteq Gates
  /\ final \in BOOLEAN
  /\ read \in 0..MaxLog /\ sha \in 0..MaxLog
  /\ dir \in Bundles /\ zip \in Bundles
  /\ passed \subseteq 0..MaxLog
  /\ stuck \in BOOLEAN

----------------------------------------------------------------------------
\* Where export_run calls transition, and with which state.
Target == [evaluate |-> "EVALUATING", to_exporting |-> "EXPORTING",
           to_completed |-> "COMPLETED", to_failed |-> "FAILED"]

\* The first n records of the log; all of them.
Upto(n) == {log[m] : m \in 1..n}
Recorded == Upto(Len(log))

\* The archive at the export path is gone, or cannot be removed.
Removed == zip' = Absent /\ UNCHANGED stuck
NotRemoved == zip # Absent /\ stuck' = TRUE /\ UNCHANGED zip

\* export_run is at p; an append in progress has to return first.
At(p) == pc = p /\ ~unacked

\* Any `?`: export_run returns the error.
ReturnError == pc' = "idle" /\ outcome' = "error"

----------------------------------------------------------------------------
(***************************************************************************)
(* Mutants: slips this code could have made, each a wrong form of a        *)
(* definition below. They are not part of the specification.               *)
(***************************************************************************)
\* A run whose call broke off may be evaluated again.
ValidTransitionRetry(from, to) ==
  <<from, to>> \in {<<"READY", "EVALUATING">>, <<"EVALUATING", "EVALUATING">>,
    <<"EVALUATING", "EXPORTING">>, <<"EVALUATING", "FAILED">>,
    <<"EXPORTING", "COMPLETED">>, <<"EXPORTING", "FAILED">>}

\* transition moves on although its append failed after the write.
AppendFailsMoved ==
  /\ unacked \/ pc \in AppendPcs
  /\ unacked' = FALSE
  /\ torn' \in IF unacked THEN {torn} ELSE {torn, TRUE}
  /\ ReturnError
  /\ LET e == IF log = << >> THEN Event("") ELSE log[Len(log)] IN
       state' = IF unacked /\ e.type = "RUN_STATE_CHANGED" THEN e.to ELSE state
  /\ UNCHANGED <<log, acked, req, calls, results, todo, final, files>>

\* Failures of gates are only collected for the gates the policy asks about.
BlockerFailsAsked ==
  {g \in AppliesTo[req.policy] \intersect {Citations, Redactions, Determinism} :
     results[g] = "FAIL"}

\* The status of a blocked export is the reason.
DecideExportReason ==
  /\ At("gate")
  /\ pc' = IF BlockerFailsAsked = {} THEN "to_exporting" ELSE "blocked"
  /\ outcome' = IF BlockerFailsAsked = {} THEN outcome ELSE "EVAL_FAILED"
  /\ UNCHANGED <<audit, run, files>>

\* The bundle is rebuilt without reading the log again.
ReadLogOnce ==
  /\ At("read_log") \/ At("refresh")
  /\ read' = IF pc = "refresh" THEN read ELSE Len(log)
  /\ final' = (pc = "refresh")
  /\ pc' = "build_dir"
  /\ UNCHANGED <<audit, req, state, calls, results, todo, outcome,
                 dir, zip, sha, passed, stuck>>

\* EXPORT_COMPLETED is given the digest of the first round.
BuildZipFirstSha ==
  /\ At("build_zip")
  /\ zip' = dir
  /\ sha' = IF final THEN sha ELSE dir.embeds
  /\ pc' = IF final THEN "validate" ELSE "generated"
  /\ UNCHANGED <<audit, run, outcome, read, dir, passed, stuck>>

\* An error of the validator is reported before the archive is removed.
ValidateFailsKept ==
  /\ At("validate")
  /\ pc' = "fail" /\ outcome' = "error"
  /\ UNCHANGED <<audit, run, read, dir, zip, sha, passed, stuck>>

\* A rejected archive is reported as failed without being removed.
DiscardKept ==
  /\ At("discard")
  /\ pc' = "fail" /\ outcome' = "failed"
  /\ UNCHANGED <<audit, run, read, dir, zip, sha, passed, stuck>>

----------------------------------------------------------------------------
\* matches! of valid_transition: the edges between run states.
ValidTransition(from, to) ==
  \/ to = "CANCELLED"
  \/ <<from, to>> \in {<<"CREATED", "INGESTING">>, <<"CREATED", "READY">>,
       <<"READY", "EXECUTING">>, <<"EXECUTING", "EVALUATING">>,
       <<"READY", "EVALUATING">>, <<"EVALUATING", "EXPORTING">>,
       <<"EVALUATING", "FAILED">>, <<"EXPORTING", "COMPLETED">>,
       <<"EXPORTING", "FAILED">>}

----------------------------------------------------------------------------
(***************************************************************************)
(* The audit log, as its only writer uses it.                              *)
(***************************************************************************)
\* append writes the record of e; once it has returned, export_run is at next.
Log(p, e, next) ==
  /\ At(p) /\ ~torn /\ Len(log) < MaxLog
  /\ log' = Append(log, e)
  /\ unacked' = TRUE
  /\ pc' = next
  /\ UNCHANGED <<torn, acked>>

\* append returns; after the append of transition, the state follows.
AppendReturns ==
  /\ unacked
  /\ unacked' = FALSE
  /\ acked' = acked \union {log}
  /\ LET e == log[Len(log)] IN
       state' = IF e.type = "RUN_STATE_CHANGED" THEN e.to ELSE state
  /\ UNCHANGED <<log, torn, pc, outcome, req, calls, results, todo, final, files>>

\* append returns an error: its record is written but not synced, cut short, or
\* not written, and always so after one that was cut short.
AppendFails ==
  /\ \/ unacked
     \/ /\ pc \in AppendPcs
        /\ pc \in DOMAIN Target => ValidTransition(state, Target[pc])
  /\ unacked' = FALSE
  /\ torn' \in IF unacked THEN {torn} ELSE {torn, TRUE}
  /\ ReturnError
  /\ UNCHANGED <<log, acked, run, files>>

\* transition, whose edge is checked before the record is written.
Transition(p, next) ==
  /\ ValidTransition(state, Target[p])
  /\ Log(p, StateChanged(Target[p]), next)

TransitionRefused ==
  /\ \E p \in DOMAIN Target : At(p) /\ ~ValidTransition(state, Target[p])
  /\ ReturnError
  /\ UNCHANGED <<audit, run, files>>

----------------------------------------------------------------------------
Init ==
  /\ req \in ExportRequests
  /\ log = << >> /\ torn = FALSE /\ unacked = FALSE /\ acked = {}
  /\ state = "READY"
  /\ pc = "idle" /\ outcome = "none" /\ calls = 0
  /\ results = [g \in Gates |-> "FAIL"] /\ todo = {} /\ final = FALSE
  /\ read = 0 /\ dir = Absent /\ zip \in {Absent, Partial}
  /\ sha = 0 /\ passed = {} /\ stuck = FALSE

Call ==
  /\ At("idle") /\ calls < MaxCalls
  /\ calls' = calls + 1
  /\ final' = FALSE
  /\ pc' = "request" /\ outcome' = "none"
  /\ UNCHANGED <<audit, req, state, results, todo, files>>

\* EXPORT_REQUESTED, the run is EVALUATING, EVAL_STARTED.
Request ==
  /\ \/ Log("request", Event("EXPORT_REQUESTED"), "evaluate")
     \/ Transition("evaluate", "start_eval")
     \/ Log("start_eval", Event("EVAL_STARTED"), "preflight")
  /\ UNCHANGED <<run, files, outcome>>

----------------------------------------------------------------------------
(***************************************************************************)
(* Evaluation: the gates are run on a bundle of its own, made and removed  *)
(* here. NOT_APPLICABLE is a result of some gates only, and a gate that    *)
(* does not apply has none (it is left as FAIL).                           *)
(***************************************************************************)
Preflight ==
  /\ At("preflight")
  /\ results' \in {r \in [Gates -> GateValues] :
       \A g \in Gates : \/ g \notin AppliesTo[req.policy] /\ r[g] = "FAIL"
                        \/ g \in AppliesTo[req.policy]
                             /\ (r[g] = "NOT_APPLICABLE" => g \in MaybeNA)}
  /\ todo' = AppliesTo[req.policy]
  /\ pc' = "gate_results"
  /\ UNCHANGED <<audit, req, state, calls, final, files, outcome>>

\* A build, an evaluator or the report returned an error.
PreflightFails ==
  /\ At("preflight")
  /\ ReturnError
  /\ UNCHANGED <<audit, run, files>>

LogGateResult ==
  /\ \E g \in todo :
       /\ \A h \in todo : g <= h
       /\ Log("gate_results", GateResult(g, results[g]), "gate_results")
       /\ todo' = todo \ {g}
  /\ UNCHANGED <<req, state, calls, results, final, files, outcome>>

LogEvaluated ==
  /\ todo = {}
  /\ Log("gate_results", Event("EVAL_COMPLETED"), "gate")
  /\ UNCHANGED <<run, files, outcome>>

\* gate_satisfied_for_export
Satisfied(g) ==
  g \in AppliesTo[req.policy] => results[g] \in {"PASS", "NOT_APPLICABLE"}

BlockerFails ==
  {g \in AppliesTo[req.policy] \intersect Blockers : results[g] = "FAIL"}

Permitted == PermitsExport(req, BlockerFails, Satisfied(Citations),
               Satisfied(Redactions), Satisfied(Determinism))

DecideExport ==
  /\ At("gate")
  /\ pc' = IF Permitted THEN "to_exporting" ELSE "blocked"
  /\ outcome' = IF Permitted THEN outcome ELSE "blocked"
  /\ UNCHANGED <<audit, run, files>>

Block ==
  /\ Log("blocked", Event("EXPORT_BLOCKED"), "to_failed")
  /\ UNCHANGED <<run, files, outcome>>

----------------------------------------------------------------------------
(***************************************************************************)
(* Generation and validation, twice.                                       *)
(***************************************************************************)
StartExport ==
  /\ \/ Transition("to_exporting", "start_generation")
     \/ Log("start_generation", Event("BUNDLE_GENERATION_STARTED"), "read_log")
  /\ UNCHANGED <<run, files, outcome>>

ReadLog ==
  /\ At("read_log") \/ At("refresh")
  /\ read' = Len(log)
  /\ final' = (pc = "refresh")
  /\ pc' = "build_dir"
  /\ UNCHANGED <<audit, req, state, calls, results, todo, outcome,
                 dir, zip, sha, passed, stuck>>

ReadLogFails ==
  /\ At("read_log") \/ At("refresh")
  /\ ReturnError
  /\ UNCHANGED <<audit, run, files>>

BuildDir ==
  /\ At("build_dir")
  /\ dir' = Whole(read)
  /\ pc' = "build_zip"
  /\ UNCHANGED <<audit, run, outcome, read, zip, sha, passed, stuck>>

\* The ZIP of the first round is stale now: remove_stale_export_on_error.
BuildDirFails ==
  /\ At("build_dir")
  /\ dir' = Partial
  /\ Removed \/ NotRemoved
  /\ pc' = "fail" /\ outcome' = "error"
  /\ UNCHANGED <<audit, run, read, sha, passed>>

\* build_zip truncates and rewrites the archive; the first round's digest is
\* dropped.
BuildZip ==
  /\ At("build_zip")
  /\ zip' = dir
  /\ sha' = IF final THEN dir.embeds ELSE sha
  /\ pc' = IF final THEN "validate" ELSE "generated"
  /\ UNCHANGED <<audit, run, outcome, read, dir, passed, stuck>>

BuildZipFails ==
  /\ At("build_zip")
  /\ Removed \/ (stuck' = TRUE /\ zip' \in {zip, Partial} \ {Absent})
  /\ pc' = "fail" /\ outcome' = "error"
  /\ UNCHANGED <<audit, run, read, dir, sha, passed>>

Generated ==
  /\ \/ Log("generated", Event("BUNDLE_GENERATION_COMPLETED"), "start_validation")
     \/ Log("start_validation", Event("BUNDLE_VALIDATION_STARTED"), "validate")
  /\ UNCHANGED <<run, files, outcome>>

\* validate_zip
Validate ==
  /\ At("validate")
  /\ \/ pc' = "passed" /\ passed' = IF final THEN passed \union {zip.embeds} ELSE passed
     \/ pc' = "rejected" /\ UNCHANGED passed
  /\ UNCHANGED <<audit, run, outcome, read, dir, zip, sha, stuck>>

\* validate_zip returned an error.
ValidateFails ==
  /\ At("validate")
  /\ pc' = "fail" /\ outcome' = "error"
  /\ Removed
  /\ UNCHANGED <<audit, run, read, dir, sha, passed>>

LogVerdict ==
  /\ \/ Log("passed", Validation("PASS", final), IF final THEN "complete" ELSE "refresh")
     \/ Log("rejected", Validation("FAIL", final), "discard")
  /\ UNCHANGED <<run, files, outcome>>

\* remove_exported_bytes of a rejected archive.
Discard ==
  /\ At("discard")
  /\ Removed
  /\ pc' = "fail" /\ outcome' = "failed"
  /\ UNCHANGED <<audit, run, read, dir, sha, passed>>

\* It fails, after a rejection or an error of the validator: nothing more is
\* recorded.
DiscardFails ==
  /\ At("discard") \/ At("validate")
  /\ NotRemoved
  /\ ReturnError
  /\ UNCHANGED <<audit, run, read, dir, sha, passed>>

----------------------------------------------------------------------------
Complete ==
  /\ \/ Log("complete", Completed(sha), "to_completed") /\ UNCHANGED outcome
     \/ /\ Transition("to_completed", "return")
        /\ outcome' = "completed"
  /\ UNCHANGED <<run, files>>

Fail ==
  /\ \/ Log("fail", Event("EXPORT_FAILED"), "to_failed")
     \/ Transition("to_failed", "return")
  /\ UNCHANGED <<run, files, outcome>>

Return ==
  /\ At("return")
  /\ pc' = "idle"
  /\ UNCHANGED <<audit, run, files, outcome>>

Evaluate == Preflight \/ PreflightFails \/ LogGateResult \/ LogEvaluated
Build == ReadLog \/ ReadLogFails \/ BuildDir \/ BuildDirFails \/ BuildZip
  \/ BuildZipFails \/ Generated
Check == Validate \/ ValidateFails \/ LogVerdict \/ Discard \/ DiscardFails

\* A step of the call in progress.
Step == AppendReturns \/ AppendFails \/ Request \/ Evaluate \/ DecideExport
  \/ Block \/ StartExport \/ Build \/ Check \/ Complete \/ Fail
  \/ TransitionRefused \/ Return

Next == Call \/ Step

Spec == Init /\ [][Next]_vars

----------------------------------------------------------------------------
(* What EXPORT_COMPLETED names is what lies at the export path: whole, with *)
(* the digest recorded, and accepted by the final validation of these very *)
(* bytes. Later calls on the same manager do not change that.              *)
CompletedArchive ==
  \A e \in Recorded : e.type = "EXPORT_COMPLETED" =>
    zip = Whole(e.sha) /\ e.sha \in passed

(* An archive carries the evidence for its own export: the log it embeds   *)
(* shows the completed evaluation and the permission to export, and one    *)
(* that passed the final validation shows the first validation as well.    *)
EmbeddedEvidence ==
  zip.file = "whole" =>
    /\ zip.embeds <= Len(log)
    /\ {Event("EVAL_COMPLETED"), StateChanged("EXPORTING")} \subseteq Upto(zip.embeds)
    /\ zip.embeds \in passed => Validation("PASS", FALSE) \in Upto(zip.embeds)

(* Addendum_B: "EXPORTING must not occur unless EVALUATING completed and   *)
(* gates permit export". Wherever the log says EXPORTING, it has said      *)
(* before that every applicable gate was evaluated and no blocker failed.  *)
GatesPermit ==
  \A n \in DOMAIN log : log[n] = StateChanged("EXPORTING") =>
    /\ Event("EVAL_COMPLETED") \in Upto(n - 1)
    /\ \A g \in AppliesTo[req.policy] :
         /\ \E r \in GateValues : GateResult(g, r) \in Upto(n - 1)
         /\ g \in Blockers => GateResult(g, "FAIL") \notin Upto(n - 1)

(* The state of the run is the last one that was recorded and acknowledged, *)
(* whichever append fails.                                                 *)
AckedStates ==
  {n \in DOMAIN log : log[n].type = "RUN_STATE_CHANGED" /\ SubSeq(log, 1, n) \in acked}

StateFollowsLog ==
  IF AckedStates = {} THEN state = "READY"
  ELSE \E n \in AckedStates : (\A m \in AckedStates : m <= n) /\ state = log[n].to

(* docs/adr/0001: failed exports "remove any ZIP at the export path and    *)
(* cannot emit EXPORT_COMPLETED". Once EXPORT_FAILED is recorded no archive *)
(* is there, unless removing it was tried and failed, and none was or will *)
(* be reported as completed.                                               *)
FailureLeavesNothing ==
  Event("EXPORT_FAILED") \in Recorded =>
    /\ zip = Absent \/ stuck
    /\ \A e \in Recorded : e.type # "EXPORT_COMPLETED"

(* What a call returns holds: COMPLETED comes with the record of it, the   *)
(* state and the archive; BLOCKED and FAILED with their record, the state, *)
(* and FAILED with no archive.                                             *)
OutcomeHolds ==
  At("idle") =>
    /\ outcome = "completed" =>
         /\ state = "COMPLETED" /\ Completed(sha) \in Recorded /\ log \in acked
         /\ zip = Whole(sha)
    /\ outcome = "blocked" =>
         /\ state = "FAILED" /\ Event("EXPORT_BLOCKED") \in Recorded /\ log \in acked
    /\ outcome = "failed" =>
         /\ state = "FAILED" /\ Event("EXPORT_FAILED") \in Recorded /\ log \in acked
         /\ zip = Absent

(* A run ends once. After the record of its end, be that blocked, failed   *)
(* or completed, the log takes the transition to the state of that very    *)
(* end and the requests of calls that are refused, and nothing more: no    *)
(* second end, no evaluation, no generation. That is so too when the       *)
(* append of the end, or of its transition, failed after the write, and    *)
(* the run was left in EVALUATING or EXPORTING for the next call.          *)
EndState == [EXPORT_BLOCKED |-> "FAILED", EXPORT_FAILED |-> "FAILED",
             EXPORT_COMPLETED |-> "COMPLETED"]

RunEndsOnce ==
  \A n, m \in DOMAIN log : n < m /\ log[n].type \in DOMAIN EndState =>
    log[m] \in {Event("EXPORT_REQUESTED"), StateChanged(EndState[log[n].type])}

(* Addendum_B_Audit_Event_Taxonomy_v2.md:49: "Export failure MUST be       *)
(* recorded via EXPORT_BLOCKED (policy/gate block) or EXPORT_FAILED        *)
(* (unexpected failure)". Here a call returns an error that is not one of  *)
(* the log: each of its appends succeeded, and another could.              *)
FailureRecorded ==
  [][pc # "idle" /\ pc \notin AppendPcs /\ ~unacked /\ pc' = "idle" /\ outcome' = "error" =>
       Event("EXPORT_BLOCKED") \in Recorded \/ Event("EXPORT_FAILED") \in Recorded]_vars

----------------------------------------------------------------------------
(***************************************************************************)
(* The inductive invariant behind these properties: what is known at each  *)
(* point of export_run.                                                    *)
(***************************************************************************)
\* The points of the export proper, and those at which a call can be when an
\* earlier one has come further.
BundlePcs == {"read_log", "refresh", "build_dir", "build_zip", "generated",
  "start_validation", "validate", "passed", "rejected", "discard", "fail",
  "complete", "to_completed"}
EntryPcs == {"idle", "request", "evaluate"}

\* Where the bundle has not been built, or built only once.
FirstRoundPcs == {"request", "evaluate", "start_eval", "preflight", "gate_results",
  "gate", "blocked", "to_exporting", "start_generation", "read_log", "refresh",
  "generated", "start_validation"}

\* Where the last record is a state that append has yet to return.
AfterTransition == {"start_eval", "start_generation", "return"}

AppendInv ==
  /\ unacked => /\ pc = "idle" => outcome = "none"
                /\ log \notin acked
                /\ (log[Len(log)].type = "RUN_STATE_CHANGED" <=> pc \in AfterTransition)
  /\ \A a \in acked : Len(a) <= Len(log)

\* The state that the last transition recorded, at the points where it is pc's.
Pending(from, to) ==
  IF unacked THEN state = from /\ log[Len(log)] = StateChanged(to) ELSE state = to

StateInv ==
  /\ state \in {"READY", "EVALUATING", "EXPORTING", "COMPLETED", "FAILED"}
  /\ pc \in {"network_mode", "allowlist"} => state = "READY"
  /\ pc = "start_eval" => Pending("READY", "EVALUATING")
  /\ pc \in {"preflight", "gate_results", "gate", "blocked", "to_exporting"} =>
       state = "EVALUATING"
  /\ pc = "start_generation" => Pending("EVALUATING", "EXPORTING")
  /\ pc \in BundlePcs => state = "EXPORTING"
  /\ pc = "to_failed" => state = IF outcome = "blocked" THEN "EVALUATING" ELSE "EXPORTING"
  /\ pc = "return" =>
       CASE outcome = "completed" -> Pending("EXPORTING", "COMPLETED")
         [] outcome = "blocked" -> Pending("EVALUATING", "FAILED")
         [] OTHER -> Pending("EXPORTING", "FAILED")

\* The run has not come to its evaluation before: only such calls pass evaluate.
FreshInv ==
  state = "READY" \/ pc \in {"start_eval", "preflight"} =>
    \A e \in Recorded :
      e \in {Event("EXPORT_REQUESTED"), Event("EVAL_STARTED"), StateChanged("EVALUATING"),
             Event("NETWORK_MODE_SET"), Event("ALLOWLIST_UPDATED")}

Evaluated ==
  /\ Event("EVAL_COMPLETED") \in Recorded
  /\ \A g \in AppliesTo[req.policy] : GateResult(g, results[g]) \in Recorded

GateInv ==
  /\ \A g \in Gates, r \in GateValues : GateResult(g, r) \in Recorded => r = results[g]
  /\ pc = "gate_results" => \A g \in AppliesTo[req.policy] \ todo :
       GateResult(g, results[g]) \in Recorded
  /\ pc \in {"gate", "blocked", "to_exporting"} => Evaluated
  /\ pc = "to_exporting" => BlockerFails = {}

\* The first n records hold the evidence that an archive has to embed.
Evidence(n) ==
  /\ n \in 0..Len(log)
  /\ {Event("EVAL_COMPLETED"), StateChanged("EXPORTING")} \subseteq Upto(n)

Revalidated(n) == n \in 0..Len(log) /\ Validation("PASS", FALSE) \in Upto(n)

BundleInv ==
  /\ pc \in BundlePcs \union {"start_generation"} => Evidence(Len(log))
  /\ pc \in FirstRoundPcs => ~final
  /\ pc = "refresh" => Revalidated(Len(log))
  /\ pc \in {"build_dir", "build_zip", "validate"} =>
       Evidence(read) /\ (final => Revalidated(read))
  /\ pc = "build_zip" => dir = Whole(read)
  /\ pc \in {"generated", "start_validation", "validate", "passed"} => zip = Whole(read)
  /\ pc \in {"validate", "passed"} /\ final => sha = read
  /\ pc = "passed" /\ final => read \in passed
  /\ pc \in {"complete", "to_completed"} => zip = Whole(sha) /\ sha \in passed
  /\ zip.file = "whole" => Evidence(zip.embeds)
  /\ \A n \in passed : Revalidated(n)

\* A record of the end is followed by nothing but that end.
EndInv ==
  /\ \A e \in Recorded : e.type = "EXPORT_COMPLETED" =>
       /\ e = Completed(sha) /\ zip = Whole(sha) /\ sha \in passed
       /\ pc \in EntryPcs \union {"to_completed", "return"}
       /\ state \in {"EXPORTING", "COMPLETED"}
       /\ pc = "return" => outcome = "completed"
       /\ Event("EXPORT_FAILED") \notin Recorded
  /\ Event("EXPORT_FAILED") \in Recorded =>
       /\ zip = Absent \/ stuck
       /\ pc \in EntryPcs \union {"to_failed", "return"}
       /\ state \in {"EXPORTING", "FAILED"}

OutcomeInv ==
  /\ pc \notin {"idle", "blocked", "fail", "to_failed", "return"} => outcome = "none"
  /\ pc = "blocked" => outcome = "blocked"
  /\ pc = "fail" => outcome \in {"failed", "error"} /\ (zip = Absent \/ stuck)
  /\ pc = "to_completed" => Completed(sha) \in Recorded
  /\ pc \in {"to_failed", "return"} => outcome # "none"
  /\ pc = "to_failed" => outcome # "completed"
  /\ outcome = "completed" => pc \in {"return", "idle"} /\ zip = Whole(sha)
       /\ Completed(sha) \in Recorded
  /\ outcome = "blocked" /\ pc # "blocked" =>
       pc \in {"to_failed", "return", "idle"} /\ Event("EXPORT_BLOCKED") \in Recorded
  /\ outcome = "failed" =>
       /\ zip = Absent /\ pc \in {"fail", "to_failed", "return", "idle"}
       /\ pc # "fail" => Event("EXPORT_FAILED") \in Recorded
  /\ pc \in {"to_failed", "return"} /\ outcome = "error" => Event("EXPORT_FAILED") \in Recorded
  /\ pc = "idle" => /\ outcome = "completed" => state = "COMPLETED" /\ log \in acked
                    /\ outcome \in {"blocked", "failed"} => state = "FAILED" /\ log \in acked
  /\ pc = "return" /\ ~unacked => log \in acked

(* These hold together in every reachable state.                           *)
ExportInv ==
  /\ TypeOK /\ AppendInv /\ StateInv /\ FreshInv /\ GateInv /\ BundleInv
  /\ EndInv /\ OutcomeInv /\ GatesPermit /\ StateFollowsLog
=============================================================================
