------------------------- MODULE ExportCommandProofs -------------------------
(***************************************************************************)
(* Theorems about ExportCommand: what generate_evidenceos_bundle returns,  *)
(* for every registry of gates and every failure. The command logs before  *)
(* the run, makes the output file and removes it. ArchiveInv is about the  *)
(* one call of export_run in it and also relates the directory, which the  *)
(* authority is read from; ExportInv, the invariant of ExportProofs, holds  *)
(* here too until the guard drops the output (RunInv).                     *)
(***************************************************************************)
EXTENDS ExportCommand, ExportProofs

----------------------------------------------------------------------------
(***************************************************************************)
(* The archive, within one call of export_run: where it is the directory,  *)
(* where its digest is bundle_sha, and where it is validated and recorded. *)
(***************************************************************************)
Recognized == zip = Whole(sha) /\ dir = zip /\ sha \in passed

ArchiveInv ==
  /\ pc = "build_zip" => dir = Whole(read)
  /\ pc \in {"generated", "start_validation", "validate", "passed"} =>
       zip = Whole(read) /\ dir = zip
  /\ pc \in {"generated", "start_validation"} => ~final
  /\ pc \in {"validate", "passed"} /\ final => sha = read
  /\ pc = "passed" /\ final => read \in passed
  /\ pc \in {"complete", "to_completed"} => Recognized
  /\ pc = "to_completed" => Completed(sha) \in Recorded
  /\ outcome = "completed" =>
       /\ pc \in {"return", "idle"} /\ (pc = "idle" => ~unacked)
       /\ Recognized /\ Completed(sha) \in Recorded

LEMMA ArchiveStep ==
  ASSUME TypeOK, ArchiveInv, Next
  PROVE  ArchiveInv'
<1> USE DEF At, audit, run, files
<1>0. Recorded \subseteq Recorded'
  BY Monotone
<1>1. ASSUME UNCHANGED <<files, outcome>>, outcome # "completed",
             pc' \notin {"build_zip", "generated", "start_validation", "validate",
                         "passed", "complete", "to_completed"}
      PROVE  ArchiveInv'
  BY <1>1 DEF ArchiveInv
<1>2. ASSUME outcome' # "completed",
             pc' \in {"idle", "fail", "request", "blocked"}
      PROVE  ArchiveInv'
  BY <1>2 DEF ArchiveInv
<1>3. CASE Call
  BY <1>2, <1>3 DEF Call
<1>4. CASE AppendReturns
  <2>1. UNCHANGED <<files, outcome, pc, final>> /\ ~unacked'
    BY <1>4 DEF AppendReturns
  <2> QED BY <1>0, <2>1 DEF ArchiveInv, Recognized
<1>5. CASE AppendFails
  BY <1>2, <1>5 DEF AppendFails, ReturnError
<1>6. CASE Request
  BY <1>1, <1>6 DEF Request, Transition, Log, ArchiveInv
<1>7. CASE Evaluate
  <2>1. CASE PreflightFails
    BY <1>2, <2>1 DEF PreflightFails, ReturnError
  <2>2. CASE Preflight
    BY <1>1, <2>2 DEF Preflight, ArchiveInv
  <2>3. CASE LogGateResult \/ LogEvaluated
    BY <1>1, <2>3 DEF LogGateResult, LogEvaluated, Log, ArchiveInv
  <2> QED BY <1>7, <2>1, <2>2, <2>3 DEF Evaluate
<1>8. CASE DecideExport
  <2>1. outcome # "completed"
    BY <1>8 DEF DecideExport, ArchiveInv
  <2> QED BY <1>1, <1>2, <1>8, <2>1 DEF DecideExport
<1>9. CASE Block
  BY <1>1, <1>9 DEF Block, Log, ArchiveInv
<1>10. CASE StartExport
  BY <1>1, <1>10 DEF StartExport, Transition, Log, ArchiveInv
<1>11. CASE Build
  <2>1. CASE ReadLog BY <2>1 DEF ReadLog, ArchiveInv
  <2>2. CASE ReadLogFails BY <1>2, <2>2 DEF ReadLogFails, ReturnError
  <2>3. CASE BuildDir BY <2>3 DEF BuildDir, ArchiveInv
  <2>4. CASE BuildDirFails BY <1>2, <2>4 DEF BuildDirFails
  <2>5. CASE BuildZip
    <3>1. /\ dir = Whole(read) /\ outcome # "completed"
      BY <2>5 DEF BuildZip, ArchiveInv
    <3>2. dir.embeds = read
      BY <3>1 DEF Whole
    <3> QED BY <2>5, <3>1, <3>2 DEF BuildZip, ArchiveInv
  <2>6. CASE BuildZipFails BY <1>2, <2>6 DEF BuildZipFails
  <2>7. CASE Generated
    BY <1>0, <2>7 DEF Generated, Log, ArchiveInv
  <2> QED BY <1>11, <2>1, <2>2, <2>3, <2>4, <2>5, <2>6, <2>7 DEF Build
<1>12. CASE Check
  <2>1. CASE Validate
    <3>1. zip = Whole(read) /\ dir = zip /\ outcome # "completed"
          /\ (final => sha = read)
      BY <2>1 DEF Validate, ArchiveInv
    <3>2. zip.embeds = read
      BY <3>1 DEF Whole
    <3> QED BY <2>1, <3>1, <3>2 DEF Validate, ArchiveInv
  <2>2. CASE ValidateFails BY <1>2, <2>2 DEF ValidateFails
  <2>3. CASE LogVerdict
    BY <2>3 DEF LogVerdict, Log, ArchiveInv, Recognized
  <2>4. CASE Discard BY <1>2, <2>4 DEF Discard
  <2>5. CASE DiscardFails BY <1>2, <2>5 DEF DiscardFails, ReturnError
  <2> QED BY <1>12, <2>1, <2>2, <2>3, <2>4, <2>5 DEF Check
<1>13. CASE Complete
  <2>1. CASE Log("complete", Completed(sha), "to_completed")
    <3>1. UNCHANGED <<files, outcome>> /\ pc = "complete" /\ pc' = "to_completed"
      BY <1>13, <2>1 DEF Complete, Log, Transition
    <3>2. Completed(sha) \in Events
      BY EventTypes DEF TypeOK
    <3>3. Completed(sha) \in Recorded'
      BY <2>1, <3>2, Logged DEF AppendPcs, Pcs
    <3> QED BY <3>1, <3>3 DEF ArchiveInv, Recognized
  <2>2. CASE Transition("to_completed", "return") /\ outcome' = "completed"
    BY <1>0, <1>13, <2>2 DEF Complete, Transition, Log, ArchiveInv, Recognized
  <2> QED BY <1>13, <2>1, <2>2 DEF Complete
<1>14. CASE Fail
  BY <1>1, <1>14 DEF Fail, Transition, Log, ArchiveInv
<1>15. CASE TransitionRefused
  BY <1>2, <1>15 DEF TransitionRefused, ReturnError
<1>16. CASE Return
  BY <1>0, <1>16 DEF Return, ArchiveInv, Recognized
<1> QED BY <1>3, <1>4, <1>5, <1>6, <1>7, <1>8, <1>9, <1>10, <1>11, <1>12, <1>13,
           <1>14, <1>15, <1>16 DEF Next, Step

----------------------------------------------------------------------------
(***************************************************************************)
(* The command.                                                            *)
(***************************************************************************)
ReplyInv ==
  /\ stage \in {"start", "reserve", "running"} => reply = "none" /\ ~keep
  /\ stage = "read_authority" => ~keep
  /\ stage \in {"read_authority"} => outcome = "completed" /\ pc = "idle"
  /\ reply = "ok" => keep
  /\ reply = "error" => ~keep
  /\ keep => outcome = "completed" /\ pc = "idle"
  /\ stage \in {"start", "reserve"} => taken = (zip # Absent)
  /\ taken => zip = Partial /\ stage \in {"start", "reserve", "drop_runtime", "returned"}
  /\ stage \in {"drop_runtime", "returned"} /\ reply = "error" /\ ~taken =>
       zip = Absent \/ stuck

\* Until the output is dropped, and for good if it is kept.
OutputStands ==
  stage \in {"start", "reserve", "running", "read_authority"} \/ keep

CommandInv == CommandTypeOK /\ ReplyInv /\ (OutputStands => ArchiveInv)

LEMMA CommandInits == CommandInit => CommandInv
<1> SUFFICES ASSUME CommandInit PROVE CommandInv
  OBVIOUS
<1>1. TypeOK
  BY InitTypes DEF CommandInit
<1>2. CommandTypeOK
  BY <1>1 DEF CommandInit, CommandTypeOK, Stages
<1>3. ArchiveInv
  BY DEF CommandInit, Init, ArchiveInv
<1>4. ReplyInv
  BY DEF CommandInit, Init, ReplyInv
<1> QED BY <1>2, <1>3, <1>4 DEF CommandInv

\* The two events before the run.
LEMMA PolicyStep ==
  ASSUME TypeOK, ArchiveInv, LogPolicy
  PROVE  TypeOK' /\ ArchiveInv'
<1> USE DEF audit, run, files
<1>1. PICK p \in {"network_mode", "allowlist"},
           e \in {Event("NETWORK_MODE_SET"), Event("ALLOWLIST_UPDATED")},
           next \in {"allowlist", "idle"} : Log(p, e, next)
  BY DEF LogPolicy
<1>2. e \in Events
  BY <1>1 DEF Events
<1>3. p \in AppendPcs /\ next \in Pcs
  BY <1>1 DEF AppendPcs, Pcs
<1>4. UNCHANGED <<run, files, outcome>>
  BY DEF LogPolicy
<1>5. TypeOK'
  BY <1>1, <1>2, <1>3, <1>4, LogTypes DEF TypeOK
<1>6. outcome # "completed"
  BY <1>1 DEF Log, At, ArchiveInv
<1>7. ArchiveInv'
  BY <1>1, <1>4, <1>6 DEF Log, ArchiveInv
<1> QED BY <1>5, <1>7

\* They disturb nothing of what is known about the run, which has not begun.
LEMMA PolicyKeeps ==
  ASSUME ExportInv, LogPolicy
  PROVE  ExportInv'
<1> USE DEF audit, run, files
<1>1. PICK p \in {"network_mode", "allowlist"},
           e \in {Event("NETWORK_MODE_SET"), Event("ALLOWLIST_UPDATED")},
           next \in {"allowlist", "idle"} : Log(p, e, next)
  BY DEF LogPolicy
<1>2. /\ e \in Events /\ p \in AppendPcs /\ next \in Pcs
      /\ e = Event(e.type) /\ e.type \in {"NETWORK_MODE_SET", "ALLOWLIST_UPDATED"}
  BY <1>1 DEF Events, AppendPcs, Pcs, Event
<1>3. TypeOK /\ AppendInv /\ StateInv /\ FreshInv /\ GateInv /\ BundleInv
      /\ EndInv /\ OutcomeInv /\ GatesPermit /\ StateFollowsLog
  BY DEF ExportInv
<1>4. UNCHANGED <<run, files, outcome>>
  BY DEF LogPolicy
<1>5. /\ pc \in {"network_mode", "allowlist"} /\ pc' \in {"allowlist", "idle"}
      /\ state = "READY" /\ outcome = "none"
      /\ ~unacked /\ unacked' /\ acked' = acked
  BY <1>1, <1>3 DEF Log, At, StateInv, OutcomeInv
<1>6. /\ Recorded' = Recorded \union {e} /\ Recorded \subseteq Recorded'
      /\ Len(log) \in Nat /\ Len(log') = Len(log) + 1
      /\ \A n \in 0..Len(log) : Upto(n)' = Upto(n)
      /\ log' = Append(log, e)
  BY <1>1, <1>2, <1>3, Logged, LenProperties DEF Log, TypeOK
<1>7. TypeOK'
  BY <1>1, <1>2, <1>3, <1>4, LogTypes DEF TypeOK
<1>8. AppendInv'
  BY <1>1, <1>2, <1>3, <1>4, <1>5, AppendGrown DEF AfterTransition
<1>9. StateInv'
  BY <1>3, <1>4, <1>5 DEF StateInv, BundlePcs
<1>10. FreshInv' /\ \A f \in Recorded : f \in {Event("EXPORT_REQUESTED"), Event("EVAL_STARTED"),
         StateChanged("EVALUATING"), Event("NETWORK_MODE_SET"), Event("ALLOWLIST_UPDATED")}
  BY <1>1, <1>3, <1>5, <1>6 DEF FreshInv
<1>11. GateInv'
  BY <1>2, <1>3, <1>4, <1>5, <1>6 DEF GateInv, Event, GateResult
<1>12. BundleInv'
  <2>1. \A n : (Evidence(n) => Evidence(n)') /\ (Revalidated(n) => Revalidated(n)')
    <3>1. \A n \in 0..Len(log) : n \in 0..Len(log')
      BY <1>6
    <3> QED BY <1>6, <3>1, Zenon DEF Evidence, Revalidated
  <2> QED BY <1>3, <1>4, <1>5, <2>1 DEF BundleInv, BundlePcs, FirstRoundPcs
<1>13. EndInv'
  <2>1. \A f \in Recorded' : f.type # "EXPORT_COMPLETED" /\ f # Event("EXPORT_FAILED")
    BY <1>2, <1>6, <1>10 DEF Event, StateChanged
  <2> QED BY <2>1 DEF EndInv
<1>14. OutcomeInv'
  BY <1>4, <1>5 DEF OutcomeInv
<1>15. GatesPermit'
  BY <1>1, <1>2, <1>3, <1>4, GatesPermitGrown DEF Event, StateChanged
<1>16. StateFollowsLog'
  BY <1>2, <1>3, <1>4, <1>5, <1>6, StateFollowsGrown
<1> QED BY <1>7, <1>8, <1>9, <1>10, <1>11, <1>12, <1>13, <1>14, <1>15, <1>16 DEF ExportInv

\* The output is reserved while nothing is recorded.
LEMMA ReserveKeeps ==
  ASSUME ExportInv, Reserve, log = << >>, ~unacked, outcome = "none", state = "READY"
  PROVE  ExportInv'
<1> USE DEF audit, run
<1>1. /\ UNCHANGED <<audit, run, read, dir, sha, passed, stuck, outcome>>
      /\ zip' = Partial /\ pc' = "network_mode"
  BY DEF Reserve
<1>2. Recorded = {} /\ Recorded' = {} /\ \A n : Upto(n)' = Upto(n)
  BY <1>1, Kept DEF Recorded, Upto
<1>3. TypeOK'
  BY <1>1, BundleTypes DEF ExportInv, TypeOK, Pcs, AppendPcs
<1>4. AppendInv' /\ StateInv'
  BY <1>1 DEF ExportInv, AppendInv, StateInv, BundlePcs
<1>5. FreshInv' /\ GateInv' /\ EndInv'
  BY <1>1, <1>2 DEF FreshInv, GateInv, EndInv, Event, Completed
<1>6. BundleInv'
  BY <1>1, <1>2 DEF ExportInv, BundleInv, BundlePcs, FirstRoundPcs, Partial, Evidence, Revalidated
<1>7. OutcomeInv'
  BY <1>1 DEF OutcomeInv
<1>8. GatesPermit' /\ StateFollowsLog'
  BY <1>1, <1>2 DEF ExportInv, GatesPermit, StateFollowsLog, AckedStates
<1> QED BY <1>3, <1>4, <1>5, <1>6, <1>7, <1>8 DEF ExportInv

\* The actions of the command that are not export_run's leave these alone.
LEMMA Untouched ==
  ASSUME CommandTypeOK, UNCHANGED vars
  PROVE  TypeOK' /\ (ArchiveInv => ArchiveInv')
<1> USE DEF vars, audit, run, files
<1>1. Recorded' = Recorded
  BY Kept
<1> QED BY <1>1 DEF CommandTypeOK, TypeOK, ArchiveInv, Recognized

LEMMA CommandStep == CommandInv /\ [CommandNext]_cvars => CommandInv'
<1> SUFFICES ASSUME CommandInv, [CommandNext]_cvars PROVE CommandInv'
  OBVIOUS
<1>0. /\ CommandTypeOK /\ TypeOK /\ ReplyInv
      /\ OutputStands => ArchiveInv
  BY DEF CommandInv, CommandTypeOK
<1> USE DEF Goto
<1>1. ASSUME UNCHANGED vars, stage' \in Stages, keep' \in BOOLEAN,
             runtime' \in BOOLEAN, taken' \in BOOLEAN,
             reply' \in {"none", "ok", "error"}, ReplyInv',
             OutputStands' => OutputStands
      PROVE  CommandInv'
  BY <1>0, <1>1, Untouched DEF CommandInv, CommandTypeOK
<1>2. CASE UNCHANGED cvars
  <2>1. UNCHANGED <<vars, stage, keep, reply, runtime, taken>>
    BY <1>2 DEF cvars, command
  <2>2. ReplyInv'
    BY <1>0, <2>1 DEF ReplyInv, vars, files
  <2> QED BY <1>0, <1>1, <2>1, <2>2 DEF CommandTypeOK, OutputStands
<1>3. CASE CreateRuntimeDir \/ StartFails \/ ReserveFails \/ PrepareFails
             \/ RunEnds \/ ReadAuthority \/ ReadAuthorityFails \/ DropRuntime
  <2>1. UNCHANGED vars
    BY <1>3 DEF CreateRuntimeDir, StartFails, ReserveFails, PrepareFails,
         RunEnds, ReadAuthority, ReadAuthorityFails, DropRuntime
  <2>2. UNCHANGED <<zip, stuck, outcome, pc>>
    BY <2>1 DEF vars, files
  <2>3. /\ stage' \in Stages /\ keep' \in BOOLEAN /\ runtime' \in BOOLEAN
        /\ taken' \in BOOLEAN /\ reply' \in {"none", "ok", "error"}
    BY <1>0, <1>3 DEF CreateRuntimeDir, StartFails, ReserveFails, PrepareFails,
         RunEnds, ReadAuthority, ReadAuthorityFails, DropRuntime, CommandTypeOK, Stages
  <2>4. ReplyInv'
    <3>1. CASE CreateRuntimeDir BY <1>0, <2>2, <3>1 DEF CreateRuntimeDir, ReplyInv
    <3>2. CASE StartFails BY <1>0, <2>2, <3>2 DEF StartFails, ReplyInv
    <3>3. CASE ReserveFails BY <1>0, <2>2, <3>3 DEF ReserveFails, ReplyInv
    <3>4. CASE PrepareFails BY <1>0, <2>2, <3>4 DEF PrepareFails, ReplyInv
    <3>5. CASE RunEnds BY <1>0, <2>2, <3>5 DEF RunEnds, At, ReplyInv
    <3>6. CASE ReadAuthority BY <1>0, <2>2, <3>6 DEF ReadAuthority, ReplyInv
    <3>7. CASE ReadAuthorityFails BY <1>0, <2>2, <3>7 DEF ReadAuthorityFails, ReplyInv
    <3>8. CASE DropRuntime BY <1>0, <2>2, <3>8 DEF DropRuntime, ReplyInv
    <3> QED BY <1>3, <3>1, <3>2, <3>3, <3>4, <3>5, <3>6, <3>7, <3>8
  <2>5. OutputStands' => OutputStands
    BY <1>3 DEF CreateRuntimeDir, StartFails, ReserveFails, PrepareFails,
       RunEnds, ReadAuthority, ReadAuthorityFails, DropRuntime, OutputStands
  <2> QED BY <1>1, <2>1, <2>3, <2>4, <2>5
<1>4. CASE Reserve
  <2>1. /\ zip = Absent /\ zip' = Partial /\ stage = "reserve" /\ stage' = "running"
        /\ pc' = "network_mode"
        /\ UNCHANGED <<audit, run, read, dir, sha, passed, stuck, outcome,
                       keep, reply, runtime, taken>>
    BY <1>4 DEF Reserve
  <2>2. CommandTypeOK'
    <3>1. TypeOK'
      BY <1>0, <2>1, BundleTypes DEF TypeOK, audit, run, Pcs, AppendPcs
    <3> QED BY <1>0, <2>1, <3>1 DEF CommandTypeOK, Stages
  <2>3. outcome # "completed"
    BY <1>0, <2>1 DEF ArchiveInv, Recognized, Absent, Whole, OutputStands
  <2>4. ArchiveInv'
    BY <2>1, <2>3 DEF ArchiveInv
  <2>5. ReplyInv'
    BY <1>0, <2>1, <2>3 DEF ReplyInv
  <2> QED BY <2>2, <2>4, <2>5 DEF CommandInv
<1>5. CASE LogPolicy
  <2>1. TypeOK' /\ ArchiveInv'
    BY <1>0, <1>5, PolicyStep DEF LogPolicy, OutputStands
  <2>2. /\ stage = "running" /\ UNCHANGED <<stage, keep, reply, runtime, taken>>
    BY <1>5 DEF LogPolicy, command
  <2>3. ReplyInv'
    BY <1>0, <2>2 DEF ReplyInv
  <2> QED BY <1>0, <2>1, <2>2, <2>3 DEF CommandInv, CommandTypeOK
<1>6. CASE Run
  <2>1. Next
    BY <1>6 DEF Run, Next
  <2>2. TypeOK' /\ ArchiveInv'
    BY <1>0, <1>6, <2>1, StepTypes, ArchiveStep DEF Run, OutputStands
  <2>3. /\ stage = "running" /\ UNCHANGED <<stage, keep, reply, runtime, taken>>
    BY <1>6 DEF Run, command
  <2>4. ReplyInv'
    BY <1>0, <2>3 DEF ReplyInv
  <2> QED BY <1>0, <2>2, <2>3, <2>4 DEF CommandInv, CommandTypeOK
<1>7. CASE DropOutput
  <2>1. /\ stage = "drop_output" /\ stage' = "drop_runtime"
        /\ UNCHANGED <<audit, run, read, dir, sha, passed, pc, outcome,
                       keep, reply, runtime, taken>>
        /\ keep => UNCHANGED <<zip, stuck>>
        /\ ~keep => (zip' = Absent /\ UNCHANGED stuck) \/ (stuck' = TRUE /\ UNCHANGED zip)
    BY <1>0, <1>7 DEF DropOutput, Removed, NotRemoved, CommandTypeOK
  <2>2. CommandTypeOK'
    <3>1. zip' \in Bundles /\ stuck' \in BOOLEAN
      BY <1>0, <2>1, BundleTypes DEF TypeOK, CommandTypeOK
    <3>2. TypeOK'
      BY <1>0, <2>1, <3>1 DEF TypeOK, audit, run
    <3> QED BY <1>0, <2>1, <3>2 DEF CommandTypeOK, Stages
  <2>3. ReplyInv'
    BY <1>0, <2>1 DEF ReplyInv, CommandTypeOK
  <2>4. ASSUME OutputStands' PROVE ArchiveInv'
    <3>1. keep
      BY <2>1, <2>4 DEF OutputStands
    <3>2. UNCHANGED vars
      BY <2>1, <3>1 DEF vars, files
    <3> QED BY <1>0, <3>1, <3>2, Untouched DEF OutputStands
  <2> QED BY <2>2, <2>3, <2>4 DEF CommandInv
<1> QED BY <1>2, <1>3, <1>4, <1>5, <1>6, <1>7 DEF CommandNext

LEMMA CommandInvariant == CommandSpec => []CommandInv
BY CommandInits, CommandStep, PTL DEF CommandSpec

----------------------------------------------------------------------------
(***************************************************************************)
(* The run within the command. What ExportProofs knows about it holds until *)
(* the guard drops the output; the facts about the log, and those that an  *)
(* absent archive satisfies, hold from then on.                            *)
(***************************************************************************)
Lasting == EmbeddedEvidence /\ GatesPermit /\ StateFollowsLog /\ FailureLeavesNothing

RunInv ==
  /\ stage \in {"start", "reserve"} =>
       log = << >> /\ ~unacked /\ outcome = "none" /\ state = "READY"
  /\ stage \notin {"drop_runtime", "returned"} => ExportInv
  /\ Lasting

LEMMA Lasts == ExportInv => Lasting
BY EvidenceThere, NothingLeft DEF ExportInv, Lasting

LEMMA RunStays ==
  ASSUME UNCHANGED vars
  PROVE  (ExportInv => ExportInv') /\ (Lasting => Lasting')
<1> USE DEF vars, audit, run, files
<1>1. Recorded' = Recorded /\ \A n : Upto(n)' = Upto(n)
  BY Kept
<1>2. AckedStates' = AckedStates
  BY DEF AckedStates
<1>3. Lasting => Lasting'
  BY <1>1, <1>2 DEF Lasting, EmbeddedEvidence, GatesPermit, StateFollowsLog, FailureLeavesNothing
<1>4. ExportInv => ExportInv'
  BY StepExportInv
<1> QED BY <1>3, <1>4

LEMMA RunInits == CommandInit => RunInv
BY InitExportInv, Lasts DEF CommandInit, Init, RunInv

LEMMA RunStep == RunInv /\ [CommandNext]_cvars => RunInv'
<1> SUFFICES ASSUME RunInv, [CommandNext]_cvars PROVE RunInv'
  OBVIOUS
<1> USE DEF Goto
<1>1. ASSUME ExportInv', stage' \notin {"start", "reserve"} PROVE RunInv'
  <2>1. Lasting'
    BY <1>1, Lasts, PTL
  <2> QED BY <1>1, <2>1 DEF RunInv
<1>2. ASSUME UNCHANGED vars,
             stage' \in {"start", "reserve"} => stage \in {"start", "reserve"},
             stage \in {"drop_runtime", "returned"} => stage' \in {"drop_runtime", "returned"}
      PROVE  RunInv'
  <2>1. UNCHANGED <<log, unacked, outcome, state>>
    BY <1>2 DEF vars, audit, run
  <2> QED BY <1>2, <2>1, RunStays DEF RunInv
<1>3. CASE UNCHANGED cvars
  BY <1>2, <1>3 DEF cvars, command
<1>4. CASE CreateRuntimeDir \/ StartFails \/ ReserveFails \/ PrepareFails
             \/ RunEnds \/ ReadAuthority \/ ReadAuthorityFails \/ DropRuntime
  BY <1>2, <1>4 DEF CreateRuntimeDir, StartFails, ReserveFails, PrepareFails,
     RunEnds, ReadAuthority, ReadAuthorityFails, DropRuntime
<1>5. CASE Reserve
  <2>1. stage = "reserve" /\ stage' = "running"
    BY <1>5 DEF Reserve
  <2> QED BY <1>1, <1>5, <2>1, ReserveKeeps DEF RunInv
<1>6. CASE LogPolicy
  <2>1. stage = "running" /\ stage' = "running"
    BY <1>6 DEF LogPolicy, command
  <2> QED BY <1>1, <1>6, <2>1, PolicyKeeps DEF RunInv
<1>7. CASE Run
  <2>1. Next /\ stage = "running" /\ stage' = "running"
    BY <1>7 DEF Run, Next, command
  <2> QED BY <1>1, <2>1, StepExportInv DEF RunInv
<1>8. CASE DropOutput
  <2>1. /\ stage' = "drop_runtime"
        /\ UNCHANGED <<audit, run, passed>>
        /\ UNCHANGED <<zip, stuck>> \/ zip' = Absent \/ (stuck' /\ UNCHANGED zip)
    BY <1>8 DEF DropOutput, Removed, NotRemoved
  <2>2. Recorded' = Recorded /\ \A n : Upto(n)' = Upto(n)
    BY <2>1, Kept DEF audit
  <2>3. AckedStates' = AckedStates
    BY <2>1 DEF AckedStates, audit
  <2>4. EmbeddedEvidence' /\ FailureLeavesNothing'
    <3>1. EmbeddedEvidence /\ FailureLeavesNothing
      BY DEF RunInv, Lasting
    <3>2. UNCHANGED <<log, passed>>
      BY <2>1 DEF audit
    <3>3. CASE zip' = Absent
      BY <2>2, <3>1, <3>3 DEF EmbeddedEvidence, FailureLeavesNothing, Absent
    <3>4. CASE UNCHANGED zip
      <4>1. EmbeddedEvidence'
        BY <2>2, <3>1, <3>2, <3>4 DEF EmbeddedEvidence
      <4>2. FailureLeavesNothing'
        BY <2>1, <2>2, <3>1, <3>4 DEF FailureLeavesNothing
      <4> QED BY <4>1, <4>2
    <3> QED BY <2>1, <3>3, <3>4
  <2>5. GatesPermit' /\ StateFollowsLog'
    BY <2>1, <2>2, <2>3 DEF RunInv, Lasting, GatesPermit, StateFollowsLog, audit, run
  <2> QED BY <2>1, <2>4, <2>5 DEF RunInv, Lasting
<1> QED BY <1>3, <1>4, <1>5, <1>6, <1>7, <1>8 DEF CommandNext

LEMMA RunInvariant == CommandSpec => []RunInv
BY RunInits, RunStep, PTL DEF CommandSpec

----------------------------------------------------------------------------
(***************************************************************************)
(* The theorems.                                                           *)
(***************************************************************************)
\* The variables of the command and of export_run have their types.
THEOREM CommandTypes == CommandSpec => []CommandTypeOK
<1>1. CommandInv => CommandTypeOK
  BY DEF CommandInv
<1> QED BY <1>1, CommandInvariant, PTL

\* A path is answered only for an archive that lies there, validated and
\* recorded, and whose directory the authority was read from.
THEOREM OkKept == CommandSpec => []OkIsKept
<1>1. CommandInv => OkIsKept
  <2> SUFFICES ASSUME CommandInv, reply = "ok"
               PROVE  /\ zip = Whole(sha) /\ sha \in passed /\ dir = zip
                      /\ Completed(sha) \in Recorded
    BY DEF OkIsKept
  <2>1. keep /\ outcome = "completed"
    BY DEF CommandInv, ReplyInv
  <2>2. ArchiveInv
    BY <2>1 DEF CommandInv, OutputStands
  <2> QED BY <2>1, <2>2 DEF ArchiveInv, Recognized
<1> QED BY <1>1, CommandInvariant, PTL

\* A command that fails leaves no file of its own, unless removing it failed.
THEOREM ErrorsLeaveNothing == CommandSpec => []ErrorLeavesNothing
<1>1. CommandInv => ErrorLeavesNothing
  BY DEF CommandInv, ReplyInv, ErrorLeavesNothing
<1> QED BY <1>1, CommandInvariant, PTL

\* A file that was there before is neither rewritten nor removed.
THEOREM ForeignFilesKept == CommandSpec => []ForeignFileKept
<1>1. CommandInv => ForeignFileKept
  BY DEF CommandInv, ReplyInv, ForeignFileKept
<1> QED BY <1>1, CommandInvariant, PTL

\* An archive that the command leaves anywhere embeds the evidence that its
\* export was allowed.
THEOREM CommandEvidence == CommandSpec => []EmbeddedEvidence
BY RunInvariant, PTL DEF RunInv, Lasting

\* EXPORTING is recorded after a complete evaluation without a failed blocker,
\* with the two events of the command before it.
THEOREM CommandPermitted == CommandSpec => []GatesPermit
BY RunInvariant, PTL DEF RunInv, Lasting

\* The run is in the state of the last acknowledged transition at every stage
\* of the command.
THEOREM CommandState == CommandSpec => []StateFollowsLog
BY RunInvariant, PTL DEF RunInv, Lasting

\* A recorded failure leaves no archive and no completion, whatever the guards
\* of the command do after it.
THEOREM CommandFailure == CommandSpec => []FailureLeavesNothing
BY RunInvariant, PTL DEF RunInv, Lasting
=============================================================================
