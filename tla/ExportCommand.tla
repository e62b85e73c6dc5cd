---------------------------- MODULE ExportCommand ----------------------------
(***************************************************************************)
(* generate_evidenceos_bundle (src-tauri/src/export/mod.rs): the command   *)
(* around one call of export_run (ExportRun).                              *)
(*                                                                         *)
(* It reserves the output file, keeps the log in a private directory, and  *)
(* relies on two guards: whatever way it leaves, ExportOutputGuard removes *)
(* the output unless it was told to keep it, and then RuntimeDirGuard      *)
(* removes the directory, log included.                                    *)
(***************************************************************************)
EXTENDS ExportRun

VARIABLES
  stage,    \* where the command is, outside export_run
  keep,     \* ExportOutputGuard.keep
  reply,    \* what the command returns
  runtime,  \* the runtime directory exists, and with it the log and dir
  taken     \* history: something else was at the output path already

command == <<stage, keep, reply, runtime, taken>>
cvars == <<vars, command>>

Stages == {"start", "reserve", "running", "read_authority",
           "drop_output", "drop_runtime", "returned"}

CommandTypeOK ==
  /\ TypeOK
  /\ stage \in Stages
  /\ keep \in BOOLEAN /\ runtime \in BOOLEAN /\ taken \in BOOLEAN
  /\ reply \in {"none", "ok", "error"}

Goto(from, to) == stage = from /\ stage' = to

----------------------------------------------------------------------------
(***************************************************************************)
(* Mutants: wrong forms of actions below.                                  *)
(***************************************************************************)
\* The guard is made before the output is reserved.
ReserveFailsGuarded ==
  /\ Goto("reserve", "drop_output")
  /\ reply' = "error"
  /\ UNCHANGED <<vars, keep, runtime, taken>>

\* keep is set before the outcome is looked at.
RunEndsKept ==
  /\ stage = "running" /\ At("idle") /\ outcome # "none"
  /\ keep' = TRUE
  /\ \/ outcome = "completed" /\ stage' = "read_authority" /\ UNCHANGED reply
     \/ outcome # "completed" /\ stage' = "drop_output" /\ reply' = "error"
  /\ UNCHANGED <<vars, runtime, taken>>

\* The status of the run is passed on as it is.
RunEndsStatus ==
  /\ stage = "running" /\ At("idle") /\ outcome # "none"
  /\ stage' = "drop_output" /\ reply' = outcome
  /\ UNCHANGED <<vars, keep, runtime, taken>>

\* keep is not set.
ReadAuthorityNotKept ==
  /\ Goto("read_authority", "drop_output")
  /\ reply' = "ok"
  /\ UNCHANGED <<vars, keep, runtime, taken>>

----------------------------------------------------------------------------
CommandInit ==
  /\ Init
  /\ req = [policy |-> "STRICT", network |-> "OFFLINE",
            proof |-> "OFFLINE_STRICT", pinning |-> "NONE"]
  /\ taken = (zip # Absent)
  /\ stage = "start" /\ keep = FALSE /\ reply = "none" /\ runtime = FALSE

\* The input is checked, and the runtime directory made.
CreateRuntimeDir ==
  /\ Goto("start", "reserve")
  /\ runtime' = TRUE
  /\ UNCHANGED <<vars, keep, reply, taken>>

\* A bad input, or no directory.
StartFails ==
  /\ Goto("start", "returned")
  /\ reply' = "error"
  /\ runtime' \in BOOLEAN
  /\ UNCHANGED <<vars, keep, taken>>

\* create_new: only if nothing is at the path.
Reserve ==
  /\ zip = Absent
  /\ Goto("reserve", "running")
  /\ zip' = Partial
  /\ pc' = "network_mode"
  /\ UNCHANGED <<audit, run, read, dir, sha, passed, stuck, outcome,
                 keep, reply, runtime, taken>>

ReserveFails ==
  /\ Goto("reserve", "drop_runtime")
  /\ reply' = "error"
  /\ UNCHANGED <<vars, keep, runtime, taken>>

\* The two events before the run; then the artifacts are made.
LogPolicy ==
  /\ stage = "running"
  /\ \/ Log("network_mode", Event("NETWORK_MODE_SET"), "allowlist")
     \/ Log("allowlist", Event("ALLOWLIST_UPDATED"), "idle")
  /\ UNCHANGED <<run, files, outcome, command>>

\* An error before export_run is called.
PrepareFails ==
  /\ stage = "running" /\ calls = 0 /\ ~unacked
  /\ pc \in {"network_mode", "idle"}
  /\ stage' = "drop_output" /\ reply' = "error"
  /\ UNCHANGED <<vars, keep, runtime, taken>>

\* export_run, and the appends before it.
Run ==
  /\ stage = "running"
  /\ \/ calls = 0 /\ outcome = "none" /\ Call
     \/ Step
  /\ UNCHANGED command

\* It has returned.
RunEnds ==
  /\ stage = "running" /\ At("idle") /\ outcome # "none"
  /\ \/ outcome = "completed" /\ stage' = "read_authority" /\ UNCHANGED reply
     \/ outcome # "completed" /\ stage' = "drop_output" /\ reply' = "error"
  /\ UNCHANGED <<vars, keep, runtime, taken>>

\* read_bound_evidence_authority, from the directory; the output is kept.
ReadAuthority ==
  /\ Goto("read_authority", "drop_output")
  /\ keep' = TRUE
  /\ reply' = "ok"
  /\ UNCHANGED <<vars, runtime, taken>>

ReadAuthorityFails ==
  /\ Goto("read_authority", "drop_output")
  /\ reply' = "error"
  /\ UNCHANGED <<vars, keep, runtime, taken>>

\* ExportOutputGuard: a removal that fails is only logged.
DropOutput ==
  /\ Goto("drop_output", "drop_runtime")
  /\ IF keep THEN UNCHANGED <<zip, stuck>> ELSE Removed \/ NotRemoved
  /\ UNCHANGED <<audit, run, read, dir, sha, passed, pc, outcome,
                 keep, reply, runtime, taken>>

\* RuntimeDirGuard, likewise.
DropRuntime ==
  /\ Goto("drop_runtime", "returned")
  /\ runtime' \in BOOLEAN
  /\ UNCHANGED <<vars, keep, reply, taken>>

CommandNext ==
  \/ CreateRuntimeDir \/ StartFails \/ Reserve \/ ReserveFails \/ LogPolicy
  \/ PrepareFails \/ Run \/ RunEnds \/ ReadAuthority \/ ReadAuthorityFails
  \/ DropOutput \/ DropRuntime

CommandSpec == CommandInit /\ [][CommandNext]_cvars

----------------------------------------------------------------------------
(* The command answers with a path only for an archive that lies there:    *)
(* whole, accepted by the final validation, recorded as completed, with    *)
(* the digest in the answer, and bound to the authority in the answer,     *)
(* which was read from the directory and not from the archive.             *)
OkIsKept ==
  stage = "returned" /\ reply = "ok" =>
    /\ zip = Whole(sha) /\ sha \in passed
    /\ dir = zip
    /\ Completed(sha) \in Recorded

(* Whatever way the command fails, the file it reserved is gone, unless    *)
(* removing it failed: no archive is left that no answer names.            *)
ErrorLeavesNothing ==
  stage = "returned" /\ reply = "error" /\ ~taken => zip = Absent \/ stuck

(* A file that was at the output path before the command is neither        *)
(* rewritten nor removed.                                                  *)
ForeignFileKept == taken => zip = Partial
=============================================================================
