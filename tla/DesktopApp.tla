------------------------------ MODULE DesktopApp ------------------------------
(***************************************************************************)
(* The desktop's window (src/ui/App.tsx): it asks the backend for the      *)
(* network posture and the control library, and lets the user start one    *)
(* export at a time. The handler of a click is the one of the last         *)
(* rendering, and reads its state; only operationLockRef is always that of *)
(* the moment. Under StrictMode (src/main.tsx) a development build loads   *)
(* twice.                                                                  *)
(***************************************************************************)
EXTENDS Naturals, FiniteSets

CONSTANTS
  Loads,     \* the runs of the effect
  MaxRuns    \* bound on the exports started

ASSUME RunsAssumption == MaxRuns \in Nat

VARIABLES
  load,             \* what each run of the effect waits for
  snap, snapError,  \* whether there is a snapshot, and an error
  controlsLoading, controlsError,
  filled,           \* whether no required field is blank
  invalid,          \* whether evidenceInvalidFields has a field
  running, lock,    \* operationLockRef.current
  runs,             \* how far each export has come
  result, error,    \* the export that runResult and runError are of; 0 is null
  seen              \* the state of the last rendering

backend == <<load, snap, snapError, controlsLoading, controlsError>>
fields == <<filled, invalid>>
vars == <<backend, fields, running, lock, runs, result, error, seen>>

Started == {n \in 1..MaxRuns : runs[n] # "none"}
InFlight == {n \in 1..MaxRuns : runs[n] \in {"hashing", "invoked"}}

OperationalReady ==
  snap /\ ~snapError /\ ~controlsLoading /\ ~controlsError
WriteUnavailable ==
  snapError \/ ~snap \/ controlsError \/ controlsLoading \/ running

State == [ready |-> OperationalReady, disabled |-> WriteUnavailable,
          filled |-> filled]

Init ==
  /\ load = [l \in Loads |-> "snapshot"]
  /\ snap = FALSE /\ snapError = FALSE
  /\ controlsLoading = TRUE /\ controlsError = FALSE
  /\ filled = TRUE /\ invalid = FALSE
  /\ running = FALSE /\ lock = FALSE
  /\ runs = [n \in 1..MaxRuns |-> "none"]
  /\ result = 0 /\ error = 0
  /\ seen = State

\* get_network_snapshot answers, or fails, and then list_control_library.
SnapshotAnswers(l) ==
  /\ load[l] = "snapshot"
  /\ \E ok \in BOOLEAN : snap' = ok /\ snapError' = ~ok
  /\ load' = [load EXCEPT ![l] = "controls"]
  /\ UNCHANGED <<controlsLoading, controlsError, fields, running, lock, runs,
                 result, error, seen>>

ControlsAnswer(l) ==
  /\ load[l] = "controls"
  /\ controlsError' \in BOOLEAN /\ controlsLoading' = FALSE
  /\ load' = [load EXCEPT ![l] = "done"]
  /\ UNCHANGED <<snap, snapError, fields, running, lock, runs, result, error, seen>>

\* updateEvidenceField: a field becomes blank or not, and is no longer marked;
\* other fields may be.
Edit ==
  /\ filled' \in BOOLEAN
  /\ invalid' \in {FALSE, invalid}
  /\ UNCHANGED <<backend, running, lock, runs, result, error, seen>>

Render ==
  /\ seen' = State
  /\ UNCHANGED <<backend, fields, running, lock, runs, result, error>>

----------------------------------------------------------------------------
\* Mutants: only the disabled button guards the export; the lock is released
\* where the export succeeds.
ClickUnlocked ==
  /\ ~seen.disabled /\ seen.filled /\ seen.ready
  /\ \E n \in 1..MaxRuns \ Started :
       /\ Started = 1..n - 1
       /\ runs' = [runs EXCEPT ![n] = "hashing"]
  /\ invalid' = FALSE /\ running' = TRUE /\ lock' = TRUE /\ error' = 0
  /\ UNCHANGED <<backend, filled, result, seen>>

FailsLocked(n) ==
  /\ runs[n] \in {"hashing", "invoked"}
  /\ runs' = [runs EXCEPT ![n] = "failed"]
  /\ error' = n /\ result' = 0 /\ running' = FALSE
  /\ UNCHANGED <<backend, fields, lock, seen>>
----------------------------------------------------------------------------
\* onRunEvidenceOs, up to its first await. A blank field ends it, and so does
\* an export that runs.
ClickIncomplete ==
  /\ ~seen.disabled /\ ~seen.filled
  /\ invalid' = TRUE /\ result' = 0 /\ error' = 0
  /\ UNCHANGED <<backend, filled, running, lock, runs, seen>>

ClickRefused ==
  /\ ~seen.disabled /\ seen.filled /\ (~seen.ready \/ lock)
  /\ invalid' = FALSE
  /\ UNCHANGED <<backend, filled, running, lock, runs, result, error, seen>>

Click ==
  /\ ~seen.disabled /\ seen.filled /\ seen.ready /\ ~lock
  /\ \E n \in 1..MaxRuns \ Started :
       /\ Started = 1..n - 1
       /\ runs' = [runs EXCEPT ![n] = "hashing"]
  /\ invalid' = FALSE /\ running' = TRUE /\ lock' = TRUE /\ error' = 0
  /\ UNCHANGED <<backend, filled, result, seen>>

\* sha256Hex, and then invoke
Hashed(n) ==
  /\ runs[n] = "hashing"
  /\ runs' = [runs EXCEPT ![n] = "invoked"]
  /\ UNCHANGED <<backend, fields, running, lock, result, error, seen>>

\* What catch and finally do, and what is done without an error.
Fails(n) ==
  /\ runs[n] \in {"hashing", "invoked"}
  /\ runs' = [runs EXCEPT ![n] = "failed"]
  /\ error' = n /\ result' = 0 /\ running' = FALSE /\ lock' = FALSE
  /\ UNCHANGED <<backend, fields, seen>>

Succeeds(n) ==
  /\ runs[n] = "invoked"
  /\ runs' = [runs EXCEPT ![n] = "done"]
  /\ result' = n /\ running' = FALSE /\ lock' = FALSE
  /\ UNCHANGED <<backend, fields, error, seen>>

Settle(n) == Hashed(n) \/ Fails(n) \/ Succeeds(n)

Next ==
  \/ \E l \in Loads : SnapshotAnswers(l) \/ ControlsAnswer(l)
  \/ Edit \/ Render \/ ClickIncomplete \/ ClickRefused \/ Click
  \/ \E n \in 1..MaxRuns : Settle(n)

Spec == Init /\ [][Next]_vars

\* A digest is computed, a command of the backend returns, and React renders.
FairSpec ==
  /\ Spec
  /\ \A n \in 1..MaxRuns : WF_vars(Settle(n))
  /\ WF_vars(Render)

----------------------------------------------------------------------------
(***************************************************************************)
(* Properties.                                                             *)
(***************************************************************************)
\* The variables have their types.
AppTypeOK ==
  /\ load \in [Loads -> {"snapshot", "controls", "done"}]
  /\ snap \in BOOLEAN /\ snapError \in BOOLEAN
  /\ controlsLoading \in BOOLEAN /\ controlsError \in BOOLEAN
  /\ filled \in BOOLEAN /\ invalid \in BOOLEAN
  /\ running \in BOOLEAN /\ lock \in BOOLEAN
  /\ runs \in [1..MaxRuns -> {"none", "hashing", "invoked", "done", "failed"}]
  /\ result \in 0..MaxRuns /\ error \in 0..MaxRuns
  /\ seen \in [ready: BOOLEAN, disabled: BOOLEAN, filled: BOOLEAN]

\* However late the window is rendered, no two exports are in flight; what is
\* shown as the outcome of an export is its outcome, an error is gone while the
\* next export runs, and when none runs, the outcome is the last one's.
OneExport ==
  /\ \A m, n \in InFlight : m = n
  /\ result # 0 => runs[result] = "done" /\ error = 0
  /\ error # 0 => runs[error] = "failed" /\ InFlight = {}
  /\ InFlight = {} => \A n \in Started : /\ result # 0 => n <= result
                                        /\ error # 0 => n <= error

\* After every export the button can be used again, unless the posture or the
\* controls are unknown.
ButtonReturns ==
  lock ~> (~lock /\ (seen.disabled => ~OperationalReady))
=============================================================================
