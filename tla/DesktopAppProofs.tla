--------------------------- MODULE DesktopAppProofs ---------------------------
(* Type correctness and OneExport of DesktopApp, for any number of loads and  *)
(* exports.                                                                   *)
EXTENDS DesktopApp, TLAPS

\* The lock and the state agree with what is in flight, which is the last
\* export that was started.
LockOK ==
  /\ running = lock
  /\ lock <=> InFlight # {}
  /\ \A n \in InFlight, m \in Started : m <= n

AppInv == AppTypeOK /\ LockOK /\ OneExport

----------------------------------------------------------------------------
LEMMA AppInit == Init => AppInv
<1> SUFFICES ASSUME Init PROVE AppInv
  OBVIOUS
<1>1. AppTypeOK
  <2>1. State \in [ready: BOOLEAN, disabled: BOOLEAN, filled: BOOLEAN]
    BY DEF Init, State, OperationalReady, WriteUnavailable
  <2>2. load \in [Loads -> {"snapshot", "controls", "done"}]
    BY DEF Init
  <2>3. runs \in [1..MaxRuns -> {"none", "hashing", "invoked", "done", "failed"}]
    BY DEF Init
  <2>4. result \in 0..MaxRuns /\ error \in 0..MaxRuns
    BY RunsAssumption DEF Init
  <2> QED BY <2>1, <2>2, <2>3, <2>4 DEF Init, AppTypeOK
<1>2. InFlight = {} /\ Started = {}
  BY DEF Init, InFlight, Started
<1>3. LockOK
  BY <1>2 DEF Init, LockOK
<1>4. OneExport
  BY <1>2 DEF Init, OneExport
<1> QED BY <1>1, <1>3, <1>4 DEF AppInv

\* Steps that leave the exports and their outcomes alone.
LEMMA OtherSteps ==
  ASSUME LockOK, OneExport, UNCHANGED <<running, lock, runs, result, error>>
  PROVE  LockOK' /\ OneExport'
  BY DEF LockOK, OneExport, InFlight, Started

\* An export that settles was the only one in flight.
LEMMA Settled ==
  ASSUME AppTypeOK, LockOK, OneExport, NEW n \in InFlight,
         NEW after \in {"done", "failed"}, runs' = [runs EXCEPT ![n] = after]
  PROVE  /\ runs'[n] = after /\ InFlight' = {} /\ Started' = Started
         /\ n \in 1..MaxRuns /\ \A m \in Started : m <= n
         /\ lock /\ running
<1>1. n \in 1..MaxRuns
  BY DEF InFlight
<1>2. runs'[n] = after /\ \A m \in (1..MaxRuns) \ {n} : runs'[m] = runs[m]
  BY <1>1 DEF AppTypeOK
<1>3. InFlight' = {}
  BY <1>1, <1>2 DEF InFlight, OneExport
<1>4. Started' = Started
  BY <1>1, <1>2 DEF Started, InFlight
<1>5. lock /\ running /\ \A m \in Started : m <= n
  BY DEF LockOK
<1> QED BY <1>1, <1>2, <1>3, <1>4, <1>5

\* An export comes one step further.
LEMMA RunsType ==
  ASSUME AppTypeOK, NEW n, NEW p \in {"hashing", "invoked", "done", "failed"},
         runs' = [runs EXCEPT ![n] = p]
  PROVE  runs' \in [1..MaxRuns -> {"none", "hashing", "invoked", "done", "failed"}]
  BY DEF AppTypeOK

LEMMA AppNext == AppInv /\ [Next]_vars => AppInv'
<1> SUFFICES ASSUME AppInv, [Next]_vars PROVE AppInv'
  OBVIOUS
<1> USE RunsAssumption
<1>0. AppTypeOK /\ LockOK /\ OneExport
  BY DEF AppInv
<1>1. ASSUME NEW l \in Loads, SnapshotAnswers(l) \/ ControlsAnswer(l) PROVE AppInv'
  <2>1. AppTypeOK'
    BY <1>0, <1>1 DEF SnapshotAnswers, ControlsAnswer, AppTypeOK, fields
  <2>2. LockOK' /\ OneExport'
    BY <1>0, <1>1, OtherSteps DEF SnapshotAnswers, ControlsAnswer
  <2> QED BY <2>1, <2>2 DEF AppInv
<1>2. CASE Edit
  <2>1. AppTypeOK'
    BY <1>0, <1>2 DEF Edit, AppTypeOK, backend
  <2>2. LockOK' /\ OneExport'
    BY <1>0, <1>2, OtherSteps DEF Edit
  <2> QED BY <2>1, <2>2 DEF AppInv
<1>3. CASE Render
  <2>1. AppTypeOK'
    BY <1>0, <1>3
    DEF Render, AppTypeOK, backend, fields, State, OperationalReady, WriteUnavailable
  <2>2. LockOK' /\ OneExport'
    BY <1>0, <1>3, OtherSteps DEF Render
  <2> QED BY <2>1, <2>2 DEF AppInv
<1>4. CASE ClickIncomplete
  <2>1. AppTypeOK'
    BY <1>0, <1>4 DEF ClickIncomplete, AppTypeOK, backend
  <2>2. LockOK' /\ OneExport'
    BY <1>0, <1>4 DEF ClickIncomplete, LockOK, OneExport, InFlight, Started
  <2> QED BY <2>1, <2>2 DEF AppInv
<1>5. CASE ClickRefused
  <2>1. AppTypeOK'
    BY <1>0, <1>5 DEF ClickRefused, AppTypeOK, backend
  <2>2. LockOK' /\ OneExport'
    BY <1>0, <1>5, OtherSteps DEF ClickRefused
  <2> QED BY <2>1, <2>2 DEF AppInv
<1>6. CASE Click
  <2>1. PICK n \in 1..MaxRuns :
          /\ n \notin Started /\ Started = 1..n - 1
          /\ runs' = [runs EXCEPT ![n] = "hashing"]
    BY <1>6 DEF Click
  <2>2. /\ InFlight = {} /\ runs'[n] = "hashing"
        /\ \A m \in (1..MaxRuns) \ {n} : runs'[m] = runs[m]
    BY <1>0, <1>6, <2>1 DEF Click, LockOK, AppTypeOK
  <2>3. InFlight' = {n} /\ Started' = Started \union {n}
    BY <2>2 DEF InFlight, Started
  <2>4. \A m \in Started' : m <= n
    BY <2>1, <2>3
  <2>5. AppTypeOK'
    <3>1. runs' \in [1..MaxRuns -> {"none", "hashing", "invoked", "done", "failed"}]
      BY <1>0, <2>1, RunsType
    <3>2. result' \in 0..MaxRuns /\ error' \in 0..MaxRuns
      BY <1>0, <1>6 DEF Click, AppTypeOK
    <3> QED BY <1>0, <1>6, <3>1, <3>2 DEF Click, AppTypeOK, backend
  <2>6. LockOK'
    <3>1. running' = TRUE /\ lock' = TRUE /\ InFlight' # {}
      BY <1>6, <2>3 DEF Click
    <3> QED BY <2>3, <2>4, <3>1 DEF LockOK
  <2>7. result # 0 => result # n
    BY <1>0, <2>1 DEF OneExport, Started
  <2>8. OneExport'
    BY <1>0, <1>6, <2>2, <2>3, <2>7 DEF Click, OneExport, AppTypeOK
  <2> QED BY <2>5, <2>6, <2>8 DEF AppInv
<1>7. ASSUME NEW n \in 1..MaxRuns, Hashed(n) PROVE AppInv'
  <2>1. runs'[n] = "invoked" /\ \A m \in (1..MaxRuns) \ {n} : runs'[m] = runs[m]
    BY <1>0, <1>7 DEF Hashed, AppTypeOK
  <2>2. InFlight' = InFlight /\ Started' = Started
    BY <1>7, <2>1 DEF Hashed, InFlight, Started
  <2>3. AppTypeOK'
    BY <1>0, <1>7 DEF Hashed, AppTypeOK, backend, fields
  <2>4. LockOK'
    BY <1>0, <1>7, <2>2 DEF Hashed, LockOK
  <2>5. result # n /\ error # n
    BY <1>0, <1>7 DEF Hashed, OneExport
  <2>6. OneExport'
    BY <1>0, <1>7, <2>1, <2>2, <2>5 DEF Hashed, OneExport, AppTypeOK
  <2> QED BY <2>3, <2>4, <2>6 DEF AppInv
<1>8. ASSUME NEW n \in 1..MaxRuns, Fails(n) PROVE AppInv'
  <2>1. n \in InFlight /\ runs' = [runs EXCEPT ![n] = "failed"]
    BY <1>8 DEF Fails, InFlight
  <2>2. /\ runs'[n] = "failed" /\ InFlight' = {} /\ Started' = Started
        /\ \A m \in Started : m <= n
    BY <1>0, <2>1, Settled
  <2>3. AppTypeOK'
    <3>1. runs' \in [1..MaxRuns -> {"none", "hashing", "invoked", "done", "failed"}]
      BY <1>0, <2>1, RunsType
    <3>2. result' \in 0..MaxRuns /\ error' \in 0..MaxRuns
      BY <1>0, <1>8 DEF Fails, AppTypeOK
    <3> QED BY <1>0, <1>8, <3>1, <3>2 DEF Fails, AppTypeOK, backend, fields
  <2>4. running' = FALSE /\ lock' = FALSE /\ error' = n /\ result' = 0
    BY <1>8 DEF Fails
  <2>5. LockOK'
    BY <2>2, <2>4 DEF LockOK
  <2>6. OneExport'
    BY <2>2, <2>4 DEF OneExport
  <2> QED BY <2>3, <2>5, <2>6 DEF AppInv
<1>9. ASSUME NEW n \in 1..MaxRuns, Succeeds(n) PROVE AppInv'
  <2>1. n \in InFlight /\ runs' = [runs EXCEPT ![n] = "done"]
    BY <1>9 DEF Succeeds, InFlight
  <2>2. /\ runs'[n] = "done" /\ InFlight' = {} /\ Started' = Started
        /\ \A m \in Started : m <= n
    BY <1>0, <2>1, Settled
  <2>3. error = 0
    BY <1>0, <2>1 DEF OneExport
  <2>4. AppTypeOK'
    <3>1. runs' \in [1..MaxRuns -> {"none", "hashing", "invoked", "done", "failed"}]
      BY <1>0, <2>1, RunsType
    <3>2. result' \in 0..MaxRuns /\ error' \in 0..MaxRuns
      BY <1>0, <1>9 DEF Succeeds, AppTypeOK
    <3> QED BY <1>0, <1>9, <3>1, <3>2 DEF Succeeds, AppTypeOK, backend, fields
  <2>5. running' = FALSE /\ lock' = FALSE /\ error' = 0 /\ result' = n
    BY <1>9, <2>3 DEF Succeeds
  <2>6. LockOK'
    BY <2>2, <2>5 DEF LockOK
  <2>7. OneExport'
    BY <2>2, <2>5 DEF OneExport
  <2> QED BY <2>4, <2>6, <2>7 DEF AppInv
<1>10. CASE UNCHANGED vars
  <2>1. AppTypeOK'
    BY <1>0, <1>10 DEF vars, backend, fields, AppTypeOK
  <2>2. LockOK' /\ OneExport'
    BY <1>0, <1>10, OtherSteps DEF vars
  <2> QED BY <2>1, <2>2 DEF AppInv
<1> QED
  BY <1>1, <1>2, <1>3, <1>4, <1>5, <1>6, <1>7, <1>8, <1>9, <1>10 DEF Next, Settle

LEMMA AppInvariant == Spec => []AppInv
  BY AppInit, AppNext, PTL DEF Spec

\* The variables of DesktopApp keep their types.
THEOREM AppTypes == Spec => []AppTypeOK
<1>1. AppInv => AppTypeOK
  BY DEF AppInv
<1> QED BY AppInvariant, <1>1, PTL

\* The lock of onRunEvidenceOs keeps the exports apart, and their outcomes.
THEOREM AppSafety == Spec => []OneExport
<1>1. AppInv => OneExport
  BY DEF AppInv
<1> QED BY AppInvariant, <1>1, PTL

\* operationLockRef is set exactly while an export is in flight, whatever way the
\* export ends: the safety that the return of the button rests on.
THEOREM LockHeld == Spec => [](lock <=> InFlight # {})
<1>1. AppInv => (lock <=> InFlight # {})
  BY DEF AppInv, LockOK
<1> QED BY AppInvariant, <1>1, PTL
=============================================================================
