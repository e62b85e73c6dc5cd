---------------------------- MODULE ExportProofs ----------------------------
(***************************************************************************)
(* Theorems about ExportRun, for every registry of gates, every bound on   *)
(* calls and log, and every failure.                                       *)
(***************************************************************************)
EXTENDS ExportRun, SequenceTheorems, TLAPS

USE ExportAssumption DEF ExportAssumption

----------------------------------------------------------------------------
(***************************************************************************)
(* The log.                                                                *)
(***************************************************************************)
LEMMA EventTypes ==
  /\ \A t \in {"EXPORT_REQUESTED", "EVAL_STARTED", "EVAL_COMPLETED",
        "EXPORT_BLOCKED", "BUNDLE_GENERATION_STARTED",
        "BUNDLE_GENERATION_COMPLETED", "BUNDLE_VALIDATION_STARTED",
        "EXPORT_FAILED"} : Event(t) \in Events
  /\ \A s \in RunStates : StateChanged(s) \in Events
  /\ \A g \in Gates, r \in GateValues : GateResult(g, r) \in Events
  /\ \A r \in {"PASS", "FAIL"}, f \in BOOLEAN : Validation(r, f) \in Events
  /\ \A n \in 0..MaxLog : Completed(n) \in Events
BY DEF Events

\* What an append of a record does to the log.
LEMMA Grown ==
  ASSUME log \in Seq(Events), NEW e \in Events, log' = Append(log, e)
  PROVE  /\ log' \in Seq(Events) /\ Len(log') = Len(log) + 1
         /\ log' # << >> /\ log'[Len(log')] = e
         /\ \A n \in 1..Len(log) : log'[n] = log[n]
         /\ \A n \in 0..Len(log) : Upto(n)' = Upto(n)
         /\ Recorded' = Recorded \union {e}
<1>1. /\ log' \in Seq(Events) /\ Len(log') = Len(log) + 1
      /\ log'[Len(log) + 1] = e
      /\ \A n \in 1..Len(log) : log'[n] = log[n]
  BY AppendProperties
<1>2. Len(log) \in Nat BY LenProperties
<1>3. \A n \in 0..Len(log) : Upto(n)' = Upto(n) BY <1>1, <1>2 DEF Upto
<1>4. Recorded' = Recorded \union {e}
  <2>1. Recorded' = {log'[m] : m \in 1..(Len(log) + 1)} BY <1>1 DEF Recorded, Upto
  <2>2. 1..(Len(log) + 1) = 1..Len(log) \union {Len(log) + 1} BY <1>2
  <2>3. \A m \in 1..Len(log) : log'[m] = log[m] BY <1>1
  <2> QED BY <1>1, <2>1, <2>2, <2>3 DEF Recorded, Upto
<1> QED BY <1>1, <1>2, <1>3, <1>4

LEMMA Kept ==
  ASSUME log' = log
  PROVE  Recorded' = Recorded /\ \A n : Upto(n)' = Upto(n)
BY DEF Recorded, Upto

----------------------------------------------------------------------------
(***************************************************************************)
(* Types.                                                                  *)
(***************************************************************************)
LEMMA StateOfEvent ==
  ASSUME NEW e \in Events, e.type = "RUN_STATE_CHANGED"
  PROVE  e.to \in RunStates /\ e = StateChanged(e.to)
BY DEF Events, Event, StateChanged, GateResult, Validation, Completed

\* An append keeps the types of the log, and leaves the files alone.
LEMMA LogTypes ==
  ASSUME TypeOK, NEW p \in AppendPcs, NEW e \in Events, NEW next \in Pcs, Log(p, e, next)
  PROVE  /\ log' \in Seq(Events) /\ Len(log') <= MaxLog /\ acked' \subseteq Seq(Events)
         /\ torn' \in BOOLEAN /\ unacked' \in BOOLEAN /\ log' # << >> /\ pc' \in Pcs
<1>1. log' = Append(log, e) /\ Len(log) < MaxLog BY DEF Log
<1>2. log' \in Seq(Events) /\ Len(log') = Len(log) + 1 /\ log' # << >>
  BY <1>1, AppendProperties DEF TypeOK
<1>3. Len(log) \in Nat BY LenProperties DEF TypeOK
<1> QED BY <1>1, <1>2, <1>3 DEF Log, TypeOK

LEMMA BundleTypes ==
  /\ Absent \in Bundles /\ Partial \in Bundles
  /\ \A n \in 0..MaxLog : Whole(n) \in Bundles
BY DEF Absent, Partial, Whole, Bundles

LEMMA InitTypes == Init => TypeOK
<1> SUFFICES ASSUME Init PROVE TypeOK
  OBVIOUS
<1>1. log \in Seq(Events) /\ Len(log) = 0 BY EmptySeq DEF Init
<1>2. results \in [Gates -> GateValues] BY DEF Init, GateValues
<1>3. pc \in Pcs /\ state \in RunStates BY DEF Init, Pcs, RunStates
<1>4. 0 \in 0..MaxLog /\ 0 \in 0..MaxCalls OBVIOUS
<1>5. log = << >> /\ Len(log) <= MaxLog BY <1>1 DEF Init
<1> QED BY <1>1, <1>2, <1>3, <1>4, <1>5, BundleTypes DEF Init, TypeOK

LEMMA StepTypes ==
  ASSUME TypeOK, [Next]_vars
  PROVE  TypeOK'
<1> USE DEF audit, run, files
<1>0. /\ \A g \in Gates : results[g] \in GateValues
      /\ outcome \in {"none", "completed", "blocked", "failed", "error"} /\ final \in BOOLEAN
      /\ sha \in 0..MaxLog
  BY DEF TypeOK
<1>1. CASE UNCHANGED vars BY <1>1 DEF vars, TypeOK
<1>2. CASE Call
  <2>1. calls' \in 0..MaxCalls BY <1>2 DEF Call, TypeOK
  <2> QED BY <1>2, <2>1 DEF Call, TypeOK, Pcs, AppendPcs
<1>3. CASE AppendReturns
  <2>1. log[Len(log)] \in Events BY <1>3 DEF AppendReturns, TypeOK
  <2>2. log[Len(log)].type = "RUN_STATE_CHANGED" => log[Len(log)].to \in RunStates
    BY <2>1, StateOfEvent
  <2>3. state' \in RunStates BY <1>3, <2>2 DEF AppendReturns, TypeOK
  <2> QED BY <1>3, <2>3 DEF AppendReturns, TypeOK
<1>4. CASE AppendFails BY <1>4 DEF AppendFails, ReturnError, TypeOK, Pcs
<1>5. ASSUME NEW p \in AppendPcs, NEW e \in Events, NEW next \in Pcs, Log(p, e, next),
             UNCHANGED <<req, state, calls, results, final, files>>,
             todo' \subseteq todo,
             outcome' \in {"none", "completed", "blocked", "failed", "error"}
      PROVE  TypeOK'
  <2>1. todo' \subseteq Gates BY <1>5 DEF TypeOK
  <2> QED BY <1>5, <2>1, LogTypes DEF TypeOK
<1>6. CASE Request
  BY <1>6, <1>5, <1>0, EventTypes DEF Request, Transition, Target, AppendPcs, Pcs, RunStates
<1>7. CASE Evaluate
  <2>1. CASE Preflight
    <3>1. results' \in [Gates -> GateValues] BY <2>1 DEF Preflight
    <3>2. req.policy \in PolicyModes BY DEF TypeOK, ExportRequests
    <3>3. todo' \subseteq Gates BY <2>1, <3>2 DEF Preflight
    <3> QED BY <2>1, <3>1, <3>3 DEF Preflight, TypeOK, Pcs, AppendPcs
  <2>2. CASE PreflightFails BY <2>2 DEF PreflightFails, ReturnError, TypeOK, Pcs
  <2>3. CASE LogGateResult
    <3>1. PICK g \in todo : /\ Log("gate_results", GateResult(g, results[g]), "gate_results")
                            /\ todo' = todo \ {g}
      BY <2>3 DEF LogGateResult
    <3>2. GateResult(g, results[g]) \in Events BY <1>0, EventTypes DEF TypeOK
    <3> QED BY <1>0, <1>5, <2>3, <3>1, <3>2 DEF LogGateResult, AppendPcs, Pcs
  <2>4. CASE LogEvaluated
    BY <2>4, <1>5, <1>0, EventTypes DEF LogEvaluated, AppendPcs, Pcs
  <2> QED BY <1>7, <2>1, <2>2, <2>3, <2>4 DEF Evaluate
<1>8. CASE DecideExport BY <1>8 DEF DecideExport, TypeOK, Pcs, AppendPcs
<1>9. CASE Block BY <1>9, <1>5, <1>0, EventTypes DEF Block, AppendPcs, Pcs
<1>10. CASE StartExport
  BY <1>10, <1>5, <1>0, EventTypes
  DEF StartExport, Transition, Target, AppendPcs, Pcs, RunStates
<1>11. CASE Build
  <2>1. CASE ReadLog
    <3>1. Len(log) \in Nat BY LenProperties DEF TypeOK
    <3> QED BY <2>1, <3>1 DEF ReadLog, TypeOK, Pcs
  <2>2. CASE ReadLogFails BY <2>2 DEF ReadLogFails, ReturnError, TypeOK, Pcs
  <2>3. CASE BuildDir BY <2>3, BundleTypes DEF BuildDir, TypeOK, Pcs
  <2>4. CASE BuildDirFails
    BY <2>4, BundleTypes DEF BuildDirFails, Removed, NotRemoved, TypeOK, Pcs, AppendPcs
  <2>5. CASE BuildZip
    <3>1. dir.embeds \in 0..MaxLog BY DEF TypeOK, Bundles
    <3> QED BY <2>5, <3>1 DEF BuildZip, TypeOK, Pcs, AppendPcs
  <2>6. CASE BuildZipFails
    BY <2>6, BundleTypes DEF BuildZipFails, Removed, TypeOK, Pcs, AppendPcs
  <2>7. CASE Generated BY <2>7, <1>5, <1>0, EventTypes DEF Generated, AppendPcs, Pcs
  <2> QED BY <1>11, <2>1, <2>2, <2>3, <2>4, <2>5, <2>6, <2>7 DEF Build
<1>12. CASE Check
  <2>1. CASE Validate
    <3>1. zip.embeds \in 0..MaxLog BY DEF TypeOK, Bundles
    <3> QED BY <2>1, <3>1 DEF Validate, TypeOK, Pcs, AppendPcs
  <2>2. CASE ValidateFails
    BY SMTT(60), <2>2, BundleTypes DEF ValidateFails, Removed, TypeOK, Pcs, AppendPcs
  <2>3. CASE LogVerdict BY <2>3, <1>5, <1>0, EventTypes DEF LogVerdict, AppendPcs, Pcs
  <2>4. CASE Discard BY <2>4, BundleTypes DEF Discard, Removed, TypeOK, Pcs, AppendPcs
  <2>5. CASE DiscardFails
    BY <2>5 DEF DiscardFails, NotRemoved, ReturnError, TypeOK, Pcs
  <2> QED BY <1>12, <2>1, <2>2, <2>3, <2>4, <2>5 DEF Check
<1>13. CASE Complete
  BY <1>13, <1>5, <1>0, EventTypes
  DEF Complete, Transition, Target, AppendPcs, Pcs, RunStates
<1>14. CASE Fail
  BY <1>14, <1>5, <1>0, EventTypes DEF Fail, Transition, Target, AppendPcs, Pcs, RunStates
<1>15. CASE TransitionRefused BY <1>15 DEF TransitionRefused, ReturnError, TypeOK, Pcs
<1>16. CASE Return BY <1>16 DEF Return, TypeOK, Pcs
<1> QED BY <1>1, <1>2, <1>3, <1>4, <1>6, <1>7, <1>8, <1>9, <1>10, <1>11, <1>12,
           <1>13, <1>14, <1>15, <1>16 DEF Next, Step

(* Every action leaves the variables of ExportRun in their types.          *)
THEOREM TypeCorrect == Spec => []TypeOK
BY InitTypes, StepTypes, PTL DEF Spec

----------------------------------------------------------------------------
(***************************************************************************)
(* What a step does to the log and the state.                              *)
(***************************************************************************)
\* A step that records e, at which the last record is a state exactly where
\* the state follows when the append returns.
Records(e) ==
  \E p \in AppendPcs, next \in Pcs \ {"idle"} :
    /\ Log(p, e, next)
    /\ e.type = "RUN_STATE_CHANGED" <=> next \in AfterTransition

LEMMA StepKinds ==
  ASSUME TypeOK, [Next]_vars
  PROVE  \/ AppendReturns \/ AppendFails
         \/ \E e \in Events : Records(e) /\ UNCHANGED state
         \/ UNCHANGED vars
         \/ ~unacked /\ UNCHANGED <<log, acked, unacked, state>>
<1> USE DEF audit, run, At
<1> DEFINE Kind == \E e \in Events : Records(e) /\ UNCHANGED state
<1> SUFFICES \/ AppendReturns \/ AppendFails \/ Kind \/ UNCHANGED vars
             \/ ~unacked /\ UNCHANGED <<log, acked, unacked, state>>
  OBVIOUS
<1>1. ASSUME NEW p \in AppendPcs, NEW e \in Events, NEW next \in Pcs \ {"idle"},
             Log(p, e, next), UNCHANGED state,
             e.type = "RUN_STATE_CHANGED" <=> next \in AfterTransition
      PROVE  Kind
  BY <1>1 DEF Records
<1> HIDE DEF Kind
<1> USE DEF Event, StateChanged, GateResult, Validation, Completed, AfterTransition
<1> USE DEF AppendPcs, Pcs, Target, Transition
<1>2. CASE Call BY <1>2 DEF Call
<1>3. CASE Request BY <1>3, <1>1, EventTypes DEF Request, RunStates
<1>4. CASE Evaluate
  <2>1. CASE LogGateResult
    <3>1. PICK g \in todo : Log("gate_results", GateResult(g, results[g]), "gate_results")
      BY <2>1 DEF LogGateResult
    <3>2. GateResult(g, results[g]) \in Events BY EventTypes DEF TypeOK
    <3> QED BY <2>1, <3>1, <3>2, <1>1 DEF LogGateResult
  <2>2. CASE LogEvaluated BY <2>2, <1>1, EventTypes DEF LogEvaluated
  <2> QED BY <1>4, <2>1, <2>2 DEF Evaluate, Preflight, PreflightFails
<1>5. CASE DecideExport BY <1>5 DEF DecideExport
<1>6. CASE Block BY <1>6, <1>1, EventTypes DEF Block
<1>7. CASE StartExport BY <1>7, <1>1, EventTypes DEF StartExport, RunStates
<1>8. CASE Build
  <2>1. CASE Generated BY <2>1, <1>1, EventTypes DEF Generated
  <2> QED BY <1>8, <2>1 DEF Build, ReadLog, ReadLogFails, BuildDir, BuildDirFails,
             BuildZip, BuildZipFails
<1>9. CASE Check
  <2>1. CASE LogVerdict BY <2>1, <1>1, EventTypes DEF LogVerdict, TypeOK
  <2> QED BY <1>9, <2>1 DEF Check, Validate, ValidateFails, Discard, DiscardFails
<1>10. CASE Complete BY <1>10, <1>1, EventTypes DEF Complete, TypeOK, RunStates
<1>11. CASE Fail BY <1>11, <1>1, EventTypes DEF Fail, RunStates
<1>12. CASE TransitionRefused BY <1>12 DEF TransitionRefused
<1>13. CASE Return BY <1>13 DEF Return
<1> QED BY <1>2, <1>3, <1>4, <1>5, <1>6, <1>7, <1>8, <1>9, <1>10, <1>11, <1>12, <1>13
        DEF Next, Step

\* Records stay where they are.
LEMMA Monotone ==
  ASSUME TypeOK, [Next]_vars
  PROVE  /\ Len(log) <= Len(log') /\ Recorded \subseteq Recorded'
         /\ \A n \in 0..Len(log) : Upto(n)' = Upto(n)
         /\ \A n \in 1..Len(log) : log'[n] = log[n]
<1>1. Len(log) \in Nat BY LenProperties DEF TypeOK
<1>2. CASE log' = log BY <1>1, <1>2, Kept
<1>3. ASSUME NEW e \in Events, log' = Append(log, e)
      PROVE  /\ Len(log) <= Len(log') /\ Recorded \subseteq Recorded'
             /\ \A n \in 0..Len(log) : Upto(n)' = Upto(n)
             /\ \A n \in 1..Len(log) : log'[n] = log[n]
  BY <1>1, <1>3, Grown DEF TypeOK
<1> QED BY <1>2, <1>3, StepKinds
    DEF AppendReturns, AppendFails, Records, Log, vars, audit

\* A record that is written and has not been acknowledged.
LEMMA AppendGrown ==
  ASSUME TypeOK, AppendInv, NEW p \in AppendPcs, NEW e \in Events, NEW next \in Pcs,
         Log(p, e, next), next = "idle" => outcome' = "none",
         e.type = "RUN_STATE_CHANGED" <=> next \in AfterTransition
  PROVE  AppendInv'
<1>1. Len(log) \in Nat BY LenProperties DEF TypeOK
<1>2. Len(log') = Len(log) + 1 /\ log'[Len(log')] = e BY Grown DEF TypeOK, Log
<1>3. \A a \in acked' : Len(a) <= Len(log) BY DEF Log, AppendInv
<1>4. \A a \in acked' : Len(a) \in Nat /\ a # log'
  BY <1>1, <1>2, <1>3, LenProperties DEF TypeOK, Log
<1>5. \A a \in acked' : Len(a) <= Len(log') BY <1>1, <1>2, <1>3, <1>4
<1> QED BY <1>2, <1>4, <1>5 DEF Log, AppendInv

LEMMA AppendStep ==
  ASSUME TypeOK, TypeOK', AppendInv, [Next]_vars
  PROVE  AppendInv'
<1>1. Len(log) \in Nat BY LenProperties DEF TypeOK
<1>2. CASE AppendReturns BY <1>1, <1>2 DEF AppendReturns, AppendInv
<1>3. CASE AppendFails BY <1>3 DEF AppendFails, AppendInv
<1>4. ASSUME NEW e \in Events, Records(e) PROVE AppendInv'
  <2>1. PICK p \in AppendPcs, next \in Pcs \ {"idle"} :
          /\ Log(p, e, next)
          /\ e.type = "RUN_STATE_CHANGED" <=> next \in AfterTransition
    BY <1>4 DEF Records
  <2> QED BY <2>1, AppendGrown
<1>5. CASE UNCHANGED vars BY <1>5 DEF vars, audit, AppendInv
<1>6. CASE ~unacked /\ UNCHANGED <<log, acked, unacked, state>> BY <1>6 DEF AppendInv
<1> QED BY <1>2, <1>3, <1>4, <1>5, <1>6, StepKinds

\* A record that has not been acknowledged moves no state.
LEMMA StateFollowsGrown ==
  ASSUME TypeOK, AppendInv, StateFollowsLog, NEW e \in Events,
         log' = Append(log, e), acked' = acked, state' = state
  PROVE  StateFollowsLog'
<1> DEFINE L == Len(log)
           Pre(n) == SubSeq(log, 1, n)
           Moved(n) == log[n].type = "RUN_STATE_CHANGED"
<1>0. L \in Nat /\ DOMAIN log = 1..L BY LenProperties DEF TypeOK
<1>1. AckedStates = {n \in 1..L : Moved(n) /\ Pre(n) \in acked} BY <1>0 DEF AckedStates
<1>2. /\ Len(log') = L + 1 /\ log' \in Seq(Events)
      /\ \A n \in 1..L : log'[n] = log[n]
  BY Grown DEF TypeOK
<1>3. \A n \in 1..L : Pre(n)' = Pre(n)
  <2> SUFFICES ASSUME NEW n \in 1..L PROVE Pre(n)' = Pre(n)
    OBVIOUS
  <2>1. /\ Pre(n) \in Seq(Events) /\ Len(Pre(n)) = n
        /\ \A m \in 1..n : Pre(n)[m] = log[m]
    BY <1>0, SubSeqProperties DEF TypeOK
  <2>2. /\ Pre(n)' \in Seq(Events) /\ Len(Pre(n)') = n
        /\ \A m \in 1..n : Pre(n)'[m] = log'[m]
    <3>1. \A m \in 1..L : m \in 1..Len(log') BY <1>0, <1>2
    <3> QED BY <1>0, <1>2, <3>1, SubSeqProperties
  <2>3. \A m \in 1..n : Pre(n)'[m] = Pre(n)[m]
    <3>1. \A m \in 1..n : m \in 1..L BY <1>0
    <3> QED BY <1>2, <2>1, <2>2, <3>1
  <2> HIDE DEF Pre
  <2> QED BY <2>1, <2>2, <2>3, SeqEqual
<1>4. \A n \in 1..(L + 1) : n = L + 1 => Pre(n)' \notin acked'
  <2>1. SubSeq(log', 1, L + 1) = log' BY <1>2, SubSeqFull
  <2>2. log' \notin acked
    <3> SUFFICES ASSUME log' \in acked PROVE FALSE
      OBVIOUS
    <3>1. Len(log') <= L
      <4>1. \A a \in acked : Len(a) <= L BY DEF AppendInv
      <4> QED BY <4>1, Zenon
    <3> HIDE DEF L
    <3>2. Len(log') = L + 1 BY <1>2, Zenon
    <3>3. L + 1 <= L BY <3>1, <3>2, Zenon
    <3> QED BY <1>0, <3>3
  <2>3. ASSUME NEW n \in 1..(L + 1), n = L + 1 PROVE Pre(n)' \notin acked'
    <3>1. Pre(n)' = log' BY <2>1, <2>3
    <3> HIDE DEF Pre
    <3> QED BY Zenon, <2>2, <3>1
  <2> HIDE DEF Pre
  <2> QED BY <2>3
<1>5. AckedStates' = {n \in 1..(L + 1) : Moved(n)' /\ Pre(n)' \in acked'}
  BY <1>2, LenProperties DEF AckedStates
<1>6. \A n \in 1..L : Moved(n)' <=> Moved(n) BY <1>2
<1>7. AckedStates' = AckedStates /\ AckedStates \subseteq 1..L
  <2> HIDE DEF Pre, L, Moved
  <2> QED BY <1>0, <1>1, <1>3, <1>4, <1>5, <1>6
<1> QED BY <1>2, <1>7 DEF StateFollowsLog

\* Which records are acknowledged states changes where the state does.
LEMMA StateFollowsStep ==
  ASSUME TypeOK, TypeOK', AppendInv, StateFollowsLog, [Next]_vars
  PROVE  StateFollowsLog'
<1> DEFINE L == Len(log)
           Pre(n) == SubSeq(log, 1, n)
           Moved(n) == log[n].type = "RUN_STATE_CHANGED"
<1>0. L \in Nat /\ DOMAIN log = 1..L BY LenProperties DEF TypeOK
<1>1. AckedStates = {n \in 1..L : Moved(n) /\ Pre(n) \in acked} BY <1>0 DEF AckedStates
<1>2. ASSUME UNCHANGED <<log, acked, state>> PROVE StateFollowsLog'
  <2>1. AckedStates' = AckedStates BY <1>2 DEF AckedStates
  <2> QED BY <1>2, <2>1 DEF StateFollowsLog
<1>3. CASE AppendReturns
  <2>1. log # << >> /\ L \in 1..L BY <1>0, <1>3, EmptySeq DEF AppendReturns, TypeOK
  <2>2. log' = log /\ acked' = acked \union {log} BY SMTT(60), <1>3 DEF AppendReturns
  <2>3. \A n \in 1..L : Pre(n) = log <=> n = L
    <3>1. \A n \in 1..L : Len(Pre(n)) = n BY <1>0, SubSeqProperties DEF TypeOK
    <3>2. Pre(L) = log BY SubSeqFull DEF TypeOK
    <3> QED BY ZenonT(60), <1>0, <3>1, <3>2
  <2>4. AckedStates' = {n \in 1..L : Moved(n) /\ Pre(n) \in acked \union {log}}
    BY <1>0, <2>2 DEF AckedStates
  <2> HIDE DEF Pre, L
  <2>5. CASE Moved(L)
    <3>1. L \in AckedStates' /\ \A m \in AckedStates' : m <= L
      BY <1>0, <2>1, <2>3, <2>4, <2>5
    <3>2. state' = log'[L].to BY <1>3, <2>5 DEF AppendReturns, L
    <3> QED BY <3>1, <3>2 DEF StateFollowsLog
  <2>6. CASE ~Moved(L)
    <3>1. AckedStates' = AckedStates BY <1>1, <2>3, <2>4, <2>6
    <3>2. state' = state BY <1>3, <2>6 DEF AppendReturns, L
    <3> QED BY <2>2, <3>1, <3>2 DEF StateFollowsLog
  <2> QED BY <2>5, <2>6
<1>4. ASSUME NEW e \in Events, Records(e), UNCHANGED state PROVE StateFollowsLog'
  BY <1>4, StateFollowsGrown DEF Records, Log
<1>5. CASE AppendFails BY <1>2, <1>5 DEF AppendFails, run
<1>6. CASE UNCHANGED vars BY <1>2, <1>6 DEF vars, audit, run
<1> QED BY <1>2, <1>3, <1>4, <1>5, <1>6, StepKinds

----------------------------------------------------------------------------
(***************************************************************************)
(* The parts of the invariant, one step of export_run at a time.           *)
(***************************************************************************)
\* What is known once a record is written.
LEMMA Logged ==
  ASSUME TypeOK, NEW p \in AppendPcs, NEW e \in Events, NEW next \in Pcs, Log(p, e, next)
  PROVE  /\ pc = p /\ ~unacked /\ unacked' /\ pc' = next /\ acked' = acked
         /\ Len(log') = Len(log) + 1 /\ log'[Len(log')] = e
         /\ \A n \in 1..Len(log) : log'[n] = log[n]
         /\ \A n \in 0..Len(log) : Upto(n)' = Upto(n)
         /\ Recorded' = Recorded \union {e}
BY Grown DEF Log, At, TypeOK

LEMMA StateStep ==
  ASSUME TypeOK, AppendInv, StateInv, OutcomeInv, [Next]_vars
  PROVE  StateInv'
<1> USE DEF StateInv, Pending, BundlePcs, AfterTransition, At, audit, run, files, AppendPcs, Pcs
<1>1. CASE UNCHANGED vars BY <1>1 DEF vars
<1>2. CASE Call BY <1>2 DEF Call
<1>3. CASE AppendReturns BY <1>3 DEF AppendReturns, AppendInv, StateChanged
<1>4. CASE AppendFails BY <1>4 DEF AppendFails, ReturnError
<1>5. CASE Request
  <2>1. CASE Log("request", Event("EXPORT_REQUESTED"), "evaluate")
    BY <1>5, <2>1, Logged, EventTypes DEF Request
  <2>2. CASE Transition("evaluate", "start_eval")
    <3>1. state = "READY" BY <2>2 DEF Transition, Target, ValidTransition
    <3>2. Log("evaluate", StateChanged("EVALUATING"), "start_eval")
      BY <2>2 DEF Transition, Target
    <3> QED BY SMTT(60), <1>5, <3>1, <3>2, Logged, EventTypes DEF Request, RunStates
  <2>3. CASE Log("start_eval", Event("EVAL_STARTED"), "preflight")
    BY SMTT(60), <1>5, <2>3, Logged, EventTypes DEF Request
  <2> QED BY SMTT(60), <1>5, <2>1, <2>2, <2>3 DEF Request
<1>6. CASE Evaluate
  <2>1. CASE LogGateResult
    <3>1. PICK g \in todo : Log("gate_results", GateResult(g, results[g]), "gate_results")
      BY <2>1 DEF LogGateResult
    <3>2. GateResult(g, results[g]) \in Events BY EventTypes DEF TypeOK
    <3> QED BY <2>1, <3>1, <3>2, Logged DEF LogGateResult
  <2>2. CASE LogEvaluated BY <2>2, Logged, EventTypes DEF LogEvaluated
  <2> QED BY <1>6, <2>1, <2>2 DEF Evaluate, Preflight, PreflightFails, ReturnError
<1>7. CASE DecideExport BY <1>7 DEF DecideExport
<1>8. CASE Block
  <2>1. outcome = "blocked" BY <1>8 DEF Block, Log, OutcomeInv
  <2> QED BY SMTT(60), <1>8, <2>1, Logged, EventTypes DEF Block
<1>9. CASE StartExport
  BY <1>9, Logged, EventTypes DEF StartExport, Transition, Target, ValidTransition, RunStates
<1>10. CASE Build
  <2>1. CASE Generated BY SMTT(60), <2>1, Logged, EventTypes DEF Generated
  <2> QED BY <1>10, <2>1 DEF Build, ReadLog, ReadLogFails, BuildDir, BuildDirFails,
             BuildZip, BuildZipFails, ReturnError
<1>11. CASE Check
  <2>1. CASE LogVerdict BY SMTT(60), <2>1, Logged, EventTypes DEF LogVerdict, TypeOK
  <2> QED BY <1>11, <2>1 DEF Check, Validate, ValidateFails, Discard, DiscardFails, ReturnError
<1>12. CASE Complete
  BY SMTT(60), <1>12, Logged, EventTypes
  DEF Complete, Transition, Target, ValidTransition, TypeOK, RunStates
<1>13. CASE Fail
  <2>1. /\ pc = "fail" => outcome \in {"failed", "error"}
        /\ pc = "to_failed" => outcome \notin {"none", "completed"}
    BY DEF OutcomeInv
  <2> QED BY <1>13, <2>1, Logged, EventTypes DEF Fail, Transition, Target, ValidTransition, RunStates
<1>14. CASE TransitionRefused BY <1>14 DEF TransitionRefused, ReturnError
<1>15. CASE Return BY <1>15 DEF Return
<1> QED BY <1>1, <1>2, <1>3, <1>4, <1>5, <1>6, <1>7, <1>8, <1>9, <1>10, <1>11, <1>12,
           <1>13, <1>14, <1>15 DEF Next, Step

\* From the evaluation on, the run is past READY.
LEMMA PastReady ==
  ASSUME TypeOK, StateInv,
         Evaluate \/ DecideExport \/ Block \/ StartExport \/ Build \/ Check
           \/ Complete \/ Fail \/ Return
  PROVE  state' = state /\ state # "READY" /\ pc' \notin {"start_eval", "preflight"}
<1> USE DEF StateInv, Pending, BundlePcs, Log, Transition, At, run, ReturnError
<1>1. CASE Evaluate BY <1>1 DEF Evaluate, Preflight, PreflightFails, LogGateResult, LogEvaluated
<1>2. CASE DecideExport \/ Block \/ StartExport BY <1>2 DEF DecideExport, Block, StartExport
<1>3. CASE Build
  BY <1>3 DEF Build, ReadLog, ReadLogFails, BuildDir, BuildDirFails, BuildZip,
              BuildZipFails, Generated
<1>4. CASE Check BY <1>4 DEF Check, Validate, ValidateFails, LogVerdict, Discard, DiscardFails
<1>5. CASE Complete \/ Fail \/ Return BY <1>5 DEF Complete, Fail, Return
<1> QED BY <1>1, <1>2, <1>3, <1>4, <1>5

LEMMA FreshStep ==
  ASSUME TypeOK, AppendInv, StateInv, FreshInv, [Next]_vars
  PROVE  FreshInv'
<1> USE DEF At, audit, run
<1>1. CASE UNCHANGED vars BY <1>1, Kept DEF vars, FreshInv
<1>2. CASE Call BY <1>2, Kept DEF Call, FreshInv
<1>3. CASE AppendReturns
  <2>1. log' = log /\ pc' = pc BY <1>3 DEF AppendReturns
  <2>2. state' = "READY" => state = "READY"
    BY <1>3
    DEF AppendReturns, AppendInv, StateInv, Pending, StateChanged, AfterTransition, BundlePcs
  <2> QED BY <2>1, <2>2, Kept DEF FreshInv
<1>4. CASE AppendFails BY <1>4, Kept DEF AppendFails, ReturnError, FreshInv
<1>5. CASE Request
  <2>1. PICK e \in {Event("EXPORT_REQUESTED"), Event("EVAL_STARTED"), StateChanged("EVALUATING")} :
          log' = Append(log, e)
    BY <1>5 DEF Request, Log, Transition, Target
  <2>2. e \in Events BY EventTypes DEF RunStates
  <2>3. Recorded' = Recorded \union {e} BY <2>1, <2>2, Grown DEF TypeOK
  <2>4. state' = "READY" \/ pc' \in {"start_eval", "preflight"} =>
          state = "READY" \/ pc = "start_eval"
    BY <1>5 DEF Request, Log, Transition, Target, ValidTransition, StateInv
  <2> QED BY <2>3, <2>4 DEF FreshInv
<1>6. CASE TransitionRefused BY <1>6, Kept DEF TransitionRefused, ReturnError, FreshInv
<1> QED BY <1>1, <1>2, <1>3, <1>4, <1>5, <1>6, PastReady DEF Next, Step, FreshInv

LEMMA GateStep ==
  ASSUME TypeOK, TypeOK', StateInv, FreshInv, GateInv, [Next]_vars
  PROVE  GateInv'
<1> USE DEF At, audit, run
<1> DEFINE Elsewhere == Pcs \ {"gate_results", "gate", "blocked", "to_exporting"}
<1>1. ASSUME log' = log, UNCHANGED <<req, results>>, pc' \in Elsewhere PROVE GateInv'
  BY <1>1, Kept DEF GateInv
<1>2. ASSUME NEW p \in AppendPcs, NEW e \in Events, NEW next \in Elsewhere, Log(p, e, next),
             UNCHANGED <<req, results>>, e.type # "EVAL_GATE_RESULT"
      PROVE  GateInv'
  BY <1>2, Logged DEF GateInv, GateResult
<1> USE DEF AppendPcs, Pcs, Transition, Target, ReturnError
<1> USE DEF Event, StateChanged, Validation, Completed
<1>3. CASE UNCHANGED vars BY <1>3, Kept DEF vars, GateInv, Evaluated, BlockerFails
<1>4. CASE Call BY <1>1, <1>4 DEF Call
<1>5. CASE AppendReturns BY <1>5, Kept DEF AppendReturns, GateInv, Evaluated, BlockerFails
<1>6. CASE AppendFails BY <1>1, <1>6 DEF AppendFails
<1>7. CASE Request BY SMTT(60), <1>2, <1>7, EventTypes DEF Request, RunStates
<1>8. CASE Evaluate
  <2>1. CASE Preflight
    <3>1. /\ log' = log /\ todo' = AppliesTo[req.policy] /\ pc' = "gate_results"
          /\ req' = req /\ pc = "preflight"
      BY <2>1 DEF Preflight
    <3>2. \A g \in Gates, r \in GateValues : GateResult(g, r) \notin Recorded
      BY <3>1 DEF FreshInv, GateResult
    <3> QED BY <3>1, <3>2, Kept DEF GateInv
  <2>2. CASE PreflightFails BY <1>1, <2>2 DEF PreflightFails
  <2>3. CASE LogGateResult
    <3>1. PICK g \in todo : /\ Log("gate_results", GateResult(g, results[g]), "gate_results")
                            /\ todo' = todo \ {g}
      BY <2>3 DEF LogGateResult
    <3>2. GateResult(g, results[g]) \in Events BY EventTypes DEF TypeOK
    <3>3. /\ Recorded' = Recorded \union {GateResult(g, results[g])}
          /\ pc = "gate_results" /\ pc' = "gate_results"
      BY <3>1, <3>2, Logged
    <3> QED BY <2>3, <3>1, <3>3 DEF LogGateResult, GateInv, GateResult
  <2>4. CASE LogEvaluated
    <3>1. /\ Recorded' = Recorded \union {Event("EVAL_COMPLETED")}
          /\ pc = "gate_results" /\ pc' = "gate"
      BY <2>4, EventTypes, Logged DEF LogEvaluated
    <3> QED BY <2>4, <3>1 DEF LogEvaluated, GateInv, GateResult, Evaluated
  <2> QED BY <1>8, <2>1, <2>2, <2>3, <2>4 DEF Evaluate
<1>9. CASE DecideExport
  <2>1. Permitted => BlockerFails = {} BY DEF Permitted, PermitsExport
  <2> QED BY <1>9, <2>1, Kept DEF DecideExport, GateInv, Evaluated, BlockerFails
<1>10. CASE Block BY <1>2, <1>10, EventTypes DEF Block
<1>11. CASE StartExport BY SMTT(60), <1>2, <1>11, EventTypes DEF StartExport, RunStates
<1>12. CASE Build
  <2>1. CASE Generated BY <1>2, <2>1, EventTypes DEF Generated
  <2> QED BY <1>1, <1>12, <2>1 DEF Build, ReadLog, ReadLogFails, BuildDir, BuildDirFails,
             BuildZip, BuildZipFails
<1>13. CASE Check
  <2>1. CASE LogVerdict BY ZenonT(60), <1>2, <2>1, EventTypes DEF LogVerdict, TypeOK
  <2> QED BY <1>1, <1>13, <2>1 DEF Check, Validate, ValidateFails, Discard, DiscardFails
<1>14. CASE Complete BY ZenonT(60), <1>2, <1>14, EventTypes DEF Complete, TypeOK, RunStates
<1>15. CASE Fail BY <1>2, <1>15, EventTypes DEF Fail, RunStates
<1>16. CASE TransitionRefused BY <1>1, <1>16 DEF TransitionRefused
<1>17. CASE Return BY <1>1, <1>17 DEF Return
<1> QED BY <1>3, <1>4, <1>5, <1>6, <1>7, <1>8, <1>9, <1>10, <1>11, <1>12, <1>13,
           <1>14, <1>15, <1>16, <1>17 DEF Next, Step

\* What the log up to n has to show for EXPORTING to follow.
Permitting(n) ==
  /\ Event("EVAL_COMPLETED") \in Upto(n)
  /\ \A g \in AppliesTo[req.policy] :
       /\ \E r \in GateValues : GateResult(g, r) \in Upto(n)
       /\ g \in Blockers => GateResult(g, "FAIL") \notin Upto(n)

LEMMA GatesPermitGrown ==
  ASSUME TypeOK, GatesPermit, NEW p \in AppendPcs, NEW e \in Events, NEW next \in Pcs,
         Log(p, e, next), req' = req, e = StateChanged("EXPORTING") => Permitting(Len(log))
  PROVE  GatesPermit'
<1>0. Len(log) \in Nat /\ DOMAIN log = 1..Len(log) BY LenProperties DEF TypeOK
<1>1. /\ DOMAIN log' = 1..(Len(log) + 1) /\ log'[Len(log) + 1] = e
      /\ \A n \in 1..Len(log) : log'[n] = log[n]
      /\ \A n \in 0..Len(log) : Upto(n)' = Upto(n)
  BY Logged, LenProperties, Grown DEF TypeOK, Log
<1>2. ASSUME NEW n \in 1..(Len(log) + 1), log'[n] = StateChanged("EXPORTING")
      PROVE  Permitting(n - 1)'
  <2>1. n - 1 \in 0..Len(log) BY <1>0
  <2>2. Permitting(n - 1)
    <3>1. CASE n \in 1..Len(log) BY <1>0, <1>1, <1>2, <3>1 DEF GatesPermit, Permitting
    <3>2. CASE n = Len(log) + 1 BY <1>0, <1>1, <1>2, <3>2
    <3> QED BY <1>0, <3>1, <3>2
  <2>3. Upto(n - 1)' = Upto(n - 1) BY <1>1, <2>1
  <2> QED BY <2>2, <2>3 DEF Permitting
<1> QED BY <1>1, <1>2 DEF GatesPermit, Permitting

LEMMA GatesPermitStep ==
  ASSUME TypeOK, TypeOK', GateInv, GatesPermit, [Next]_vars
  PROVE  GatesPermit'
<1> USE DEF At, audit, run
<1>1. ASSUME log' = log, req' = req PROVE GatesPermit'
  BY <1>1, Kept DEF GatesPermit
<1>2. ASSUME NEW p \in AppendPcs, NEW e \in Events, NEW next \in Pcs, Log(p, e, next), req' = req,
             e = StateChanged("EXPORTING") => Permitting(Len(log))
      PROVE  GatesPermit'
  BY <1>2, GatesPermitGrown
<1> USE DEF AppendPcs, Pcs, Transition, Target, ReturnError
<1> USE DEF Event, StateChanged, Validation, Completed, GateResult
<1>3. CASE UNCHANGED vars BY <1>1, <1>3 DEF vars
<1>4. CASE Call BY <1>1, <1>4 DEF Call
<1>5. CASE AppendReturns \/ AppendFails BY <1>1, <1>5 DEF AppendReturns, AppendFails
<1>6. CASE Request BY <1>2, <1>6, EventTypes DEF Request, RunStates
<1>7. CASE Evaluate
  <2>1. CASE LogGateResult
    <3>1. PICK g \in todo : Log("gate_results", GateResult(g, results[g]), "gate_results")
      BY <2>1 DEF LogGateResult
    <3>2. GateResult(g, results[g]) \in Events BY EventTypes DEF TypeOK
    <3> QED BY <1>2, <2>1, <3>1, <3>2 DEF LogGateResult
  <2>2. CASE LogEvaluated BY <1>2, <2>2, EventTypes DEF LogEvaluated
  <2> QED BY <1>1, <1>7, <2>1, <2>2 DEF Evaluate, Preflight, PreflightFails
<1>8. CASE DecideExport BY <1>1, <1>8 DEF DecideExport
<1>9. CASE Block BY <1>2, <1>9, EventTypes DEF Block
<1>10. CASE StartExport
  <2>1. pc = "to_exporting" => Permitting(Len(log))
    <3>1. ASSUME pc = "to_exporting", NEW g \in AppliesTo[req.policy]
          PROVE  /\ g \in Gates /\ results[g] \in GateValues
                 /\ GateResult(g, results[g]) \in Recorded
                 /\ g \in Blockers => results[g] # "FAIL"
      <4>1. req.policy \in PolicyModes BY DEF TypeOK, ExportRequests
      <4>2. g \in Gates BY <4>1
      <4> QED BY <3>1, <4>2 DEF GateInv, Evaluated, BlockerFails, TypeOK
    <3>2. ASSUME pc = "to_exporting" PROVE Event("EVAL_COMPLETED") \in Recorded
      BY <3>2 DEF GateInv, Evaluated
    <3>3. ASSUME NEW g \in Gates, GateResult(g, "FAIL") \in Recorded PROVE results[g] = "FAIL"
      BY <3>3 DEF GateInv, GateValues
    <3> HIDE DEF Event, GateResult
    <3> QED BY <3>1, <3>2, <3>3 DEF Permitting, Recorded
  <2>2. CASE Transition("to_exporting", "start_generation")
    BY <1>2, <1>10, <2>1, <2>2, EventTypes DEF StartExport, Log, RunStates
  <2> QED BY <1>2, <1>10, <2>2, EventTypes DEF StartExport
<1>11. CASE Build
  <2>1. CASE Generated BY <1>2, <2>1, EventTypes DEF Generated
  <2> QED BY <1>1, <1>11, <2>1 DEF Build, ReadLog, ReadLogFails, BuildDir, BuildDirFails,
             BuildZip, BuildZipFails
<1>12. CASE Check
  <2>1. CASE LogVerdict BY <1>2, <2>1, EventTypes DEF LogVerdict, TypeOK
  <2> QED BY <1>1, <1>12, <2>1 DEF Check, Validate, ValidateFails, Discard, DiscardFails
<1>13. CASE Complete BY <1>2, <1>13, EventTypes DEF Complete, TypeOK, RunStates
<1>14. CASE Fail BY <1>2, <1>14, EventTypes DEF Fail, RunStates
<1>15. CASE TransitionRefused BY <1>1, <1>15 DEF TransitionRefused
<1>16. CASE Return BY <1>1, <1>16 DEF Return
<1> QED BY <1>3, <1>4, <1>5, <1>6, <1>7, <1>8, <1>9, <1>10, <1>11, <1>12, <1>13,
           <1>14, <1>15, <1>16 DEF Next, Step

LEMMA BundleStep ==
  ASSUME TypeOK, TypeOK', GateInv, BundleInv, [Next]_vars
  PROVE  BundleInv'
<1> USE DEF At, audit, run, files
<1>0. Len(log) \in Nat /\ Len(log') \in Nat BY LenProperties DEF TypeOK
<1>1. /\ \A n : Evidence(n) => Evidence(n)'
      /\ \A n : Revalidated(n) => Revalidated(n)'
  <2>1. \A n \in 0..Len(log) : n \in 0..Len(log') /\ Upto(n)' = Upto(n) BY <1>0, Monotone
  <2> QED BY <2>1 DEF Evidence, Revalidated
<1>2. /\ Evidence(Len(log)) => Evidence(Len(log))'
      /\ Revalidated(Len(log)) => Revalidated(Len(log))'
  <2>1. Upto(Len(log)) \subseteq Upto(Len(log))' BY Monotone DEF Recorded
  <2>2. Len(log)' \in 0..Len(log)' BY <1>0
  <2> QED BY <2>1, <2>2 DEF Evidence, Revalidated
<1> DEFINE Late == BundlePcs \union {"start_generation"}
<1>3. ASSUME UNCHANGED files, pc' \in Pcs \ Late,
             ~final' \/ (UNCHANGED final /\ (pc' \in FirstRoundPcs => pc \in FirstRoundPcs))
      PROVE  BundleInv'
  BY <1>1, <1>3 DEF BundleInv, BundlePcs
<1>4. ASSUME UNCHANGED <<files, final, pc>>
      PROVE  BundleInv'
  BY <1>1, <1>2, <1>4 DEF BundleInv
<1> USE DEF BundlePcs, Pcs, AppendPcs, FirstRoundPcs
<1>5. CASE UNCHANGED vars BY <1>4, <1>5 DEF vars
<1>6. CASE Call
  <2>1. UNCHANGED files /\ pc' = "request" BY <1>6 DEF Call
  <2>2. ~final' BY <1>6 DEF Call
  <2> QED BY <1>3, <2>1, <2>2
<1>7. CASE AppendReturns BY <1>4, <1>7 DEF AppendReturns
<1>8. CASE AppendFails BY <1>3, <1>8 DEF AppendFails, ReturnError
<1>9. CASE Request BY <1>3, <1>9 DEF Request, Transition, Log
<1>10. CASE Evaluate
  BY <1>3, <1>10
  DEF Evaluate, Preflight, PreflightFails, LogGateResult, LogEvaluated, Log, ReturnError
<1>11. CASE DecideExport BY <1>3, <1>11 DEF DecideExport
<1>12. CASE Block BY <1>3, <1>12 DEF Block, Log
<1>13. CASE StartExport
  <2>1. CASE Transition("to_exporting", "start_generation")
    <3>1. Log("to_exporting", StateChanged("EXPORTING"), "start_generation")
      BY <2>1 DEF Transition, Target
    <3>2. /\ pc = "to_exporting" /\ pc' = "start_generation"
          /\ Recorded' = Recorded \union {StateChanged("EXPORTING")}
      BY <3>1, Logged, EventTypes DEF RunStates
    <3>3. Event("EVAL_COMPLETED") \in Recorded BY <3>2 DEF GateInv, Evaluated
    <3>4. Evidence(Len(log))' BY <1>0, <3>2, <3>3 DEF Evidence, Recorded
    <3>5. UNCHANGED <<files, final>> BY <1>13 DEF StartExport
    <3> QED BY <1>1, <3>2, <3>4, <3>5 DEF BundleInv
  <2>2. CASE Log("start_generation", Event("BUNDLE_GENERATION_STARTED"), "read_log")
    BY <1>1, <1>2, <1>13, <2>2 DEF StartExport, Log, BundleInv
  <2> QED BY <1>13, <2>1, <2>2 DEF StartExport
<1>14. CASE Build
  <2>1. CASE ReadLog BY <1>1, <1>2, <2>1 DEF ReadLog, BundleInv
  <2>2. CASE ReadLogFails BY <1>3, <2>2 DEF ReadLogFails, ReturnError
  <2>3. CASE BuildDir BY <1>1, <1>2, <2>3 DEF BuildDir, BundleInv
  <2>4. CASE BuildDirFails
    BY <1>1, <1>2, <2>4 DEF BuildDirFails, Removed, NotRemoved, Absent, BundleInv
  <2>5. CASE BuildZip BY <1>1, <1>2, <2>5 DEF BuildZip, Whole, BundleInv
  <2>6. CASE BuildZipFails
    <3>1. zip' = zip \/ zip' = Absent \/ zip' = Partial BY <2>6 DEF BuildZipFails, Removed
    <3>2. zip'.file = "whole" => zip' = zip BY <3>1 DEF Absent, Partial
    <3> QED BY <1>1, <1>2, <2>6, <3>2 DEF BuildZipFails, BundleInv
  <2>7. CASE Generated BY <1>1, <1>2, <2>7 DEF Generated, Log, Whole, BundleInv
  <2> QED BY <1>14, <2>1, <2>2, <2>3, <2>4, <2>5, <2>6, <2>7 DEF Build
<1>15. CASE Check
  <2>1. CASE Validate BY <1>1, <1>2, <2>1 DEF Validate, Whole, BundleInv
  <2>2. CASE ValidateFails BY <1>1, <1>2, <2>2 DEF ValidateFails, Removed, Absent, BundleInv
  <2>3. CASE LogVerdict
    <3>1. CASE Log("passed", Validation("PASS", final), IF final THEN "complete" ELSE "refresh")
      <4>1. pc = "passed" /\ Recorded' = Recorded \union {Validation("PASS", final)}
        BY SMTT(60), <3>1, Logged, EventTypes DEF TypeOK
      <4>2. CASE final = FALSE
        <5>1. Validation("PASS", FALSE) \in Recorded' BY <4>1, <4>2
        <5>2. Revalidated(Len(log))' BY <1>0, <5>1 DEF Revalidated, Recorded, Validation
        <5> QED BY <1>1, <1>2, <2>3, <3>1, <4>1, <4>2, <5>2 DEF LogVerdict, Log, BundleInv
      <4>3. CASE final = TRUE
        BY <1>1, <1>2, <2>3, <3>1, <4>1, <4>3 DEF LogVerdict, Log, BundleInv
      <4> QED BY <4>2, <4>3 DEF TypeOK
    <3>2. CASE Log("rejected", Validation("FAIL", final), "discard")
      BY <1>1, <1>2, <2>3, <3>2 DEF LogVerdict, Log, BundleInv
    <3> QED BY <2>3, <3>1, <3>2 DEF LogVerdict
  <2>4. CASE Discard BY <1>1, <1>2, <2>4 DEF Discard, Removed, Absent, BundleInv
  <2>5. CASE DiscardFails
    BY <1>3, <1>1, <2>5 DEF DiscardFails, NotRemoved, ReturnError, BundleInv
  <2> QED BY <1>15, <2>1, <2>2, <2>3, <2>4, <2>5 DEF Check
<1>16. CASE Complete BY <1>1, <1>2, <1>16 DEF Complete, Transition, Log, BundleInv
<1>17. CASE Fail BY <1>3, <1>17 DEF Fail, Transition, Log
<1>18. CASE TransitionRefused BY <1>3, <1>18 DEF TransitionRefused, ReturnError
<1>19. CASE Return BY <1>3, <1>19 DEF Return
<1> QED BY <1>5, <1>6, <1>7, <1>8, <1>9, <1>10, <1>11, <1>12, <1>13, <1>14, <1>15,
           <1>16, <1>17, <1>18, <1>19 DEF Next, Step

LEMMA EndStep ==
  ASSUME TypeOK, AppendInv, StateInv, BundleInv, OutcomeInv, EndInv, [Next]_vars
  PROVE  EndInv'
<1> DEFINE End(e) == e.type = "EXPORT_COMPLETED" \/ e = Event("EXPORT_FAILED")
           Unended == \A e \in Recorded : ~End(e)
           Ends == EntryPcs \union {"to_completed", "to_failed", "return"}
<1> USE DEF At, audit, run, files, EntryPcs
<1> USE DEF AppendPcs, Pcs, Transition, Target, ReturnError
\* A step that leaves the artifacts and the state alone.
<1>1. ASSUME Recorded' = Recorded, UNCHANGED <<state, files>>,
             pc' \in EntryPcs \/ UNCHANGED <<pc, outcome>>
      PROVE  EndInv'
  BY <1>1 DEF EndInv
\* Elsewhere than at an entry and at an end, no record of an end is there.
<1>2. pc \notin Ends => Unended BY DEF EndInv, Event
<1>3. ASSUME log' = log, pc \notin Ends PROVE EndInv'
  BY <1>2, <1>3, Kept DEF EndInv
<1>4. ASSUME NEW p \in AppendPcs, NEW e \in Events, NEW next \in Pcs, Log(p, e, next),
             ~End(e), Unended
      PROVE  EndInv'
  BY <1>4, Logged DEF EndInv
<1>5. CASE UNCHANGED vars BY <1>1, <1>5, Kept DEF vars
<1>6. CASE Call BY <1>1, <1>6, Kept DEF Call
<1>7. CASE AppendReturns
  <2>1. /\ Recorded' = Recorded /\ UNCHANGED <<pc, outcome, files>>
        /\ state' = state \/ pc \in AfterTransition
        /\ pc = "return" => state' = IF outcome = "completed" THEN "COMPLETED" ELSE "FAILED"
    BY <1>7, Kept DEF AppendReturns, AppendInv, StateInv, Pending, StateChanged, AfterTransition
  <2>2. pc = "return" /\ outcome = "completed" => Event("EXPORT_FAILED") \notin Recorded
    BY DEF OutcomeInv, EndInv, Completed
  <2> QED BY <2>1, <2>2 DEF EndInv, AfterTransition
<1>8. CASE AppendFails BY <1>1, <1>8, Kept DEF AppendFails
<1>9. CASE Request
  <2>1. CASE Log("request", Event("EXPORT_REQUESTED"), "evaluate")
    BY <1>9, <2>1, Logged, EventTypes DEF Request, EndInv, Event
  <2>2. CASE Transition("evaluate", "start_eval")
    <3>1. state = "READY" /\ Log("evaluate", StateChanged("EVALUATING"), "start_eval")
      BY <2>2 DEF ValidTransition, StateInv
    <3>2. Unended BY <3>1 DEF EndInv
    <3> QED BY ZenonT(60), <1>4, <3>1, <3>2, EventTypes DEF StateChanged, Event, RunStates
  <2>3. CASE Log("start_eval", Event("EVAL_STARTED"), "preflight")
    <3>1. Unended BY <1>2, <2>3 DEF Log
    <3> QED BY ZenonT(60), <1>4, <2>3, <3>1, EventTypes DEF Event
  <2> QED BY SMTT(60), <1>9, <2>1, <2>2, <2>3 DEF Request
<1> HIDE DEF Unended
<1> USE DEF Event, StateChanged, Validation, Completed, GateResult
<1>10. CASE Evaluate
  <2>1. CASE LogGateResult
    <3>1. PICK g \in todo : Log("gate_results", GateResult(g, results[g]), "gate_results")
      BY <2>1 DEF LogGateResult
    <3>2. GateResult(g, results[g]) \in Events BY EventTypes DEF TypeOK
    <3>3. Unended BY <1>2, <3>1 DEF Log
    <3> QED BY <1>4, <3>1, <3>2, <3>3
  <2>2. CASE LogEvaluated BY <1>2, <1>4, <2>2, EventTypes DEF LogEvaluated, Log
  <2> QED BY <1>3, <1>10, <2>1, <2>2 DEF Evaluate, Preflight, PreflightFails
<1>11. CASE DecideExport BY <1>3, <1>11 DEF DecideExport
<1>12. CASE Block BY SMTT(60), <1>2, <1>4, <1>12, EventTypes DEF Block, Log
<1>13. CASE StartExport BY ZenonT(60), <1>2, <1>4, <1>13, EventTypes DEF StartExport, Log, RunStates
<1>14. CASE Build
  <2>1. CASE Generated BY ZenonT(60), <1>2, <1>4, <2>1, EventTypes DEF Generated, Log
  <2> QED BY <1>3, <1>14, <2>1 DEF Build, ReadLog, ReadLogFails, BuildDir, BuildDirFails,
             BuildZip, BuildZipFails
<1>15. CASE Check
  <2>1. CASE LogVerdict BY ZenonT(60), <1>2, <1>4, <2>1, EventTypes DEF LogVerdict, Log, TypeOK
  <2> QED BY <1>3, <1>15, <2>1 DEF Check, Validate, ValidateFails, Discard, DiscardFails
<1>16. CASE Complete
  <2>1. CASE Log("complete", Completed(sha), "to_completed")
    <3>1. /\ Unended /\ zip = Whole(sha) /\ sha \in passed /\ state = "EXPORTING"
      BY <1>2, <2>1 DEF Log, BundleInv, StateInv, BundlePcs
    <3>2. Recorded' = Recorded \union {Completed(sha)} /\ pc' = "to_completed"
      BY SMTT(60), <2>1, Logged, EventTypes DEF TypeOK
    <3> QED BY <1>16, <3>1, <3>2 DEF Complete, EndInv, Unended
  <2>2. CASE Transition("to_completed", "return") /\ outcome' = "completed"
    <3>1. /\ Recorded' = Recorded \union {StateChanged("COMPLETED")}
          /\ pc = "to_completed" /\ pc' = "return"
      BY SMTT(60), <2>2, Logged, EventTypes DEF RunStates
    <3> QED BY <1>16, <2>2, <3>1 DEF Complete, EndInv
  <2> QED BY <1>16, <2>1, <2>2 DEF Complete
<1>17. CASE Fail
  <2>1. CASE Log("fail", Event("EXPORT_FAILED"), "to_failed")
    <3>1. Unended /\ (zip = Absent \/ stuck) /\ state = "EXPORTING"
      BY <1>2, <2>1 DEF Log, OutcomeInv, StateInv, BundlePcs
    <3>2. Recorded' = Recorded \union {Event("EXPORT_FAILED")} /\ pc' = "to_failed"
      BY SMTT(60), <2>1, Logged, EventTypes
    <3> QED BY <1>17, <3>1, <3>2 DEF Fail, EndInv, Unended
  <2>2. CASE Transition("to_failed", "return")
    <3>1. /\ Recorded' = Recorded \union {StateChanged("FAILED")}
          /\ pc = "to_failed" /\ pc' = "return"
      BY <2>2, Logged, EventTypes DEF RunStates
    <3> QED BY <1>17, <3>1 DEF Fail, EndInv
  <2> QED BY <1>17, <2>1, <2>2 DEF Fail
<1>18. CASE TransitionRefused BY <1>1, <1>18, Kept DEF TransitionRefused
<1>19. CASE Return BY <1>1, <1>19, Kept DEF Return
<1> QED BY <1>5, <1>6, <1>7, <1>8, <1>9, <1>10, <1>11, <1>12, <1>13, <1>14, <1>15,
           <1>16, <1>17, <1>18, <1>19 DEF Next, Step

LEMMA OutcomeStep ==
  ASSUME TypeOK, AppendInv, StateInv, BundleInv, OutcomeInv, [Next]_vars
  PROVE  OutcomeInv'
<1> USE DEF At, audit, run, files, AppendPcs, Pcs, Transition, Target, ReturnError
<1> DEFINE Resting == {"idle", "blocked", "fail", "to_failed", "return"}
\* A step of a call that has nothing to return yet.
<1>1. ASSUME pc' \in Pcs \ Resting, outcome' = "none", pc' # "to_completed" PROVE OutcomeInv'
  BY <1>1 DEF OutcomeInv
<1>2. ASSUME pc' = "idle", outcome' = "error" PROVE OutcomeInv'
  BY <1>2 DEF OutcomeInv
<1>3. pc \notin Resting => outcome = "none" BY DEF OutcomeInv
<1>4. Recorded \subseteq Recorded' BY Monotone
<1>5. CASE UNCHANGED vars BY <1>5, Kept DEF vars, OutcomeInv
<1>6. CASE Call BY <1>1, <1>6 DEF Call
<1>7. CASE AppendReturns BY <1>7, Kept DEF AppendReturns, AppendInv, OutcomeInv
<1>8. CASE AppendFails BY <1>2, <1>8 DEF AppendFails
<1>9. CASE Request BY <1>1, <1>3, <1>9 DEF Request, Log
<1>10. CASE Evaluate
  <2>1. CASE PreflightFails BY <1>2, <2>1 DEF PreflightFails
  <2> QED BY <1>1, <1>3, <1>10, <2>1 DEF Evaluate, Preflight, LogGateResult, LogEvaluated, Log
<1>11. CASE DecideExport
  <2>1. CASE Permitted BY <1>1, <1>3, <1>11, <2>1 DEF DecideExport
  <2>2. CASE ~Permitted BY <1>11, <2>2 DEF DecideExport, OutcomeInv
  <2> QED BY <2>1, <2>2
<1>12. CASE Block
  <2>1. /\ Event("EXPORT_BLOCKED") \in Recorded' /\ pc = "blocked" /\ pc' = "to_failed"
        /\ UNCHANGED outcome
    BY <1>12, Logged, EventTypes DEF Block
  <2> QED BY SMTT(60), <2>1 DEF OutcomeInv
<1>13. CASE StartExport BY <1>1, <1>3, <1>13 DEF StartExport, Log
<1>14. CASE Build
  <2>1. CASE ReadLogFails BY <1>2, <2>1 DEF ReadLogFails
  <2>2. CASE BuildDirFails
    BY <2>2 DEF BuildDirFails, Removed, NotRemoved, OutcomeInv
  <2>3. CASE BuildZipFails BY <2>3 DEF BuildZipFails, Removed, OutcomeInv
  <2>4. CASE ReadLog \/ BuildDir \/ BuildZip \/ Generated
    BY <1>1, <1>3, <2>4 DEF ReadLog, BuildDir, BuildZip, Generated, Log
  <2> QED BY <1>14, <2>1, <2>2, <2>3, <2>4 DEF Build
<1>15. CASE Check
  <2>1. CASE Validate \/ LogVerdict BY <1>1, <1>3, <2>1 DEF Validate, LogVerdict, Log
  <2>2. CASE ValidateFails BY <2>2 DEF ValidateFails, Removed, OutcomeInv
  <2>3. CASE Discard BY <2>3 DEF Discard, Removed, OutcomeInv
  <2>4. CASE DiscardFails BY <1>2, <2>4 DEF DiscardFails
  <2> QED BY <1>15, <2>1, <2>2, <2>3, <2>4 DEF Check
<1>16. CASE Complete
  <2>1. CASE Log("complete", Completed(sha), "to_completed")
    <3>1. Completed(sha) \in Recorded' /\ pc = "complete" /\ pc' = "to_completed"
      BY <2>1, Logged, EventTypes DEF TypeOK
    <3>2. outcome' = "none" /\ UNCHANGED sha BY <1>3, <1>16, <3>1 DEF Complete, Log
    <3> QED BY SMTT(60), <3>1, <3>2 DEF OutcomeInv
  <2>2. CASE Transition("to_completed", "return") /\ outcome' = "completed"
    <3>1. Completed(sha) \in Recorded' /\ unacked' /\ pc = "to_completed" /\ pc' = "return"
      BY <1>4, <2>2 DEF Log, OutcomeInv
    <3>2. zip = Whole(sha) BY <3>1 DEF BundleInv
    <3> QED BY <1>16, <2>2, <3>1, <3>2 DEF Complete, OutcomeInv
  <2> QED BY <1>16, <2>1, <2>2 DEF Complete
<1>17. CASE Fail
  <2>1. CASE Log("fail", Event("EXPORT_FAILED"), "to_failed")
    <3>1. Event("EXPORT_FAILED") \in Recorded' /\ pc = "fail" /\ pc' = "to_failed"
      BY <2>1, Logged, EventTypes
    <3> QED BY <1>17, <3>1 DEF Fail, OutcomeInv
  <2>2. CASE Transition("to_failed", "return")
    <3>1. unacked' /\ pc = "to_failed" /\ pc' = "return" BY <2>2 DEF Log
    <3> QED BY <1>4, <1>17, <3>1 DEF Fail, OutcomeInv
  <2> QED BY <1>17, <2>1, <2>2 DEF Fail
<1>18. CASE TransitionRefused BY <1>2, <1>18 DEF TransitionRefused
<1>19. CASE Return BY <1>19, Kept DEF Return, StateInv, Pending, OutcomeInv
<1> QED BY <1>5, <1>6, <1>7, <1>8, <1>9, <1>10, <1>11, <1>12, <1>13, <1>14, <1>15,
           <1>16, <1>17, <1>18, <1>19 DEF Next, Step

----------------------------------------------------------------------------
LEMMA InitExportInv == Init => ExportInv
<1> SUFFICES ASSUME Init PROVE ExportInv
  OBVIOUS
<1>1. Len(log) = 0 /\ DOMAIN log = {} /\ Recorded = {} BY DEF Init, Recorded, Upto
<1>2. TypeOK BY InitTypes
<1>3. AppendInv /\ StateInv
  BY DEF Init, AppendInv, StateInv, BundlePcs, Pending
<1>4. FreshInv /\ GateInv /\ GatesPermit BY <1>1 DEF Init, FreshInv, GateInv, GatesPermit
<1>5. BundleInv BY DEF Init, BundleInv, BundlePcs, FirstRoundPcs, Absent, Partial
<1>6. EndInv /\ OutcomeInv BY <1>1 DEF Init, EndInv, OutcomeInv
<1>7. StateFollowsLog BY <1>1 DEF Init, StateFollowsLog, AckedStates
<1> QED BY <1>2, <1>3, <1>4, <1>5, <1>6, <1>7 DEF ExportInv

LEMMA StepExportInv ==
  ASSUME ExportInv, [Next]_vars
  PROVE  ExportInv'
<1>1. TypeOK' BY StepTypes DEF ExportInv
<1>2. AppendInv' /\ StateInv' BY <1>1, AppendStep, StateStep DEF ExportInv
<1>3. FreshInv' /\ GateInv' BY <1>1, FreshStep, GateStep DEF ExportInv
<1>4. BundleInv' BY <1>1, BundleStep DEF ExportInv
<1>5. EndInv' /\ OutcomeInv' BY EndStep, OutcomeStep DEF ExportInv
<1>6. GatesPermit' /\ StateFollowsLog'
  BY <1>1, GatesPermitStep, StateFollowsStep DEF ExportInv
<1> QED BY <1>1, <1>2, <1>3, <1>4, <1>5, <1>6 DEF ExportInv

(* What is known at each point of export_run holds throughout, whatever    *)
(* fails and however often it is called.                                   *)
THEOREM Invariant == Spec => []ExportInv
BY InitExportInv, StepExportInv, PTL DEF Spec

(* What EXPORT_COMPLETED names is what lies at the export path, whole and  *)
(* accepted by the final validation.                                       *)
THEOREM CompletedIsThere == Spec => []CompletedArchive
<1>1. ExportInv => CompletedArchive BY DEF ExportInv, EndInv, CompletedArchive, Completed
<1> QED BY <1>1, Invariant, PTL

LEMMA EvidenceThere == ExportInv => EmbeddedEvidence
<1> SUFFICES ASSUME ExportInv, zip.file = "whole" PROVE EmbeddedEvidence
  BY DEF EmbeddedEvidence
<1>1. Len(log) \in Nat BY LenProperties DEF ExportInv, TypeOK
<1>2. Evidence(zip.embeds) /\ (zip.embeds \in passed => Revalidated(zip.embeds))
  BY DEF ExportInv, BundleInv
<1> QED BY <1>1, <1>2 DEF Evidence, Revalidated, EmbeddedEvidence, Validation

(* An archive embeds the evidence that its export was allowed, and a       *)
(* finally validated one that of its first validation.                     *)
THEOREM EvidenceEmbedded == Spec => []EmbeddedEvidence
BY EvidenceThere, Invariant, PTL

(* EXPORTING is recorded only after a complete evaluation without a failed *)
(* blocker.                                                                *)
THEOREM ExportingPermitted == Spec => []GatesPermit
BY Invariant, PTL DEF ExportInv

(* The run is in the state of the last acknowledged transition.            *)
THEOREM StateRecorded == Spec => []StateFollowsLog
BY Invariant, PTL DEF ExportInv

LEMMA NothingLeft == ExportInv => FailureLeavesNothing
BY DEF ExportInv, EndInv, FailureLeavesNothing

(* A recorded failure leaves no archive and no completion.                 *)
THEOREM FailureClean == Spec => []FailureLeavesNothing
BY NothingLeft, Invariant, PTL

(* What a call returned is what the log, the state and the archive say.    *)
THEOREM OutcomeTrue == Spec => []OutcomeHolds
<1>1. ExportInv => OutcomeHolds
  BY DEF ExportInv, OutcomeInv, OutcomeHolds, At
<1> QED BY <1>1, Invariant, PTL

----------------------------------------------------------------------------
(***************************************************************************)
(* A run ends once. EndInv says where a call can be once a completion or a *)
(* failure is recorded, BlockedInv says it of a block. At these points     *)
(* export_run records its way to the end, and a further call its request.  *)
(***************************************************************************)
BlockedInv ==
  Event("EXPORT_BLOCKED") \in Recorded =>
    /\ pc \in EntryPcs \union {"to_failed", "return"}
    /\ pc = "to_failed" => outcome = "blocked"
    /\ state \in {"EVALUATING", "FAILED"}

EndingPcs == EntryPcs \union {"to_completed", "to_failed", "return"}

\* What a step records, and where.
LEMMA RecordedAt ==
  ASSUME TypeOK, [Next]_vars, log' # log
  PROVE  \/ pc = "request" /\ log' = Append(log, Event("EXPORT_REQUESTED"))
              /\ pc' = "evaluate" /\ UNCHANGED state
         \/ \E p \in DOMAIN Target : pc = p /\ ValidTransition(state, Target[p])
              /\ log' = Append(log, StateChanged(Target[p]))
              /\ (p = "to_failed" => pc' = "return") /\ UNCHANGED state
         \/ pc = "blocked" /\ log' = Append(log, Event("EXPORT_BLOCKED"))
              /\ pc' = "to_failed" /\ UNCHANGED <<outcome, state>>
         \/ pc = "fail" /\ log' = Append(log, Event("EXPORT_FAILED"))
         \/ pc = "complete" /\ log' = Append(log, Completed(sha))
         \/ pc \notin EndingPcs /\ \E e \in Events : e.type \notin DOMAIN EndState
              /\ log' = Append(log, e)
<1> USE DEF At, audit, run, files, Log, Transition, Target, EndingPcs, EntryPcs, EndState
<1> USE DEF Event, StateChanged, GateResult, Validation, Completed
<1>1. CASE Request BY <1>1, EventTypes DEF Request
<1>2. CASE Evaluate
  <2>1. CASE LogGateResult
    <3>1. PICK g \in todo : Log("gate_results", GateResult(g, results[g]), "gate_results")
      BY <2>1 DEF LogGateResult
    <3>2. GateResult(g, results[g]) \in Events BY EventTypes DEF TypeOK
    <3> QED BY <3>1, <3>2
  <2>2. CASE LogEvaluated BY <2>2, EventTypes DEF LogEvaluated
  <2> QED BY <1>2, <2>1, <2>2 DEF Evaluate, Preflight, PreflightFails
<1>3. CASE Block BY <1>3 DEF Block
<1>4. CASE StartExport BY <1>4, EventTypes DEF StartExport
<1>5. CASE Build
  <2>1. CASE Generated BY <2>1, EventTypes DEF Generated
  <2> QED BY <1>5, <2>1 DEF Build, ReadLog, ReadLogFails, BuildDir, BuildDirFails,
             BuildZip, BuildZipFails
<1>6. CASE Check
  <2>1. CASE LogVerdict BY <2>1, EventTypes DEF LogVerdict, TypeOK
  <2> QED BY <1>6, <2>1 DEF Check, Validate, ValidateFails, Discard, DiscardFails
<1>7. CASE Complete BY <1>7 DEF Complete
<1>8. CASE Fail BY <1>8 DEF Fail
<1> QED
  BY <1>1, <1>2, <1>3, <1>4, <1>5, <1>6, <1>7, <1>8
  DEF Next, Step, Call, AppendReturns, AppendFails, DecideExport, TransitionRefused,
      Return, vars

LEMMA BlockedStep ==
  ASSUME TypeOK, AppendInv, StateInv, OutcomeInv, BlockedInv, [Next]_vars
  PROVE  BlockedInv'
<1> USE DEF At, audit, run, files, EntryPcs
<1>1. CASE log' = log /\ Event("EXPORT_BLOCKED") \in Recorded
  <2>1. Recorded' = Recorded BY <1>1, Kept
  <2>2. /\ pc \in EntryPcs \union {"to_failed", "return"}
        /\ pc = "to_failed" => outcome = "blocked"
        /\ state \in {"EVALUATING", "FAILED"}
    BY <1>1 DEF BlockedInv
  <2>3. CASE AppendReturns
    <3>1. UNCHANGED <<pc, outcome>> BY <2>3 DEF AppendReturns
    <3>2. state' = state \/ (pc = "return" /\ state' = "FAILED")
      BY <2>2, <2>3 DEF AppendReturns, AppendInv, StateInv, Pending, StateChanged, AfterTransition
    <3> QED BY <2>1, <2>2, <3>1, <3>2 DEF BlockedInv
  <2>4. CASE \/ UNCHANGED <<pc, outcome, state>>
             \/ pc' \in {"idle", "request"} /\ UNCHANGED state
    BY <2>1, <2>2, <2>4 DEF BlockedInv
  <2>5. \/ AppendReturns \/ UNCHANGED <<pc, outcome, state>>
        \/ pc' \in {"idle", "request"} /\ UNCHANGED state
    <3>1. \A e : log # Append(log, e) \/ ~TypeOK
      <4> SUFFICES ASSUME NEW e, log = Append(log, e) PROVE FALSE
        OBVIOUS
      <4>1. Len(log) \in Nat /\ Len(Append(log, e)) = Len(log) + 1 BY LenProperties DEF TypeOK
      <4> QED BY <4>1
    <3>2. \A p, e, next : ~Log(p, e, next) BY <1>1, <3>1 DEF Log
    <3> USE DEF Transition, ReturnError
    <3>3. CASE Evaluate
      BY <2>2, <3>2, <3>3 DEF Evaluate, Preflight, PreflightFails, LogGateResult, LogEvaluated
    <3>4. CASE Build
      BY <2>2, <3>2, <3>4
      DEF Build, ReadLog, ReadLogFails, BuildDir, BuildDirFails, BuildZip, BuildZipFails, Generated
    <3>5. CASE Check
      BY <2>2, <3>2, <3>5 DEF Check, Validate, ValidateFails, LogVerdict, Discard, DiscardFails
    <3>6. CASE Request \/ Block \/ StartExport \/ Complete \/ Fail
      BY <3>2, <3>6 DEF Request, Block, StartExport, Complete, Fail
    <3> QED
      BY <2>2, <3>3, <3>4, <3>5, <3>6
      DEF Next, Step, vars, Call, AppendFails, DecideExport, TransitionRefused, Return
  <2> QED BY <2>3, <2>4, <2>5
<1>2. CASE log' = log /\ Event("EXPORT_BLOCKED") \notin Recorded
  BY <1>2, Kept DEF BlockedInv
<1>3. CASE log' # log
  <2>1. ASSUME NEW e \in Events, log' = Append(log, e), e # Event("EXPORT_BLOCKED"),
               Event("EXPORT_BLOCKED") \in Recorded => BlockedInv'
        PROVE  BlockedInv'
    <3>1. Recorded' = Recorded \union {e} BY <2>1, Grown DEF TypeOK
    <3> QED BY <2>1, <3>1 DEF BlockedInv
  <2> USE DEF Event, StateChanged, Completed, EndState, EndingPcs
  <2>2. CASE pc = "request" /\ log' = Append(log, Event("EXPORT_REQUESTED"))
               /\ pc' = "evaluate" /\ UNCHANGED state
    <3>1. Event("EXPORT_BLOCKED") \in Recorded => BlockedInv' BY <2>2 DEF BlockedInv
    <3> QED BY <2>1, <2>2, <3>1, EventTypes
  <2>3. ASSUME NEW p \in DOMAIN Target, pc = p, ValidTransition(state, Target[p]),
               log' = Append(log, StateChanged(Target[p])),
               p = "to_failed" => pc' = "return", UNCHANGED state
        PROVE  BlockedInv'
    <3>1. Event("EXPORT_BLOCKED") \in Recorded => BlockedInv'
      BY <2>3 DEF BlockedInv, Target, ValidTransition
    <3>2. StateChanged(Target[p]) \in Events BY EventTypes DEF Target, RunStates
    <3> QED BY <2>1, <2>3, <3>1, <3>2
  <2>4. CASE pc = "blocked" /\ pc' = "to_failed" /\ UNCHANGED <<outcome, state>>
    BY <2>4 DEF BlockedInv, OutcomeInv, StateInv
  <2>5. CASE pc = "fail" /\ log' = Append(log, Event("EXPORT_FAILED"))
    <3>1. Event("EXPORT_BLOCKED") \notin Recorded BY <2>5 DEF BlockedInv
    <3> QED BY <2>1, <2>5, <3>1, EventTypes
  <2>6. CASE pc = "complete" /\ log' = Append(log, Completed(sha))
    <3>1. Event("EXPORT_BLOCKED") \notin Recorded BY <2>6 DEF BlockedInv
    <3>2. Completed(sha) \in Events BY EventTypes DEF TypeOK
    <3> QED BY <2>1, <2>6, <3>1, <3>2
  <2>7. ASSUME pc \notin EndingPcs, NEW e \in Events, e.type \notin DOMAIN EndState,
               log' = Append(log, e)
        PROVE  BlockedInv'
    <3>1. Event("EXPORT_BLOCKED") \notin Recorded BY <2>7 DEF BlockedInv
    <3> QED BY <2>1, <2>7, <3>1
  <2> QED BY <1>3, <2>2, <2>3, <2>4, <2>5, <2>6, <2>7, RecordedAt
<1> QED BY <1>1, <1>2, <1>3

\* The record of an end, and where a call can be once it is there.
LEMMA EndingAt ==
  ASSUME TypeOK, EndInv, BlockedInv, NEW n \in DOMAIN log, log[n].type \in DOMAIN EndState
  PROVE  /\ pc \in EndingPcs
         /\ state \in {"EVALUATING", "EXPORTING", "COMPLETED", "FAILED"}
         /\ pc = "to_completed" => EndState[log[n].type] = "COMPLETED"
         /\ pc = "to_failed" => EndState[log[n].type] = "FAILED"
<1> USE DEF EndState, EndingPcs, EntryPcs
<1>1. log[n] \in Events BY DEF TypeOK
<1>2. log[n] \in Recorded
  <2>1. n \in 1..Len(log) BY LenProperties DEF TypeOK
  <2> QED BY <2>1 DEF Recorded, Upto
<1>3. CASE log[n].type = "EXPORT_COMPLETED"
  BY <1>2, <1>3 DEF EndInv
<1>4. CASE log[n].type = "EXPORT_FAILED"
  <2>1. log[n] = Event("EXPORT_FAILED")
    BY <1>1, <1>4 DEF Events, Event, StateChanged, GateResult, Validation, Completed
  <2> QED BY <1>2, <1>4, <2>1 DEF EndInv
<1>5. CASE log[n].type = "EXPORT_BLOCKED"
  <2>1. log[n] = Event("EXPORT_BLOCKED")
    BY <1>1, <1>5 DEF Events, Event, StateChanged, GateResult, Validation, Completed
  <2> QED BY <1>2, <1>5, <2>1 DEF BlockedInv
<1> QED BY <1>3, <1>4, <1>5

LEMMA EndsOnceStep ==
  ASSUME TypeOK, EndInv, BlockedInv, RunEndsOnce, [Next]_vars
  PROVE  RunEndsOnce'
<1>0. Len(log) \in Nat /\ DOMAIN log = 1..Len(log) BY LenProperties DEF TypeOK
<1>1. CASE log' = log BY <1>1 DEF RunEndsOnce
<1>2. CASE log' # log
  \* Behind the record of an end, only these are appended.
  <2>1. ASSUME NEW e, log' = Append(log, e), e \in Events,
               \A n \in DOMAIN log : log[n].type \in DOMAIN EndState =>
                 e \in {Event("EXPORT_REQUESTED"), StateChanged(EndState[log[n].type])}
        PROVE  RunEndsOnce'
    <3>1. /\ log' \in Seq(Events) /\ Len(log') = Len(log) + 1 /\ log'[Len(log')] = e
          /\ \A n \in 1..Len(log) : log'[n] = log[n]
      BY <2>1, Grown DEF TypeOK
    <3>2. DOMAIN log' = 1..(Len(log) + 1) BY <3>1, LenProperties
    <3> SUFFICES ASSUME NEW n \in 1..(Len(log) + 1), NEW m \in 1..(Len(log) + 1), n < m,
                        log'[n].type \in DOMAIN EndState
                 PROVE  log'[m] \in {Event("EXPORT_REQUESTED"),
                                     StateChanged(EndState[log'[n].type])}
      BY <3>2 DEF RunEndsOnce
    <3>3. n \in DOMAIN log /\ log'[n] = log[n] BY <1>0, <3>1
    <3>4. CASE m = Len(log) + 1 BY <2>1, <3>1, <3>3, <3>4
    <3>5. CASE m # Len(log) + 1
      <4>1. m \in DOMAIN log /\ log'[m] = log[m] BY <1>0, <3>1, <3>5
      <4> QED BY <3>3, <4>1 DEF RunEndsOnce
    <3> QED BY <3>4, <3>5
  <2>2. CASE pc = "request" /\ log' = Append(log, Event("EXPORT_REQUESTED"))
    BY <2>1, <2>2, EventTypes
  <2>3. ASSUME NEW p \in DOMAIN Target, pc = p, ValidTransition(state, Target[p]),
               log' = Append(log, StateChanged(Target[p]))
        PROVE  RunEndsOnce'
    <3>1. StateChanged(Target[p]) \in Events BY EventTypes DEF Target, RunStates
    <3>2. ASSUME NEW n \in DOMAIN log, log[n].type \in DOMAIN EndState
          PROVE  Target[p] = EndState[log[n].type]
      BY <2>3, <3>2, EndingAt DEF Target, ValidTransition, EndingPcs, EntryPcs
    <3> QED BY <2>1, <2>3, <3>1, <3>2
  <2>4. ASSUME pc \notin EndingPcs, NEW e \in Events, log' = Append(log, e)
        PROVE  RunEndsOnce'
    BY <2>1, <2>4, EndingAt
  <2>5. CASE pc \in {"blocked", "fail", "complete"}
    <3>1. pc \notin EndingPcs BY <2>5 DEF EndingPcs, EntryPcs
    <3>2. \E e \in Events : log' = Append(log, e)
      BY <1>2, <2>5, RecordedAt, EventTypes DEF EndingPcs, EntryPcs, Target, TypeOK
    <3> QED BY <2>4, <3>1, <3>2
  <2> QED BY <1>2, <2>2, <2>3, <2>4, <2>5, RecordedAt
<1> QED BY <1>1, <1>2

(* After the record of an end only the transition to its state and refused *)
(* requests are recorded, whichever append fails and however often         *)
(* export_run is called.                                                   *)
THEOREM EndsOnce == Spec => []RunEndsOnce
<1>1. Init => BlockedInv /\ RunEndsOnce
  <2>1. Init => Len(log) = 0 /\ DOMAIN log = {} /\ Recorded = {} BY DEF Init, Recorded, Upto
  <2> QED BY <2>1 DEF BlockedInv, RunEndsOnce
<1>2. ExportInv /\ BlockedInv /\ RunEndsOnce /\ [Next]_vars => (BlockedInv /\ RunEndsOnce)'
  BY BlockedStep, EndsOnceStep DEF ExportInv
<1> QED BY <1>1, <1>2, Invariant, PTL DEF Spec
=============================================================================
