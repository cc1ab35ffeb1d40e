---------------------------- MODULE VerdictProofs ----------------------------
(***************************************************************************)
(* The two judges of a run agree, for every snapshot and every validated   *)
(* configuration.                                                          *)
(*                                                                         *)
(* Two facts carry the argument.  Every gate of the report is also a gate  *)
(* of the engine (StricterEngine): the loss gates are the same although    *)
(* they are written differently, and the p99 gate is, because a validated  *)
(* threshold is positive.  And both warn about memory in the same cases    *)
(* (EngineCases), because a validated growth factor is at least 1.         *)
(***************************************************************************)
EXTENDS Verdict, TLAPS

Growth == memory.baseline > 0 /\ Exceeds(memory.peak, memory.baseline, thr.memoryGrowth)

Inputs ==
  /\ worker \in AllWorkerNames /\ snap \in Snapshots /\ thr \in Thresholds
  /\ memory \in Memory /\ duration \in Durations

(* Multiplication by a nonnegative number is monotonic.                    *)
LEMMA Monotonic ==
  ASSUME NEW a \in Nat, NEW b \in Nat, NEW c \in Nat, a <= b
  PROVE  a * c <= b * c
OBVIOUS

(* The peak that exceeds a validated growth factor exceeds the baseline.   *)
LEMMA GrowthMeansMore ==
  ASSUME Inputs, Growth
  PROVE  memory.peak > memory.baseline
<1>1. memory.baseline \in Nat /\ memory.peak \in Nat
  BY MemoryAssumption DEF Inputs
<1>2. thr.memoryGrowth \in Nat /\ 1000 <= thr.memoryGrowth
  BY ThresholdsAssumption DEF Inputs, Validated
<1>3. 1000 * memory.baseline <= thr.memoryGrowth * memory.baseline
  BY <1>1, <1>2, Monotonic
<1>4. memory.peak * 1000 > thr.memoryGrowth * memory.baseline
  BY DEF Growth, Exceeds
<1>5. thr.memoryGrowth * memory.baseline \in Nat
  BY <1>1, <1>2
<1> QED
  BY <1>1, <1>3, <1>4, <1>5

(* GenerateVerdict fails no worker that computeVerdict passes.             *)
LEMMA StricterEngine ==
  ASSUME Inputs, ReportFails
  PROVE  EngineFails
<1>1. CASE /\ snap.sent > 0 /\ SteadyStream
           /\ Exceeds(snap.lost, snap.sent, lossGateThreshold(thr.loss))
  <2>a. snap \in Snapshot /\ Validated(thr)
    BY SnapshotsAssumption, ThresholdsAssumption DEF Inputs
  <2>b. thr.loss \in 0 .. 1000
    BY <2>a DEF Validated
  <2>1. snap.sent \in Nat /\ snap.lost \in Nat /\ thr.loss \in Nat
    BY <2>a, <2>b DEF Snapshot
  <2>2. CASE thr.loss < boundaryLossPct
    <3>1. thr.loss * snap.sent <= 5 * snap.sent
      BY <2>1, <2>2, Monotonic DEF boundaryLossPct
    <3>2. snap.lost * 1000 > 5 * snap.sent
      BY <1>1, <2>2 DEF Exceeds, lossGateThreshold, boundaryLossPct
    <3>3. thr.loss * snap.sent \in Nat /\ 5 * snap.sent \in Nat /\ snap.lost * 1000 \in Nat
      BY <2>1
    <3> QED
      BY <1>1, <3>1, <3>2, <3>3 DEF EngineFails, LossFails, Exceeds, boundaryLossPct
  <2>3. CASE ~ (thr.loss < boundaryLossPct)
    <3>1. 5 * snap.sent <= thr.loss * snap.sent
      BY <2>1, <2>3, Monotonic DEF boundaryLossPct
    <3>2. snap.lost * 1000 > thr.loss * snap.sent
      BY <1>1, <2>3 DEF Exceeds, lossGateThreshold
    <3>3. thr.loss * snap.sent \in Nat /\ 5 * snap.sent \in Nat /\ snap.lost * 1000 \in Nat
      BY <2>1
    <3> QED
      BY <1>1, <3>1, <3>2, <3>3 DEF EngineFails, LossFails, Exceeds, boundaryLossPct
  <2> QED
    BY <2>2, <2>3
<1>2. CASE snap.latency["p99"] > 0 /\ snap.latency["p99"] > thr.latency["p99"]
  <2>1. thr.latency["p99"] > 0
    BY ThresholdsAssumption DEF Inputs, Validated, Percentiles
  <2> QED
    BY <1>2, <2>1 DEF EngineFails, checkLatency, Percentiles
<1> QED
  BY <1>1, <1>2 DEF ReportFails, EngineFails

-----------------------------------------------------------------------------
(* computeVerdict and GenerateVerdict, case by case: both warn about the   *)
(* memory in the same cases.                                               *)
LEMMA EngineCases ==
  ASSUME Inputs
  PROVE  computeVerdict = IF EngineFails THEN Failed ELSE IF Growth THEN Warned ELSE Passed
<1>1. MemoryWarning(Failed) = Failed
  BY DEF MemoryWarning, Failed
<1>2. MemoryWarning(Passed) = IF Growth THEN Warned ELSE Passed
  <2>1. Passed.passed
    BY DEF Passed
  <2>2. Growth <=> (/\ memory.baseline > 0 /\ memory.peak > memory.baseline
                    /\ Exceeds(memory.peak, memory.baseline, thr.memoryGrowth))
    BY GrowthMeansMore DEF Growth
  <2> QED
    BY <2>1, <2>2 DEF MemoryWarning
<1> QED
  BY <1>1, <1>2 DEF computeVerdict

(* The same for the report's verdict, without the engine's extra gates.    *)
LEMMA ReportCases ==
  GenerateVerdict = IF ReportFails THEN Failed ELSE IF Growth THEN Warned ELSE Passed
BY DEF GenerateVerdict, Growth

-----------------------------------------------------------------------------
(* The failures are functions of the inputs, which no step changes, and    *)
(* the verdicts of the inputs and the memory.                              *)
LEMMA SameInputsSameVerdicts ==
  ASSUME UNCHANGED inputs
  PROVE  /\ EngineFails' = EngineFails /\ ReportFails' = ReportFails
         /\ UNCHANGED memory =>
              computeVerdict' = computeVerdict /\ GenerateVerdict' = GenerateVerdict
<1>1. worker' = worker /\ snap' = snap /\ duration' = duration /\ thr' = thr
  BY DEF inputs
<1>2. (/\ CorruptionFails' = CorruptionFails /\ LossFails' = LossFails
       /\ DuplicationFails' = DuplicationFails /\ ErrorRateFails' = ErrorRateFails
       /\ FidelityFails' = FidelityFails /\ SteadyStream' = SteadyStream)
  BY <1>1 DEF CorruptionFails, LossFails, DuplicationFails, ErrorRateFails, FidelityFails,
              SteadyStream, Exceeds
<1>3. EngineFails' = EngineFails
  BY <1>1, <1>2 DEF EngineFails, checkLatency, ThroughputFails, DowntimeFails, Exceeds
<1>4. ReportFails' = ReportFails
  BY <1>1, <1>2 DEF ReportFails, Exceeds, lossGateThreshold
<1>5. UNCHANGED memory => computeVerdict' = computeVerdict
  BY <1>1, <1>3 DEF computeVerdict, MemoryWarning, Exceeds
<1>6. UNCHANGED memory => GenerateVerdict' = GenerateVerdict
  BY <1>1, <1>4 DEF GenerateVerdict, Exceeds
<1> QED
  BY <1>3, <1>4, <1>5, <1>6

(* Both verdicts, and the reconciled one, are one of the three.            *)
LEMMA VerdictTypes ==
  ASSUME Inputs
  PROVE  /\ computeVerdict \in Verdicts
         /\ GenerateVerdict \in Verdicts
         /\ Reconcile(GenerateVerdict) \in Verdicts
<1>1. computeVerdict \in Verdicts /\ GenerateVerdict \in Verdicts
  BY EngineCases, ReportCases DEF Verdicts
<1>2. Reconcile(GenerateVerdict) \in Verdicts
  BY <1>1 DEF Reconcile, Verdicts
<1> QED
  BY <1>1, <1>2

(* A reconciled report fails only a run that fails the engine's gates.     *)
LEMMA ReconciledFailure ==
  ASSUME Inputs, verdict \in {None, computeVerdict}, Reconcile(GenerateVerdict) = Failed
  PROVE  EngineFails
<1>1. CASE verdict # None /\ ~ verdict.passed
  <2>1. computeVerdict \notin {Passed, Warned}
    BY <1>1 DEF Passed, Warned
  <2> QED
    BY <2>1, EngineCases
<1>2. CASE ~ (verdict # None /\ ~ verdict.passed)
  <2>1. GenerateVerdict = Failed
    BY <1>2 DEF Reconcile, Warned, Failed
  <2>2. ReportFails
    BY <2>1, ReportCases DEF Failed, Passed, Warned
  <2> QED
    BY <2>2, StricterEngine
<1> QED
  BY <1>1, <1>2

(* A reconciled report passes only a run that passes the report's gates.   *)
LEMMA ReconciledPass ==
  ASSUME Reconcile(GenerateVerdict) \in {Passed, Warned}
  PROVE  ~ ReportFails
<1> SUFFICES ASSUME ReportFails PROVE FALSE
  OBVIOUS
<1>1. GenerateVerdict = Failed
  BY ReportCases
<1>2. Reconcile(GenerateVerdict) = Failed
  BY <1>1 DEF Reconcile, Failed
<1> QED
  BY <1>2 DEF Failed, Passed, Warned

(* Every reachable state is judged by the functions of the module: the     *)
(* inductive invariant holds.                                              *)
THEOREM VerdictInvariant == Spec => []Inv
<1>1. Init => Inv
  <2> SUFFICES ASSUME Init PROVE Inv
    OBVIOUS
  <2>1. None \notin {Passed, Warned, Failed}
    BY DEF None, Passed, Warned, Failed
  <2>2. TypeOK
    <3>1. passed \in BOOLEAN /\ gaveUp \in BOOLEAN
      BY Zenon DEF Init
    <3>2. verdict = None /\ report = None /\ printed = None
      BY DEF Init
    <3>3. {verdict, report, printed} \subseteq Verdicts \cup {None}
      BY <3>2
    <3> QED
      BY <3>1, <3>3 DEF Init, TypeOK
  <2> QED
    BY <2>1, <2>2 DEF Init, Inv
<1>2. Inv /\ [Next]_vars => Inv'
  <2> SUFFICES ASSUME Inv, [Next]_vars PROVE Inv'
    OBVIOUS
  <2>0. Inputs /\ UNCHANGED inputs
    BY DEF Inv, Inputs, Next, CaptureWorkerSnapshots, StopConsumers, ComputeVerdict,
           HandleRunReport, GracefulShutdown, PrintReport, Exit, Finished, vars
  <2>1. /\ EngineFails' = EngineFails /\ ReportFails' = ReportFails
        /\ UNCHANGED memory =>
             computeVerdict' = computeVerdict /\ GenerateVerdict' = GenerateVerdict
    BY <2>0, SameInputsSameVerdicts
  <2>2. /\ computeVerdict \in Verdicts /\ GenerateVerdict \in Verdicts
        /\ RunReport \in Verdicts \cup {None}
    BY <2>0, VerdictTypes DEF RunReport
  <2>3. /\ worker' \in AllWorkerNames /\ snap' \in Snapshots /\ thr' \in Thresholds
        /\ duration' \in Durations
    BY <2>0 DEF Inputs, inputs
  <2>4. UNCHANGED <<memory, verdict>> => Reconcile(GenerateVerdict)' = Reconcile(GenerateVerdict)
    BY <2>1 DEF Reconcile
  <2>5. /\ RunReport = Failed => EngineFails
        /\ RunReport \in {Passed, Warned} => ~ ReportFails
    <3>1. verdict \in {None, computeVerdict} /\ None \notin {Passed, Warned, Failed}
      BY DEF Inv, None, Passed, Warned, Failed
    <3> QED
      BY <2>0, <3>1, ReconciledFailure, ReconciledPass DEF RunReport
  <2>6. CASE CaptureWorkerSnapshots
    BY <2>1, <2>3, <2>6 DEF Inv, TypeOK, CaptureWorkerSnapshots, mainVars, HasWarnings, Alive
  <2>7. CASE StopConsumers
    BY <2>1, <2>3, <2>7 DEF Inv, TypeOK, StopConsumers, mainVars, HasWarnings, Alive
  <2>8. CASE ComputeVerdict
    BY <2>1, <2>2, <2>3, <2>8 DEF Inv, TypeOK, ComputeVerdict, mainVars, HasWarnings, Alive
  <2>9. CASE HandleRunReport
    BY <2>1, <2>2, <2>3, <2>4, <2>5, <2>9
       DEF Inv, TypeOK, HandleRunReport, runVars, mainVars, HasWarnings
  <2>10. CASE GracefulShutdown
    <3>1. passed' \in BOOLEAN /\ gaveUp' \in BOOLEAN /\ gaveUp' = (verdict = None)
      BY <2>10, Zenon DEF GracefulShutdown
    <3>2. IF gaveUp' THEN passed' = FALSE ELSE pc = "judged" /\ passed' = verdict.passed
      <4>1. verdict = None => passed' = FALSE
        BY <2>10 DEF GracefulShutdown
      <4>2. verdict # None => pc = "judged" /\ verdict.passed \in BOOLEAN
        <5>1. verdict # None => pc = "judged" /\ verdict \in Verdicts
          BY DEF Inv, TypeOK
        <5>2. /\ Passed.passed \in BOOLEAN /\ Warned.passed \in BOOLEAN
              /\ Failed.passed \in BOOLEAN
          BY Zenon DEF Passed, Warned, Failed
        <5> QED
          BY <5>1, <5>2, Zenon DEF Verdicts
      <4>3. verdict # None => passed' = verdict.passed
        BY <2>10, <4>2 DEF GracefulShutdown
      <4> QED
        BY <3>1, <4>1, <4>2, <4>3
    <3>3. UNCHANGED <<inputs, pc, memory, verdict, report, printed, exitCode>> /\ main' = "shutDown"
      BY <2>10 DEF GracefulShutdown, runVars
    <3> QED
      BY <2>1, <2>3, <3>1, <3>2, <3>3 DEF Inv, TypeOK
  <2>11. CASE PrintReport
    <3>1. ~ gaveUp => RunReport = Reconcile(GenerateVerdict)
      BY <2>11 DEF Inv, PrintReport, RunReport
    <3> QED
      BY <2>1, <2>2, <2>3, <2>4, <2>5, <2>11, <3>1 DEF Inv, TypeOK, PrintReport, runVars
  <2>12. CASE Exit
    BY <2>1, <2>3, <2>4, <2>12 DEF Inv, TypeOK, Exit, runVars, HasWarnings
  <2>13. CASE UNCHANGED vars
    BY <2>1, <2>3, <2>4, <2>13 DEF Inv, TypeOK, vars, runVars, mainVars, HasWarnings
  <2> QED
    BY <2>6, <2>7, <2>8, <2>9, <2>10, <2>11, <2>12, <2>13 DEF Next, Finished
<1> QED
  BY <1>1, <1>2, PTL DEF Spec

(* main exits with the code that says what the report it leaves says, and  *)
(* with that of a failed run when it gave up on the verdict.               *)
THEOREM VerdictsAgree == Spec => []ReportMatchesExitCode
<1>1. Inv => ReportMatchesExitCode
  <2> SUFFICES ASSUME Inv, main = "exited" PROVE ReportMatchesExitCode
    BY DEF ReportMatchesExitCode
  <2>0. CASE gaveUp
    BY <2>0 DEF Inv, ReportMatchesExitCode
  <2>1. CASE ~ gaveUp
    <3>1. /\ Inputs /\ verdict = computeVerdict /\ passed = verdict.passed
          /\ printed = Reconcile(GenerateVerdict)
          /\ exitCode = IF ~ passed THEN 1 ELSE IF HasWarnings THEN 2 ELSE 0
      BY <2>1 DEF Inv, Inputs
    <3>2. CASE EngineFails
      <4>1. verdict = Failed
        BY <3>1, <3>2, EngineCases
      <4>2. printed = Failed /\ exitCode = 1
        BY <3>1, <4>1 DEF Reconcile, HasWarnings, Failed, None
      <4> QED
        BY <2>1, <4>2 DEF ReportMatchesExitCode, Failed
    <3>3. CASE ~ EngineFails /\ Growth
      <4>1. verdict = Warned /\ GenerateVerdict = Warned
        BY <3>1, <3>3, EngineCases, ReportCases, StricterEngine
      <4>2. printed = Warned /\ exitCode = 2
        BY <3>1, <4>1 DEF Reconcile, HasWarnings, Warned
      <4> QED
        BY <2>1, <4>2 DEF ReportMatchesExitCode, Warned
    <3>4. CASE ~ EngineFails /\ ~ Growth
      <4>1. verdict = Passed /\ GenerateVerdict = Passed
        BY <3>1, <3>4, EngineCases, ReportCases, StricterEngine
      <4>2. printed = Passed /\ exitCode = 0
        BY <3>1, <4>1 DEF Reconcile, HasWarnings, Passed
      <4> QED
        BY <2>1, <4>2 DEF ReportMatchesExitCode, Passed
    <3> QED
      BY <3>2, <3>3, <3>4
  <2> QED
    BY <2>0, <2>1
<1> QED
  BY <1>1, VerdictInvariant, PTL

(* A report that says FAILED, however early it was read, is confirmed by   *)
(* the engine's verdict.                                                   *)
THEOREM EarlyFailureStands == Spec => []ReportNeverStricter
<1>1. Inv => ReportNeverStricter
  <2> SUFFICES ASSUME Inv, pc = "judged", NEW r \in {report, printed}, r.result = "FAILED"
               PROVE  ~ verdict.passed
    BY DEF ReportNeverStricter
  <2>1. Inputs /\ verdict = computeVerdict
    BY DEF Inv, Inputs
  <2>2. r = Failed
    BY DEF Inv, TypeOK, Verdicts, None, Passed, Warned
  <2>3. EngineFails
    BY <2>2 DEF Inv
  <2>4. verdict = Failed
    BY <2>1, <2>3, EngineCases
  <2> QED
    BY <2>4 DEF Failed
<1> QED
  BY <1>1, VerdictInvariant, PTL

(* A run that the engine fails and the report's gates pass failed a gate   *)
(* that only the engine has.                                               *)
LEMMA TrimmedGates ==
  ASSUME Inputs, EngineFails, ~ ReportFails
  PROVE  \/ \E p \in Percentiles \ {"p99"} : checkLatency(p)
         \/ ThroughputFails \/ DowntimeFails
<1>1. ~ CorruptionFails /\ ~ DuplicationFails /\ ~ ErrorRateFails /\ ~ FidelityFails
  BY DEF ReportFails
<1>2. ~ LossFails
  BY DEF ReportFails, LossFails, lossGateThreshold
<1>3. ~ checkLatency("p99")
  BY DEF ReportFails, checkLatency
<1> QED
  BY <1>1, <1>2, <1>3 DEF EngineFails

(* A report read early is never revised for the better, and for the worse  *)
(* only by the gates the report's verdict trims.                           *)
THEOREM EarlyReportRevised == Spec => []EarlyReportTrimsOnly
<1>1. Inv => (pc = "judged" /\ ~ verdict.passed /\ (\E r \in {report, printed} : r.passed) =>
                \/ \E p \in Percentiles \ {"p99"} : checkLatency(p)
                \/ ThroughputFails
                \/ DowntimeFails)
  <2> SUFFICES ASSUME Inv, pc = "judged", ~ verdict.passed,
                      NEW r \in {report, printed}, r.passed
               PROVE  \/ \E p \in Percentiles \ {"p99"} : checkLatency(p)
                      \/ ThroughputFails \/ DowntimeFails
    OBVIOUS
  <2>1. Inputs /\ verdict = computeVerdict
    BY DEF Inv, Inputs
  <2>2. r \in {Passed, Warned}
    BY DEF Inv, TypeOK, Verdicts, None, Failed
  <2>3. EngineFails
    BY <2>1, EngineCases DEF Passed, Warned
  <2> QED
    BY <2>1, <2>2, <2>3, TrimmedGates DEF Inv
<1> QED
  BY <1>1, EarlyFailureStands, VerdictInvariant, PTL DEF EarlyReportTrimsOnly
=============================================================================
