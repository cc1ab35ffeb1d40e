------------------------------- MODULE Verdict -------------------------------
(***************************************************************************)
(* How a run is judged, twice: by computeVerdict (burnin/engine/verdict.go),*)
(* which decides the exit code, and by GenerateVerdict                     *)
(* (burnin/report/report.go), whose result RunReport (burnin/main.go)      *)
(* reconciles with the first one and publishes.                            *)
(*                                                                         *)
(* Percentages are compared as fractions, in per mille; both judges        *)
(* compute the same floating-point expression, so rounding cannot tell     *)
(* them apart.  A worker's snapshot has one fidelity counter: the one its  *)
(* own gate looks at.  Both judges fail a run when one worker fails, so    *)
(* the snapshots of one worker at a time show how they differ.             *)
(*                                                                         *)
(* main does not always wait for the verdict: GracefulShutdown returns at  *)
(* once while the run is stopping, and after 120 s in any case.  The exit  *)
(* code is then that of a failed run, and the run loop goes on while main  *)
(* prints its report.                                                      *)
(***************************************************************************)
EXTENDS Integers

CONSTANTS
  Snapshots,   \* what captureWorkerSnapshots may sum up for a worker
  Memory,      \* pairs of baseline and peak RSS
  Rate,        \* the worker's configured rate
  Durations,   \* measured durations, in seconds; 0: the producers never ran
  Thresholds   \* cfg.Thresholds

Percentiles == {"p50", "p95", "p99", "p999"}

AdminWorker == "admin_topic_churn"

(* The workers with a fidelity gate, and all of them.                      *)
FidelityWorkers ==
  {"keyed_ordering", "consumer_group", "transactions_eos", "offset_commit_lag", AdminWorker}
AllWorkerNames == FidelityWorkers \cup {"produce_round_trip"}

(* What config.Validate lets through.                                      *)
Validated(t) ==
  /\ {t.loss, t.duplication, t.errorRate, t.downtime} \subseteq 0 .. 1000
  /\ \A p \in Percentiles : t.latency[p] \in Nat \ {0}
  /\ t.throughput \in 1 .. 1000
  /\ t.memoryGrowth \in Nat /\ t.memoryGrowth >= 1000
  /\ \A w \in FidelityWorkers : t.fidelity[w] \in Nat
  /\ t.fidelity[AdminWorker] = 0

Snapshot ==
  [ sent : Nat, received : Nat, lost : Nat, duplicated : Nat, errors : Nat, corrupted : Nat,
    latency : [Percentiles -> Nat], downtime : Nat, fidelity : Nat ]

ASSUME SnapshotsAssumption == Snapshots \subseteq Snapshot
ASSUME MemoryAssumption == Memory \subseteq [baseline : Nat, peak : Nat]
ASSUME DurationsAssumption == Durations \subseteq Nat /\ Rate \in Nat
ASSUME ThresholdsAssumption == \A t \in Thresholds : Validated(t)

VARIABLES
  pc,        \* where the run is
  main,      \* where main is
  worker,    \* the worker whose snapshot this is
  snap,      \* its snapshot
  memory,    \* e.baselineRSS and e.peakRSS
  duration, thr,
  verdict,   \* e.verdictResult
  report,    \* the verdict GET /run/report returned last
  passed,    \* local to main: what GracefulShutdown returned
  printed,   \* the verdict main printed and wrote
  exitCode,
  gaveUp     \* history: GracefulShutdown returned before there was a verdict

inputs   == <<worker, snap, duration, thr>>
runVars  == <<pc, memory, verdict>>
mainVars == <<main, passed, printed, exitCode, gaveUp>>
vars     == <<inputs, runVars, report, mainVars>>

None     == [result |-> "none", passed |-> FALSE]
Passed   == [result |-> "PASSED", passed |-> TRUE]
Warned   == [result |-> "PASSED_WITH_WARNINGS", passed |-> TRUE]
Failed   == [result |-> "FAILED", passed |-> FALSE]
Verdicts == {Passed, Warned, Failed}

(* A verdict's two fields never contradict each other.                     *)
TypeOK ==
  /\ pc \in {"running", "captured", "stopped", "judged"}
  /\ main \in {"waiting", "shutDown", "reported", "exited"}
  /\ {verdict, report, printed} \subseteq Verdicts \cup {None}
  /\ passed \in BOOLEAN /\ gaveUp \in BOOLEAN
  /\ exitCode \in 0 .. 2

-----------------------------------------------------------------------------
(* The gates.                                                              *)

Exceeds(part, whole, permille) == part * 1000 > permille * whole

SteadyStream == worker # AdminWorker

boundaryLossPct == 5

CorruptionFails == snap.corrupted > 0

LossFails ==
  /\ snap.sent > 0 /\ SteadyStream
  /\ Exceeds(snap.lost, snap.sent, thr.loss)
  /\ Exceeds(snap.lost, snap.sent, boundaryLossPct)

DuplicationFails ==
  /\ snap.received > 0 /\ SteadyStream
  /\ Exceeds(snap.duplicated, snap.received, thr.duplication)

checkLatency(p) ==
  snap.latency[p] > 0 /\ thr.latency[p] > 0 /\ snap.latency[p] > thr.latency[p]

ErrorRateFails ==
  LET total == snap.sent + snap.received
  IN  total > 0 /\ Exceeds(snap.errors, total, thr.errorRate)

ThroughputFails ==
  /\ duration > 0 /\ snap.sent > 0 /\ SteadyStream
  /\ Rate > 0
  /\ snap.sent * 1000 < thr.throughput * Rate * duration

DowntimeFails ==
  /\ duration > 0 /\ snap.downtime > 0
  /\ Exceeds(snap.downtime, duration, thr.downtime)

FidelityFails ==
  worker \in FidelityWorkers /\ snap.fidelity > thr.fidelity[worker]

-----------------------------------------------------------------------------
(* Memory stability is advisory.                                           *)
MemoryWarning(v) ==
  IF v.passed /\ memory.baseline > 0 /\ memory.peak > memory.baseline
       /\ Exceeds(memory.peak, memory.baseline, thr.memoryGrowth)
  THEN Warned ELSE v

EngineFails ==
  \/ CorruptionFails \/ LossFails \/ DuplicationFails
  \/ \E p \in Percentiles : checkLatency(p)
  \/ ErrorRateFails \/ ThroughputFails \/ DowntimeFails
  \/ FidelityFails

computeVerdict ==
  MemoryWarning(IF EngineFails THEN Failed ELSE Passed)

-----------------------------------------------------------------------------
(* GenerateVerdict.                                                        *)

lossGateThreshold(base) == IF base < boundaryLossPct THEN boundaryLossPct ELSE base

(* Mutant: the report does without the error rate.                         *)
ReportFailsTrimmed ==
  \/ snap.sent > 0 /\ SteadyStream /\ Exceeds(snap.lost, snap.sent, lossGateThreshold(thr.loss))
  \/ DuplicationFails
  \/ snap.latency["p99"] > 0 /\ snap.latency["p99"] > thr.latency["p99"]
  \/ FidelityFails
  \/ CorruptionFails

ReportFails ==
  \/ snap.sent > 0 /\ SteadyStream /\ Exceeds(snap.lost, snap.sent, lossGateThreshold(thr.loss))
  \/ DuplicationFails
  \/ snap.latency["p99"] > 0 /\ snap.latency["p99"] > thr.latency["p99"]
  \/ ErrorRateFails
  \/ FidelityFails
  \/ CorruptionFails

GenerateVerdict ==
  IF ReportFails
  THEN Failed
  ELSE IF memory.baseline > 0 /\ Exceeds(memory.peak, memory.baseline, thr.memoryGrowth)
       THEN Warned ELSE Passed

(* Mutant: a failure of the engine's verdict does not reach the report.    *)
ReconcileWarningsOnly(v) ==
  IF verdict.result = "PASSED_WITH_WARNINGS" /\ v.result = "PASSED" THEN verdict ELSE v

(* RunReport's reconciliation with the engine's verdict, if there is one.  *)
Reconcile(v) ==
  CASE verdict # None /\ ~ verdict.passed -> Failed
    [] verdict.result = "PASSED_WITH_WARNINGS" /\ v.result = "PASSED" -> Warned
    [] OTHER -> v

-----------------------------------------------------------------------------
Init ==
  /\ pc = "running"
  /\ worker \in AllWorkerNames
  /\ snap \in Snapshots
  /\ memory \in Memory /\ duration \in Durations /\ thr \in Thresholds
  /\ verdict = None /\ report = None
  /\ main = "waiting" /\ passed = FALSE /\ printed = None /\ exitCode = 0 /\ gaveUp = FALSE

(* The run loop and the server work until main exits.                      *)
Alive == main # "exited"

(* The snapshots are there for RunReport before the verdict is.            *)
CaptureWorkerSnapshots ==
  /\ Alive
  /\ pc = "running" /\ pc' = "captured"
  /\ UNCHANGED <<inputs, memory, verdict, report, mainVars>>

(* shutdownWorkers stops the consumers and samples the memory once more.   *)
StopConsumers ==
  /\ Alive
  /\ pc = "captured" /\ pc' = "stopped"
  /\ memory' \in { m \in Memory : m.baseline = memory.baseline /\ m.peak >= memory.peak }
  /\ UNCHANGED <<inputs, verdict, report, mainVars>>

ComputeVerdict ==
  /\ Alive
  /\ pc = "stopped" /\ pc' = "judged"
  /\ verdict' = computeVerdict
  /\ UNCHANGED <<inputs, memory, report, mainVars>>

(* RunReport returns nothing before the snapshots were captured.           *)
RunReport == IF pc = "running" THEN None ELSE Reconcile(GenerateVerdict)

(* GET /run/report.                                                        *)
HandleRunReport ==
  /\ Alive /\ pc # "running"
  /\ report' = RunReport
  /\ UNCHANGED <<inputs, runVars, mainVars>>

(* main's last steps, one lock section each: whether the run passed ...    *)
GracefulShutdown ==
  /\ main = "waiting" /\ main' = "shutDown"
  /\ passed' = (verdict # None /\ verdict.passed)
  /\ gaveUp' = (verdict = None)
  /\ UNCHANGED <<inputs, runVars, report, printed, exitCode>>

(* ... the final report, if there is one ...                               *)
PrintReport ==
  /\ main = "shutDown" /\ main' = "reported"
  /\ printed' = RunReport
  /\ UNCHANGED <<inputs, runVars, report, passed, exitCode, gaveUp>>

HasWarnings == verdict.result = "PASSED_WITH_WARNINGS"

(* ... and the exit code.                                                  *)
Exit ==
  /\ main = "reported" /\ main' = "exited"
  /\ exitCode' = IF ~ passed THEN 1 ELSE IF HasWarnings THEN 2 ELSE 0
  /\ UNCHANGED <<inputs, runVars, report, passed, printed, gaveUp>>

Finished == main = "exited" /\ UNCHANGED vars

Next ==
  \/ CaptureWorkerSnapshots \/ StopConsumers \/ ComputeVerdict
  \/ HandleRunReport
  \/ GracefulShutdown \/ PrintReport \/ Exit
  \/ Finished

Spec == Init /\ [][Next]_vars

-----------------------------------------------------------------------------
(* The report the process leaves behind and its exit code say the same,    *)
(* although two functions with different gates judged the run and the run  *)
(* may end while main shuts down: RunReport repairs the difference.  Only  *)
(* when main gave up on the run before there was a verdict may the report  *)
(* say anything, or be missing; the exit code is then that of a failure.   *)
ReportMatchesExitCode ==
  main = "exited" =>
    IF gaveUp THEN exitCode = 1
    ELSE printed.result = CASE exitCode = 0 -> "PASSED"
                            [] exitCode = 1 -> "FAILED"
                            [] exitCode = 2 -> "PASSED_WITH_WARNINGS"

(* GenerateVerdict fails no run that computeVerdict passes, so a report    *)
(* that was read before the verdict is never revised for the better.       *)
ReportNeverStricter ==
  pc = "judged" => \A r \in {report, printed} : r.result = "FAILED" => ~ verdict.passed

(* A report read or printed early is never revised for the better, and for *)
(* the worse only by the gates that "the report verdict trims" (main.go):  *)
(* the other latencies, the throughput and the downtime.                   *)
EarlyReportTrimsOnly ==
  /\ ReportNeverStricter
  /\ pc = "judged" /\ ~ verdict.passed /\ (\E r \in {report, printed} : r.passed) =>
       \/ \E p \in Percentiles \ {"p99"} : checkLatency(p)
       \/ ThroughputFails
       \/ DowntimeFails

(* The inductive invariant: the verdict is what computeVerdict makes of the *)
(* inputs; no report fails a run that the engine passes, and none passes a *)
(* run that fails the report's own gates; a shutdown that did not give up  *)
(* found the verdict, so main's report and exit code are made from it.     *)
Inv ==
  /\ TypeOK
  /\ worker \in AllWorkerNames /\ snap \in Snapshots /\ thr \in Thresholds
  /\ memory \in Memory /\ duration \in Durations
  /\ verdict = IF pc = "judged" THEN computeVerdict ELSE None
  /\ \A r \in {report, printed} :
       /\ r = Failed => EngineFails
       /\ r \in {Passed, Warned} => ~ ReportFails
  /\ main # "waiting" =>
       IF gaveUp THEN passed = FALSE ELSE pc = "judged" /\ passed = verdict.passed
  /\ main \in {"reported", "exited"} /\ ~ gaveUp => printed = Reconcile(GenerateVerdict)
  /\ main = "exited" => exitCode = IF ~ passed THEN 1 ELSE IF HasWarnings THEN 2 ELSE 0

(***************************************************************************)
(* What a comment of the repository says and the code does not do.         *)
(***************************************************************************)

(* verdict.go:66 "Throughput vs target send rate (skipped for the cyclic   *)
(* admin worker)": any other worker that sends too little fails.           *)
ThroughputIsGated ==
  /\ pc = "judged"
  /\ duration > 0 /\ Rate > 0 /\ SteadyStream
  /\ snap.sent * 1000 < thr.throughput * Rate * duration
  => ~ verdict.passed
=============================================================================
