------------------------------- MODULE Engine -------------------------------
(***************************************************************************)
(* The run lifecycle of burnin/engine/engine.go, as the control server     *)
(* (server/server.go), the run loop goroutines and the main goroutine      *)
(* (main.go) drive it concurrently.                                        *)
(*                                                                         *)
(* A run is the number of the StartRunFromConfig call that made it.  Its   *)
(* context, its runDone channel, its worker groups and its run loop carry  *)
(* that number.  The fields of Engine are shared: whichever goroutine runs *)
(* finds there the values of the run started last.  Each critical section  *)
(* of Engine.mu is one action, and so is each call the run loop makes      *)
(* between two of them.                                                    *)
(*                                                                         *)
(* A run loop looks up e.workerGroups again for every call it makes, so it *)
(* starts, stops, resets and snapshots the groups that are there: its own, *)
(* unless another run loop has replaced them, which takes an overlap.      *)
(* What a run's groups are doing is therefore indexed by the run that      *)
(* built them, and not by the loop that drives them.                       *)
(***************************************************************************)
EXTENDS Integers, FiniteSets

CONSTANTS
  MaxRuns,      \* bound: calls of StartRunFromConfig that are accepted
  NumWorkers,   \* workers of the enabled types, started in the order of AllWorkerNames
  Environments  \* the circumstances a process may run in

(* brokerFails: topic creation or a consumer connection may fail.          *)
(* bounded: cfg.DurationParsed > 0.  autoRun: started with -run.           *)
(* slowShutdown: the 120 s of GracefulShutdown may pass before a run ends. *)
Environment == [brokerFails : BOOLEAN, bounded : BOOLEAN, autoRun : BOOLEAN, slowShutdown : BOOLEAN]

ASSUME MaxRunsAssumption == MaxRuns \in Nat \ {0}
ASSUME NumWorkersAssumption == NumWorkers \in Nat \ {0}
ASSUME EnvironmentsAssumption == Environments \subseteq Environment

Runs == 1 .. MaxRuns
NoRun == 0

States == {"idle", "starting", "running", "stopping", "stopped", "error"}

(* Where a run loop is.  "none": not started yet.                          *)
Setup     == {"build", "startConsumers", "waitReady", "readyCheck"}
Warmup    == {"warmupStart", "warmupSleep", "warmupStop", "warmupDrain", "warmupReset",
              "warmupCheck"}
Measure   == {"startProducers", "setRunning", "startPeriodic", "select",
              "cancelPeriodic", "waitPeriodic", "setStopping"}
Shutdown  == {"stopProducers", "drain", "snapshot", "stopConsumers", "verdict"}
Cleanup   == {"cleanup", "close"}
Locations == {"none", "ended"} \cup Setup \cup Warmup \cup Measure \cup Shutdown \cup Cleanup

VARIABLES
  env,         \* the circumstances of this process
  \* the fields of Engine
  state,       \* e.state
  current,     \* the run whose runCancel and runDone the engine holds
  groups,      \* the run whose worker groups e.workerGroups holds
  snapshots,   \* the run e.workerSnapshots was captured from
  verdict,     \* e.verdictResult
  \* per run
  pc,          \* where its run loop is
  next,        \* how many workers that loop has called Start of
  cancelled,   \* whether its context is cancelled
  done,        \* the run whose runDone the deferred cleanup captured
  closes,      \* how often its runDone was closed
  periodic,    \* its periodic tasks: "none", "running" or "cancelled"
  consumers,   \* the runs under whose contexts consumers of its groups are attached
  producers,   \* how many calls of StartProducers its groups' producers stem from
  warm,        \* whether its groups' counters hold warmup traffic
  \* the main goroutine
  main,        \* where it is
  awaited,     \* the run whose runDone GracefulShutdown waits for
  collected,   \* the verdict GracefulShutdown returned the result of
  exitCode,    \* what the process ended with
  \* a goroutine that assembles a report: a handler of GET /run/report, or main
  report,
  \* history
  overlapped   \* whether a run was ever started while a run loop was active

engineVars == <<state, current, groups, snapshots, verdict>>
channelVars == <<cancelled, done, closes>>
workerVars == <<consumers, producers, warm>>
taskVars   == <<next, periodic>>
loopVars   == <<pc, taskVars, channelVars, workerVars>>
mainVars   == <<main, awaited, collected, exitCode>>
vars       == <<env, engineVars, loopVars, mainVars, report, overlapped>>

Results == {"PASSED", "PASSED_WITH_WARNINGS", "FAILED"}
Verdicts == [run : 0 .. MaxRuns, result : Results \cup {"none"}]
NoVerdict == [run |-> NoRun, result |-> "none"]
Passed(v) == v.result \in {"PASSED", "PASSED_WITH_WARNINGS"}

NoExit == -1

(* A report: the critical section its reader enters next, the run that     *)
(* each of them found, and (history) whether a run was started meanwhile.  *)
ReportSteps == {"idle", "snapshots", "config", "id", "verdict", "assembled"}
Reports == [at : ReportSteps, by : {"client", "main"}, workers : 0 .. MaxRuns,
            config : 0 .. MaxRuns, id : 0 .. MaxRuns, verdict : Verdicts, restarted : BOOLEAN]
EmptyReport(by) == [at |-> "snapshots", by |-> by, workers |-> NoRun, config |-> NoRun,
                    id |-> NoRun, verdict |-> NoVerdict, restarted |-> FALSE]
NoReport == [EmptyReport("client") EXCEPT !.at = "idle"]

TypeOK ==
  /\ env \in Environments
  /\ state \in States
  /\ current \in 0 .. MaxRuns
  /\ groups \in 0 .. MaxRuns
  /\ snapshots \in 0 .. MaxRuns
  /\ verdict \in Verdicts
  /\ pc \in [Runs -> Locations]
  /\ cancelled \in [Runs -> BOOLEAN]
  /\ done \in [Runs -> 0 .. MaxRuns]
  /\ closes \in [Runs -> Nat]
  /\ next \in [Runs -> 0 .. NumWorkers]
  /\ consumers \in [Runs -> SUBSET Runs]
  /\ producers \in [Runs -> Nat]
  /\ warm \in [Runs -> BOOLEAN]
  /\ periodic \in [Runs -> {"none", "running", "cancelled"}]
  /\ main \in {"boot", "waitForExit", "waitDone", "collect", "report", "exit", "exited"}
  /\ awaited \in 0 .. MaxRuns
  /\ collected \in Verdicts
  /\ exitCode \in {NoExit, 0, 1, 2}
  /\ report \in Reports
  /\ overlapped \in BOOLEAN

Init ==
  /\ env \in Environments
  /\ state = "idle"
  /\ current = NoRun
  /\ groups = NoRun
  /\ snapshots = NoRun
  /\ verdict = NoVerdict
  /\ pc = [r \in Runs |-> "none"]
  /\ cancelled = [r \in Runs |-> FALSE]
  /\ done = [r \in Runs |-> NoRun]
  /\ closes = [r \in Runs |-> 0]
  /\ next = [r \in Runs |-> 0]
  /\ consumers = [r \in Runs |-> {}]
  /\ producers = [r \in Runs |-> 0]
  /\ warm = [r \in Runs |-> FALSE]
  /\ periodic = [r \in Runs |-> "none"]
  /\ main = "boot"
  /\ awaited = NoRun
  /\ collected = NoVerdict
  /\ exitCode = NoExit
  /\ report = NoReport
  /\ overlapped = FALSE

-----------------------------------------------------------------------------
(* Moving a run loop, and moving it without any other effect.              *)
Goto(r, from, to) == pc[r] = from /\ pc' = [pc EXCEPT ![r] = to]

Skip(r, from, to) ==
  /\ Goto(r, from, to)
  /\ UNCHANGED <<engineVars, channelVars, taskVars, workerVars>>

(* A run loop that has not reached the end of its deferred critical section. *)
Active(r) == pc[r] \notin {"none", "close", "ended"}

-----------------------------------------------------------------------------
(* The control API and the main goroutine.                                 *)

Startable == state \in {"idle", "stopped", "error"}

(* The effect of an accepted start: a new context and channel replace the  *)
(* old ones and the run loop goroutine is launched.                        *)
Launch ==
  /\ current < MaxRuns
  /\ state' = "starting"
  /\ current' = current + 1
  /\ pc' = [pc EXCEPT ![current + 1] = "build"]
  /\ overlapped' = (overlapped \/ \E r \in Runs : Active(r))
  /\ report' = [report EXCEPT !.restarted = @ \/ report.at # "idle" \/ report.by = "main"]
  /\ UNCHANGED <<env, groups, channelVars, taskVars, workerVars>>

(* Mutant: a run may also be started while one is stopping.                *)
StartRunWhileStopping ==
  /\ Startable \/ state = "stopping"
  /\ Launch
  /\ snapshots' = NoRun
  /\ verdict' = NoVerdict

(* Mutant: the results of the previous run are left in place.              *)
StartRunKeepsResults ==
  /\ Startable
  /\ Launch
  /\ UNCHANGED <<snapshots, verdict>>

(* StartRunFromConfig.                                                     *)
StartRun ==
  /\ Startable
  /\ Launch
  /\ snapshots' = NoRun
  /\ verdict' = NoVerdict

(* POST /run/start.  The server's own look at the state is repeated under  *)
(* the lock by StartRunFromConfig, so it decides nothing.                  *)
HandleRunStart ==
  /\ (main = "boot" /\ env.autoRun) => current + 1 < MaxRuns
  /\ StartRun
  /\ UNCHANGED mainVars

(* StopRun: POST /run/stop.                                                *)
StopRun ==
  /\ state \in {"starting", "running"}
  /\ cancelled' = [cancelled EXCEPT ![current] = TRUE]
  /\ UNCHANGED <<pc, done, closes>>
  /\ UNCHANGED <<env, engineVars, taskVars, workerVars, mainVars, report, overlapped>>

(* main after the server is up: with -run a run is started, and the        *)
(* process exits with a failure if a client was faster.                    *)
Boot ==
  /\ main = "boot"
  /\ \/ env.autoRun /\ StartRun /\ main' = "waitForExit" /\ UNCHANGED exitCode
     \/ /\ env.autoRun => ~ Startable
        /\ main' = IF env.autoRun THEN "exited" ELSE "waitForExit"
        /\ exitCode' = IF env.autoRun THEN 1 ELSE NoExit
        /\ UNCHANGED <<env, engineVars, loopVars, report, overlapped>>
  /\ UNCHANGED <<awaited, collected>>

(* Mutant: the run is not cancelled before it is waited for.               *)
GracefulShutdownNoCancel ==
  /\ awaited' = current
  /\ main' = IF state \in {"running", "starting"} THEN "waitDone" ELSE "collect"
  /\ UNCHANGED <<env, collected, exitCode, engineVars, loopVars, report, overlapped>>

(* GracefulShutdown's first critical section: it cancels and waits for a   *)
(* starting or running run only.                                           *)
GracefulShutdown ==
  /\ awaited' = current
  /\ IF state \in {"running", "starting"}
     THEN /\ main' = "waitDone"
          /\ cancelled' = [cancelled EXCEPT ![current] = TRUE]
     ELSE /\ main' = "collect"
          /\ UNCHANGED cancelled
  /\ UNCHANGED <<pc, done, closes, collected, exitCode>>
  /\ UNCHANGED <<env, engineVars, taskVars, workerVars, report, overlapped>>

(* waitForExit returns on a signal, at any time.                           *)
Signal ==
  /\ main = "waitForExit"
  /\ GracefulShutdown

(* waitForExit returns in a bounded -run when it polls a terminal state.   *)
TerminalStateSeen ==
  /\ main = "waitForExit"
  /\ env.autoRun /\ env.bounded
  /\ state \in {"stopped", "error"}
  /\ GracefulShutdown

(* GracefulShutdown's wait ends when the channel is closed or after 120 s: *)
(* before the run is over, in a slow shutdown, or after an overlap, when   *)
(* the loop may have closed another run's channel or wait for goroutines   *)
(* that never end.                                                         *)
TimeLimit == env.slowShutdown \/ overlapped

ShutdownWaited ==
  /\ main = "waitDone"
  /\ closes[awaited] > 0 \/ TimeLimit
  /\ main' = "collect"
  /\ UNCHANGED <<env, awaited, collected, exitCode, engineVars, loopVars, report, overlapped>>

(* Mutant: a missing result counts as a pass.                              *)
CollectResultNilPasses ==
  /\ main = "collect"
  /\ main' = "report"
  /\ collected' = IF verdict = NoVerdict THEN [verdict EXCEPT !.result = "PASSED"] ELSE verdict
  /\ report' = EmptyReport("main")
  /\ UNCHANGED <<env, awaited, exitCode, engineVars, loopVars, overlapped>>

(* The second critical section: the result decides the exit code.  main    *)
(* goes on to RunReport.                                                   *)
CollectResult ==
  /\ main = "collect"
  /\ main' = "report"
  /\ collected' = verdict
  /\ report' = EmptyReport("main")
  /\ UNCHANGED <<env, awaited, exitCode, engineVars, loopVars, overlapped>>

(* main has written and printed its report, or found none.                 *)
ReportPrinted ==
  /\ main = "report"
  /\ report.at \in {"idle", "assembled"}
  /\ main' = "exit"
  /\ UNCHANGED <<env, awaited, collected, exitCode, engineVars, loopVars, report, overlapped>>

(* The process exits; HasWarnings asks the engine once more.               *)
Exit ==
  /\ main = "exit"
  /\ main' = "exited"
  /\ exitCode' = IF ~ Passed(collected) THEN 1
                 ELSE IF verdict.result = "PASSED_WITH_WARNINGS" THEN 2 ELSE 0
  /\ UNCHANGED <<env, awaited, collected, engineVars, loopVars, report, overlapped>>

-----------------------------------------------------------------------------
(***************************************************************************)
(* RunReport: one step for each critical section of Engine.mu it enters.   *)
(* A report only reads, so following one at a time is enough; main's, once *)
(* it begins, is the one that is followed.                                 *)
(***************************************************************************)
ReportStep(from, r) ==
  /\ report.at = from
  /\ report' = r
  /\ UNCHANGED <<env, engineVars, loopVars, mainVars, overlapped>>

(* A client sends GET /run/report; without snapshots there is no report.   *)
HandleRunReport ==
  /\ main \notin {"report", "exit"}
  /\ snapshots # NoRun
  /\ ReportStep("idle", [EmptyReport("client") EXCEPT !.at = "config", !.workers = snapshots])

(* main's first section.                                                   *)
ReportSnapshots ==
  ReportStep("snapshots",
    IF snapshots = NoRun THEN [report EXCEPT !.at = "idle"]
                         ELSE [report EXCEPT !.at = "config", !.workers = snapshots])

ReportConfig == ReportStep("config", [report EXCEPT !.at = "id", !.config = current])

(* The run id; the two times are read the same way.                        *)
ReportID == ReportStep("id", [report EXCEPT !.at = "verdict", !.id = current])

(* The engine's verdict, if there is one, overrides the report's own.      *)
ReportVerdict == ReportStep("verdict", [report EXCEPT !.at = "assembled", !.verdict = verdict])

(* The handler answers.                                                    *)
ReportServed ==
  /\ report.by = "client"
  /\ ReportStep("assembled", NoReport)

AssembleReport ==
  ReportSnapshots \/ ReportConfig \/ ReportID \/ ReportVerdict \/ ReportServed

-----------------------------------------------------------------------------
(***************************************************************************)
(* The run loop, from runLoop's first statement to its deferred function.  *)
(***************************************************************************)

(* e.workerGroups is replaced by the groups of this run.                   *)
BuildGroups(r) ==
  /\ Goto(r, "build", "startConsumers")
  /\ groups' = r
  /\ UNCHANGED <<state, current, snapshots, verdict>>
  /\ UNCHANGED <<channelVars, taskVars, workerVars>>

(* setError followed by return.                                            *)
SetError(r, from) ==
  /\ Goto(r, from, "cleanup")
  /\ state' = "error"
  /\ UNCHANGED <<current, groups, snapshots, verdict>>
  /\ UNCHANGED <<channelVars, taskVars, workerVars>>

(* WorkerGroup.StartConsumers calls Start of the next worker, whose        *)
(* consumers get a context derived from this run's.                        *)
StartConsumers(r) ==
  /\ Goto(r, "startConsumers",
          IF next[r] + 1 = NumWorkers THEN "waitReady" ELSE "startConsumers")
  /\ next' = [next EXCEPT ![r] = @ + 1]
  /\ consumers' = [consumers EXCEPT ![groups] = @ \cup {r}]
  /\ UNCHANGED <<producers, warm, periodic>>
  /\ UNCHANGED <<engineVars, channelVars>>

(* It fails when the broker does, or when the cancelled context makes the  *)
(* topic creation fail.                                                    *)
StartConsumersFails(r) ==
  /\ env.brokerFails \/ cancelled[r]
  /\ SetError(r, "startConsumers")

(* WaitForConsumerReady for all groups; it does not watch the context.     *)
ConsumersReady(r) == Skip(r, "waitReady", "readyCheck")

(* 30 s without a signal: the consumer cannot connect, or it stopped       *)
(* because the run was cancelled.                                          *)
ReadyTimeout(r) ==
  /\ env.brokerFails \/ cancelled[r]
  /\ SetError(r, "waitReady")

(* The two tests of ctx.Err() that end a cancelled run early.              *)
ReadyCheck(r) == Skip(r, "readyCheck", IF cancelled[r] THEN "cleanup" ELSE "warmupStart")

(* Mutant: the test after the warmup is dropped.                           *)
WarmupCheckDropped(r) == Skip(r, "warmupCheck", "startProducers")

WarmupCheck(r) == Skip(r, "warmupCheck", IF cancelled[r] THEN "cleanup" ELSE "startProducers")

(* WorkerGroup.StartProducers, for the groups that are there: the          *)
(* producers' context is the background context, so only StopProducers     *)
(* ends them.                                                              *)
StartProducersAt(r, from, to, isWarmup) ==
  /\ Goto(r, from, to)
  /\ producers' = [producers EXCEPT ![groups] = @ + 1]
  /\ warm' = [warm EXCEPT ![groups] = @ \/ isWarmup]
  /\ UNCHANGED <<consumers, taskVars>>
  /\ UNCHANGED <<engineVars, channelVars>>

(* Mutant: a cancelled run does not stop its producers.                    *)
StopProducersUnlessCancelled(r, from, to) ==
  /\ Goto(r, from, to)
  /\ producers' = [producers EXCEPT ![groups] = IF cancelled[r] THEN @ ELSE 0]
  /\ UNCHANGED <<consumers, warm, taskVars>>
  /\ UNCHANGED <<engineVars, channelVars>>

(* WorkerGroup.StopProducers, for the groups that are there.  It cancels   *)
(* the context of the last StartProducers and waits for all producers, so  *)
(* it never returns when two loops have started them.                      *)
StopProducersAt(r, from, to) ==
  /\ Goto(r, from, to)
  /\ producers[groups] <= 1
  /\ producers' = [producers EXCEPT ![groups] = 0]
  /\ UNCHANGED <<consumers, warm, taskVars>>
  /\ UNCHANGED <<engineVars, channelVars>>

(* warmup: producers run until the warmup duration or a cancellation ...   *)
WarmupStart(r) == StartProducersAt(r, "warmupStart", "warmupSleep", TRUE)

WarmupSlept(r) == Skip(r, "warmupSleep", "warmupStop")

WarmupStop(r) == StopProducersAt(r, "warmupStop", "warmupDrain")

(* ... then a second to drain, unless cancelled, and the reset.            *)
WarmupDrained(r) ==
  \/ Skip(r, "warmupDrain", "warmupReset")
  \/ cancelled[r] /\ Skip(r, "warmupDrain", "warmupCheck")

ResetAfterWarmup(r) ==
  /\ Goto(r, "warmupReset", "warmupCheck")
  /\ warm' = [warm EXCEPT ![groups] = FALSE]
  /\ UNCHANGED <<consumers, producers, taskVars>>
  /\ UNCHANGED <<engineVars, channelVars>>

(* T0.                                                                     *)
StartProducers(r) == StartProducersAt(r, "startProducers", "setRunning", FALSE)

SetRunning(r) ==
  /\ Goto(r, "setRunning", "startPeriodic")
  /\ state' = "running"
  /\ UNCHANGED <<current, groups, snapshots, verdict>>
  /\ UNCHANGED <<channelVars, taskVars, workerVars>>

StartPeriodicTasks(r) ==
  /\ Goto(r, "startPeriodic", "select")
  /\ periodic' = [periodic EXCEPT ![r] = "running"]
  /\ UNCHANGED <<next, workerVars>>
  /\ UNCHANGED <<engineVars, channelVars>>

(* Mutant: the select does not watch the context.                          *)
RunEndsByTimerOnly(r) ==
  /\ env.bounded
  /\ Skip(r, "select", "cancelPeriodic")

(* The select on the context and the duration timer.                       *)
RunEnds(r) ==
  /\ cancelled[r] \/ env.bounded
  /\ Skip(r, "select", "cancelPeriodic")

CancelPeriodic(r) ==
  /\ Goto(r, "cancelPeriodic", "waitPeriodic")
  /\ periodic' = [periodic EXCEPT ![r] = IF @ = "running" THEN "cancelled" ELSE @]
  /\ UNCHANGED <<next, workerVars>>
  /\ UNCHANGED <<engineVars, channelVars>>

(* periodicWG.Wait.                                                        *)
PeriodicDone(r) ==
  /\ periodic[r] = "none"
  /\ Skip(r, "waitPeriodic", "setStopping")

(* Mutant: the run counts as stopped before its workers are shut down.     *)
SetStoppedEarly(r) ==
  /\ Goto(r, "setStopping", "stopProducers")
  /\ state' = "stopped"
  /\ UNCHANGED <<current, groups, snapshots, verdict>>
  /\ UNCHANGED <<channelVars, taskVars, workerVars>>

SetStopping(r) ==
  /\ Goto(r, "setStopping", "stopProducers")
  /\ state' = "stopping"
  /\ UNCHANGED <<current, groups, snapshots, verdict>>
  /\ UNCHANGED <<channelVars, taskVars, workerVars>>

(* shutdownWorkers.                                                        *)
StopProducers(r) == StopProducersAt(r, "stopProducers", "drain")

(* drainToQuiescence returns, at the latest after the drain timeout.       *)
Drained(r) == Skip(r, "drain", "snapshot")

CaptureWorkerSnapshots(r) ==
  /\ Goto(r, "snapshot", "stopConsumers")
  /\ snapshots' = groups
  /\ UNCHANGED <<state, current, groups, verdict>>
  /\ UNCHANGED <<channelVars, taskVars, workerVars>>

(* StopConsumers, for the groups that are there, cancels the context of    *)
(* the last Start and waits for all consumers: those of another context    *)
(* have to end by themselves.                                              *)
StopConsumers(r) ==
  /\ Goto(r, "stopConsumers", "verdict")
  /\ \E c \in Runs : consumers[groups] \subseteq {c}
  /\ consumers' = [consumers EXCEPT ![groups] = {}]
  /\ UNCHANGED <<producers, warm, taskVars>>
  /\ UNCHANGED <<engineVars, channelVars>>

(* computeVerdict judges e.workerSnapshots; without any, every gate passes. *)
ComputeVerdict(r) ==
  /\ Goto(r, "verdict", "cleanup")
  /\ \E result \in Results :
       /\ snapshots = NoRun => result # "FAILED"
       /\ verdict' = [run |-> snapshots, result |-> result]
  /\ UNCHANGED <<state, current, groups, snapshots>>
  /\ UNCHANGED <<channelVars, taskVars, workerVars>>

(* The deferred function: state and channel under the lock ...             *)
CleanupRun(r) ==
  /\ Goto(r, "cleanup", "close")
  /\ state' = IF state # "error" THEN "stopped" ELSE "error"
  /\ done' = [done EXCEPT ![r] = current]
  /\ UNCHANGED <<current, groups, snapshots, verdict>>
  /\ UNCHANGED <<cancelled, closes>>
  /\ UNCHANGED <<taskVars, workerVars>>

(* Mutant: the channel the engine holds now instead of the captured one.   *)
CloseDoneCurrent(r) ==
  /\ Goto(r, "close", "ended")
  /\ closes' = [closes EXCEPT ![current] = @ + 1]
  /\ UNCHANGED <<cancelled, done>>
  /\ UNCHANGED <<engineVars, taskVars, workerVars>>

(* ... and the close after it.                                             *)
CloseDone(r) ==
  /\ Goto(r, "close", "ended")
  /\ closes' = [closes EXCEPT ![done[r]] = @ + 1]
  /\ UNCHANGED <<cancelled, done>>
  /\ UNCHANGED <<engineVars, taskVars, workerVars>>

-----------------------------------------------------------------------------
(* Mutant: the consumers' context, like the producers', is a background    *)
(* context, which the cancellation of the run does not reach.              *)
ConsumersExitDetached(r) ==
  /\ FALSE
  /\ UNCHANGED <<pc, engineVars, channelVars, taskVars, workerVars>>

(* The goroutines of a run: periodic tasks end when their context does,    *)
(* consumers when the context they were started under does (the last of    *)
(* them at the earliest when all are started).                             *)
PeriodicExit(r) ==
  /\ periodic[r] = "cancelled" \/ (periodic[r] = "running" /\ cancelled[r])
  /\ periodic' = [periodic EXCEPT ![r] = "none"]
  /\ UNCHANGED <<pc, next, workerVars>>
  /\ UNCHANGED <<engineVars, channelVars>>

ConsumersExit(r) ==
  /\ cancelled[r]
  /\ pc[r] # "startConsumers"
  /\ \E g \in Runs : r \in consumers[g]
  /\ consumers' = [g \in Runs |-> consumers[g] \ {r}]
  /\ UNCHANGED <<pc, producers, warm, taskVars>>
  /\ UNCHANGED <<engineVars, channelVars>>

RunLoop(r) ==
  \/ BuildGroups(r)
  \/ StartConsumers(r) \/ StartConsumersFails(r)
  \/ ConsumersReady(r) \/ ReadyTimeout(r) \/ ReadyCheck(r)
  \/ WarmupStart(r) \/ WarmupSlept(r) \/ WarmupStop(r) \/ WarmupDrained(r)
  \/ ResetAfterWarmup(r) \/ WarmupCheck(r)
  \/ StartProducers(r) \/ SetRunning(r) \/ StartPeriodicTasks(r)
  \/ RunEnds(r) \/ CancelPeriodic(r) \/ PeriodicDone(r) \/ SetStopping(r)
  \/ StopProducers(r) \/ Drained(r) \/ CaptureWorkerSnapshots(r) \/ StopConsumers(r)
  \/ ComputeVerdict(r)
  \/ CleanupRun(r) \/ CloseDone(r)

Alive == main # "exited" /\ UNCHANGED <<env, mainVars, report, overlapped>>

Background(r) ==
  \/ Alive /\ RunLoop(r)
  \/ Alive /\ PeriodicExit(r)
  \/ Alive /\ ConsumersExit(r)

MainLoop ==
  \/ Boot \/ Signal \/ TerminalStateSeen \/ ShutdownWaited \/ CollectResult
  \/ ReportPrinted \/ Exit

Terminated == main = "exited" /\ UNCHANGED vars

Next ==
  \/ MainLoop
  \/ main # "exited" /\ (HandleRunStart \/ StopRun \/ HandleRunReport \/ AssembleReport)
  \/ \E r \in Runs : Background(r)
  \/ Terminated

(* Goroutines are scheduled, broker calls return and timers fire; clients  *)
(* and the operator's signal owe the engine nothing.                       *)
Fairness ==
  /\ \A r \in Runs :
       /\ WF_vars(Alive /\ RunLoop(r))
       /\ WF_vars(Alive /\ PeriodicExit(r))
       /\ WF_vars(Alive /\ ConsumersExit(r))
  /\ WF_vars(Boot)
  /\ WF_vars(TerminalStateSeen)
  /\ WF_vars(ShutdownWaited)
  /\ WF_vars(CollectResult \/ ReportPrinted \/ Exit)
  /\ WF_vars(main # "exited" /\ AssembleReport)

Spec == Init /\ [][Next]_vars /\ Fairness

-----------------------------------------------------------------------------
(***************************************************************************)
(* Safety.  The properties that speak of two runs are stated for           *)
(* behaviours in which no run was started while a run loop was active;     *)
(* OverlapNeedsError says how such an overlap comes about.                 *)
(***************************************************************************)

(* StartRunFromConfig's state check keeps run loops apart, except in the   *)
(* window between setError and the deferred function of runLoop, in which  *)
(* the state is already "error" and the loop is not over.                  *)
OverlapNeedsError ==
  [][overlapped' /\ ~ overlapped => state = "error"]_vars

(* main polls State until it is terminal, and a client may do the same     *)
(* before it asks for the report: neither waits for the run loop.  What    *)
(* they read then is final: until the next start is accepted the run loop, *)
(* which is still on its way through its deferred function, changes        *)
(* neither the state nor the snapshots nor the verdict.                    *)
TerminalStateIsFinal ==
  [][(state \in {"stopped", "error"} /\ ~ overlapped /\ current' = current) =>
       UNCHANGED <<state, snapshots, verdict>>]_vars

(* The deferred function closes the runDone of its own run, once, so that  *)
(* GracefulShutdown cannot wake early and close cannot panic.              *)
DoneClosedOnce ==
  ~ overlapped => \A r \in Runs : closes[r] = IF pc[r] = "ended" THEN 1 ELSE 0

(* What GET /run/report serves belongs to the current run: the snapshots   *)
(* were taken after its producers stopped, with the warmup traffic reset   *)
(* (warmup skips the reset only for a cancelled run, which the next test   *)
(* of the context ends), and the verdict was computed after its consumers  *)
(* had all stopped.                                                        *)
ResultsOfCurrentRun ==
  ~ overlapped =>
    /\ snapshots # NoRun => snapshots = current /\ producers[current] = 0 /\ ~ warm[current]
    /\ verdict # NoVerdict => verdict.run = current /\ consumers[current] = {}

(* Whichever way a run loop ends, its periodic tasks are over, and so are  *)
(* the producers of the groups it built, which no cancelled context ends.  *)
(* The producers only without an overlap: a loop stops the groups it finds *)
(* in the engine, and with three runs it can find another run's there,     *)
(* stop those and leave its own producing until the process ends.          *)
NothingLeftProducing ==
  \A r \in Runs : pc[r] \in Cleanup \cup {"ended"} =>
    periodic[r] = "none" /\ (~ overlapped => producers[r] = 0)

(* RunReport reads the workers' snapshots, the configuration they are      *)
(* judged by, the run id and the engine's verdict one lock at a time.      *)
(* They are of one run, unless a start was accepted meanwhile: nothing     *)
(* else makes a report mix runs, and a report is never of a run older than *)
(* the engine's.                                                           *)
ReportOfOneRun ==
  (report.at = "assembled" /\ ~ report.restarted /\ ~ overlapped) =>
    /\ report.config = report.workers /\ report.id = report.workers
    /\ report.verdict.run \in {NoRun, report.workers}

(* The process exits with success only after a run loop ran to the end,    *)
(* verdict included, whatever was cancelled, timed out or restarted; and   *)
(* the report main printed has the verdict that decided the exit code, with *)
(* warnings if and only if the code says so, unless a client started a run *)
(* after that verdict was read, which the server accepts to the end.       *)
ExitZeroMeansCompletedRun ==
  (exitCode \in {0, 2} /\ ~ overlapped) =>
    /\ collected.run # NoRun /\ pc[collected.run] \in Cleanup \cup {"ended"}
    /\ ~ report.restarted =>
         /\ report.at = "assembled" /\ report.verdict = collected
         /\ exitCode = 2 <=> report.verdict.result = "PASSED_WITH_WARNINGS"

-----------------------------------------------------------------------------
(* Liveness. *)

Exited == main = "exited"

(* A run that was started ends, when its duration is bounded or once it is *)
(* cancelled: no phase of the run loop waits for what may never come,      *)
(* unless runs overlapped, for then it may wait for producers or consumers *)
(* that another run loop started.                                          *)
EveryRunEnds ==
  \A r \in Runs :
    (pc[r] # "none" /\ (env.bounded \/ cancelled[r])) ~>
      (pc[r] = "ended" \/ Exited \/ overlapped)

(* GracefulShutdown returns.                                               *)
ShutdownReturns == (main = "waitDone") ~> Exited

(* A run that ended leaves no consumers attached, whichever way it ended,  *)
(* when the broker is healthy: StopConsumers or the cancelled context ends *)
(* them.  After a broker failure runLoop returns without cancelling the    *)
(* context; StopRun refuses in state "error" and a new run replaces        *)
(* runCancel, so the consumers stay until the process ends.                *)
ConsumersReleased ==
  \A r \in Runs :
    (pc[r] = "ended" /\ ~ env.brokerFails) ~> (consumers[r] = {} \/ Exited \/ overlapped)

-----------------------------------------------------------------------------
(***************************************************************************)
(* What comments and messages of the repository say and the code does not  *)
(* do.                                                                     *)
(***************************************************************************)

(* engine.go:426 "Drain window: let in-flight deliveries land at the       *)
(* consumers before we measure": the consumers are there to drain.         *)
DrainHasConsumers ==
  \A r \in Runs : pc[r] = "drain" => consumers[groups] # {}

(* engine.go:223 "GracefulShutdown cancels any active run, waits, and      *)
(* returns whether it passed": the run the engine holds is not still being *)
(* shut down when the result is read, unless the wait ran into its limit.  *)
ShutdownWaitsForRun ==
  (main = "collect" /\ awaited # NoRun /\ ~ env.slowShutdown) => pc[awaited] \notin Shutdown
=============================================================================
