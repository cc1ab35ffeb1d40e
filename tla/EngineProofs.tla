---------------------------- MODULE EngineProofs ----------------------------
(***************************************************************************)
(* The safety of the run lifecycle, for any number of runs and workers.    *)
(*                                                                         *)
(* The inductive invariant has four parts.  LoopInv follows one run loop   *)
(* and what only that loop touches.  RunInv ties the shared fields of      *)
(* Engine to the run loop that owns them and OwnInv what the groups are    *)
(* doing to where that loop is; both hold as long as no run was started    *)
(* while a run loop was active.  ReportInv and MainInv follow the readers  *)
(* of those fields, who take one lock at a time.                           *)
(*                                                                         *)
(* The second half is about the configuration those runs are started with. *)
(***************************************************************************)
EXTENDS Engine, RunConfig, TLAPS

(* Where the producers of a run may be running, its periodic tasks may be, *)
(* and where its snapshots have been captured.                             *)
Producing == {"warmupSleep", "warmupStop", "setRunning", "startPeriodic", "select",
              "cancelPeriodic", "waitPeriodic", "setStopping", "stopProducers"}
Periodic  == {"select", "cancelPeriodic", "waitPeriodic"}
Over      == {"cleanup", "close", "ended"}
Captured  == {"stopConsumers", "verdict"} \cup Over

LoopInv ==
  \A r \in Runs :
    /\ pc[r] = "none" <=> r > current
    /\ pc[r] \in {"none", "build"} => next[r] = 0
    /\ pc[r] = "startConsumers" => next[r] < NumWorkers
    /\ periodic[r] # "none" => pc[r] \in Periodic

(* What the groups of a run are doing, by where its own loop is, and whose *)
(* snapshots there are: those of a run that is past its measurement.       *)
OwnInv ==
  ~ overlapped =>
    /\ \A r \in Runs :
         /\ producers[r] = 0 \/ (producers[r] = 1 /\ pc[r] \in Producing)
         /\ pc[r] = "warmupCheck" /\ ~ cancelled[r] => ~ warm[r]
         /\ pc[r] \in Measure \cup Shutdown => ~ warm[r]
         /\ pc[r] = "verdict" => consumers[r] = {}
    /\ snapshots # NoRun => pc[snapshots] \in Captured /\ ~ warm[snapshots]

(* The fields of the engine are those of the one run loop that is active.  *)
RunInv ==
  ~ overlapped =>
    /\ \A r \in Runs :
         /\ Active(r) => /\ r = current /\ state \notin {"idle", "stopped"}
                         /\ pc[r] # "build" => groups = r
                         /\ state = "error" => pc[r] = "cleanup"
         /\ pc[r] \in {"close", "ended"} => done[r] = r
         /\ closes[r] = IF pc[r] = "ended" THEN 1 ELSE 0
         /\ pc[r] \in {"stopConsumers", "verdict"} => snapshots = r
    /\ snapshots # NoRun => snapshots = current
    /\ verdict # NoVerdict =>
         /\ verdict.run = current /\ snapshots = current /\ current # NoRun
         /\ pc[current] \in Over /\ consumers[current] = {}

(* What a report has read so far is of the engine's run.                   *)
ReportInv ==
  (~ overlapped /\ ~ report.restarted) =>
    /\ report.at \in {"config", "id", "verdict", "assembled"} =>
         report.workers = current /\ snapshots = current
    /\ report.at \in {"id", "verdict", "assembled"} => report.config = report.workers
    /\ report.at \in {"verdict", "assembled"} => report.id = report.workers
    /\ report.at = "assembled" => report.verdict.run \in {NoRun, report.workers}

(* The verdict main collected is of a run that is over; until main exits   *)
(* the engine keeps it, unless a run is started, and main's report finds   *)
(* it.                                                                     *)
MainInv ==
  /\ main \in {"report", "exit"} => report.by = "main"
  /\ main = "exit" => report.at \in {"idle", "assembled"}
  /\ exitCode \in {0, 2} => main = "exited" /\ Passed(collected)
  /\ ~ overlapped /\ collected # NoVerdict => collected.run # NoRun /\ pc[collected.run] \in Over
  /\ (~ overlapped /\ ~ report.restarted /\ main \in {"report", "exit"} /\ Passed(collected)) =>
       /\ verdict = collected
       /\ report.at # "idle"
       /\ report.at = "assembled" => report.verdict = collected
  /\ ExitZeroMeansCompletedRun

Inv == TypeOK /\ LoopInv /\ RunInv /\ OwnInv /\ ReportInv /\ MainInv

-----------------------------------------------------------------------------
(* What a step of a run loop does to the fields of the engine: it starts   *)
(* no run, captures snapshots and computes a verdict only where the loop   *)
(* is, and never returns from its deferred function.                       *)
LEMMA LoopEffect ==
  ASSUME TypeOK, NEW r \in Runs, RunLoop(r)
  PROVE  /\ current' = current
         /\ snapshots' = snapshots \/ (pc[r] = "snapshot" /\ snapshots' = groups)
         /\ verdict' = verdict \/ pc[r] = "verdict"
         /\ \A s \in Runs : pc[s] \in Over => pc'[s] \in Over
<1> USE DEF TypeOK, Over, engineVars, channelVars, taskVars, workerVars
<1>1. CASE BuildGroups(r)
  BY <1>1 DEF BuildGroups, Goto
<1>2. CASE StartConsumers(r)
  BY <1>2 DEF StartConsumers, Goto
<1>3. CASE StartConsumersFails(r)
  BY <1>3 DEF StartConsumersFails, SetError, Goto
<1>4. CASE ConsumersReady(r)
  BY <1>4 DEF ConsumersReady, Skip, Goto
<1>5. CASE ReadyTimeout(r)
  BY <1>5 DEF ReadyTimeout, SetError, Goto
<1>6. CASE ReadyCheck(r)
  BY <1>6 DEF ReadyCheck, Skip, Goto
<1>7. CASE WarmupStart(r)
  BY <1>7 DEF WarmupStart, StartProducersAt, Goto
<1>8. CASE WarmupSlept(r)
  BY <1>8 DEF WarmupSlept, Skip, Goto
<1>9. CASE WarmupStop(r)
  BY <1>9 DEF WarmupStop, StopProducersAt, Goto
<1>10. CASE WarmupDrained(r)
  BY <1>10 DEF WarmupDrained, Skip, Goto
<1>11. CASE ResetAfterWarmup(r)
  BY <1>11 DEF ResetAfterWarmup, Goto
<1>12. CASE WarmupCheck(r)
  BY <1>12 DEF WarmupCheck, Skip, Goto
<1>13. CASE StartProducers(r)
  BY <1>13 DEF StartProducers, StartProducersAt, Goto
<1>14. CASE SetRunning(r)
  BY <1>14 DEF SetRunning, Goto
<1>15. CASE StartPeriodicTasks(r)
  BY <1>15 DEF StartPeriodicTasks, Goto
<1>16. CASE RunEnds(r)
  BY <1>16 DEF RunEnds, Skip, Goto
<1>17. CASE CancelPeriodic(r)
  BY <1>17 DEF CancelPeriodic, Goto
<1>18. CASE PeriodicDone(r)
  BY <1>18 DEF PeriodicDone, Skip, Goto
<1>19. CASE SetStopping(r)
  BY <1>19 DEF SetStopping, Goto
<1>20. CASE StopProducers(r)
  BY <1>20 DEF StopProducers, StopProducersAt, Goto
<1>21. CASE Drained(r)
  BY <1>21 DEF Drained, Skip, Goto
<1>22. CASE CaptureWorkerSnapshots(r)
  BY <1>22 DEF CaptureWorkerSnapshots, Goto
<1>23. CASE StopConsumers(r)
  BY <1>23 DEF StopConsumers, Goto
<1>24. CASE ComputeVerdict(r)
  BY <1>24 DEF ComputeVerdict, Goto
<1>25. CASE CleanupRun(r)
  BY <1>25 DEF CleanupRun, Goto
<1>26. CASE CloseDone(r)
  BY <1>26 DEF CloseDone, Goto
<1> QED
  BY <1>1, <1>2, <1>3, <1>4, <1>5, <1>6, <1>7, <1>8, <1>9, <1>10, <1>11, <1>12, <1>13,
     <1>14, <1>15, <1>16, <1>17, <1>18, <1>19, <1>20, <1>21, <1>22, <1>23, <1>24, <1>25,
     <1>26 DEF RunLoop

(* Starting producers keeps the types of what it changes.                  *)
LEMMA StartProducersTypes ==
  ASSUME TypeOK, NEW r, NEW from, NEW to, NEW isWarmup \in BOOLEAN,
         StartProducersAt(r, from, to, isWarmup)
  PROVE  producers' \in [Runs -> Nat] /\ warm' \in [Runs -> BOOLEAN]
<1>1. producers \in [Runs -> Nat] /\ warm \in [Runs -> BOOLEAN]
  BY DEF TypeOK
<1>2. producers' = [producers EXCEPT ![groups] = @ + 1]
  BY DEF StartProducersAt
<1>3. \A s \in Runs : producers'[s] \in Nat
  BY <1>1, <1>2
<1>4. warm' = [warm EXCEPT ![groups] = @ \/ isWarmup]
  BY DEF StartProducersAt
<1>5. \A s \in Runs : warm'[s] \in BOOLEAN
  BY <1>1, <1>4
<1> QED
  BY <1>1, <1>2, <1>3, <1>4, <1>5

(* Every step of a run loop keeps the types.                               *)
LEMMA LoopTypeOK ==
  ASSUME TypeOK, LoopInv, NEW r \in Runs, Alive, RunLoop(r)
  PROVE  TypeOK'
<1>0. TypeOK /\ UNCHANGED <<env, main, awaited, collected, exitCode, report, overlapped>>
  BY DEF Alive, mainVars
<1> USE DEF Locations, Setup, Warmup, Measure, Shutdown, Cleanup, Runs, States,
            TypeOK, engineVars, channelVars, taskVars, workerVars
<1>1. CASE BuildGroups(r)
  BY <1>1, <1>0 DEF BuildGroups, Goto
<1>2. CASE StartConsumers(r)
  <2>1. consumers' \in [Runs -> SUBSET Runs]
    <3> HIDE DEF Runs
    <3> QED
      BY <1>2 DEF StartConsumers
  <2>2. next' \in [Runs -> 0 .. NumWorkers]
    BY <1>2, NumWorkersAssumption DEF StartConsumers, Goto, LoopInv
  <2> QED
    BY <1>2, <1>0, <2>1, <2>2 DEF StartConsumers, Goto
<1>3. CASE StartConsumersFails(r)
  BY <1>3, <1>0 DEF StartConsumersFails, SetError, Goto
<1>4. CASE ConsumersReady(r)
  BY <1>4, <1>0 DEF ConsumersReady, Skip, Goto
<1>5. CASE ReadyTimeout(r)
  BY <1>5, <1>0 DEF ReadyTimeout, SetError, Goto
<1>6. CASE ReadyCheck(r)
  BY <1>6, <1>0 DEF ReadyCheck, Skip, Goto
<1>7. CASE WarmupStart(r)
  <2>1. producers' \in [Runs -> Nat] /\ warm' \in [Runs -> BOOLEAN]
    BY <1>7, StartProducersTypes DEF WarmupStart
  <2> QED
    BY <1>7, <1>0, <2>1 DEF WarmupStart, StartProducersAt, Goto
<1>8. CASE WarmupSlept(r)
  BY <1>8, <1>0 DEF WarmupSlept, Skip, Goto
<1>9. CASE WarmupStop(r)
  BY <1>9, <1>0 DEF WarmupStop, StopProducersAt, Goto
<1>10. CASE WarmupDrained(r)
  BY <1>10, <1>0 DEF WarmupDrained, Skip, Goto
<1>11. CASE ResetAfterWarmup(r)
  BY <1>11, <1>0 DEF ResetAfterWarmup, Goto
<1>12. CASE WarmupCheck(r)
  BY <1>12, <1>0 DEF WarmupCheck, Skip, Goto
<1>13. CASE StartProducers(r)
  <2>1. producers' \in [Runs -> Nat] /\ warm' \in [Runs -> BOOLEAN]
    BY <1>13, StartProducersTypes DEF StartProducers
  <2> QED
    BY <1>13, <1>0, <2>1 DEF StartProducers, StartProducersAt, Goto
<1>14. CASE SetRunning(r)
  BY <1>14, <1>0 DEF SetRunning, Goto
<1>15. CASE StartPeriodicTasks(r)
  BY <1>15, <1>0 DEF StartPeriodicTasks, Goto
<1>16. CASE RunEnds(r)
  BY <1>16, <1>0 DEF RunEnds, Skip, Goto
<1>17. CASE CancelPeriodic(r)
  BY <1>17, <1>0 DEF CancelPeriodic, Goto
<1>18. CASE PeriodicDone(r)
  BY <1>18, <1>0 DEF PeriodicDone, Skip, Goto
<1>19. CASE SetStopping(r)
  BY <1>19, <1>0 DEF SetStopping, Goto
<1>20. CASE StopProducers(r)
  BY <1>20, <1>0 DEF StopProducers, StopProducersAt, Goto
<1>21. CASE Drained(r)
  BY <1>21, <1>0 DEF Drained, Skip, Goto
<1>22. CASE CaptureWorkerSnapshots(r)
  BY <1>22, <1>0 DEF CaptureWorkerSnapshots, Goto
<1>23. CASE StopConsumers(r)
  BY <1>23, <1>0, NumWorkersAssumption DEF StopConsumers, Goto
<1>24. CASE ComputeVerdict(r)
  BY <1>24, <1>0 DEF ComputeVerdict, Goto, Verdicts, Results
<1>25. CASE CleanupRun(r)
  BY <1>25, <1>0 DEF CleanupRun, Goto
<1>26. CASE CloseDone(r)
  <2>1. closes' = [closes EXCEPT ![done[r]] = closes[done[r]] + 1]
    BY <1>26 DEF CloseDone
  <2>2. closes' \in [Runs -> Nat]
    <3> HIDE DEF Runs, TypeOK
    <3>1. closes \in [Runs -> Nat]
      BY DEF TypeOK
    <3>2. \A s \in Runs : closes'[s] \in Nat
      BY <2>1, <3>1
    <3> QED
      BY <2>1, <3>1, <3>2
  <2> QED
    BY <1>26, <1>0, <2>2 DEF CloseDone, Goto
<1> QED
  BY <1>1, <1>2, <1>3, <1>4, <1>5, <1>6, <1>7, <1>8, <1>9, <1>10, <1>11, <1>12, <1>13,
     <1>14, <1>15, <1>16, <1>17, <1>18, <1>19, <1>20, <1>21, <1>22, <1>23, <1>24, <1>25,
     <1>26 DEF RunLoop

(* ... and LoopInv: goroutines are started and ended where it says.        *)
LEMMA LoopLoopInv ==
  ASSUME TypeOK, LoopInv, NEW r \in Runs, RunLoop(r)
  PROVE  LoopInv'
<1> USE DEF TypeOK, LoopInv, Periodic,
            engineVars, channelVars, taskVars, workerVars
<1>1. CASE BuildGroups(r)
  BY <1>1, NumWorkersAssumption DEF BuildGroups, Goto
<1>2. CASE StartConsumers(r)
  BY <1>2, NumWorkersAssumption DEF StartConsumers, Goto
<1>3. CASE StartConsumersFails(r)
  BY <1>3 DEF StartConsumersFails, SetError, Goto
<1>4. CASE ConsumersReady(r)
  BY <1>4 DEF ConsumersReady, Skip, Goto
<1>5. CASE ReadyTimeout(r)
  BY <1>5 DEF ReadyTimeout, SetError, Goto
<1>6. CASE ReadyCheck(r)
  BY <1>6 DEF ReadyCheck, Skip, Goto
<1>7. CASE WarmupStart(r)
  BY <1>7 DEF WarmupStart, StartProducersAt, Goto
<1>8. CASE WarmupSlept(r)
  BY <1>8 DEF WarmupSlept, Skip, Goto
<1>9. CASE WarmupStop(r)
  BY <1>9 DEF WarmupStop, StopProducersAt, Goto
<1>10. CASE WarmupDrained(r)
  BY <1>10 DEF WarmupDrained, Skip, Goto
<1>11. CASE ResetAfterWarmup(r)
  BY <1>11 DEF ResetAfterWarmup, Goto
<1>12. CASE WarmupCheck(r)
  BY <1>12 DEF WarmupCheck, Skip, Goto
<1>13. CASE StartProducers(r)
  BY <1>13 DEF StartProducers, StartProducersAt, Goto
<1>14. CASE SetRunning(r)
  BY <1>14 DEF SetRunning, Goto
<1>15. CASE StartPeriodicTasks(r)
  BY <1>15 DEF StartPeriodicTasks, Goto
<1>16. CASE RunEnds(r)
  BY <1>16 DEF RunEnds, Skip, Goto
<1>17. CASE CancelPeriodic(r)
  BY <1>17 DEF CancelPeriodic, Goto
<1>18. CASE PeriodicDone(r)
  BY <1>18 DEF PeriodicDone, Skip, Goto
<1>19. CASE SetStopping(r)
  BY <1>19 DEF SetStopping, Goto
<1>20. CASE StopProducers(r)
  BY <1>20 DEF StopProducers, StopProducersAt, Goto
<1>21. CASE Drained(r)
  BY <1>21 DEF Drained, Skip, Goto
<1>22. CASE CaptureWorkerSnapshots(r)
  BY <1>22 DEF CaptureWorkerSnapshots, Goto
<1>23. CASE StopConsumers(r)
  BY <1>23 DEF StopConsumers, Goto
<1>24. CASE ComputeVerdict(r)
  BY <1>24 DEF ComputeVerdict, Goto
<1>25. CASE CleanupRun(r)
  BY <1>25 DEF CleanupRun, Goto
<1>26. CASE CloseDone(r)
  BY <1>26 DEF CloseDone, Goto
<1> QED
  BY <1>1, <1>2, <1>3, <1>4, <1>5, <1>6, <1>7, <1>8, <1>9, <1>10, <1>11, <1>12, <1>13,
     <1>14, <1>15, <1>16, <1>17, <1>18, <1>19, <1>20, <1>21, <1>22, <1>23, <1>24, <1>25,
     <1>26 DEF RunLoop

(* ... and RunInv: only the active run's loop writes the engine's fields.  *)
LEMMA LoopRunInv ==
  ASSUME TypeOK, LoopInv, RunInv, OwnInv, NEW r \in Runs, Alive, RunLoop(r)
  PROVE  RunInv'
<1> SUFFICES ASSUME ~ overlapped PROVE RunInv'
  BY DEF RunInv, Alive
<1>0. overlapped' = FALSE
  BY DEF Alive, TypeOK
<1> USE DEF TypeOK, LoopInv, RunInv, Active, Over, Runs, NoRun,
            engineVars, channelVars, taskVars, workerVars
<1>1. CASE BuildGroups(r)
  BY <1>1, <1>0 DEF BuildGroups, Goto
<1>2. CASE StartConsumers(r)
  BY <1>2, <1>0 DEF StartConsumers, Goto
<1>3. CASE StartConsumersFails(r)
  BY <1>3, <1>0 DEF StartConsumersFails, SetError, Goto
<1>4. CASE ConsumersReady(r)
  BY <1>4, <1>0 DEF ConsumersReady, Skip, Goto
<1>5. CASE ReadyTimeout(r)
  BY <1>5, <1>0 DEF ReadyTimeout, SetError, Goto
<1>6. CASE ReadyCheck(r)
  BY <1>6, <1>0 DEF ReadyCheck, Skip, Goto
<1>7. CASE WarmupStart(r)
  BY <1>7, <1>0 DEF WarmupStart, StartProducersAt, Goto
<1>8. CASE WarmupSlept(r)
  BY <1>8, <1>0 DEF WarmupSlept, Skip, Goto
<1>9. CASE WarmupStop(r)
  BY <1>9, <1>0 DEF WarmupStop, StopProducersAt, Goto
<1>10. CASE WarmupDrained(r)
  <2>1. CASE Skip(r, "warmupDrain", "warmupReset")
    BY <2>1, <1>0 DEF Skip, Goto
  <2>2. CASE cancelled[r] /\ Skip(r, "warmupDrain", "warmupCheck")
    BY <2>2, <1>0 DEF Skip, Goto
  <2> QED
    BY <1>10, <2>1, <2>2 DEF WarmupDrained
<1>11. CASE ResetAfterWarmup(r)
  BY <1>11, <1>0 DEF ResetAfterWarmup, Goto
<1>12. CASE WarmupCheck(r)
  BY <1>12, <1>0 DEF WarmupCheck, Skip, Goto
<1>13. CASE StartProducers(r)
  BY <1>13, <1>0 DEF StartProducers, StartProducersAt, Goto
<1>14. CASE SetRunning(r)
  BY <1>14, <1>0 DEF SetRunning, Goto
<1>15. CASE StartPeriodicTasks(r)
  BY <1>15, <1>0 DEF StartPeriodicTasks, Goto
<1>16. CASE RunEnds(r)
  BY <1>16, <1>0 DEF RunEnds, Skip, Goto
<1>17. CASE CancelPeriodic(r)
  BY <1>17, <1>0 DEF CancelPeriodic, Goto
<1>18. CASE PeriodicDone(r)
  BY <1>18, <1>0 DEF PeriodicDone, Skip, Goto
<1>19. CASE SetStopping(r)
  BY <1>19, <1>0 DEF SetStopping, Goto
<1>20. CASE StopProducers(r)
  BY <1>20, <1>0 DEF StopProducers, StopProducersAt, Goto
<1>21. CASE Drained(r)
  BY <1>21, <1>0 DEF Drained, Skip, Goto
<1>22. CASE CaptureWorkerSnapshots(r)
  BY <1>22, <1>0 DEF CaptureWorkerSnapshots, Goto
<1>23. CASE StopConsumers(r)
  BY <1>23, <1>0 DEF StopConsumers, Goto
<1>24. CASE ComputeVerdict(r)
  BY <1>24, <1>0 DEF ComputeVerdict, Goto, OwnInv
<1>25. CASE CleanupRun(r)
  BY <1>25, <1>0 DEF CleanupRun, Goto
<1>26. CASE CloseDone(r)
  BY <1>26, <1>0 DEF CloseDone, Goto
<1> QED
  BY <1>1, <1>2, <1>3, <1>4, <1>5, <1>6, <1>7, <1>8, <1>9, <1>10, <1>11, <1>12, <1>13,
     <1>14, <1>15, <1>16, <1>17, <1>18, <1>19, <1>20, <1>21, <1>22, <1>23, <1>24, <1>25,
     <1>26 DEF RunLoop

(* ... and OwnInv: the groups it finds in the engine are its own.          *)
LEMMA LoopOwnInv ==
  ASSUME TypeOK, LoopInv, RunInv, OwnInv, NEW r \in Runs, Alive, RunLoop(r)
  PROVE  OwnInv'
<1> SUFFICES ASSUME ~ overlapped PROVE OwnInv'
  BY DEF OwnInv, Alive
<1>0. /\ overlapped' = FALSE
      /\ pc[r] \notin {"none", "build", "close", "ended"} => groups = r
      /\ snapshots # NoRun => snapshots \in Runs
      /\ pc[r] \in {"stopConsumers", "verdict"} \/ snapshots # r \/ pc[r] \in Over
  BY DEF Alive, TypeOK, RunInv, OwnInv, Active, Runs, NoRun, Captured
<1> USE DEF TypeOK, OwnInv, Producing, Measure, Shutdown, Captured, Over, Runs, NoRun,
            engineVars, channelVars, taskVars, workerVars
<1>1. CASE BuildGroups(r)
  BY <1>1, <1>0 DEF BuildGroups, Goto
<1>2. CASE StartConsumers(r)
  BY <1>2, <1>0 DEF StartConsumers, Goto
<1>3. CASE StartConsumersFails(r)
  BY <1>3, <1>0 DEF StartConsumersFails, SetError, Goto
<1>4. CASE ConsumersReady(r)
  BY <1>4, <1>0 DEF ConsumersReady, Skip, Goto
<1>5. CASE ReadyTimeout(r)
  BY <1>5, <1>0 DEF ReadyTimeout, SetError, Goto
<1>6. CASE ReadyCheck(r)
  BY <1>6, <1>0 DEF ReadyCheck, Skip, Goto
<1>7. CASE WarmupStart(r)
  BY <1>7, <1>0 DEF WarmupStart, StartProducersAt, Goto
<1>8. CASE WarmupSlept(r)
  BY <1>8, <1>0 DEF WarmupSlept, Skip, Goto
<1>9. CASE WarmupStop(r)
  BY <1>9, <1>0 DEF WarmupStop, StopProducersAt, Goto
<1>10. CASE WarmupDrained(r)
  <2>1. CASE Skip(r, "warmupDrain", "warmupReset")
    BY <2>1, <1>0 DEF Skip, Goto
  <2>2. CASE cancelled[r] /\ Skip(r, "warmupDrain", "warmupCheck")
    BY <2>2, <1>0 DEF Skip, Goto
  <2> QED
    BY <1>10, <2>1, <2>2 DEF WarmupDrained
<1>11. CASE ResetAfterWarmup(r)
  BY <1>11, <1>0 DEF ResetAfterWarmup, Goto
<1>12. CASE WarmupCheck(r)
  BY <1>12, <1>0 DEF WarmupCheck, Skip, Goto
<1>13. CASE StartProducers(r)
  BY <1>13, <1>0 DEF StartProducers, StartProducersAt, Goto
<1>14. CASE SetRunning(r)
  BY <1>14, <1>0 DEF SetRunning, Goto
<1>15. CASE StartPeriodicTasks(r)
  BY <1>15, <1>0 DEF StartPeriodicTasks, Goto
<1>16. CASE RunEnds(r)
  BY <1>16, <1>0 DEF RunEnds, Skip, Goto
<1>17. CASE CancelPeriodic(r)
  BY <1>17, <1>0 DEF CancelPeriodic, Goto
<1>18. CASE PeriodicDone(r)
  BY <1>18, <1>0 DEF PeriodicDone, Skip, Goto
<1>19. CASE SetStopping(r)
  BY <1>19, <1>0 DEF SetStopping, Goto
<1>20. CASE StopProducers(r)
  BY <1>20, <1>0 DEF StopProducers, StopProducersAt, Goto
<1>21. CASE Drained(r)
  BY <1>21, <1>0 DEF Drained, Skip, Goto
<1>22. CASE CaptureWorkerSnapshots(r)
  BY <1>22, <1>0 DEF CaptureWorkerSnapshots, Goto
<1>23. CASE StopConsumers(r)
  BY <1>23, <1>0 DEF StopConsumers, Goto
<1>24. CASE ComputeVerdict(r)
  BY <1>24, <1>0 DEF ComputeVerdict, Goto
<1>25. CASE CleanupRun(r)
  BY <1>25, <1>0 DEF CleanupRun, Goto
<1>26. CASE CloseDone(r)
  BY <1>26, <1>0 DEF CloseDone, Goto
<1> QED
  BY <1>1, <1>2, <1>3, <1>4, <1>5, <1>6, <1>7, <1>8, <1>9, <1>10, <1>11, <1>12, <1>13,
     <1>14, <1>15, <1>16, <1>17, <1>18, <1>19, <1>20, <1>21, <1>22, <1>23, <1>24, <1>25,
     <1>26 DEF RunLoop

(* ... and what the readers of the engine's fields rely on.                *)
LEMMA LoopReaders ==
  ASSUME TypeOK, LoopInv, RunInv, ReportInv, MainInv, NEW r \in Runs, Alive, RunLoop(r)
  PROVE  ReportInv' /\ MainInv'
<1>0. UNCHANGED <<main, awaited, collected, exitCode, report, overlapped>>
  BY DEF Alive, mainVars
<1>1. /\ current' = current
      /\ snapshots' = snapshots \/ (pc[r] = "snapshot" /\ snapshots' = groups)
      /\ verdict' = verdict \/ pc[r] = "verdict"
      /\ \A s \in Runs : pc[s] \in Over => pc'[s] \in Over
  BY LoopEffect
<1>2. ~ overlapped => snapshots' = snapshots \/ snapshots' = current
  BY <1>1 DEF RunInv, Active
<1>3. ReportInv'
  BY <1>0, <1>1, <1>2 DEF ReportInv
<1>4. ~ overlapped /\ collected # NoVerdict => collected.run \in Runs
  BY DEF MainInv, TypeOK, Verdicts, NoRun, Runs
<1>5. ~ overlapped /\ verdict # NoVerdict => verdict' = verdict
  BY <1>1 DEF RunInv, Active, Over
<1>6. Passed(collected) => collected # NoVerdict
  BY DEF Passed, NoVerdict
<1>7. ExitZeroMeansCompletedRun'
  BY <1>0, <1>1, <1>4, <1>6
     DEF MainInv, ExitZeroMeansCompletedRun, Cleanup, Over, Alive
<1> QED
  BY <1>0, <1>1, <1>3, <1>4, <1>5, <1>6, <1>7 DEF MainInv, Passed

-----------------------------------------------------------------------------
(* The goroutines of a run: they only end.                                 *)
LEMMA GoroutinesEnd ==
  ASSUME Inv, NEW r \in Runs, Alive, PeriodicExit(r) \/ ConsumersExit(r)
  PROVE  Inv'
<1>0. /\ UNCHANGED <<env, main, awaited, collected, exitCode, report, overlapped>>
      /\ UNCHANGED <<state, current, groups, snapshots, verdict>>
      /\ UNCHANGED <<pc, next, cancelled, done, closes, producers, warm>>
  BY DEF Alive, mainVars, PeriodicExit, ConsumersExit, engineVars, channelVars, taskVars, workerVars
<1>1. /\ periodic' \in [Runs -> {"none", "running", "cancelled"}]
      /\ \A s \in Runs : periodic'[s] # "none" => periodic[s] # "none"
  BY DEF Inv, TypeOK, PeriodicExit, ConsumersExit, taskVars
<1>2. /\ consumers' \in [Runs -> SUBSET Runs]
      /\ \A s \in Runs : consumers'[s] \subseteq consumers[s]
  BY DEF Inv, TypeOK, PeriodicExit, ConsumersExit, workerVars
<1>3. TypeOK'
  BY <1>0, <1>1, <1>2 DEF Inv, TypeOK
<1>4. LoopInv'
  BY <1>0, <1>1 DEF Inv, LoopInv
<1>5. OwnInv'
  BY <1>0, <1>2 DEF Inv, OwnInv
<1>6. RunInv'
  <2>1. ~ overlapped /\ verdict # NoVerdict => consumers'[current] = {}
    BY <1>2 DEF Inv, TypeOK, RunInv, Runs, NoRun
  <2> QED
    BY <1>0, <2>1 DEF Inv, RunInv, Active
<1>7. ReportInv' /\ MainInv'
  BY <1>0 DEF Inv, ReportInv, MainInv, ExitZeroMeansCompletedRun
<1> QED
  BY <1>3, <1>4, <1>5, <1>6, <1>7 DEF Inv

-----------------------------------------------------------------------------
(* An accepted start: the new run's loop is the only one, unless the start *)
(* overlaps, and a report under way notes it.                              *)
LEMMA StartStep ==
  ASSUME Inv, StartRun, main # "exited",
         UNCHANGED <<awaited, collected, exitCode>>,
         main' = main \/ (main = "boot" /\ main' = "waitForExit")
  PROVE  Inv'
<1>0. /\ Startable /\ current < MaxRuns /\ state' = "starting" /\ current' = current + 1
      /\ pc' = [pc EXCEPT ![current + 1] = "build"]
      /\ overlapped' = (overlapped \/ \E r \in Runs : Active(r))
      /\ report' = [report EXCEPT !.restarted = @ \/ report.at # "idle" \/ report.by = "main"]
      /\ UNCHANGED <<env, groups, cancelled, done, closes>>
      /\ UNCHANGED <<next, periodic, consumers, producers, warm>>
      /\ snapshots' = NoRun /\ verdict' = NoVerdict
  BY DEF StartRun, Launch, channelVars, taskVars, workerVars
<1>1. current + 1 \in Runs /\ current' \in 0 .. MaxRuns
  BY <1>0, MaxRunsAssumption DEF Inv, TypeOK, Runs
<1>2. pc[current + 1] = "none"
  BY <1>1 DEF Inv, LoopInv, TypeOK
<1>3. /\ report' \in Reports
      /\ \A f \in {"at", "by", "workers", "config", "id", "verdict"} : report'[f] = report[f]
      /\ report'.restarted <=> (report.restarted \/ report.at # "idle" \/ report.by = "main")
  BY <1>0 DEF Inv, TypeOK, Reports
<1>4. TypeOK'
  <2>1. pc' \in [Runs -> Locations]
    BY <1>0, <1>1 DEF Inv, TypeOK, Locations, Setup
  <2>2. verdict' \in Verdicts /\ snapshots' \in 0 .. MaxRuns /\ state' \in States
    BY <1>0, MaxRunsAssumption DEF Verdicts, NoVerdict, NoRun, States
  <2>3. overlapped' \in BOOLEAN
    BY <1>0
  <2> QED
    BY <1>0, <1>1, <1>3, <2>1, <2>2, <2>3 DEF Inv, TypeOK
<1>5. LoopInv'
  BY <1>0, <1>1, <1>2 DEF Inv, TypeOK, LoopInv, Periodic, Runs
<1>6. OwnInv'
  BY <1>0, <1>1, <1>2 DEF Inv, TypeOK, OwnInv, Measure, Shutdown, Producing
<1>7. RunInv'
  <2> SUFFICES ASSUME ~ overlapped' PROVE RunInv'
    BY DEF RunInv
  <2>1. ~ overlapped /\ \A r \in Runs : ~ Active(r)
    BY <1>0
  <2>2. \A r \in Runs : r # current + 1 => pc'[r] = pc[r]
    BY <1>0 DEF Inv, TypeOK
  <2>3. pc'[current + 1] = "build"
    BY <1>0, <1>1 DEF Inv, TypeOK
  <2>4. \A r \in Runs : r = current + 1 \/ pc'[r] \in {"none", "close", "ended"}
    BY <2>1, <2>2 DEF Active
  <2>5. ASSUME NEW r \in Runs
        PROVE  /\ Active(r)' => /\ r = current' /\ state' \notin {"idle", "stopped"}
                                /\ pc'[r] # "build" => groups' = r
                                /\ state' = "error" => pc'[r] = "cleanup"
               /\ pc'[r] \in {"close", "ended"} => done'[r] = r
               /\ closes'[r] = IF pc'[r] = "ended" THEN 1 ELSE 0
               /\ pc'[r] \in {"stopConsumers", "verdict"} => snapshots' = r
    BY <1>0, <1>2, <2>1, <2>2, <2>3, <2>4 DEF Inv, RunInv, Active
  <2> QED
    BY <1>0, <2>5 DEF RunInv
<1>8. ReportInv'
  BY <1>3 DEF ReportInv
<1>9. MainInv'
  <2>1. ~ overlapped' => ~ overlapped
    BY <1>0
  <2>2. exitCode' \notin {0, 2}
    BY DEF Inv, MainInv
  <2>3. ~ overlapped /\ collected # NoVerdict => collected.run \in Runs
    BY DEF Inv, MainInv, TypeOK, Verdicts, NoRun, Runs
  <2>4. \A r \in Runs : pc[r] \in Over => pc'[r] \in Over
    BY <1>0, <1>2 DEF Inv, TypeOK, Over
  <2>5. ExitZeroMeansCompletedRun'
    BY <2>2 DEF ExitZeroMeansCompletedRun
  <2>6. main' \in {"report", "exit"} => main \in {"report", "exit"} /\ main' = main
    OBVIOUS
  <2> QED
    BY <1>3, <2>1, <2>2, <2>3, <2>4, <2>5, <2>6 DEF Inv, MainInv
<1> QED
  BY <1>4, <1>5, <1>6, <1>7, <1>8, <1>9 DEF Inv

-----------------------------------------------------------------------------
(* Every other step leaves the engine's fields and the run loops alone,    *)
(* except that it may cancel a context.                                    *)
Reads ==
  /\ UNCHANGED <<env, state, current, groups, snapshots, verdict, overlapped>>
  /\ UNCHANGED <<pc, next, done, closes, consumers, producers, warm, periodic>>
  /\ cancelled' \in [Runs -> BOOLEAN]
  /\ \A r \in Runs : cancelled[r] => cancelled'[r]

(* Such a step keeps what is known of the run loops and the fields.        *)
LEMMA ReadsKeep ==
  ASSUME TypeOK, LoopInv, RunInv, OwnInv, Reads
  PROVE  LoopInv' /\ RunInv' /\ OwnInv'
<1>1. LoopInv'
  BY DEF LoopInv, Reads, TypeOK
<1>2. OwnInv'
  BY DEF OwnInv, Reads, TypeOK
<1>3. RunInv'
  BY DEF RunInv, Reads, Active
<1> QED
  BY <1>1, <1>2, <1>3

(* Cancelling a context, as StopRun and GracefulShutdown do.               *)
LEMMA CancelReads ==
  ASSUME TypeOK, UNCHANGED <<env, engineVars, taskVars, workerVars, overlapped>>,
         UNCHANGED <<pc, done, closes>>,
         cancelled' = [cancelled EXCEPT ![current] = TRUE] \/ UNCHANGED cancelled
  PROVE  Reads
<1>1. cancelled' \in [Runs -> BOOLEAN] /\ \A r \in Runs : cancelled[r] => cancelled'[r]
  BY DEF TypeOK
<1> QED
  BY <1>1 DEF Reads, engineVars, taskVars, workerVars

(* StopRun.                                                                *)
LEMMA StopRunStep ==
  ASSUME Inv, StopRun
  PROVE  Inv'
<1>1. Reads /\ UNCHANGED <<main, awaited, collected, exitCode, report>>
  BY CancelReads DEF Inv, StopRun, mainVars
<1>2. TypeOK'
  BY <1>1 DEF Inv, TypeOK, Reads
<1>3. ReportInv' /\ MainInv'
  BY <1>1 DEF Inv, ReportInv, MainInv, ExitZeroMeansCompletedRun, Reads
<1> QED
  BY <1>1, <1>2, <1>3, ReadsKeep DEF Inv

(* The steps of the main goroutine that start no run.                      *)
LEMMA MainStep ==
  ASSUME Inv, MainLoop, ~ StartRun
  PROVE  Inv'
<1>1. CASE Boot
  <2>1. /\ Reads /\ UNCHANGED <<awaited, collected, report>>
        /\ main' \in {"exited", "waitForExit"} /\ exitCode' \in {1, NoExit}
    BY <1>1 DEF Boot, Reads, Inv, TypeOK, engineVars, loopVars, channelVars, taskVars, workerVars
  <2>2. TypeOK'
    BY <2>1 DEF Inv, TypeOK, Reads, NoExit
  <2>3. ReportInv' /\ MainInv'
    BY <2>1 DEF Inv, ReportInv, MainInv, ExitZeroMeansCompletedRun, Reads, NoExit
  <2> QED
    BY <2>1, <2>2, <2>3, ReadsKeep DEF Inv
<1>2. CASE Signal \/ TerminalStateSeen
  <2>1. /\ Reads /\ UNCHANGED <<collected, exitCode, report>> /\ main = "waitForExit"
        /\ main' \in {"waitDone", "collect"} /\ awaited' = current
    BY <1>2, CancelReads DEF Signal, TerminalStateSeen, GracefulShutdown, Inv
  <2>2. TypeOK'
    BY <2>1 DEF Inv, TypeOK, Reads
  <2>3. ReportInv' /\ MainInv'
    BY <2>1 DEF Inv, ReportInv, MainInv, ExitZeroMeansCompletedRun, Reads
  <2> QED
    BY <2>1, <2>2, <2>3, ReadsKeep DEF Inv
<1>3. CASE ShutdownWaited
  <2>1. /\ Reads /\ UNCHANGED <<awaited, collected, exitCode, report>>
        /\ main = "waitDone" /\ main' = "collect"
    BY <1>3 DEF ShutdownWaited, Reads, Inv, TypeOK, engineVars, loopVars, channelVars, taskVars, workerVars
  <2>2. TypeOK'
    BY <2>1 DEF Inv, TypeOK, Reads
  <2>3. ReportInv' /\ MainInv'
    BY <2>1 DEF Inv, ReportInv, MainInv, ExitZeroMeansCompletedRun, Reads
  <2> QED
    BY <2>1, <2>2, <2>3, ReadsKeep DEF Inv
<1>4. CASE CollectResult
  <2>1. /\ Reads /\ UNCHANGED <<awaited, exitCode>> /\ collected' = verdict
        /\ main = "collect" /\ main' = "report" /\ report' = EmptyReport("main")
    BY <1>4 DEF CollectResult, Reads, Inv, TypeOK, engineVars, loopVars, channelVars, taskVars, workerVars
  <2>2. /\ report' \in Reports /\ report'.at = "snapshots" /\ report'.by = "main"
        /\ ~ report'.restarted
    BY <2>1, MaxRunsAssumption
       DEF EmptyReport, Reports, ReportSteps, Verdicts, NoVerdict, NoRun
  <2>3. TypeOK'
    BY <2>1, <2>2 DEF Inv, TypeOK, Reads
  <2>4. exitCode \notin {0, 2}
    BY <2>1 DEF Inv, MainInv
  <2>5. ReportInv'
    BY <2>2 DEF ReportInv
  <2>6. MainInv'
    BY <2>1, <2>2, <2>4 DEF Inv, RunInv, MainInv, ExitZeroMeansCompletedRun, Reads
  <2> QED
    BY <2>1, <2>3, <2>5, <2>6, ReadsKeep DEF Inv
<1>5. CASE ReportPrinted
  <2>1. /\ Reads /\ UNCHANGED <<awaited, collected, exitCode, report>>
        /\ main = "report" /\ main' = "exit" /\ report.at \in {"idle", "assembled"}
    BY <1>5 DEF ReportPrinted, Reads, Inv, TypeOK, engineVars, loopVars, channelVars, taskVars, workerVars
  <2>2. TypeOK'
    BY <2>1 DEF Inv, TypeOK, Reads
  <2>3. ReportInv' /\ MainInv'
    BY <2>1 DEF Inv, ReportInv, MainInv, ExitZeroMeansCompletedRun, Reads
  <2> QED
    BY <2>1, <2>2, <2>3, ReadsKeep DEF Inv
<1>6. CASE Exit
  <2>1. /\ Reads /\ UNCHANGED <<awaited, collected, report>>
        /\ main = "exit" /\ main' = "exited"
        /\ exitCode' = IF ~ Passed(collected) THEN 1
                       ELSE IF verdict.result = "PASSED_WITH_WARNINGS" THEN 2 ELSE 0
    BY <1>6 DEF Exit, Reads, Inv, TypeOK, engineVars, loopVars, channelVars, taskVars, workerVars
  <2>2. TypeOK'
    BY <2>1 DEF Inv, TypeOK, Reads
  <2>3. ReportInv'
    BY <2>1 DEF Inv, ReportInv, Reads
  <2>4. exitCode' \in {0, 2} => Passed(collected) /\ collected # NoVerdict
    BY <2>1 DEF Passed, NoVerdict
  <2>5. ExitZeroMeansCompletedRun'
    BY <2>1, <2>4 DEF Inv, MainInv, ExitZeroMeansCompletedRun, Reads, Cleanup, Over
  <2>6. MainInv'
    BY <2>1, <2>4, <2>5 DEF Inv, MainInv, Reads, Passed
  <2> QED
    BY <2>1, <2>2, <2>3, <2>6, ReadsKeep DEF Inv
<1> QED
  BY <1>1, <1>2, <1>3, <1>4, <1>5, <1>6 DEF MainLoop

(* The reports a reader begins with have their type.                       *)
LEMMA FreshReports ==
  /\ NoReport \in Reports /\ NoReport.at = "idle" /\ NoReport.by = "client"
  /\ NoReport.restarted = FALSE
  /\ \A w \in 0 .. MaxRuns :
       LET r == [EmptyReport("client") EXCEPT !.at = "config", !.workers = w]
       IN  r \in Reports /\ r.at = "config" /\ r.workers = w
<1> USE MaxRunsAssumption
<1>0. NoRun \in 0 .. MaxRuns /\ NoVerdict \in Verdicts
  BY DEF NoRun, NoVerdict, Verdicts
<1> DEFINE e == EmptyReport("client")
<1>1. e \in Reports /\ e.by = "client" /\ e.restarted = FALSE
  BY <1>0 DEF EmptyReport, Reports, ReportSteps
<1>2. NoReport = [e EXCEPT !.at = "idle"]
  BY DEF NoReport
<1> HIDE DEF e
<1>3. /\ NoReport \in Reports /\ NoReport.at = "idle" /\ NoReport.by = "client"
      /\ NoReport.restarted = FALSE
  BY <1>1, <1>2 DEF Reports, ReportSteps
<1>4. ASSUME NEW w \in 0 .. MaxRuns
      PROVE  LET r == [e EXCEPT !.at = "config", !.workers = w]
             IN  r \in Reports /\ r.at = "config" /\ r.workers = w
  BY <1>1 DEF Reports, ReportSteps
<1> QED
  BY <1>3, <1>4 DEF e

(* The critical sections of a report.                                      *)
LEMMA ReportReads ==
  ASSUME Inv, main # "exited", HandleRunReport \/ AssembleReport
  PROVE  Inv'
<1>0. Reads /\ UNCHANGED <<main, awaited, collected, exitCode>>
  BY DEF HandleRunReport, AssembleReport, ReportSnapshots, ReportConfig, ReportID, ReportVerdict,
         ReportServed, ReportStep, Reads, Inv, TypeOK, mainVars, engineVars, loopVars,
         channelVars, taskVars, workerVars
<1>1. report \in Reports /\ exitCode \notin {0, 2}
  BY DEF Inv, TypeOK, MainInv
<1>2. ~ overlapped /\ Passed(collected) => collected # NoVerdict
  BY DEF Passed, NoVerdict
<1>3. ASSUME report' \in Reports, ReportInv',
             report'.by = report.by, report'.restarted = report.restarted,
             report.at \notin {"idle", "assembled"},
             report'.at = "idle" => report.at = "snapshots" /\ snapshots = NoRun,
             report'.at = "assembled" => report'.verdict = verdict
      PROVE  Inv'
  <2>1. TypeOK'
    BY <1>0, <1>3 DEF Inv, TypeOK, Reads
  <2>2. ~ overlapped /\ verdict # NoVerdict => snapshots # NoRun
    BY DEF Inv, RunInv
  <2>3. main # "exit"
    BY <1>3 DEF Inv, MainInv
  <2>4. ExitZeroMeansCompletedRun'
    BY <1>0, <1>1 DEF ExitZeroMeansCompletedRun
  <2>5. MainInv'
    BY <1>0, <1>1, <1>2, <1>3, <2>2, <2>3, <2>4 DEF Inv, MainInv, Reads, Passed
  <2> QED
    BY <1>0, <1>3, <2>1, <2>5, ReadsKeep DEF Inv
<1>4. ASSUME report' \in Reports, ReportInv', main \notin {"report", "exit"}
      PROVE  Inv'
  <2>1. TypeOK'
    BY <1>0, <1>4 DEF Inv, TypeOK, Reads
  <2>2. ExitZeroMeansCompletedRun'
    BY <1>0, <1>1 DEF ExitZeroMeansCompletedRun
  <2>3. MainInv'
    BY <1>0, <1>1, <1>4, <2>2 DEF Inv, MainInv, Reads
  <2> QED
    BY <1>0, <1>4, <2>1, <2>3, ReadsKeep DEF Inv
<1>5. CASE HandleRunReport
  <2>1. /\ main \notin {"report", "exit"} /\ snapshots # NoRun
        /\ report' = [EmptyReport("client") EXCEPT !.at = "config", !.workers = snapshots]
    BY <1>5 DEF HandleRunReport, ReportStep
  <2>2. /\ report' \in Reports /\ report'.at = "config" /\ report'.workers = snapshots
    BY <2>1, FreshReports DEF Inv, TypeOK
  <2>3. ReportInv'
    BY <1>0, <2>1, <2>2 DEF ReportInv, Inv, RunInv, Reads
  <2> QED
    BY <1>4, <2>1, <2>2, <2>3
<1>6. CASE ReportSnapshots
  <2>1. CASE snapshots = NoRun
    <3>1. report.at = "snapshots" /\ report' = [report EXCEPT !.at = "idle"]
      BY <1>6, <2>1 DEF ReportSnapshots, ReportStep
    <3>2. /\ report' \in Reports /\ report'.at = "idle" /\ report'.by = report.by
          /\ report'.restarted = report.restarted
      BY <1>1, <3>1 DEF Reports, ReportSteps
    <3>3. ReportInv'
      BY <3>2 DEF ReportInv
    <3> QED
      BY <1>3, <2>1, <3>1, <3>2, <3>3
  <2>2. CASE snapshots # NoRun
    <3>1. /\ report.at = "snapshots"
          /\ report' = [report EXCEPT !.at = "config", !.workers = snapshots]
      BY <1>6, <2>2 DEF ReportSnapshots, ReportStep
    <3>2. /\ report' \in Reports /\ report'.at = "config" /\ report'.by = report.by
          /\ report'.restarted = report.restarted /\ report'.workers = snapshots
      BY <1>1, <3>1 DEF Reports, ReportSteps, Inv, TypeOK
    <3>3. ReportInv'
      BY <1>0, <2>2, <3>2 DEF ReportInv, Inv, RunInv, Reads
    <3> QED
      BY <1>3, <3>1, <3>2, <3>3
  <2> QED
    BY <2>1, <2>2
<1>7. CASE ReportConfig
  <2>1. report.at = "config" /\ report' = [report EXCEPT !.at = "id", !.config = current]
    BY <1>7 DEF ReportConfig, ReportStep
  <2>2. /\ report' \in Reports /\ report'.at = "id" /\ report'.by = report.by
        /\ report'.restarted = report.restarted /\ report'.workers = report.workers
        /\ report'.config = current
    BY <1>1, <2>1 DEF Reports, ReportSteps, Inv, TypeOK
  <2>3. ReportInv'
    BY <1>0, <2>1, <2>2 DEF ReportInv, Inv, Reads
  <2> QED
    BY <1>3, <2>1, <2>2, <2>3
<1>8. CASE ReportID
  <2>1. report.at = "id" /\ report' = [report EXCEPT !.at = "verdict", !.id = current]
    BY <1>8 DEF ReportID, ReportStep
  <2>2. /\ report' \in Reports /\ report'.at = "verdict" /\ report'.by = report.by
        /\ report'.restarted = report.restarted /\ report'.workers = report.workers
        /\ report'.config = report.config /\ report'.id = current
    BY <1>1, <2>1 DEF Reports, ReportSteps, Inv, TypeOK
  <2>3. ReportInv'
    BY <1>0, <2>1, <2>2 DEF ReportInv, Inv, Reads
  <2> QED
    BY <1>3, <2>1, <2>2, <2>3
<1>9. CASE ReportVerdict
  <2>1. report.at = "verdict" /\ report' = [report EXCEPT !.at = "assembled", !.verdict = verdict]
    BY <1>9 DEF ReportVerdict, ReportStep
  <2>2. /\ report' \in Reports /\ report'.at = "assembled" /\ report'.by = report.by
        /\ report'.restarted = report.restarted /\ report'.workers = report.workers
        /\ report'.config = report.config /\ report'.id = report.id
        /\ report'.verdict = verdict
    BY <1>1, <2>1 DEF Reports, ReportSteps, Inv, TypeOK
  <2>3. ~ overlapped => verdict.run \in {NoRun, current}
    BY DEF Inv, RunInv, NoVerdict
  <2>4. ReportInv'
    BY <1>0, <2>1, <2>2, <2>3 DEF ReportInv, Inv, Reads
  <2> QED
    BY <1>3, <2>1, <2>2, <2>4
<1>10. CASE ReportServed
  <2>1. report.by = "client" /\ report' = NoReport
    BY <1>10 DEF ReportServed, ReportStep
  <2>2. report' \in Reports /\ report'.at = "idle"
    BY <2>1, FreshReports
  <2>3. ReportInv'
    BY <2>2 DEF ReportInv
  <2>4. main \notin {"report", "exit"}
    BY <2>1 DEF Inv, MainInv
  <2> QED
    BY <1>4, <2>2, <2>3, <2>4
<1> QED
  BY <1>5, <1>6, <1>7, <1>8, <1>9, <1>10 DEF AssembleReport

-----------------------------------------------------------------------------
(* The invariant holds when the process starts.                            *)
LEMMA InitInv == Init => Inv
<1> SUFFICES ASSUME Init PROVE Inv
  OBVIOUS
<1> USE MaxRunsAssumption, NumWorkersAssumption DEF Init
<1>1. report \in Reports /\ report.at = "idle" /\ ~ report.restarted /\ report.by = "client"
  BY FreshReports
<1>2. TypeOK
  <2>1. NoRun \in 0 .. MaxRuns /\ NoVerdict \in Verdicts
    BY DEF NoRun, NoVerdict, Verdicts
  <2>2. 0 \in 0 .. NumWorkers /\ "none" \in Locations
    BY DEF Locations
  <2> QED
    BY <1>1, <2>1, <2>2 DEF TypeOK, States, NoExit
<1>3. LoopInv
  BY DEF LoopInv, NoRun, Runs
<1>4. RunInv /\ OwnInv
  BY DEF RunInv, OwnInv, Active, Measure, Shutdown
<1>5. ReportInv /\ MainInv
  BY <1>1 DEF ReportInv, MainInv, ExitZeroMeansCompletedRun, NoExit
<1> QED
  BY <1>2, <1>3, <1>4, <1>5 DEF Inv

(* Every step of the process preserves the invariant.                      *)
LEMMA NextInv == Inv /\ [Next]_vars => Inv'
<1> SUFFICES ASSUME Inv, [Next]_vars PROVE Inv'
  OBVIOUS
<1>1. CASE MainLoop
  <2>1. CASE StartRun
    <3>1. /\ main # "exited" /\ UNCHANGED <<awaited, collected, exitCode>>
          /\ main' = main \/ (main = "boot" /\ main' = "waitForExit")
      BY <1>1, <2>1 DEF MainLoop, Boot, Signal, TerminalStateSeen, GracefulShutdown, ShutdownWaited,
             CollectResult, ReportPrinted, Exit, StartRun, Launch, Inv, TypeOK, engineVars
    <3> QED
      BY <2>1, <3>1, StartStep
  <2> QED
    BY <1>1, <2>1, MainStep
<1>2. CASE main # "exited" /\ HandleRunStart
  BY <1>2, StartStep DEF HandleRunStart, mainVars
<1>3. CASE main # "exited" /\ StopRun
  BY <1>3, StopRunStep
<1>4. CASE main # "exited" /\ (HandleRunReport \/ AssembleReport)
  BY <1>4, ReportReads
<1>5. ASSUME NEW r \in Runs, Alive, RunLoop(r)
      PROVE  Inv'
  BY <1>5, LoopTypeOK, LoopLoopInv, LoopRunInv, LoopOwnInv, LoopReaders DEF Inv
<1>6. ASSUME NEW r \in Runs, Alive, PeriodicExit(r) \/ ConsumersExit(r)
      PROVE  Inv'
  BY <1>6, GoroutinesEnd
<1>7. CASE UNCHANGED vars
  <2>1. /\ Reads /\ UNCHANGED <<main, awaited, collected, exitCode, report>>
    BY <1>7 DEF vars, Reads, Inv, TypeOK, mainVars, engineVars, loopVars, channelVars, taskVars, workerVars
  <2>2. TypeOK'
    BY <2>1 DEF Inv, TypeOK, Reads
  <2>3. ReportInv' /\ MainInv'
    BY <2>1 DEF Inv, ReportInv, MainInv, ExitZeroMeansCompletedRun, Reads
  <2> QED
    BY <2>1, <2>2, <2>3, ReadsKeep DEF Inv
<1> QED
  BY <1>1, <1>2, <1>3, <1>4, <1>5, <1>6, <1>7 DEF Next, Background, Terminated

(* The inductive invariant holds in every reachable state, for any number  *)
(* of runs and workers.                                                    *)
THEOREM EngineInvariant == Spec => []Inv
BY InitInv, NextInv, PTL DEF Spec

(* The fields, the run loops and the readers keep their types.             *)
THEOREM EngineTypeOK == Spec => []TypeOK
<1>1. Inv => TypeOK
  BY DEF Inv
<1> QED
  BY <1>1, EngineInvariant, PTL

(* Once the state is terminal, the run loop changes neither it nor the     *)
(* results, until the next start is accepted.                              *)
THEOREM EngineTerminalStateIsFinal == Spec => TerminalStateIsFinal
<1>1. ASSUME Inv, [Next]_vars, state \in {"stopped", "error"}, ~ overlapped, current' = current
      PROVE  UNCHANGED <<state, snapshots, verdict>>
  <2>1. CASE MainLoop \/ StopRun \/ HandleRunStart \/ HandleRunReport \/ AssembleReport
    BY <1>1, <2>1
       DEF MainLoop, Boot, Signal, TerminalStateSeen, GracefulShutdown, ShutdownWaited,
           CollectResult, ReportPrinted, Exit, StopRun, HandleRunStart, StartRun, Launch,
           HandleRunReport, AssembleReport, ReportSnapshots, ReportConfig, ReportID,
           ReportVerdict, ReportServed, ReportStep, engineVars, Inv, TypeOK
  <2>2. ASSUME NEW r \in Runs, RunLoop(r)
        PROVE  UNCHANGED <<state, snapshots, verdict>>
    <3>1. pc[r] \in {"none", "cleanup", "close", "ended"}
      BY <1>1 DEF Inv, RunInv, Active
    <3>2. CleanupRun(r) \/ CloseDone(r)
      BY <2>2, <3>1
         DEF RunLoop, BuildGroups, StartConsumers, StartConsumersFails, ConsumersReady, ReadyTimeout,
             ReadyCheck, WarmupStart, WarmupSlept, WarmupStop, WarmupDrained, ResetAfterWarmup,
             WarmupCheck, StartProducers, SetRunning, StartPeriodicTasks, RunEnds, CancelPeriodic,
             PeriodicDone, SetStopping, StopProducers, Drained, CaptureWorkerSnapshots,
             StopConsumers, ComputeVerdict, SetError, Skip, StartProducersAt, StopProducersAt, Goto
    <3> QED
      BY <1>1, <3>2 DEF CleanupRun, CloseDone, engineVars, Inv, RunInv, Active, Goto
  <2>3. ASSUME NEW r \in Runs, PeriodicExit(r) \/ ConsumersExit(r)
        PROVE  UNCHANGED <<state, snapshots, verdict>>
    BY <2>3 DEF PeriodicExit, ConsumersExit, engineVars
  <2>4. CASE UNCHANGED vars
    BY <2>4 DEF vars, engineVars
  <2> QED
    BY <1>1, <2>1, <2>2, <2>3, <2>4 DEF Next, Background, Terminated
<1>2. Inv /\ [Next]_vars =>
        [(state \in {"stopped", "error"} /\ ~ overlapped /\ current' = current) =>
           UNCHANGED <<state, snapshots, verdict>>]_vars
  BY <1>1
<1> QED
  BY <1>2, EngineInvariant, PTL DEF Spec, TerminalStateIsFinal

(* Every run closes its own done channel, once.                            *)
THEOREM EngineDoneClosedOnce == Spec => []DoneClosedOnce
<1>1. Inv => DoneClosedOnce
  BY DEF Inv, RunInv, DoneClosedOnce
<1> QED
  BY <1>1, EngineInvariant, PTL

(* The snapshots and the verdict that are served belong to the current run *)
(* and were taken when its producers, warmup and consumers were over.      *)
THEOREM EngineResultsOfCurrentRun == Spec => []ResultsOfCurrentRun
<1>1. ASSUME Inv
      PROVE  ResultsOfCurrentRun
  <2> SUFFICES ASSUME ~ overlapped
               PROVE  /\ snapshots # NoRun =>
                           snapshots = current /\ producers[current] = 0 /\ ~ warm[current]
                      /\ verdict # NoVerdict =>
                           verdict.run = current /\ consumers[current] = {}
    BY DEF ResultsOfCurrentRun
  <2>1. ASSUME snapshots # NoRun
        PROVE  snapshots = current /\ producers[current] = 0 /\ ~ warm[current]
    <3>1. snapshots = current /\ snapshots \in Runs
      BY <1>1, <2>1 DEF Inv, RunInv, TypeOK, Runs, NoRun
    <3>2. pc[snapshots] \in Captured /\ ~ warm[snapshots]
      BY <1>1, <2>1 DEF Inv, OwnInv
    <3>3. producers[snapshots] = 0
      BY <1>1, <3>1, <3>2 DEF Inv, OwnInv, Producing, Captured, Over
    <3> QED
      BY <3>1, <3>2, <3>3
  <2> QED
    BY <1>1, <2>1 DEF Inv, RunInv
<1> QED
  BY <1>1, EngineInvariant, PTL

(* However a run loop ends, its periodic tasks are over and, unless runs   *)
(* overlapped, so are the producers of its groups.                         *)
THEOREM EngineNothingLeftProducing == Spec => []NothingLeftProducing
<1>1. Inv => NothingLeftProducing
  BY DEF Inv, LoopInv, OwnInv, NothingLeftProducing, Producing, Periodic, Cleanup
<1> QED
  BY <1>1, EngineInvariant, PTL

(* A report is of one run, unless a run was started while it was read.     *)
THEOREM EngineReportOfOneRun == Spec => []ReportOfOneRun
<1>1. Inv => ReportOfOneRun
  BY DEF Inv, ReportInv, ReportOfOneRun
<1> QED
  BY <1>1, EngineInvariant, PTL

(* Success means that a run loop ran to the end, and that the printed      *)
(* report has the verdict the exit code was made of.                       *)
THEOREM EngineExitZero == Spec => []ExitZeroMeansCompletedRun
<1>1. Inv => ExitZeroMeansCompletedRun
  BY DEF Inv, MainInv
<1> QED
  BY <1>1, EngineInvariant, PTL

(* Run loops overlap only when a run is started in state "error".          *)
THEOREM EngineOverlapNeedsError == Spec => OverlapNeedsError
<1>1. ASSUME Inv, [Next]_vars, overlapped', ~ overlapped
      PROVE  state = "error"
  <2>1. StartRun
    BY <1>1 DEF Next, MainLoop, Boot, Signal, TerminalStateSeen, GracefulShutdown, ShutdownWaited,
           CollectResult, ReportPrinted, Exit, HandleRunStart, StopRun, HandleRunReport,
           AssembleReport, ReportSnapshots, ReportConfig, ReportID, ReportVerdict, ReportServed,
           ReportStep, Background, Alive, Terminated, vars
  <2>2. Startable /\ \E r \in Runs : Active(r)
    BY <1>1, <2>1 DEF StartRun, Launch
  <2> QED
    BY <1>1, <2>2 DEF Inv, RunInv, Startable
<1>2. Inv /\ [Next]_vars => [overlapped' /\ ~ overlapped => state = "error"]_vars
  BY <1>1
<1> QED
  BY <1>2, EngineInvariant, PTL DEF Spec, OverlapNeedsError

-----------------------------------------------------------------------------
(***************************************************************************)
(* The configuration of a run, for any files, environments and requests.   *)
(***************************************************************************)

(* No field is in two blocks.                                              *)
LEMMA BlocksDisjoint ==
  ASSUME NEW a \in Blocks, NEW b \in Blocks, NEW f \in Block[a], f \in Block[b]
  PROVE  a = b
BY DEF Blocks, Block, Enabled, Numbers, Workers

(* Every duration and every field that Validate looks at is a field.       *)
LEMMA FieldSets ==
  /\ Durations \subseteq Fields /\ Overlaid \subseteq Fields
  /\ {"address"} \cup Block.workers \subseteq Fields
<1>1. \A b \in Blocks : Block[b] \subseteq Overlaid
  BY DEF Overlaid
<1>2. /\ "duration" \in Blocks /\ "workers" \in Blocks /\ "thresholds" \in Blocks
      /\ "forced_disconnect" \in Blocks
      /\ "duration" \in Block["duration"] /\ "max_duration" \in Block["thresholds"]
      /\ {"interval", "disconnect_duration"} \subseteq Block["forced_disconnect"]
      /\ Block.workers = Block["workers"]
  BY DEF Blocks, Block
<1> QED
  BY <1>1, <1>2 DEF Durations, Fields, Rest

(* Zero and Off are values of their own.                                   *)
LEMMA ValueFacts ==
  Zero \in Values /\ Off \in Values /\ Zero # Off /\ Default \in Values
BY DefaultAssumption DEF Values, Zero, Off

(* Whatever is merged into a configuration gives one.                      *)
LEMMA MergeFacts ==
  ASSUME NEW c \in Configs, NEW given, \A f \in DOMAIN given : given[f] \in Values
  PROVE  /\ Merge(c, given) \in Configs
         /\ Merge(c, given).parsed = c.parsed
         /\ \A f \in Fields :
              Merge(c, given).field[f] = IF f \in DOMAIN given THEN given[f] ELSE c.field[f]
BY DEF Merge, Configs

(* A configuration goes by the durations it states.                        *)
Stated(c) == \A d \in Durations : c.parsed[d] = Meaning(c.field[d])

(* Parsing leaves the fields, and what had no durations before states its  *)
(* own: the texts that are not parsed stand for the zero that is there.    *)
LEMMA ParseFacts ==
  ASSUME NEW c \in Configs, c.parsed = NoConfig.parsed
  PROVE  /\ parseDurations(c) \in Configs /\ parseDurations(c).field = c.field
         /\ Stated(parseDurations(c))
<1>1. \A d \in Durations : c.field[d] \in Values /\ c.parsed[d] = Zero
  BY FieldSets DEF Configs, NoConfig
<1> DEFINE p == [d \in Durations |->
                   IF Unparsed(d, c.field[d]) THEN c.parsed[d]
                   ELSE IF c.field[d] = Off THEN Zero ELSE c.field[d]]
<1>2. parseDurations(c) = [c EXCEPT !.parsed = p]
  BY DEF parseDurations
<1>3. p \in [Durations -> Values]
  BY <1>1, ValueFacts
<1>4. \A d \in Durations : p[d] = Meaning(c.field[d])
  BY <1>1, ValueFacts DEF Unparsed, Meaning
<1> HIDE DEF p
<1>5. /\ parseDurations(c) \in Configs /\ parseDurations(c).field = c.field
      /\ parseDurations(c).parsed = p
  BY <1>2, <1>3 DEF Configs
<1> QED
  BY <1>4, <1>5 DEF Stated

(* A configuration before anything is loaded, and the defaults.            *)
LEMMA DefaultFacts ==
  /\ NoConfig \in Configs
  /\ DefaultConfig \in Configs /\ DefaultConfig.parsed = NoConfig.parsed
<1>1. NoConfig \in Configs
  BY ValueFacts DEF NoConfig, Configs
<1> QED
  BY <1>1, ValueFacts DEF DefaultConfig, Configs

(* What the overlay of a request says of a field, and of which fields it   *)
(* says nothing: those of the blocks that were not given.                  *)
LEMMA OverlayFacts ==
  ASSUME NEW body \in Bodies
  PROVE  LET rc == Decode(body)
         IN  /\ Given(rc) \subseteq Blocks
             /\ \A f \in DOMAIN Overlay(rc) : Overlay(rc)[f] \in Values
             /\ \A b \in Blocks \ Given(rc) : Block[b] \cap DOMAIN Overlay(rc) = {}
<1> DEFINE rc == Decode(body)
<1>1. /\ Given(rc) \subseteq DOMAIN rc /\ DOMAIN rc \subseteq Blocks
      /\ \A b \in DOMAIN rc : \A f \in Block[b] : rc[b][f] \in Values
  BY BodiesAssumption, ValueFacts DEF Decode, Given
<1> HIDE DEF rc
<1>2. /\ DOMAIN Overlay(rc) = UNION {Block[b] : b \in Given(rc)}
      /\ \A f \in DOMAIN Overlay(rc) : Overlay(rc)[f] = rc[BlockOf(f)][f]
  BY DEF Overlay
<1>3. ASSUME NEW b \in Given(rc), NEW f \in Block[b]
      PROVE  BlockOf(f) = b
  <2>1. BlockOf(f) \in Blocks /\ f \in Block[BlockOf(f)]
    BY <1>1 DEF BlockOf
  <2> QED
    BY <1>1, <2>1, BlocksDisjoint
<1>4. ASSUME NEW f \in DOMAIN Overlay(rc)
      PROVE  Overlay(rc)[f] \in Values
  <2>1. PICK b \in Given(rc) : f \in Block[b]
    BY <1>2
  <2> QED
    BY <1>1, <1>2, <1>3, <2>1
<1>5. ASSUME NEW b \in Blocks \ Given(rc), NEW f \in Block[b], f \in DOMAIN Overlay(rc)
      PROVE  FALSE
  <2>1. PICK a \in Given(rc) : f \in Block[a]
    BY <1>2, <1>5
  <2> QED
    BY <1>1, <2>1, BlocksDisjoint
<1> QED
  BY <1>1, <1>4, <1>5 DEF rc

(* What a request makes of the startup configuration.                      *)
LEMMA ConvertFacts ==
  ASSUME NEW base \in Configs, NEW body \in Bodies
  PROVE  LET rc == Decode(body)
             c  == Convert(base, rc)
         IN  /\ c \in Configs /\ Stated(c)
             /\ \A b \in Blocks \ Given(rc) : \A f \in Block[b] : c.field[f] = base.field[f]
<1> DEFINE rc == Decode(body)
           m  == Merge(Copy(base), Overlay(rc))
<1>1. /\ \A f \in DOMAIN Overlay(rc) : Overlay(rc)[f] \in Values
      /\ \A b \in Blocks \ Given(rc) : Block[b] \cap DOMAIN Overlay(rc) = {}
  BY OverlayFacts
<1> HIDE DEF rc
<1>2. Copy(base) \in Configs /\ Copy(base).parsed = NoConfig.parsed /\ Copy(base).field = base.field
  BY DefaultFacts DEF Copy, Configs
<1>3. /\ m \in Configs /\ m.parsed = NoConfig.parsed
      /\ \A f \in Fields :
           m.field[f] = IF f \in DOMAIN Overlay(rc) THEN Overlay(rc)[f] ELSE base.field[f]
  BY <1>1, <1>2, MergeFacts
<1>4. Convert(base, rc) = parseDurations(m)
  BY DEF Convert
<1> HIDE DEF m
<1>5. /\ Convert(base, rc) \in Configs /\ Stated(Convert(base, rc))
      /\ Convert(base, rc).field = m.field
  BY <1>3, <1>4, ParseFacts
<1>6. ASSUME NEW b \in Blocks \ Given(rc), NEW f \in Block[b]
      PROVE  m.field[f] = base.field[f]
  <2>1. f \in Fields
    BY FieldSets DEF Overlaid
  <2> QED
    BY <1>1, <1>3, <2>1
<1> QED
  BY <1>5, <1>6 DEF rc

-----------------------------------------------------------------------------
(* The startup configuration is the one that was loaded, states its        *)
(* durations once it is loaded and is valid once main goes on; the one of  *)
(* a run was validated, and differs from it in the blocks named.           *)
ConfigInv ==
  /\ ConfigTypeOK
  /\ startup = loaded
  /\ phase = "load" => starts = 0
  /\ phase \in {"check", "boot", "waiting"} => Stated(startup)
  /\ phase \in {"boot", "waiting"} => Validate(startup)
  /\ starts > 0 => Stated(runCfg) /\ Validate(runCfg)
  /\ OmittedFallsThrough

(* It holds before anything is loaded.                                     *)
LEMMA ConfigInitInv == ConfigInit => ConfigInv
<1> SUFFICES ASSUME ConfigInit
             PROVE  ConfigInv
  OBVIOUS
<1>1. /\ phase = "load" /\ startup = NoConfig /\ runCfg = NoConfig /\ loaded = NoConfig
      /\ starts = 0 /\ named = {}
  BY DEF ConfigInit
<1>2. busy \in BOOLEAN
  BY DEF ConfigInit
<1>3. ConfigTypeOK
  BY <1>1, <1>2, DefaultFacts, MaxStartsAssumption DEF ConfigTypeOK
<1> QED
  BY <1>1, <1>3 DEF ConfigInv, OmittedFallsThrough

(* A run that is started on a valid configuration that states its          *)
(* durations and takes from startup what the request left out.             *)
LEMMA StartKeeps ==
  ASSUME ConfigInv, NEW c \in Configs, NEW blocks \in SUBSET Blocks, StartRunFromConfig(c, blocks),
         Stated(c), Validate(c),
         \A b \in Blocks \ blocks : \A f \in Block[b] : c.field[f] = startup.field[f],
         phase' \in {phase, "waiting"}, phase \in {"boot", "waiting"}, UNCHANGED <<startup, loaded>>
  PROVE  ConfigInv'
<1>1. starts' = starts + 1 /\ starts \in Nat /\ starts' \in 0 .. MaxStarts
  BY MaxStartsAssumption DEF StartRunFromConfig, ConfigInv, ConfigTypeOK
<1>2. runCfg' = c /\ named' = blocks
  BY DEF StartRunFromConfig
<1>3. busy' \in BOOLEAN
  BY DEF StartRunFromConfig
<1>4. ConfigTypeOK'
  BY <1>1, <1>2, <1>3 DEF ConfigInv, ConfigTypeOK
<1>5. OmittedFallsThrough'
  BY <1>2 DEF ConfigInv, OmittedFallsThrough
<1> QED
  BY <1>2, <1>4, <1>5 DEF ConfigInv

(* Loading, checking, starting and ending keep it.                         *)
LEMMA ConfigNextInv == ConfigInv /\ [ConfigNext]_configVars => ConfigInv'
<1> SUFFICES ASSUME ConfigInv, [ConfigNext]_configVars
             PROVE  ConfigInv'
  OBVIOUS
<1>0. startup \in Configs /\ busy \in BOOLEAN
  BY DEF ConfigInv, ConfigTypeOK
<1>1. ASSUME NEW file \in Files, NEW override \in Overrides, Load(file, override)
      PROVE  ConfigInv'
  <2> DEFINE m == Merge(DefaultConfig, file)
             c == applyEnvOverrides(m, override)
  <2>1. m \in Configs /\ m.parsed = NoConfig.parsed
    BY DefaultFacts, MergeFacts, FilesAssumption
  <2>2. c \in Configs /\ c.parsed = NoConfig.parsed
    <3> HIDE DEF m
    <3> QED
      BY <2>1, MergeFacts, OverridesAssumption DEF applyEnvOverrides
  <2>3. \/ phase' = "check" /\ startup' = parseDurations(c) /\ loaded' = parseDurations(c)
        \/ phase' = "exited" /\ UNCHANGED <<startup, loaded>>
    BY <1>1 DEF Load
  <2> HIDE DEF c
  <2>4. parseDurations(c) \in Configs /\ Stated(parseDurations(c))
    BY <2>2, ParseFacts
  <2>5. phase = "load" /\ UNCHANGED <<runCfg, busy, starts, named>>
    BY <1>1 DEF Load
  <2>6. ConfigTypeOK'
    BY <2>3, <2>4, <2>5 DEF ConfigInv, ConfigTypeOK
  <2>7. starts = 0
    BY <2>5 DEF ConfigInv
  <2> QED
    BY <2>3, <2>4, <2>5, <2>6, <2>7 DEF ConfigInv, OmittedFallsThrough
<1>2. CASE Check
  <2>1. /\ phase = "check" /\ phase' \in {"boot", "exited"}
        /\ phase' = "boot" => Validate(startup)
        /\ UNCHANGED <<startup, runCfg, busy, starts, loaded, named>>
    BY <1>2 DEF Check
  <2>2. ConfigTypeOK' /\ OmittedFallsThrough'
    BY <2>1 DEF ConfigInv, ConfigTypeOK, OmittedFallsThrough
  <2> QED
    BY <2>1, <2>2 DEF ConfigInv
<1>3. CASE AutoRun
  <2>1. CASE StartRunFromConfig(startup, {}) /\ phase' = "waiting"
    BY <1>0, <1>3, <2>1, StartKeeps DEF AutoRun, ConfigInv
  <2>2. CASE phase' = "exited" /\ UNCHANGED <<runCfg, busy, starts, named>>
    <3>1. UNCHANGED <<startup, loaded>>
      BY <1>3 DEF AutoRun
    <3>2. ConfigTypeOK' /\ OmittedFallsThrough'
      BY <2>2, <3>1 DEF ConfigInv, ConfigTypeOK, OmittedFallsThrough
    <3> QED
      BY <2>2, <3>1, <3>2 DEF ConfigInv
  <2> QED
    BY <1>3, <2>1, <2>2 DEF AutoRun
<1>4. CASE NoAutoRun \/ RunOver \/ UNCHANGED configVars
  <2>1. UNCHANGED <<startup, runCfg, starts, loaded, named>>
    BY <1>4 DEF NoAutoRun, RunOver, configVars
  <2>2. phase' = phase \/ (phase = "boot" /\ phase' = "waiting")
    BY <1>4 DEF NoAutoRun, RunOver, configVars
  <2>3. busy' \in BOOLEAN
    BY <1>0, <1>4 DEF NoAutoRun, RunOver, configVars
  <2>4. ConfigTypeOK' /\ OmittedFallsThrough'
    BY <2>1, <2>2, <2>3 DEF ConfigInv, ConfigTypeOK, OmittedFallsThrough
  <2> QED
    BY <2>1, <2>2, <2>4 DEF ConfigInv
<1>5. ASSUME NEW body \in Bodies, StartRunFromRequest(body)
      PROVE  ConfigInv'
  <2> DEFINE rc == Decode(body)
             c  == Convert(startup, rc)
  <2>1. /\ phase \in {"boot", "waiting"} /\ UNCHANGED <<phase, startup, loaded>>
        /\ Accepted(c) /\ StartRunFromConfig(c, Given(rc))
    BY <1>5 DEF StartRunFromRequest
  <2>2. /\ c \in Configs /\ Stated(c)
        /\ \A b \in Blocks \ Given(rc) : \A f \in Block[b] : c.field[f] = startup.field[f]
    BY <1>0, ConvertFacts
  <2>3. Given(rc) \in SUBSET Blocks
    BY OverlayFacts
  <2> HIDE DEF c, rc
  <2>4. Validate(c)
    BY <2>1 DEF Accepted
  <2> QED
    BY <2>1, <2>2, <2>3, <2>4, StartKeeps
<1> QED
  BY <1>1, <1>2, <1>3, <1>4, <1>5 DEF ConfigNext

(* The startup configuration is never overwritten by a request, and that   *)
(* of a run is validated and goes by what it says, for any files,          *)
(* environments and requests.                                              *)
THEOREM ConfigInvariant == ConfigSpec => []ConfigInv
BY ConfigInitInv, ConfigNextInv, PTL DEF ConfigSpec

(* A run goes by the durations its configuration states, and its workers   *)
(* have what they need.                                                    *)
THEOREM ConfigRunsAsStated == ConfigSpec => []RunsAsStated
<1>1. ConfigInv => RunsAsStated
  BY DEF ConfigInv, RunsAsStated, Stated, Validate
<1> QED
  BY <1>1, ConfigInvariant, PTL

(* A block that a request leaves out has the values of the process.        *)
THEOREM ConfigOmittedFallsThrough == ConfigSpec => []OmittedFallsThrough
<1>1. ConfigInv => OmittedFallsThrough
  BY DEF ConfigInv
<1> QED
  BY <1>1, ConfigInvariant, PTL
=============================================================================
