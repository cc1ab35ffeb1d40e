-------------------------- MODULE ConsumerGroupLoss --------------------------
(***************************************************************************)
(* Loss attribution in burnin/worker/consumer_group.go.  Two goroutines    *)
(* fold the tracker's confirmed loss into the group-rebalance-loss counter *)
(* with reconcileGroupLoss, which loads, compares, adds and stores without *)
(* a lock: the rebalance churner on every tick, and the engine's goroutine *)
(* in StopProducers, at the end of the warmup and of the measurement.  The *)
(* engine's goroutine also resets the counters between the two, and reads  *)
(* them after the drain.                                                   *)
(*                                                                         *)
(* The tracker is what SequenceTracker shows it to be for its callers: a   *)
(* confirmed loss that slides raise and late deliveries lower, and the     *)
(* part of it that DetectGaps has reported; of one producer, as in every   *)
(* shipped configuration.                                                  *)
(***************************************************************************)
EXTENDS Integers

CONSTANTS
  NumConsumers, \* w.numConsumers, at least 2
  MaxLoss,      \* bound: sequences the tracker ever confirms as lost
  MaxChurns     \* bound: ticks of the rebalance churner

ASSUME NumConsumersAssumption == NumConsumers \in Nat \ {0, 1}
ASSUME MaxLossAssumption == MaxLoss \in Nat
ASSUME MaxChurnsAssumption == MaxChurns \in Nat

Members     == 0 .. NumConsumers - 1
Reconcilers == {"churner", "engine"}
Phases      == {"warmup", "resetTracker", "resetCounter", "measure", "drain", "snapshot",
                "done"}

VARIABLES
  phase,       \* where the engine's goroutine is with this worker
  lost,        \* w.trk.TotalLost()
  reported,    \* lastReportedLost in the tracker
  attributed,  \* w.attributed
  groupLoss,   \* w.groupLossRebalance
  metric,      \* burnin_messages_lost_total for this worker
  consumerGen, \* w.consumerGen: churn generation of each member
  next,        \* the churner's next member
  pc,          \* where each reconciler is
  seenLost,    \* its local variable lost
  seenPrev,    \* its local variable prev
  \* history
  confirmed,   \* sequences ever confirmed as lost
  churns,      \* ticks so far
  discarded,   \* deltas of DetectGaps that this worker dropped
  wiped,       \* group loss that ResetAfterWarmup zeroed
  late,        \* losses confirmed after the last TotalLost of StopProducers
  measured,    \* losses confirmed since the warmup's reset of the tracker
  peak,        \* the highest TotalLost a reconciliation has acted on
  straddled,   \* whether the churner was reconciling warmup loss at that reset
  raced        \* whether both reconcilers were ever between Load and Store

trackerVars == <<lost, reported, confirmed, late, measured>>
churnVars   == <<consumerGen, next, churns>>
localVars   == <<seenLost, seenPrev>>
countVars   == <<attributed, groupLoss, wiped>>
metricVars  == <<metric, discarded>>
raceVars    == <<straddled, raced, peak>>
vars == <<phase, trackerVars, countVars, metricVars, churnVars, pc, localVars, raceVars>>

TypeOK ==
  /\ phase \in Phases
  /\ lost \in Nat /\ reported \in Nat /\ confirmed \in Nat /\ late \in Nat
  /\ measured \in Nat /\ peak \in Nat
  /\ attributed \in Nat /\ groupLoss \in Nat /\ wiped \in Nat
  /\ metric \in Nat /\ discarded \in Nat /\ churns \in Nat
  /\ consumerGen \in [Members -> Nat]
  /\ next \in Members
  /\ pc \in [Reconcilers -> {"idle", "totalLost", "loadPrev", "add", "store", "finish"}]
  /\ seenLost \in [Reconcilers -> Nat]
  /\ seenPrev \in [Reconcilers -> Nat]
  /\ straddled \in BOOLEAN /\ raced \in BOOLEAN

Init ==
  /\ phase = "warmup"
  /\ lost = 0 /\ reported = 0 /\ confirmed = 0 /\ late = 0
  /\ measured = 0 /\ peak = 0
  /\ attributed = 0 /\ groupLoss = 0 /\ wiped = 0
  /\ metric = 0 /\ discarded = 0
  /\ consumerGen = [m \in Members |-> 0] /\ next = 0 /\ churns = 0
  /\ pc = [c \in Reconcilers |-> "idle"]
  /\ seenLost = [c \in Reconcilers |-> 0]
  /\ seenPrev = [c \in Reconcilers |-> 0]
  /\ straddled = FALSE /\ raced = FALSE

-----------------------------------------------------------------------------
(* Consumer goroutines: Record confirms losses or recovers one.            *)

FinalLoadDone ==
  phase \in {"drain", "snapshot"} \/ (phase = "measure" /\ pc["engine"] \notin {"idle", "totalLost"})

ConfirmLoss ==
  /\ phase # "done"
  /\ \E n \in 1 .. MaxLoss - confirmed :
       /\ lost' = lost + n
       /\ confirmed' = confirmed + n
       /\ late' = IF FinalLoadDone THEN late + n ELSE late
       /\ measured' = IF phase \in {"warmup", "resetTracker"} THEN 0 ELSE measured + n
  /\ UNCHANGED <<phase, reported, countVars, metricVars, churnVars, pc, localVars, raceVars>>

RecoverLoss ==
  /\ phase # "done"
  /\ lost > 0
  /\ lost' = lost - 1
  /\ UNCHANGED <<phase, reported, confirmed, late, measured, countVars, metricVars, churnVars, pc, localVars, raceVars>>

-----------------------------------------------------------------------------
(* Mutant: the difference of two unsigned counters, unguarded (of 16 bits  *)
(* here).                                                                  *)
DeltaWraps == (lost - reported) % 2^16

(* What DetectGaps would return now.                                       *)
Delta == IF lost > reported THEN lost - reported ELSE 0

(* A call of DetectGaps whose result is dropped, before reconcileGroupLoss. *)
DiscardGaps(c) ==
  /\ pc[c] = "idle"
  /\ pc' = [pc EXCEPT ![c] = "totalLost"]
  /\ reported' = lost
  /\ discarded' = discarded + Delta
  /\ UNCHANGED <<phase, lost, confirmed, late, measured, countVars, metric, localVars, raceVars>>

(* A tick of the rebalance churner.                                        *)
ChurnerTick ==
  /\ phase # "done"
  /\ churns < MaxChurns
  /\ churns' = churns + 1
  /\ DiscardGaps("churner")
  /\ UNCHANGED <<consumerGen, next>>

(* StopProducers, once the produce loops have ended.                       *)
StopProducers ==
  /\ phase \in {"warmup", "measure"}
  /\ DiscardGaps("engine")
  /\ UNCHANGED churnVars

(* reconcileGroupLoss, one access to shared state at a time.               *)
ReadTotalLost(c) ==
  /\ pc[c] = "totalLost"
  /\ pc' = [pc EXCEPT ![c] = "loadPrev"]
  /\ seenLost' = [seenLost EXCEPT ![c] = lost]
  /\ UNCHANGED <<phase, trackerVars, countVars, metricVars, churnVars, seenPrev, raceVars>>

(* Mutant: only the first loss is attributed.                              *)
LoadAttributedOnce(c) ==
  /\ pc[c] = "loadPrev"
  /\ seenPrev' = [seenPrev EXCEPT ![c] = attributed]
  /\ pc' = [pc EXCEPT ![c] = IF seenLost[c] > attributed /\ attributed = 0 THEN "add" ELSE "finish"]
  /\ UNCHANGED <<phase, trackerVars, countVars, metricVars, churnVars, seenLost, raceVars>>

Updating(c) == pc[c] \in {"add", "store"}

LoadAttributed(c) ==
  /\ pc[c] = "loadPrev"
  /\ seenPrev' = [seenPrev EXCEPT ![c] = attributed]
  /\ pc' = [pc EXCEPT ![c] = IF seenLost[c] > attributed THEN "add" ELSE "finish"]
  /\ raced' = (raced \/ (seenLost[c] > attributed /\ \E d \in Reconcilers : Updating(d)))
  /\ peak' = IF seenLost[c] > peak THEN seenLost[c] ELSE peak
  /\ UNCHANGED <<phase, trackerVars, countVars, metricVars, churnVars, seenLost, straddled>>

AddGroupLoss(c) ==
  /\ pc[c] = "add"
  /\ pc' = [pc EXCEPT ![c] = "store"]
  /\ groupLoss' = groupLoss + (seenLost[c] - seenPrev[c])
  /\ UNCHANGED <<phase, trackerVars, attributed, wiped, metricVars, churnVars, localVars, raceVars>>

(* Mutant: the new total is not stored.                                    *)
StoreAttributedForgotten(c) ==
  /\ pc[c] = "store"
  /\ pc' = [pc EXCEPT ![c] = "finish"]
  /\ UNCHANGED <<phase, trackerVars, countVars, metricVars, churnVars, localVars, raceVars>>

StoreAttributed(c) ==
  /\ pc[c] = "store"
  /\ pc' = [pc EXCEPT ![c] = "finish"]
  /\ attributed' = seenLost[c]
  /\ UNCHANGED <<phase, trackerVars, groupLoss, wiped, metricVars, churnVars, localVars, raceVars>>

(* The churner then cycles one member's generation ...                     *)
ChurnMember ==
  /\ pc["churner"] = "finish"
  /\ pc' = [pc EXCEPT !["churner"] = "idle"]
  /\ consumerGen' = [consumerGen EXCEPT ![next] = @ + 1]
  /\ next' = (next + 1) % NumConsumers
  /\ UNCHANGED <<phase, trackerVars, countVars, metricVars, churns, localVars, raceVars>>

(* ... and StopProducers returns to warmup or to shutdownWorkers.          *)
ProducersStopped ==
  /\ pc["engine"] = "finish"
  /\ pc' = [pc EXCEPT !["engine"] = "idle"]
  /\ phase' = IF phase = "warmup" THEN "resetTracker" ELSE "drain"
  /\ UNCHANGED <<trackerVars, countVars, metricVars, churnVars, localVars, raceVars>>

-----------------------------------------------------------------------------
(* ResetAfterWarmup: the tracker first, the counter later, attributed      *)
(* never.                                                                  *)
ResetTracker ==
  /\ phase = "resetTracker"
  /\ phase' = "resetCounter"
  /\ lost' = 0
  /\ reported' = 0
  /\ straddled' = (pc["churner"] \in {"loadPrev", "add"})
  /\ UNCHANGED <<confirmed, late, measured, countVars, metricVars, churnVars, pc, localVars>>
  /\ UNCHANGED <<raced, peak>>

(* Mutant: the counter of the group loss is left out of the reset.         *)
ResetCounterForgotten ==
  /\ phase = "resetCounter"
  /\ phase' = "measure"
  /\ UNCHANGED <<trackerVars, countVars, metricVars, churnVars, pc, localVars, raceVars>>

ResetCounter ==
  /\ phase = "resetCounter"
  /\ phase' = "measure"
  /\ groupLoss' = 0
  /\ wiped' = wiped + groupLoss
  /\ UNCHANGED <<trackerVars, attributed, metricVars, churnVars, pc, localVars, raceVars>>

(* DetectGaps as the engine calls it: the delta reaches the metric.        *)
ReportGaps ==
  /\ reported' = lost
  /\ metric' = metric + Delta
  /\ UNCHANGED <<lost, confirmed, late, measured, countVars, discarded, churnVars, pc, localVars, raceVars>>

(* The gapDetector task of the measurement and the polls of the drain.     *)
EngineDetectGaps ==
  /\ phase \in {"measure", "drain"} /\ pc["engine"] = "idle"
  /\ ReportGaps
  /\ UNCHANGED phase

(* The drain is over: the final gap detection ...                          *)
FinalDetectGaps ==
  /\ phase = "drain"
  /\ phase' = "snapshot"
  /\ ReportGaps

(* ... and captureWorkerSnapshots reads the counters.                      *)
Snapshot ==
  /\ phase = "snapshot"
  /\ phase' = "done"
  /\ UNCHANGED <<trackerVars, countVars, metricVars, churnVars, pc, localVars, raceVars>>

Finished == phase = "done" /\ UNCHANGED vars

Reconcile(c) == ReadTotalLost(c) \/ LoadAttributed(c) \/ AddGroupLoss(c) \/ StoreAttributed(c)

Next ==
  \/ ConfirmLoss \/ RecoverLoss
  \/ ChurnerTick \/ ChurnMember
  \/ StopProducers \/ ProducersStopped
  \/ \E c \in Reconcilers : Reconcile(c)
  \/ ResetTracker \/ ResetCounter
  \/ EngineDetectGaps \/ FinalDetectGaps \/ Snapshot
  \/ Finished

Spec == Init /\ [][Next]_vars

-----------------------------------------------------------------------------
(* Everything ever added to the group-rebalance-loss counter.              *)
Counted == groupLoss + wiped

(* What reconcileGroupLoss marks as attributed has been added to the       *)
(* counter, in every interleaving of the churner's call, StopProducers'    *)
(* call and ResetAfterWarmup: a store never runs ahead of its add.         *)
AttributedIsCounted == attributed <= Counted

(* After the final reconciliation of StopProducers no loss the tracker     *)
(* reports is missing from the counter, but what ResetAfterWarmup wiped    *)
(* and what was confirmed after StopProducers read the tracker.            *)
NoSilentLoss == phase \in {"drain", "snapshot", "done"} => lost <= Counted + late

(* Unless two reconciliations overlap, what was counted is the highest     *)
(* loss total a reconciliation has acted on: no loss is counted twice,     *)
(* although the total falls with late deliveries and the reset and rises   *)
(* again.  It is not the sum of the losses: after a fall, the warmup's     *)
(* reset included, losses go uncounted until the total passes that peak.   *)
CountsThePeak ==
  (~ raced /\ \A c \in Reconcilers : ~ Updating(c)) => Counted = peak

(* The counter the gate reads holds no loss of the warmup: it never        *)
(* exceeds what the tracker confirmed since the reset, although the reset  *)
(* zeroes tracker and counter in two steps and attributed not at all,      *)
(* unless two reconciliations overlap or the churner read the warmup's     *)
(* total before the reset and adds it afterwards.                          *)
GroupLossIsMeasured ==
  (phase \in {"measure", "drain", "snapshot", "done"} /\ ~ raced /\ ~ straddled) =>
    groupLoss <= measured

(* DetectGaps hands out differences of a total that late deliveries and    *)
(* the reset lower between two calls, to three callers.  No confirmed loss *)
(* is handed out twice and no difference wraps: the metric, with the       *)
(* differences the churner and StopProducers drop, never exceeds the       *)
(* losses there were.                                                      *)
MetricNeverOvercounts == metric + discarded <= confirmed

-----------------------------------------------------------------------------
(***************************************************************************)
(* The inductive invariant behind them: what each reconciler is about to   *)
(* add or store, in terms of the counter, and what the engine's last read  *)
(* of the tracker means afterwards.                                        *)
(***************************************************************************)
ReconcilersOK ==
  \A c \in Reconcilers :
    /\ Updating(c) => seenLost[c] > seenPrev[c]
    /\ pc[c] = "add" => seenPrev[c] <= Counted
    /\ pc[c] \in {"store", "finish"} => seenLost[c] <= Counted
    /\ seenLost[c] <= confirmed

BoundedByConfirmed == lost <= confirmed /\ attributed <= confirmed

FinalReadOK == FinalLoadDone \/ phase = "done" => lost <= seenLost["engine"] + late

EngineOK ==
  /\ phase \notin {"warmup", "measure"} => pc["engine"] = "idle"
  /\ phase \in {"drain", "snapshot", "done"} => seenLost["engine"] <= Counted

ExactUnlessRaced ==
  ~ raced =>
    /\ \A c \in Reconcilers : Updating(c) => seenPrev[c] = attributed
    /\ \A c, d \in Reconcilers : Updating(c) /\ Updating(d) => c = d
    /\ (\A c \in Reconcilers : pc[c] # "store") => Counted = attributed
    /\ (\A c \in Reconcilers : ~ Updating(c)) => attributed = peak
    /\ \A c \in Reconcilers : Updating(c) => seenLost[c] = peak
    /\ \A c \in Reconcilers : pc[c] = "store" => Counted = seenLost[c]

SinceReset == phase \notin {"warmup", "resetTracker"}

MeasuredOK ==
  /\ SinceReset => lost <= measured
  /\ SinceReset /\ ~ straddled =>
       \A c \in Reconcilers : pc[c] \in {"loadPrev", "add"} => seenLost[c] <= measured

DeltasOK == metric + discarded + Delta <= confirmed

(* reconcileGroupLoss keeps the counter, the attributed total and the      *)
(* locals of its callers consistent.                                       *)
Inv ==
  /\ TypeOK
  /\ AttributedIsCounted
  /\ ReconcilersOK
  /\ BoundedByConfirmed
  /\ FinalReadOK
  /\ EngineOK
  /\ ExactUnlessRaced
  /\ MeasuredOK
  /\ GroupLossIsMeasured
  /\ DeltasOK
=============================================================================
