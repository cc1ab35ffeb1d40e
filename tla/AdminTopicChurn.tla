--------------------------- MODULE AdminTopicChurn ---------------------------
(***************************************************************************)
(* The admin_topic_churn worker (burnin/worker/admin_topic_churn.go) over  *)
(* several runs of one process, and the cleanup command between two runs   *)
(* (burnin/cmd/cleanup/main.go).  A cycle creates a topic, describes it,   *)
(* grows it, asks for three partition counts the connector must refuse,    *)
(* and deletes the topic.  The topics outlive the worker: a later run,     *)
(* whose worker counts its cycles from one again, finds what an earlier    *)
(* one left behind under the same name.                                    *)
(*                                                                         *)
(* The connector and the Kafka client are external.  A call is answered,   *)
(* or it is sent again by the client because the first answer was lost, or *)
(* it ends in an error, applied or not.  A call under a cancelled context  *)
(* may also end in that error, applied or not.  A connector that accepts   *)
(* partition counts it should refuse is what the worker is there to find.  *)
(* The error and deleted counters, which no gate of this worker reads, are *)
(* left out.                                                               *)
(***************************************************************************)
EXTENDS Integers, FiniteSets

CONSTANTS
  NameSpace,   \* cycle numbers are taken modulo this in a topic's name: 10000
  Leniencies,  \* sets of refusable partition counts a connector may accept
  MaxCycles,   \* bound: cycles of a run
  MaxRuns,     \* bound: runs
  MaxFaults    \* bound: calls whose answer is lost or an error

ASSUME NameSpaceAssumption == NameSpace \in Nat \ {0}
ASSUME LenienciesAssumption == Leniencies \subseteq SUBSET (Nat \ {0})
ASSUME BoundsAssumption == MaxCycles \in Nat /\ MaxRuns \in Nat /\ MaxFaults \in Nat

Names == 0 .. NameSpace - 1

(* The connector's limit on partitions, and the counts probed: the same, a *)
(* decrease, and one above the limit.                                      *)
PartitionCap == 256
Probes == <<2, 1, 300>>

VARIABLES
  partitions, \* partitions of each topic, 0 where there is none
  lenient,    \* invalid partition counts this connector accepts
  phase,      \* where the engine is with the worker
  cancelled,  \* whether the producers' context is cancelled
  adm,        \* the admin client: "open" or "closed"
  pc,         \* the call runCycle makes next; "idle" between two cycles
  probe,      \* which of the probes
  cycle,      \* w.cycle
  failures,   \* w.adminOpFailures
  rejected,   \* w.adminInvalidRejected
  \* history
  runs,       \* workers built
  faults,     \* faults so far
  forgotten,  \* failures counted by earlier workers or before a reset
  accepted,   \* probes the connector accepted
  masked,     \* accepted probes counted as rejected since the reset
  strays      \* creates and deletes that may have left a topic behind

connectorVars == <<partitions, lenient>>
engineVars    == <<phase, cancelled, adm, runs>>
counterVars   == <<failures, rejected>>
historyVars   == <<forgotten, accepted, masked, strays>>
vars == <<connectorVars, engineVars, pc, probe, cycle, counterVars, faults, historyVars>>

Calls  == {"create", "configs", "metadata", "grow", "probe", "delete"}
Phases == {"ready", "warmup", "warmedUp", "reset", "measure", "stopped", "closed"}

TypeOK ==
  /\ partitions \in [Names -> Nat]
  /\ lenient \in Leniencies
  /\ phase \in Phases
  /\ cancelled \in BOOLEAN
  /\ adm \in {"open", "closed"}
  /\ pc \in Calls \cup {"idle", "ended"}
  /\ probe \in 1 .. 3
  /\ cycle \in Nat /\ failures \in Nat /\ rejected \in Nat
  /\ runs \in Nat /\ faults \in Nat /\ forgotten \in Nat /\ accepted \in Nat
  /\ masked \in Nat /\ strays \in Nat

Init ==
  /\ partitions = [t \in Names |-> 0]
  /\ lenient \in Leniencies
  /\ phase = "ready" /\ cancelled = FALSE /\ adm = "open"
  /\ pc = "ended" /\ probe = 1 /\ cycle = 0
  /\ failures = 0 /\ rejected = 0
  /\ runs = 1 /\ faults = 0 /\ forgotten = 0 /\ accepted = 0 /\ masked = 0 /\ strays = 0

-----------------------------------------------------------------------------
(* Calls to the connector, in transport/ops.go.                            *)

(* The topic of the cycle.                                                 *)
Topic == cycle % NameSpace

(* What the connector makes of a topic's partitions p.  A topic that       *)
(* exists already is left as it is.                                        *)
CreateTopic(p) == IF p = 0 THEN 1 ELSE p

Accepts(p, n) == (n > p /\ n <= PartitionCap) \/ n \in lenient

CreatePartitions(p, n) == IF Accepts(p, n) THEN n ELSE p

(* How a call comes back that makes p partitions of the topic q.           *)
Applied(q)   == partitions' = [partitions EXCEPT ![Topic] = q]
InDoubt(q)   == Applied(q) \/ UNCHANGED partitions
Fault        == faults < MaxFaults /\ faults' = faults + 1
NoFault      == UNCHANGED faults
Answered(q)  == Applied(q) /\ NoFault
Resent(q)    == Applied(q) /\ Fault
Interrupted  == Fault \/ (cancelled /\ NoFault)

-----------------------------------------------------------------------------
(* churnLoop and runCycle.                                                 *)

(* The loop starts a cycle, with a name for its topic.                     *)
BeginCycle ==
  /\ pc = "idle" /\ ~ cancelled /\ cycle < MaxCycles
  /\ cycle' = cycle + 1
  /\ pc' = "create"
  /\ NoFault
  /\ UNCHANGED <<connectorVars, engineVars, probe, counterVars, historyVars>>

(* Mutant: the loop watches the consumers' context, which StopConsumers    *)
(* cancels.                                                                *)
LoopEndsWithConsumers ==
  /\ pc = "idle" /\ adm = "closed"
  /\ pc' = "ended"
  /\ NoFault
  /\ UNCHANGED <<connectorVars, engineVars, probe, cycle, counterVars, historyVars>>

LoopEnds ==
  /\ pc = "idle" /\ cancelled
  /\ pc' = "ended"
  /\ NoFault
  /\ UNCHANGED <<connectorVars, engineVars, probe, cycle, counterVars, historyVars>>

(* A call fails: unless the context is cancelled, that is an admin op      *)
(* failure.  Either way the cycle is over.                                 *)
Fails(next) ==
  /\ failures' = failures + (IF cancelled THEN 0 ELSE 1)
  /\ pc' = next

(* 1) The topic exists, or its creation fails.  A creation that fails      *)
(* registers no deletion.                                                  *)
Create ==
  /\ pc = "create"
  /\ LET q == CreateTopic(partitions[Topic]) IN
     \/ /\ Answered(q) \/ Resent(q)
        /\ pc' = "configs"
        /\ UNCHANGED <<failures, strays>>
     \/ Interrupted /\ InDoubt(q) /\ Fails("idle") /\ strays' = strays + 1
  /\ UNCHANGED <<lenient, engineVars, probe, cycle, rejected, forgotten, accepted, masked>>

(* 2) and 3) Two calls that change nothing.                                *)
Describe(call, next) ==
  /\ pc = call
  /\ LET q == partitions[Topic] IN
     \/ Answered(q) /\ pc' = next /\ UNCHANGED failures
     \/ Interrupted /\ InDoubt(q) /\ Fails("delete")
  /\ UNCHANGED <<lenient, engineVars, probe, cycle, rejected, historyVars>>

DescribeConfigs == Describe("configs", "metadata")

(* Mutant: the deletion is deferred only after the descriptions.           *)
MetadataBeforeDefer ==
  /\ pc = "metadata"
  /\ LET q == partitions[Topic] IN
     \/ Answered(q) /\ pc' = "grow" /\ UNCHANGED failures
     \/ Interrupted /\ InDoubt(q) /\ Fails("idle")
  /\ UNCHANGED <<lenient, engineVars, probe, cycle, rejected, historyVars>>

Metadata == Describe("metadata", "grow")

(* 4) The increase to two partitions.  A connector that sees it twice      *)
(* refuses the second one.                                                 *)
Grow ==
  /\ pc = "grow"
  /\ LET p == partitions[Topic]
         q == CreatePartitions(p, 2)
     IN \/ Answered(q) /\ Accepts(p, 2) /\ pc' = "probe" /\ UNCHANGED failures
        \/ Answered(q) /\ ~ Accepts(p, 2) /\ Fails("delete")
        \/ Resent(q) /\ Accepts(q, 2) /\ pc' = "probe" /\ UNCHANGED failures
        \/ Resent(q) /\ ~ Accepts(q, 2) /\ Fails("delete")
        \/ Interrupted /\ InDoubt(q) /\ Fails("delete")
  /\ probe' = 1
  /\ UNCHANGED <<lenient, engineVars, cycle, rejected, historyVars>>

(* 5) A probe that the connector accepts is a failure; one that ends in    *)
(* any error counts as rejected.                                           *)
Probe ==
  /\ pc = "probe"
  /\ LET p == partitions[Topic]
         n == Probes[probe]
         q == CreatePartitions(p, n)
         a == IF Accepts(p, n) THEN 1 ELSE 0
     IN \/ /\ Answered(q) \/ Resent(q)
           /\ accepted' = accepted + a
           /\ failures' = failures + a
           /\ rejected' = rejected + 1 - a
           /\ UNCHANGED masked
        \/ /\ Interrupted
           /\ \E b \in {0, a} :
                /\ Applied(IF b = 1 THEN q ELSE p)
                /\ accepted' = accepted + b
                /\ masked' = masked + b
           /\ rejected' = rejected + 1
           /\ UNCHANGED failures
  /\ IF probe = 3 THEN pc' = "delete" /\ UNCHANGED probe
                  ELSE probe' = probe + 1 /\ UNCHANGED pc
  /\ UNCHANGED <<lenient, engineVars, cycle, forgotten, strays>>

(* A cancelled context ends the probing before the next one.               *)
ProbingEnds ==
  /\ pc = "probe" /\ cancelled
  /\ pc' = "delete"
  /\ NoFault
  /\ UNCHANGED <<connectorVars, engineVars, probe, cycle, counterVars, historyVars>>

(* Mutant: the deletion runs under the producers' context.                 *)
DeleteWithCancel ==
  /\ pc = "delete"
  /\ pc' = "idle"
  /\ \/ (Answered(0) \/ Resent(0)) /\ UNCHANGED strays
     \/ Interrupted /\ InDoubt(0) /\ strays' = strays + 1
  /\ UNCHANGED <<lenient, engineVars, probe, cycle, counterVars, forgotten, accepted, masked>>

(* The deferred deletion, under a context that is never cancelled.  A      *)
(* topic that is gone already is no error, any other error no failure.     *)
Delete ==
  /\ pc = "delete"
  /\ pc' = "idle"
  /\ \/ (Answered(0) \/ Resent(0)) /\ UNCHANGED strays
     \/ InDoubt(0) /\ Fault /\ strays' = strays + 1
  /\ UNCHANGED <<lenient, engineVars, probe, cycle, counterVars, forgotten, accepted, masked>>

-----------------------------------------------------------------------------
(* The engine's calls.                                                     *)

StartProducers ==
  /\ \/ phase = "ready" /\ phase' = "warmup"
     \/ phase = "reset" /\ phase' = "measure"
  /\ cancelled' = FALSE
  /\ pc' = "idle"
  /\ NoFault
  /\ UNCHANGED <<connectorVars, adm, runs, probe, cycle, counterVars, historyVars>>

(* StopProducers cancels the context ...                                   *)
CancelProducers ==
  /\ phase \in {"warmup", "measure"} /\ ~ cancelled
  /\ cancelled' = TRUE
  /\ NoFault
  /\ UNCHANGED <<connectorVars, phase, adm, runs, pc, probe, cycle, counterVars, historyVars>>

(* ... and returns when the loop has: to the reset, or to the drain of a   *)
(* measurement or of a run that is stopped in its warmup.                  *)
ProducersStopped ==
  /\ cancelled /\ pc = "ended"
  /\ \/ phase = "warmup" /\ phase' \in {"warmedUp", "stopped"}
     \/ phase = "measure" /\ phase' = "stopped"
  /\ NoFault
  /\ UNCHANGED <<connectorVars, cancelled, adm, runs, pc, probe, cycle, counterVars, historyVars>>

ResetAfterWarmup ==
  /\ phase = "warmedUp" /\ phase' = "reset"
  /\ failures' = 0 /\ rejected' = 0
  /\ forgotten' = forgotten + failures
  /\ masked' = 0
  /\ NoFault
  /\ UNCHANGED <<connectorVars, cancelled, adm, runs, pc, probe, cycle, accepted, strays>>

StopConsumers ==
  /\ phase = "stopped" /\ phase' = "closed"
  /\ adm' = "closed"
  /\ NoFault
  /\ UNCHANGED <<connectorVars, cancelled, runs, pc, probe, cycle, counterVars, historyVars>>

(* The next run: a new worker, and Start builds its client.                *)
NewRun ==
  /\ phase = "closed" /\ phase' = "ready"
  /\ runs < MaxRuns /\ runs' = runs + 1
  /\ adm' = "open" /\ cancelled' = FALSE
  /\ cycle' = 0 /\ probe' = 1
  /\ failures' = 0 /\ rejected' = 0
  /\ forgotten' = forgotten + failures
  /\ masked' = 0
  /\ NoFault
  /\ UNCHANGED <<connectorVars, pc, accepted, strays>>

(* The cleanup command between two runs deletes the topics it lists, one   *)
(* by one, and passes over those it cannot delete.                         *)
Cleanup ==
  /\ phase = "closed"
  /\ \E t \in Names :
       partitions[t] # 0 /\ partitions' = [partitions EXCEPT ![t] = 0]
  /\ NoFault
  /\ UNCHANGED <<lenient, engineVars, pc, probe, cycle, counterVars, historyVars>>

-----------------------------------------------------------------------------
Churn == BeginCycle \/ LoopEnds \/ Create \/ DescribeConfigs \/ Metadata \/ Grow \/ Probe
           \/ ProbingEnds \/ Delete

EngineCalls == StartProducers \/ CancelProducers \/ ProducersStopped \/ ResetAfterWarmup
                 \/ StopConsumers \/ NewRun

Terminated == phase = "closed" /\ runs = MaxRuns /\ UNCHANGED vars

Next == Churn \/ EngineCalls \/ Cleanup \/ Terminated

(* The loop is scheduled, and every call comes back.                       *)
Spec == Init /\ [][Next]_vars /\ WF_vars(Churn)

-----------------------------------------------------------------------------
(* Topics that no cycle under way accounts for, and those of them with     *)
(* more than the one partition a new topic has.                            *)
InCycle    == pc \in Calls \ {"create"}
Leftovers  == {t \in Names : partitions[t] # 0 /\ ~ (InCycle /\ t = Topic)}
Grown      == {t \in Names : partitions[t] > 1 /\ ~ (pc \in {"probe", "delete"} /\ t = Topic)}

(* The gate adminOpFailures = 0 is never failed without a cause: over all  *)
(* runs, the failures counted, and the grown topics still to be stumbled   *)
(* over, are no more than the accepted probes and the faults.  Stopping a  *)
(* run wherever it stands and running again is no cause.                   *)
FailuresHaveCauses ==
  forgotten + failures + Cardinality(Grown) <= accepted + faults

(* A topic outlives its cycle only by a creation or a deletion in doubt,   *)
(* one topic each.                                                         *)
LeftoversExplained == Cardinality(Leftovers) <= strays

(* StopProducers returns, wherever in its cycle the loop is.               *)
StopReturns == cancelled ~> (pc = "ended")

-----------------------------------------------------------------------------
(***************************************************************************)
(* What the repository says of the worker and the code does not do.        *)
(***************************************************************************)

(* admin_topic_churn.go:144 "Some other error type on an invalid op: still *)
(* a correct rejection of the bad request (not an accept)".                *)
RejectionIsNoAccept == masked = 0
=============================================================================
