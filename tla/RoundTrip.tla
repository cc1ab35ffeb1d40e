------------------------------ MODULE RoundTrip ------------------------------
(***************************************************************************)
(* One produce_round_trip worker (burnin/worker/produce_round_trip.go)     *)
(* from Produce to the tracker: its produce loops, the topic, its consume  *)
(* loops, and the engine's calls around the warmup and the measurement.    *)
(* The keyed_ordering and consumer_group workers run the same loops; the   *)
(* per-partition offset check of keyed_ordering is included here.          *)
(*                                                                         *)
(* Topic, group and producer ids do not depend on the run, and w.seq       *)
(* starts again from zero: a record that an earlier run left unread may    *)
(* be in the topic at the start and looks like one of this run.            *)
(*                                                                         *)
(* The produce loops share w.prodCli without a lock and the atomic w.seq.  *)
(* The tracker is the one of SequenceTracker, which this module extends    *)
(* and is shown to implement: only Record, DetectGaps and Reset touch it.  *)
(*                                                                         *)
(* The broker is external.  A produced record is appended to a partition   *)
(* chosen by the client; a failed produce may have appended it or not.  A  *)
(* partition has one owner in the group at a time, who handles its records *)
(* in order; after a reconnection or a rebalance (DisconnectConsumers) the *)
(* owner resumes from the offset that was last committed.  A faulty broker *)
(* may also never deliver a record: that is what the worker is there to    *)
(* detect.  w.received, a plain counter of the deliveries, is left out.    *)
(***************************************************************************)
EXTENDS SequenceTracker, Sequences

CONSTANTS
  Partitions,      \* partitions of the topic
  ProduceFailures, \* whether a produce may fail while the loop is not cancelled
  Leftovers,       \* records an earlier run may have left
  MaxLeftovers,    \* bound: how many of them in a partition
  MaxClients,      \* bound: producer clients built
  MaxRewinds,      \* bound: resumptions from the committed offset
  MaxDrops         \* bound: records the broker never delivers when nothing was left

(* Producers are the indexes of the produce loops, which name their        *)
(* producer ids; MaxSeq bounds the sequence numbers taken and leftovers.   *)
Record == [producer : Producers, seq : 1 .. MaxSeq]

ASSUME BoundsAssumption == {MaxLeftovers, MaxClients, MaxRewinds, MaxDrops} \subseteq Nat
ASSUME ProduceFailuresAssumption == ProduceFailures \in BOOLEAN
ASSUME LeftoversAssumption == Leftovers \subseteq Record

NoClient == 0
NoOffset == -1

VARIABLES
  phase,           \* where the engine is with this worker
  stop,            \* whether the producers' context is cancelled
  \* the produce loops
  pc, mySeq,       \* each loop's place and its local seq
  seq,             \* w.seq
  prodCli,         \* w.prodCli
  clients,         \* producer clients built so far
  open,            \* the ones not closed
  sent,            \* w.sent
  \* the topic and the group
  log,             \* records of each partition, in offset order
  position,        \* next offset its owner handles
  \* the consumer side
  lastOffset,      \* w.lastOffset of keyed_ordering
  orderViolations, \* w.offsetOrderViolations
  duplicated,      \* w.duplicated
  \* history
  dropped,         \* records the broker did not deliver
  warmSeq,         \* w.seq when the warmup ended
  rewinds,         \* resumptions so far
  leftover,        \* how many records of each partition are an earlier run's
  stale            \* whether one of those was tracked after the reset

clientVars   == <<prodCli, clients, open>>
loopVars     == <<pc, mySeq, seq>>
topicVars    == <<log, position, dropped, rewinds, leftover>>
consumerVars == <<lastOffset, orderViolations, duplicated>>
engineVars   == <<phase, stop, warmSeq>>
vars == <<engineVars, loopVars, clientVars, sent, topicVars, consumerVars, trackerVars, stale>>

Phases    == {"warmup", "warmedUp", "resetCounters", "reset", "measure", "drain", "settled", "done"}
Locations == {"top", "connect", "rate", "produce", "close", "clear", "ended"}

LoopTypeOK ==
  /\ phase \in Phases
  /\ stop \in BOOLEAN
  /\ pc \in [Producers -> Locations]
  /\ mySeq \in [Producers -> 0 .. MaxSeq]
  /\ {seq, warmSeq} \subseteq 0 .. MaxSeq
  /\ clients \in 0 .. MaxClients
  /\ prodCli \in 0 .. clients
  /\ open \subseteq 1 .. clients
  /\ sent \in Nat

TopicTypeOK ==
  /\ log \in [Partitions -> Seq(Record)]
  /\ leftover \in [Partitions -> Nat]
  /\ position \in [Partitions -> Nat] /\ lastOffset \in [Partitions -> Int]
  /\ \A k \in Partitions :
       /\ {leftover[k], position[k]} \subseteq 0 .. Len(log[k])
       /\ lastOffset[k] \in NoOffset .. Len(log[k]) - 1
  /\ {orderViolations, duplicated} \subseteq Nat
  /\ dropped \subseteq Record
  /\ rewinds \in 0 .. MaxRewinds
  /\ stale \in BOOLEAN

TypeOK == LoopTypeOK /\ TopicTypeOK /\ TrackerTypeOK

Init ==
  /\ phase = "warmup" /\ stop = FALSE /\ warmSeq = 0
  /\ pc = [i \in Producers |-> "top"] /\ mySeq = [i \in Producers |-> 0]
  /\ seq = 0
  /\ prodCli = NoClient /\ clients = 0 /\ open = {}
  /\ sent = 0
  /\ log \in [Partitions -> UNION {[1 .. n -> Leftovers] : n \in 0 .. MaxLeftovers}]
  /\ leftover = [k \in Partitions |-> Len(log[k])]
  /\ stale = FALSE
  /\ position = [k \in Partitions |-> 0] /\ dropped = {} /\ rewinds = 0
  /\ lastOffset = [k \in Partitions |-> NoOffset]
  /\ orderViolations = 0 /\ duplicated = 0
  /\ TrackerInit

(* The partitions in which an earlier run left a record.                   *)
LeftIn == {k \in Partitions : leftover[k] > 0}

-----------------------------------------------------------------------------
(* produceLoop.                                                            *)

Goto(i, from, to) == pc[i] = from /\ pc' = [pc EXCEPT ![i] = to]

loopLocals == <<mySeq, seq>>
others     == <<topicVars, consumerVars, trackerVars, stale, engineVars>>

LoopTop(i) ==
  /\ Goto(i, "top", IF stop THEN "ended" ELSE IF prodCli = NoClient THEN "connect" ELSE "rate")
  /\ UNCHANGED <<loopLocals, clientVars, sent, others>>

(* NewClient, and the assignment to w.prodCli whatever it holds by now.    *)
Connect(i) ==
  /\ clients < MaxClients
  /\ Goto(i, "connect", "rate")
  /\ clients' = clients + 1
  /\ prodCli' = clients + 1
  /\ open' = open \cup {clients + 1}
  /\ UNCHANGED <<loopLocals, sent, others>>

ConnectFails(i) ==
  /\ Goto(i, "connect", "top")
  /\ UNCHANGED <<loopLocals, clientVars, sent, others>>

(* waitForRate, and the sequence number taken after it.                    *)
TakeSeq(i) ==
  /\ seq < IF LeftIn = {} THEN MaxSeq ELSE MaxSeq - MaxLeftovers
  /\ Goto(i, "rate", "produce")
  /\ seq' = seq + 1
  /\ mySeq' = [mySeq EXCEPT ![i] = seq + 1]
  /\ UNCHANGED <<clientVars, sent, others>>

RateCancelled(i) ==
  /\ stop
  /\ Goto(i, "rate", "ended")
  /\ UNCHANGED <<loopLocals, clientVars, sent, others>>

Append1(i, k) == log' = [log EXCEPT ![k] = Append(@, [producer |-> i, seq |-> mySeq[i]])]

(* ProduceSync with an open client: the record is acknowledged ...         *)
Produced(i) ==
  /\ prodCli \in open
  /\ Goto(i, "produce", "top")
  /\ \E k \in Partitions : Append1(i, k)
  /\ sent' = sent + 1
  /\ UNCHANGED <<loopLocals, clientVars>>
  /\ UNCHANGED <<position, dropped, rewinds, leftover, consumerVars, trackerVars, stale, engineVars>>

(* ... or fails, appended or not; on a closed client it always fails.  The *)
(* loop returns if it was cancelled, otherwise it gives the client up.     *)
ProduceFails(i) ==
  /\ prodCli # NoClient
  /\ ProduceFailures \/ stop \/ prodCli \notin open
  /\ Goto(i, "produce", IF stop THEN "ended" ELSE "close")
  /\ \/ UNCHANGED log
     \/ prodCli \in open /\ \E k \in Partitions : Append1(i, k)
  /\ UNCHANGED <<loopLocals, clientVars, sent>>
  /\ UNCHANGED <<position, dropped, rewinds, leftover, consumerVars, trackerVars, stale, engineVars>>

CloseClient(i) ==
  /\ prodCli # NoClient
  /\ Goto(i, "close", "clear")
  /\ open' = open \ {prodCli}
  /\ UNCHANGED <<loopLocals, prodCli, clients, sent, others>>

ClearClient(i) ==
  /\ Goto(i, "clear", "top")
  /\ prodCli' = NoClient
  /\ UNCHANGED <<loopLocals, clients, open, sent, others>>

ProduceLoop(i) ==
  \/ LoopTop(i) \/ Connect(i) \/ ConnectFails(i)
  \/ TakeSeq(i) \/ RateCancelled(i)
  \/ Produced(i) \/ ProduceFails(i)
  \/ CloseClient(i) \/ ClearClient(i)

-----------------------------------------------------------------------------
(* consumeLoop and handleRecord.                                           *)

(* Mutant: one last offset for the whole topic.                            *)
CheckOffsetGlobal(k, offset) ==
  /\ orderViolations' = IF \E j \in Partitions : offset <= lastOffset[j]
                        THEN orderViolations + 1 ELSE orderViolations
  /\ lastOffset' = [lastOffset EXCEPT ![k] = IF offset > @ THEN offset ELSE @]

(* The per-partition monotonic-offset check.                               *)
CheckOffset(k, offset) ==
  /\ orderViolations' = IF offset <= lastOffset[k] THEN orderViolations + 1 ELSE orderViolations
  /\ lastOffset' = [lastOffset EXCEPT ![k] = IF offset > @ THEN offset ELSE @]

(* recordTracked.                                                          *)
RecordTracked(rec) ==
  LET p == rec.producer
  IN  /\ RecordFirst(p, rec.seq) \/ RecordKnown(p, rec.seq)
      /\ duplicated' =
           IF p \in Known /\ producers'[p].duplicates > producers[p].duplicates
           THEN duplicated + 1 ELSE duplicated

Deliver(k) ==
  /\ phase # "done"
  /\ position[k] < Len(log[k])
  /\ position' = [position EXCEPT ![k] = @ + 1]
  /\ CheckOffset(k, position[k])
  /\ RecordTracked(log[k][position[k] + 1])
  /\ stale' = (stale \/ (position[k] < leftover[k] /\ phase \notin {"warmup", "warmedUp"}))
  /\ UNCHANGED <<log, dropped, rewinds, leftover>>
  /\ UNCHANGED <<loopVars, clientVars, sent, engineVars>>

(* The partition's owner changes or reconnects and resumes from what was   *)
(* committed, anywhere up to its position: auto-commit lags behind.        *)
Resume(k) ==
  /\ phase # "done"
  /\ rewinds < MaxRewinds
  /\ rewinds' = rewinds + 1
  /\ \E offset \in 0 .. position[k] - 1 : position' = [position EXCEPT ![k] = offset]
  /\ UNCHANGED <<log, dropped, leftover, consumerVars, trackerVars, stale>>
  /\ UNCHANGED <<loopVars, clientVars, sent, engineVars>>

(* A broker fault: the next record of a partition is skipped.              *)
Drop(k) ==
  /\ phase # "done"
  /\ LeftIn = {} /\ Cardinality(dropped) < MaxDrops
  /\ position[k] < Len(log[k])
  /\ position' = [position EXCEPT ![k] = @ + 1]
  /\ dropped' = dropped \cup {log[k][position[k] + 1]}
  /\ UNCHANGED <<log, rewinds, leftover, consumerVars, trackerVars, stale>>
  /\ UNCHANGED <<loopVars, clientVars, sent, engineVars>>

Consume(k) == Deliver(k) \/ Resume(k) \/ Drop(k)

-----------------------------------------------------------------------------
(* The engine's calls.                                                     *)

StopProducers ==
  /\ phase \in {"warmup", "measure"}
  /\ ~ stop
  /\ stop' = TRUE
  /\ UNCHANGED <<phase, warmSeq, loopVars, clientVars, sent, topicVars, consumerVars, trackerVars, stale>>

(* producerWG.Wait returns and StopProducers closes the client.            *)
ProducersJoined ==
  /\ phase \in {"warmup", "measure"}
  /\ stop /\ \A i \in Producers : pc[i] = "ended"
  /\ phase' = IF phase = "warmup" THEN "warmedUp" ELSE "drain"
  /\ open' = open \ {prodCli}
  /\ prodCli' = NoClient
  /\ UNCHANGED <<stop, warmSeq, loopVars, clients, sent, topicVars, consumerVars, trackerVars, stale>>

(* Mutant: the counts are zeroed and the watermarks stay.                  *)
ResetTrackerPartial ==
  /\ phase = "warmedUp"
  /\ phase' = "resetCounters"
  /\ producers' = [p \in Known |-> [producers[p] EXCEPT !.received = 0, !.duplicates = 0]]
  /\ UNCHANGED <<warmup, lostMetric, history, stale>>
  /\ UNCHANGED <<stop, warmSeq, loopVars, clientVars, sent, topicVars, consumerVars>>

(* ResetAfterWarmup: the tracker, then the counters.                       *)
ResetTracker ==
  /\ phase = "warmedUp"
  /\ phase' = "resetCounters"
  /\ Reset
  /\ UNCHANGED <<stale, stop, warmSeq, loopVars, clientVars, sent, topicVars, consumerVars>>

ResetCounters ==
  /\ phase = "resetCounters"
  /\ phase' = "reset"
  /\ sent' = 0 /\ duplicated' = 0 /\ orderViolations' = 0
  /\ warmSeq' = seq
  /\ UNCHANGED <<stop, loopVars, clientVars, lastOffset, topicVars, trackerVars, stale>>

StartProducers ==
  /\ phase = "reset"
  /\ phase' = "measure"
  /\ stop' = FALSE
  /\ pc' = [i \in Producers |-> "top"]
  /\ UNCHANGED <<warmSeq, mySeq, seq, clientVars, sent, topicVars, consumerVars, trackerVars, stale>>

(* The gapDetector task and the polls of the drain.                        *)
GapDetector ==
  /\ phase = "drain" \/ (phase = "measure" /\ ~ stop)
  /\ DetectGaps
  /\ UNCHANGED <<stale, engineVars, loopVars, clientVars, sent, topicVars, consumerVars>>

(* The drain ends, by quiescence or by its time limit: the final gap       *)
(* detection ...                                                           *)
FinalDetectGaps ==
  /\ phase = "drain"
  /\ phase' = "settled"
  /\ DetectGaps
  /\ UNCHANGED <<stale, stop, warmSeq, loopVars, clientVars, sent, topicVars, consumerVars>>

(* ... and captureWorkerSnapshots.                                         *)
Snapshot ==
  /\ phase = "settled"
  /\ phase' = "done"
  /\ UNCHANGED <<stop, warmSeq, loopVars, clientVars, sent, topicVars, consumerVars, trackerVars, stale>>

EngineCalls ==
  \/ StopProducers \/ ProducersJoined
  \/ ResetTracker \/ ResetCounters \/ StartProducers
  \/ GapDetector \/ FinalDetectGaps \/ Snapshot

Finished == phase = "done" /\ UNCHANGED vars

Next ==
  \/ \E i \in Producers : ProduceLoop(i)
  \/ \E k \in Partitions : Consume(k)
  \/ EngineCalls
  \/ Finished

Spec == Init /\ [][Next]_vars

-----------------------------------------------------------------------------
(* The sequences of a producer that this run brought to the topic.         *)
Appended(p) == { s \in 1 .. MaxSeq :
                   \E k \in Partitions : \E n \in leftover[k] + 1 .. Len(log[k]) :
                     log[k][n] = [producer |-> p, seq |-> s] }

Quiescent == phase = "done" /\ \A k \in Partitions : position[k] = Len(log[k])

(* What a quiescent worker reports as lost was dropped by the broker or    *)
(* never reached it (a failed produce uses up its sequence number), but    *)
(* for warmup traffic delivered on both sides of the reset, for the        *)
(* sequences that overran the window, and after an earlier run's record.   *)
QuiescentLossExplained ==
  Quiescent =>
    \A p \in Known : \A s \in producers[p].pendingLost :
      \/ [producer |-> p, seq |-> s] \in dropped
      \/ s <= seq /\ s \notin Appended(p)
      \/ s <= warmSeq
      \/ s \in history[p].overran
      \/ stale

(* A record that an earlier run left in the topic carries a sequence       *)
(* number this run has not reached, and a tracker that saw it takes the    *)
(* records up to that number for duplicates and misses their loss.  The    *)
(* warmup absorbs it: a measurement whose leftovers were all read before   *)
(* the reset has no watermark ahead of the numbers taken.                  *)
WarmupAbsorbsLeftovers ==
  (phase \notin {"warmup", "warmedUp"} /\ ~ stale) =>
    \A p \in Known : producers[p].highContiguous <= seq

(* keyed_ordering reports an order violation only after a redelivery: the  *)
(* consumers of several partitions do not disturb each other's check.      *)
OrderViolationMeansRedelivery == orderViolations > 0 => rewinds > 0

(***************************************************************************)
(* What comments of the repository claim and the code does not do.         *)
(***************************************************************************)

(* engine.go:431 "Final gap detection so the sequence trackers' TotalLost  *)
(* is current": when the snapshot of a quiescent worker is taken, a record *)
(* of the measurement that was never delivered, between two records of its *)
(* producer that were, is in the loss count.                               *)
FinalLossIsCurrent ==
  Quiescent /\ rewinds = 0 =>
    \A rec \in dropped :
      LET p == rec.producer
      IN  (/\ p \in Known
           /\ warmSeq < rec.seq /\ history[p].first < rec.seq
           /\ \E s \in history[p].arrived : s > rec.seq)
          => rec.seq \in producers[p].pendingLost

(* worker.go:323 recordTracked "Returns whether it was a duplicate so      *)
(* callers can distinguish a legal at-least-once redelivery": a worker     *)
(* without redeliveries reports no duplicates.                             *)
DuplicateMeansRedelivery == phase = "done" /\ duplicated > 0 => rewinds > 0
=============================================================================
