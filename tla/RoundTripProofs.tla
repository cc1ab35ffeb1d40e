--------------------------- MODULE RoundTripProofs ---------------------------
(***************************************************************************)
(* The produce_round_trip worker implements the sequence tracker, and what *)
(* it reports as lost, duplicated or out of order has a cause, for any     *)
(* number of producers, partitions and records.                            *)
(*                                                                         *)
(* The worker's own invariants answer one question each: SeqInv (which     *)
(* numbers are in the topic), JoinedInv (when the loops have ended),       *)
(* OffsetInv (keyed_ordering's check), ArrivalInv and PassedInv   *)
(* (what the consumers have seen since the reset).  The tracker's own      *)
(* invariant comes from SequenceTrackerProofs, through the refinement.     *)
(***************************************************************************)
EXTENDS RoundTrip, SequenceTrackerProofs

(* The produce loops only use sequence numbers that were taken ...         *)
NumberInv == \A i \in Producers : mySeq[i] <= seq /\ (pc[i] = "produce" => mySeq[i] >= 1)

(* ... and what this run appended to the topic carries one of them.        *)
SeqInv ==
  \A k \in Partitions : \A n \in leftover[k] + 1 .. Len(log[k]) : log[k][n].seq <= seq

(* StopProducers has joined the loops and closed the client everywhere     *)
(* outside warmup and measurement.                                         *)
JoinedInv ==
  phase \notin {"warmup", "measure"} => prodCli = NoClient /\ \A i \in Producers : pc[i] = "ended"

(* As long as no partition was rewound, each one's offsets only grow.      *)
OffsetInv ==
  rewinds = 0 => orderViolations = 0 /\ \A k \in Partitions : lastOffset[k] < position[k]

AfterReset == phase \notin {"warmup", "warmedUp"}

(* After the reset, and until an earlier run's record is tracked, only     *)
(* numbers this run has taken arrive.                                      *)
ArrivalInv ==
  (AfterReset /\ ~ stale) => \A p \in Producers : \A s \in history[p].arrived : s <= seq

(* What the consumers have passed since the reset was tracked or dropped,  *)
(* or belongs to the warmup.                                               *)
WarmBound == IF phase = "resetCounters" THEN seq ELSE warmSeq

PassedInv ==
  AfterReset =>
    \A k \in Partitions : \A n \in leftover[k] + 1 .. position[k] :
      \/ log[k][n] \in dropped
      \/ /\ log[k][n].producer \in Known
         /\ log[k][n].seq \in history[log[k][n].producer].arrived
      \/ log[k][n].seq <= WarmBound

-----------------------------------------------------------------------------
(* A step touches a group of variables only where its action says so.      *)
LEMMA LoopFootprint ==
  ASSUME [Next]_vars
  PROVE  \/ \E i \in Producers : ProduceLoop(i)
         \/ ProducersJoined \/ StartProducers
         \/ UNCHANGED <<loopVars, clientVars>>
BY DEF Next, ProduceLoop, LoopTop, Connect, ConnectFails, TakeSeq, RateCancelled, Produced,
         ProduceFails, CloseClient, ClearClient, Consume, Deliver, Resume, Drop, EngineCalls,
         StopProducers, ProducersJoined, ResetTracker, ResetCounters, StartProducers, GapDetector,
         FinalDetectGaps, Snapshot, Finished, Goto, loopLocals, others, vars, engineVars,
         loopVars, clientVars, topicVars, consumerVars, trackerVars

(* The position and the offset check belong to the consumer and the reset. *)
LEMMA ConsumerFootprint ==
  ASSUME [Next]_vars
  PROVE  \/ \E k \in Partitions : Consume(k)
         \/ ResetCounters
         \/ UNCHANGED <<position, dropped, rewinds, leftover, lastOffset, orderViolations>>
BY DEF Next, ProduceLoop, LoopTop, Connect, ConnectFails, TakeSeq, RateCancelled, Produced,
         ProduceFails, CloseClient, ClearClient, Consume, Deliver, Resume, Drop, EngineCalls,
         StopProducers, ProducersJoined, ResetTracker, ResetCounters, StartProducers, GapDetector,
         FinalDetectGaps, Snapshot, Finished, Goto, loopLocals, others, vars, engineVars,
         loopVars, clientVars, topicVars, consumerVars, trackerVars

(* Only a produce changes the topic.                                       *)
LEMMA TopicFootprint ==
  ASSUME [Next]_vars
  PROVE  \/ \E i \in Producers : Produced(i) \/ ProduceFails(i)
         \/ UNCHANGED log
BY DEF Next, ProduceLoop, LoopTop, Connect, ConnectFails, TakeSeq, RateCancelled, Produced,
         ProduceFails, CloseClient, ClearClient, Consume, Deliver, Resume, Drop, EngineCalls,
         StopProducers, ProducersJoined, ResetTracker, ResetCounters, StartProducers, GapDetector,
         FinalDetectGaps, Snapshot, Finished, Goto, loopLocals, others, vars, engineVars,
         loopVars, clientVars, topicVars, consumerVars, trackerVars

(* The tracker is changed by deliveries, the reset and the gap detection.  *)
LEMMA TrackerFootprint ==
  ASSUME [Next]_vars
  PROVE  \/ \E k \in Partitions : Deliver(k)
         \/ ResetTracker
         \/ /\ GapDetector \/ FinalDetectGaps
            /\ UNCHANGED <<history, Known, stale>>
         \/ UNCHANGED <<trackerVars, stale>>
BY DEF Next, ProduceLoop, LoopTop, Connect, ConnectFails, TakeSeq, RateCancelled, Produced,
         ProduceFails, CloseClient, ClearClient, Consume, Deliver, Resume, Drop, EngineCalls,
         StopProducers, ProducersJoined, ResetTracker, ResetCounters, StartProducers, GapDetector,
         FinalDetectGaps, Snapshot, Finished, Goto, loopLocals, others, vars, engineVars,
         loopVars, clientVars, topicVars, consumerVars, trackerVars, DetectGaps, Known

-----------------------------------------------------------------------------
(* A sequence number taken is within the bound.                            *)
LEMMA TakenWithinBound ==
  ASSUME LoopTypeOK, NEW i \in Producers, TakeSeq(i)
  PROVE  seq + 1 \in 1 .. MaxSeq
BY MaxSeqAssumption, BoundsAssumption DEF TakeSeq, LoopTypeOK

(* Every step of the produce loops keeps their types and their numbers.    *)
LEMMA LoopTypes ==
  ASSUME LoopTypeOK, NumberInv, NEW i \in Producers, ProduceLoop(i)
  PROVE  LoopTypeOK' /\ NumberInv'
<1> USE MaxSeqAssumption, BoundsAssumption
<1> USE DEF LoopTypeOK, NumberInv, Goto, loopLocals, others, engineVars, loopVars, clientVars,
            Locations, NoClient
<1>1. CASE LoopTop(i)
  BY <1>1 DEF LoopTop
<1>2. CASE Connect(i)
  BY <1>2 DEF Connect
<1>3. CASE ConnectFails(i)
  BY <1>3 DEF ConnectFails
<1>4. CASE TakeSeq(i)
  <2>1. seq + 1 \in 1 .. MaxSeq
    BY <1>4, TakenWithinBound
  <2> QED
    BY <1>4, <2>1 DEF TakeSeq
<1>5. CASE RateCancelled(i)
  BY <1>5 DEF RateCancelled
<1>6. CASE Produced(i)
  BY <1>6 DEF Produced
<1>7. CASE ProduceFails(i)
  BY <1>7 DEF ProduceFails
<1>8. CASE CloseClient(i)
  BY <1>8 DEF CloseClient
<1>9. CASE ClearClient(i)
  BY <1>9 DEF ClearClient
<1> QED
  BY <1>1, <1>2, <1>3, <1>4, <1>5, <1>6, <1>7, <1>8, <1>9 DEF ProduceLoop

(* Every step keeps the types and the numbers of the produce side.         *)
LEMMA LoopStep ==
  ASSUME LoopTypeOK, NumberInv, [Next]_vars
  PROVE  LoopTypeOK' /\ NumberInv'
<1> USE DEF LoopTypeOK, NumberInv, engineVars, loopVars, clientVars, Phases, Locations, NoClient
<1>1. CASE StopProducers
  BY <1>1 DEF StopProducers
<1>2. CASE ProducersJoined
  BY <1>2 DEF ProducersJoined
<1>3. CASE ResetTracker
  BY <1>3 DEF ResetTracker
<1>4. CASE ResetCounters
  BY <1>4 DEF ResetCounters
<1>5. CASE StartProducers
  BY <1>5 DEF StartProducers
<1>6. CASE GapDetector
  BY <1>6 DEF GapDetector
<1>7. CASE FinalDetectGaps
  BY <1>7 DEF FinalDetectGaps
<1>8. CASE Snapshot
  BY <1>8 DEF Snapshot
<1>9. CASE \E k \in Partitions : Consume(k)
  BY <1>9 DEF Consume, Deliver, Resume, Drop
<1>10. CASE UNCHANGED vars
  BY <1>10 DEF vars
<1> QED
  BY <1>1, <1>2, <1>3, <1>4, <1>5, <1>6, <1>7, <1>8, <1>9, <1>10, LoopTypes
     DEF Next, EngineCalls, Finished

-----------------------------------------------------------------------------
(* A produce appends one record, with the number its loop took.            *)
LEMMA AppendFacts ==
  ASSUME LoopTypeOK, NumberInv, TopicTypeOK, NEW i \in Producers, pc[i] = "produce",
         NEW k \in Partitions, Append1(i, k)
  PROVE  /\ log' \in [Partitions -> Seq(Record)]
         /\ \A j \in Partitions : j # k => log'[j] = log[j]
         /\ Len(log[k]) \in Nat /\ Len(log'[k]) = Len(log[k]) + 1
         /\ \A n \in 1 .. Len(log[k]) : log'[k][n] = log[k][n]
         /\ log'[k][Len(log[k]) + 1] = [producer |-> i, seq |-> mySeq[i]]
<1> DEFINE rec == [producer |-> i, seq |-> mySeq[i]]
<1>1. rec \in Record
  BY MaxSeqAssumption DEF LoopTypeOK, NumberInv, Record
<1> HIDE DEF rec
<1>2. /\ log \in [Partitions -> Seq(Record)] /\ log[k] \in Seq(Record)
      /\ log' = [log EXCEPT ![k] = Append(log[k], rec)]
  BY DEF TopicTypeOK, Append1, rec
<1>3. log'[k] = Append(log[k], rec) /\ \A j \in Partitions : j # k => log'[j] = log[j]
  BY <1>2
<1>4. Append(log[k], rec) \in Seq(Record)
  BY <1>1, <1>2
<1>5. /\ Len(log[k]) \in Nat /\ Len(log'[k]) = Len(log[k]) + 1
      /\ \A n \in 1 .. Len(log[k]) : log'[k][n] = log[k][n]
      /\ log'[k][Len(log[k]) + 1] = rec
  BY <1>1, <1>2, <1>3
<1> QED
  BY <1>2, <1>3, <1>4, <1>5 DEF rec

(* The record a consumer is about to handle.                               *)
LEMMA NextRecord ==
  ASSUME TopicTypeOK, NEW k \in Partitions, position[k] < Len(log[k])
  PROVE  /\ position[k] + 1 \in 1 .. Len(log[k]) /\ position[k] \in Nat /\ Len(log[k]) \in Nat
         /\ log[k][position[k] + 1] \in Record
<1>1. log[k] \in Seq(Record) /\ position[k] \in Nat /\ Len(log[k]) \in Nat
  BY DEF TopicTypeOK
<1>2. position[k] + 1 \in 1 .. Len(log[k])
  BY <1>1
<1> QED
  BY <1>1, <1>2

(* The topic and the counters have their types before the warmup.          *)
LEMMA InitTypes == Init => LoopTypeOK /\ NumberInv /\ TopicTypeOK /\ SeqInv
<1> SUFFICES ASSUME Init
             PROVE  LoopTypeOK /\ NumberInv /\ TopicTypeOK /\ SeqInv
  OBVIOUS
<1>1. LoopTypeOK /\ NumberInv
  <2>1. /\ phase = "warmup" /\ warmSeq = 0 /\ seq = 0 /\ sent = 0
        /\ pc = [i \in Producers |-> "top"] /\ mySeq = [i \in Producers |-> 0]
        /\ prodCli = 0 /\ clients = 0 /\ open = {}
    BY DEF Init, NoClient
  <2>2. stop \in BOOLEAN
    BY DEF Init
  <2> QED
    BY <2>1, <2>2, MaxSeqAssumption, BoundsAssumption DEF LoopTypeOK, NumberInv, Phases, Locations
<1>2. /\ log \in [Partitions -> UNION {[1 .. n -> Leftovers] : n \in 0 .. MaxLeftovers}]
      /\ leftover = [k \in Partitions |-> Len(log[k])]
  BY DEF Init
<1>3. ASSUME NEW n \in 0 .. MaxLeftovers, NEW x \in [1 .. n -> Leftovers]
      PROVE  x \in Seq(Record)
  <2>1. x \in [1 .. n -> Record] /\ n \in Nat
    BY BoundsAssumption, LeftoversAssumption
  <2> QED
    BY <2>1
<1>4. log \in [Partitions -> Seq(Record)]
  BY <1>2, <1>3
<1>5. leftover \in [Partitions -> Nat] /\ \A k \in Partitions : leftover[k] = Len(log[k])
  BY <1>2, <1>4
<1>6. TopicTypeOK
  <2>1. /\ position = [k \in Partitions |-> 0] /\ lastOffset = [k \in Partitions |-> -1]
        /\ dropped = {} /\ rewinds = 0
        /\ orderViolations = 0 /\ duplicated = 0
    BY DEF Init, NoOffset
  <2>2. \A k \in Partitions : /\ {leftover[k], position[k]} \subseteq 0 .. Len(log[k])
                              /\ lastOffset[k] \in NoOffset .. Len(log[k]) - 1
    BY <1>5, <2>1 DEF NoOffset
  <2>3. stale \in BOOLEAN
    BY DEF Init
  <2> QED
    BY <1>4, <1>5, <2>1, <2>2, <2>3, BoundsAssumption DEF TopicTypeOK
<1>7. SeqInv
  BY <1>5 DEF SeqInv
<1> QED
  BY <1>1, <1>6, <1>7

(* A produce keeps the types of the topic, and its numbers.                *)
LEMMA AppendStep ==
  ASSUME LoopTypeOK, NumberInv, TopicTypeOK, SeqInv, NEW i \in Producers, pc[i] = "produce",
         NEW k \in Partitions, Append1(i, k), seq' = seq,
         UNCHANGED <<position, dropped, rewinds, leftover, consumerVars, stale>>
  PROVE  TopicTypeOK' /\ SeqInv'
<1>1. /\ log' \in [Partitions -> Seq(Record)]
      /\ \A j \in Partitions : j # k => log'[j] = log[j]
      /\ Len(log[k]) \in Nat /\ Len(log'[k]) = Len(log[k]) + 1
      /\ \A n \in 1 .. Len(log[k]) : log'[k][n] = log[k][n]
      /\ log'[k][Len(log[k]) + 1] = [producer |-> i, seq |-> mySeq[i]]
  BY AppendFacts
<1>2. \A j \in Partitions : /\ {leftover[j], position[j]} \subseteq 0 .. Len(log'[j])
                            /\ lastOffset[j] \in NoOffset .. Len(log'[j]) - 1
  <2> SUFFICES ASSUME NEW j \in Partitions
               PROVE  /\ {leftover[j], position[j]} \subseteq 0 .. Len(log'[j])
                      /\ lastOffset[j] \in NoOffset .. Len(log'[j]) - 1
    OBVIOUS
  <2>1. CASE j = k
    <3>1. /\ {leftover[k], position[k]} \subseteq 0 .. Len(log[k])
          /\ lastOffset[k] \in NoOffset .. Len(log[k]) - 1
      BY DEF TopicTypeOK
    <3> QED
      BY <1>1, <2>1, <3>1 DEF NoOffset
  <2>2. CASE j # k
    BY <1>1, <2>2 DEF TopicTypeOK
  <2> QED
    BY <2>1, <2>2
<1>3. TopicTypeOK'
  BY <1>1, <1>2 DEF TopicTypeOK, consumerVars
<1>4. ASSUME NEW j \in Partitions, NEW n \in leftover[j] + 1 .. Len(log'[j])
      PROVE  log'[j][n].seq <= seq
  <2>1. CASE j # k
    BY <1>1, <1>4, <2>1 DEF SeqInv
  <2>2. CASE j = k /\ n = Len(log[k]) + 1
    BY <1>1, <2>2 DEF NumberInv
  <2>3. CASE j = k /\ n # Len(log[k]) + 1
    <3>1. leftover[k] \in Nat
      BY DEF TopicTypeOK
    <3>2. n \in leftover[k] + 1 .. Len(log[k]) /\ n \in 1 .. Len(log[k])
      BY <1>1, <1>4, <2>3, <3>1
    <3> QED
      BY <1>1, <2>3, <3>2 DEF SeqInv
  <2> QED
    BY <2>1, <2>2, <2>3
<1> QED
  BY <1>3, <1>4 DEF SeqInv

(* The consumers keep the types of the topic and of their counters.        *)
LEMMA ConsumerStep ==
  ASSUME TopicTypeOK, NEW k \in Partitions, Consume(k)
  PROVE  TopicTypeOK'
<1>1. CASE Deliver(k)
  <2>1. /\ position[k] + 1 \in 1 .. Len(log[k]) /\ position[k] \in Nat /\ Len(log[k]) \in Nat
    BY <1>1, NextRecord DEF Deliver
  <2>2. duplicated' \in Nat /\ orderViolations' \in Nat
    BY <1>1 DEF Deliver, RecordTracked, CheckOffset, TopicTypeOK
  <2>3. /\ lastOffset' \in [Partitions -> Int]
        /\ \A j \in Partitions : lastOffset'[j] \in NoOffset .. Len(log[j]) - 1
    <3>1. /\ lastOffset \in [Partitions -> Int]
          /\ \A j \in Partitions : lastOffset[j] \in NoOffset .. Len(log[j]) - 1
      BY DEF TopicTypeOK
    <3>2. \E m \in {position[k], lastOffset[k]} : lastOffset' = [lastOffset EXCEPT ![k] = m]
      BY <1>1, <3>1 DEF Deliver, CheckOffset
    <3> QED
      BY <2>1, <3>1, <3>2 DEF NoOffset
  <2>4. /\ position' \in [Partitions -> Nat]
        /\ \A j \in Partitions : position'[j] \in 0 .. Len(log[j])
    BY <1>1, <2>1 DEF Deliver, TopicTypeOK
  <2>5. stale' \in BOOLEAN /\ UNCHANGED <<log, dropped, rewinds, leftover>>
    BY <1>1 DEF Deliver, TopicTypeOK
  <2> QED
    BY <2>2, <2>3, <2>4, <2>5 DEF TopicTypeOK
<1>2. CASE Resume(k)
  <2>1. PICK offset \in 0 .. position[k] - 1 : position' = [position EXCEPT ![k] = offset]
    BY <1>2 DEF Resume
  <2>2. /\ position' \in [Partitions -> Nat]
        /\ \A j \in Partitions : position'[j] \in 0 .. Len(log[j])
    BY <2>1 DEF TopicTypeOK
  <2>3. rewinds' \in 0 .. MaxRewinds
    BY <1>2, BoundsAssumption DEF Resume, TopicTypeOK
  <2> QED
    BY <1>2, <2>2, <2>3 DEF Resume, TopicTypeOK, consumerVars
<1>3. CASE Drop(k)
  <2>1. /\ position[k] + 1 \in 1 .. Len(log[k]) /\ position[k] \in Nat /\ Len(log[k]) \in Nat
        /\ log[k][position[k] + 1] \in Record
    BY <1>3, NextRecord DEF Drop
  <2>2. /\ position' \in [Partitions -> Nat]
        /\ \A j \in Partitions : position'[j] \in 0 .. Len(log[j])
    BY <1>3, <2>1 DEF Drop, TopicTypeOK
  <2>3. dropped' \subseteq Record
    BY <1>3, <2>1 DEF Drop, TopicTypeOK
  <2> QED
    BY <1>3, <2>2, <2>3 DEF Drop, TopicTypeOK, consumerVars
<1> QED
  BY <1>1, <1>2, <1>3 DEF Consume

(* Every step keeps the types of the topic, and its numbers.               *)
LEMMA TopicStep ==
  ASSUME LoopTypeOK, NumberInv, TopicTypeOK, SeqInv, [Next]_vars
  PROVE  TopicTypeOK' /\ SeqInv'
<1>1. ASSUME NEW i \in Producers, Produced(i) \/ ProduceFails(i)
      PROVE  TopicTypeOK' /\ SeqInv'
  <2>1. /\ pc[i] = "produce" /\ seq' = seq
        /\ UNCHANGED log \/ \E k \in Partitions : Append1(i, k)
        /\ UNCHANGED <<position, dropped, rewinds, leftover, consumerVars, stale>>
    BY <1>1 DEF Produced, ProduceFails, Goto, loopLocals, engineVars
  <2>2. CASE UNCHANGED log
    BY <2>1, <2>2 DEF TopicTypeOK, SeqInv, consumerVars
  <2> QED
    BY <2>1, <2>2, AppendStep
<1>2. ASSUME NEW k \in Partitions, Consume(k)
      PROVE  TopicTypeOK' /\ SeqInv'
  <2>1. UNCHANGED <<log, leftover, seq>>
    BY <1>2 DEF Consume, Deliver, Resume, Drop, loopVars
  <2> QED
    BY <1>2, <2>1, ConsumerStep DEF SeqInv
<1>3. CASE ResetCounters
  BY <1>3 DEF ResetCounters, TopicTypeOK, SeqInv, topicVars, loopVars
<1>4. CASE UNCHANGED <<topicVars, consumerVars, stale>> /\ seq' \in {seq, seq + 1}
  <2>1. TopicTypeOK'
    BY <1>4 DEF TopicTypeOK, topicVars, consumerVars
  <2>2. ASSUME NEW k \in Partitions, NEW n \in leftover[k] + 1 .. Len(log[k])
        PROVE  log[k][n].seq <= seq'
    <3>1. leftover[k] \in Nat /\ log[k] \in Seq(Record) /\ Len(log[k]) \in Nat /\ seq \in Nat
      BY DEF TopicTypeOK, LoopTypeOK
    <3>2. n \in 1 .. Len(log[k])
      BY <2>2, <3>1
    <3>3. log[k][n] \in Record
      BY <3>1, <3>2
    <3>4. log[k][n].seq \in Nat /\ log[k][n].seq <= seq
      BY <2>2, <3>3, MaxSeqAssumption DEF SeqInv, Record
    <3> QED
      BY <1>4, <3>1, <3>4
  <2> QED
    BY <1>4, <2>1, <2>2 DEF SeqInv, topicVars
<1>5. \/ \E i \in Producers : Produced(i) \/ ProduceFails(i)
      \/ \E k \in Partitions : Consume(k)
      \/ ResetCounters
      \/ UNCHANGED <<topicVars, consumerVars, stale>> /\ seq' \in {seq, seq + 1}
  BY DEF Next, ProduceLoop, LoopTop, Connect, ConnectFails, TakeSeq, RateCancelled, Produced,
         ProduceFails, CloseClient, ClearClient, Consume, Deliver, Resume, Drop, EngineCalls,
         StopProducers, ProducersJoined, ResetTracker, ResetCounters, StartProducers, GapDetector,
         FinalDetectGaps, Snapshot, Finished, Goto, loopLocals, others, vars, engineVars,
         loopVars, clientVars, topicVars, consumerVars, trackerVars
<1> QED
  BY <1>1, <1>2, <1>3, <1>4, <1>5

(* The worker's variables keep their types, and what this run brought to   *)
(* the topic only carries numbers that were taken.                         *)
THEOREM RoundTripNumbers == Spec => [](LoopTypeOK /\ NumberInv /\ TopicTypeOK /\ SeqInv)
<1> QED
  BY InitTypes, LoopStep, TopicStep, PTL DEF Spec
-----------------------------------------------------------------------------
(* A delivery gives the tracker a record of the topic, through Record.     *)
LEMMA DeliverRecords ==
  ASSUME TopicTypeOK, NEW k \in Partitions, Deliver(k)
  PROVE  LET rec == log[k][position[k] + 1]
         IN  /\ rec \in Record /\ rec.producer \in Producers /\ rec.seq \in 1 .. MaxSeq
             /\ position[k] + 1 \in 1 .. Len(log[k]) /\ position[k] \in Nat
             /\ RecordFirst(rec.producer, rec.seq) \/ RecordKnown(rec.producer, rec.seq)
<1> DEFINE rec == log[k][position[k] + 1]
<1>1. rec \in Record /\ position[k] + 1 \in 1 .. Len(log[k]) /\ position[k] \in Nat
  BY NextRecord DEF Deliver
<1>2. RecordFirst(rec.producer, rec.seq) \/ RecordKnown(rec.producer, rec.seq)
  BY DEF Deliver, RecordTracked
<1> HIDE DEF rec
<1>3. rec.producer \in Producers /\ rec.seq \in 1 .. MaxSeq
  BY <1>1 DEF Record
<1> QED
  BY <1>1, <1>2, <1>3 DEF rec

(* Every step of the worker is a step of the tracker or leaves it alone.   *)
LEMMA TrackerStep ==
  ASSUME TopicTypeOK, [Next]_vars
  PROVE  [TrackerNext]_trackerVars
<1>1. ASSUME NEW k \in Partitions, Deliver(k)
      PROVE  TrackerNext
  BY <1>1, DeliverRecords DEF TrackerNext
<1>2. CASE ResetTracker
  BY <1>2 DEF ResetTracker, TrackerNext
<1>3. CASE GapDetector \/ FinalDetectGaps
  BY <1>3 DEF GapDetector, FinalDetectGaps, TrackerNext
<1> QED
  BY <1>1, <1>2, <1>3, TrackerFootprint

(* The worker implements SequenceTracker: its goroutines and the engine    *)
(* use the tracker only through Record, DetectGaps and one Reset, on the   *)
(* numbers and producers the tracker expects.                              *)
THEOREM RoundTripImplementsTracker == Spec => TrackerSpec
<1>1. Init => TrackerInit
  BY DEF Init
<1> QED
  BY <1>1, RoundTripNumbers, TrackerStep, PTL DEF Spec, TrackerSpec

(* So the tracker's invariant holds of the worker's tracker ...            *)
THEOREM RoundTripTracker == Spec => []TrackerInv
<1> QED
  BY RoundTripImplementsTracker, TrackerInvariant, PTL

(* ... and every variable of the worker has its type.                      *)
THEOREM RoundTripTypes == Spec => []TypeOK
<1>1. LoopTypeOK /\ TopicTypeOK /\ TrackerInv => TypeOK
  BY DEF TrackerInv, TypeOK
<1> QED
  BY <1>1, RoundTripNumbers, RoundTripTracker, PTL

-----------------------------------------------------------------------------
(* The offset check of keyed_ordering.                                     *)
LEMMA OffsetStep ==
  ASSUME TopicTypeOK, OffsetInv, [Next]_vars
  PROVE  OffsetInv'
<1>1. ASSUME NEW k \in Partitions, Deliver(k)
      PROVE  OffsetInv'
  BY <1>1 DEF OffsetInv, TopicTypeOK, Deliver, CheckOffset, NoOffset
<1>2. ASSUME NEW k \in Partitions, Resume(k)
      PROVE  OffsetInv'
  BY <1>2 DEF OffsetInv, TopicTypeOK, Resume
<1>3. ASSUME NEW k \in Partitions, Drop(k)
      PROVE  OffsetInv'
  BY <1>3 DEF OffsetInv, TopicTypeOK, Drop, consumerVars
<1>4. CASE ResetCounters
  BY <1>4 DEF OffsetInv, ResetCounters, topicVars
<1>5. CASE UNCHANGED <<position, dropped, rewinds, leftover, lastOffset, orderViolations>>
  BY <1>5 DEF OffsetInv
<1> QED
  BY <1>1, <1>2, <1>3, <1>4, <1>5, ConsumerFootprint DEF Consume

(* keyed_ordering reports a violation only after a redelivery, however the *)
(* deliveries of the partitions interleave.                                *)
THEOREM RoundTripOffsets == Spec => []OrderViolationMeansRedelivery
<1>1. Init => OffsetInv
  BY DEF Init, OffsetInv, NoOffset
<1>2. TopicTypeOK /\ OffsetInv => OrderViolationMeansRedelivery
  BY BoundsAssumption DEF TopicTypeOK, OffsetInv, OrderViolationMeansRedelivery
<1> QED
  BY <1>1, <1>2, OffsetStep, RoundTripNumbers, PTL DEF Spec

-----------------------------------------------------------------------------
(* Outside warmup and measurement the produce loops have ended.            *)
LEMMA JoinedStep ==
  ASSUME JoinedInv, [Next]_vars
  PROVE  JoinedInv'
<1>1. ASSUME NEW i \in Producers, ProduceLoop(i)
      PROVE  JoinedInv'
  <2>1. pc[i] # "ended" /\ phase' = phase
    BY <1>1 DEF ProduceLoop, LoopTop, Connect, ConnectFails, TakeSeq, RateCancelled, Produced,
           ProduceFails, CloseClient, ClearClient, Goto, others, engineVars
  <2> QED
    BY <1>1, <2>1 DEF JoinedInv
<1>2. CASE ProducersJoined
  BY <1>2 DEF ProducersJoined, JoinedInv, loopVars
<1>3. CASE StartProducers
  BY <1>3 DEF StartProducers, JoinedInv
<1>4. CASE /\ UNCHANGED <<loopVars, clientVars>>
           /\ phase' \in {"warmup", "measure"} \/ phase \notin {"warmup", "measure"}
  BY <1>4 DEF JoinedInv, loopVars, clientVars
<1>5. \/ \E i \in Producers : ProduceLoop(i)
      \/ ProducersJoined \/ StartProducers
      \/ /\ UNCHANGED <<loopVars, clientVars>>
         /\ phase' \in {"warmup", "measure"} \/ phase \notin {"warmup", "measure"}
  BY DEF Next, ProduceLoop, LoopTop, Connect, ConnectFails, TakeSeq, RateCancelled, Produced,
         ProduceFails, CloseClient, ClearClient, Consume, Deliver, Resume, Drop, EngineCalls,
         StopProducers, ProducersJoined, ResetTracker, ResetCounters, StartProducers, GapDetector,
         FinalDetectGaps, Snapshot, Finished, Goto, loopLocals, others, vars, engineVars,
         loopVars, clientVars, topicVars, consumerVars, trackerVars
<1> QED
  BY <1>1, <1>2, <1>3, <1>4, <1>5

-----------------------------------------------------------------------------
(* A record of this run that a consumer handles carries a number taken.    *)
LEMMA OwnRecord ==
  ASSUME TopicTypeOK, SeqInv, NEW k \in Partitions, Deliver(k), ~ (position[k] < leftover[k])
  PROVE  log[k][position[k] + 1].seq <= seq
<1>1. position[k] + 1 \in 1 .. Len(log[k]) /\ position[k] \in Nat /\ leftover[k] \in Nat
  BY DeliverRecords DEF TopicTypeOK
<1>2. position[k] + 1 \in leftover[k] + 1 .. Len(log[k])
  BY <1>1
<1> QED
  BY <1>2 DEF SeqInv

(* After the reset only numbers that were taken arrive.                    *)
LEMMA ArrivalStep ==
  ASSUME LoopTypeOK, TopicTypeOK, SeqInv, TrackerInv, ArrivalInv, [Next]_vars
  PROVE  ArrivalInv'
<1>0. history \in [Producers -> History] /\ seq \in Nat
  BY DEF TrackerInv, TrackerTypeOK, LoopTypeOK
<1>1. ASSUME NEW k \in Partitions, Deliver(k)
      PROVE  ArrivalInv'
  <2> SUFFICES ASSUME AfterReset', ~ stale', NEW p \in Producers, NEW s \in history'[p].arrived
               PROVE  s <= seq'
    BY DEF ArrivalInv
  <2> DEFINE rec == log[k][position[k] + 1]
  <2>1. AfterReset /\ ~ stale /\ ~ (position[k] < leftover[k]) /\ seq' = seq
    BY <1>1 DEF Deliver, AfterReset, engineVars, loopVars
  <2>2. rec.seq <= seq
    BY <1>1, <2>1, OwnRecord
  <2>3. history'[p].arrived \subseteq history[p].arrived \cup {rec.seq}
    BY <1>1, DeliverRecords, RecordRemembers
  <2> HIDE DEF rec
  <2>4. s \in history[p].arrived \/ s = rec.seq
    BY <2>3
  <2> QED
    BY <2>1, <2>2, <2>4 DEF ArrivalInv
<1>2. CASE ResetTracker
  BY <1>2 DEF ResetTracker, Reset, ArrivalInv, NoHistory
<1>3. CASE /\ UNCHANGED <<history, stale>> /\ (AfterReset' => AfterReset)
           /\ seq' \in {seq, seq + 1}
  <2> SUFFICES ASSUME AfterReset', ~ stale', NEW p \in Producers, NEW s \in history'[p].arrived
               PROVE  s <= seq'
    BY DEF ArrivalInv
  <2>1. s \in history[p].arrived /\ s \in Nat
    BY <1>0, <1>3 DEF History
  <2>2. s <= seq
    BY <1>3, <2>1 DEF ArrivalInv
  <2> QED
    BY <1>0, <1>3, <2>1, <2>2
<1>4. \/ \E k \in Partitions : Deliver(k)
      \/ ResetTracker
      \/ /\ UNCHANGED <<history, stale>> /\ (AfterReset' => AfterReset)
         /\ seq' \in {seq, seq + 1}
  BY DEF Next, ProduceLoop, LoopTop, Connect, ConnectFails, TakeSeq, RateCancelled, Produced,
         ProduceFails, CloseClient, ClearClient, Consume, Deliver, Resume, Drop, EngineCalls,
         StopProducers, ProducersJoined, ResetTracker, ResetCounters, StartProducers, GapDetector,
         FinalDetectGaps, Snapshot, Finished, Goto, loopLocals, others, vars, engineVars,
         loopVars, clientVars, topicVars, consumerVars, trackerVars, DetectGaps, AfterReset
<1> QED
  BY <1>1, <1>2, <1>3, <1>4

(* The watermark of a consistent tracker is not past every arrival.        *)
LEMMA WatermarkBound ==
  ASSUME TrackerInv, NEW p \in Known, NEW bound \in Nat,
         \A s \in history[p].arrived : s <= bound
  PROVE  producers[p].highContiguous <= bound
<1>1. /\ Consistent(producers[p], history[p]) /\ producers[p].highContiguous \in Nat
      /\ history[p].arrived \subseteq Nat
  BY DEF TrackerInv, TrackerTypeOK, ProducerState, History
<1>2. PICK s \in history[p].arrived : producers[p].highContiguous <= s
  BY <1>1 DEF Consistent
<1> QED
  BY <1>1, <1>2

(* The warmup absorbs what an earlier run left: unless such a record is    *)
(* tracked after the reset, no watermark is ahead of the numbers taken.    *)
THEOREM RoundTripWarmup == Spec => []WarmupAbsorbsLeftovers
<1>1. Init => ArrivalInv
  BY DEF Init, ArrivalInv, AfterReset
<1>2. ASSUME LoopTypeOK, TrackerInv, ArrivalInv
      PROVE  WarmupAbsorbsLeftovers
  <2>1. Known \subseteq Producers /\ seq \in Nat
    BY <1>2 DEF TrackerInv, TrackerTypeOK, LoopTypeOK
  <2> QED
    BY <1>2, <2>1, WatermarkBound DEF WarmupAbsorbsLeftovers, ArrivalInv, AfterReset
<1>3. LoopTypeOK /\ TrackerInv /\ ArrivalInv => WarmupAbsorbsLeftovers
  BY <1>2
<1> QED
  BY <1>1, <1>3, ArrivalStep, RoundTripNumbers, RoundTripTracker, PTL DEF Spec

-----------------------------------------------------------------------------
(* What PassedInv says of one record.                                      *)
Passed(rec) ==
  \/ rec \in dropped
  \/ rec.producer \in Known /\ rec.seq \in history[rec.producer].arrived
  \/ rec.seq <= WarmBound

(* A delivery accounts for the record it passes, and forgets no other.     *)
LEMMA DeliverPasses ==
  ASSUME LoopTypeOK, TopicTypeOK, TrackerInv, PassedInv, NEW k \in Partitions, Deliver(k)
  PROVE  PassedInv'
<1> SUFFICES ASSUME AfterReset', NEW j \in Partitions, NEW n \in leftover'[j] + 1 .. position'[j]
             PROVE  Passed(log[j][n])'
  BY DEF PassedInv, Passed
<1> DEFINE rec == log[k][position[k] + 1]
<1>1. /\ rec \in Record /\ rec.producer \in Producers
      /\ position[k] + 1 \in 1 .. Len(log[k]) /\ position[k] \in Nat
      /\ RecordFirst(rec.producer, rec.seq) \/ RecordKnown(rec.producer, rec.seq)
  BY DeliverRecords
<1>2. /\ AfterReset /\ WarmBound' = WarmBound
      /\ UNCHANGED <<log, dropped, leftover>>
      /\ position' = [position EXCEPT ![k] = position[k] + 1]
  BY DEF Deliver, AfterReset, WarmBound, engineVars, loopVars
<1>3. /\ Known' = Known \cup {rec.producer}
      /\ \A q \in Producers : history[q].arrived \subseteq history'[q].arrived
      /\ rec.seq \in history'[rec.producer].arrived
  <2> HIDE DEF rec
  <2>1. \A q \in Producers : history'[q].arrived =
          IF q = rec.producer THEN history[q].arrived \cup {rec.seq} ELSE history[q].arrived
    BY <1>1, RecordRemembers
  <2> QED
    BY <1>1, <2>1, RecordRemembers
<1>4. Known \subseteq Producers /\ position \in [Partitions -> Nat] /\ leftover[j] \in Nat
  BY DEF TrackerInv, TrackerTypeOK, TopicTypeOK
<1>5. CASE j = k /\ n = position[k] + 1
  BY <1>2, <1>3, <1>5 DEF Passed
<1>6. CASE ~ (j = k /\ n = position[k] + 1)
  <2>1. n \in leftover[j] + 1 .. position[j]
    BY <1>1, <1>2, <1>4, <1>6
  <2>2. Passed(log[j][n])
    BY <1>2, <2>1 DEF PassedInv, Passed
  <2> QED
    BY <1>2, <1>3, <1>4, <2>2 DEF Passed
<1> QED
  BY <1>5, <1>6

(* Every record the consumers have passed since the reset is accounted for. *)
LEMMA PassedStep ==
  ASSUME LoopTypeOK, TopicTypeOK, SeqInv, JoinedInv, TrackerInv, PassedInv, [Next]_vars
  PROVE  PassedInv'
<1>0. /\ \A k \in Partitions : /\ leftover[k] \in Nat /\ position[k] \in Nat
                               /\ log[k] \in Seq(Record) /\ position[k] <= Len(log[k])
                               /\ Len(log[k]) \in Nat
      /\ position \in [Partitions -> Nat]
  BY DEF TopicTypeOK
<1>1. ASSUME NEW k \in Partitions, Deliver(k)
      PROVE  PassedInv'
  BY <1>1, DeliverPasses
<1>2. ASSUME NEW k \in Partitions, Resume(k)
      PROVE  PassedInv'
  <2>1. /\ UNCHANGED <<log, dropped, leftover, producers, history, phase, seq, warmSeq>>
        /\ \E offset \in 0 .. position[k] - 1 : position' = [position EXCEPT ![k] = offset]
    BY <1>2 DEF Resume, trackerVars, engineVars, loopVars
  <2>2. \A j \in Partitions : position'[j] \in Nat /\ position'[j] <= position[j]
    BY <1>0, <2>1
  <2>3. \A j \in Partitions : leftover[j] + 1 .. position'[j] \subseteq leftover[j] + 1 .. position[j]
    BY <1>0, <2>2
  <2> QED
    BY <2>1, <2>3 DEF PassedInv, AfterReset, WarmBound, Known
<1>3. ASSUME NEW k \in Partitions, Drop(k)
      PROVE  PassedInv'
  <2>1. /\ UNCHANGED <<log, leftover, producers, history, phase, seq, warmSeq>>
        /\ position' = [position EXCEPT ![k] = position[k] + 1]
        /\ dropped' = dropped \cup {log[k][position[k] + 1]}
    BY <1>3 DEF Drop, trackerVars, engineVars, loopVars
  <2> SUFFICES ASSUME AfterReset', NEW j \in Partitions, NEW n \in leftover'[j] + 1 .. position'[j]
               PROVE  Passed(log[j][n])'
    BY DEF PassedInv, Passed
  <2>2. CASE j = k /\ n = position[k] + 1
    BY <2>1, <2>2 DEF Passed
  <2>3. CASE ~ (j = k /\ n = position[k] + 1)
    <3>1. n \in leftover[j] + 1 .. position[j]
      BY <1>0, <2>1, <2>3
    <3>2. Passed(log[j][n])
      BY <2>1, <3>1 DEF PassedInv, Passed, AfterReset
    <3> QED
      BY <2>1, <3>2 DEF Passed, WarmBound, Known
  <2> QED
    BY <2>2, <2>3
<1>4. CASE ResetTracker
  <2>1. /\ phase' = "resetCounters"
        /\ UNCHANGED <<log, leftover, position, seq>>
    BY <1>4 DEF ResetTracker, topicVars, loopVars
  <2>2. \A k \in Partitions : \A n \in leftover[k] + 1 .. position[k] : log[k][n].seq <= seq
    BY <1>0 DEF SeqInv
  <2> QED
    BY <2>1, <2>2 DEF PassedInv, WarmBound
<1>5. CASE ResetCounters
  <2>1. /\ phase = "resetCounters" /\ phase' = "reset" /\ warmSeq' = seq
        /\ UNCHANGED <<log, leftover, position, dropped, producers, history>>
    BY <1>5 DEF ResetCounters, topicVars, trackerVars
  <2> QED
    BY <2>1 DEF PassedInv, AfterReset, WarmBound, Known
<1>6. ASSUME NEW i \in Producers, Produced(i) \/ ProduceFails(i)
      PROVE  PassedInv'
  <2>1. /\ pc[i] = "produce"
        /\ UNCHANGED log \/ \E k \in Partitions : Append1(i, k)
        /\ UNCHANGED <<position, dropped, leftover, producers, history, phase, warmSeq, seq>>
    BY <1>6 DEF Produced, ProduceFails, Goto, loopLocals, engineVars, trackerVars
  <2>2. \A k \in Partitions : \A n \in leftover[k] + 1 .. position[k] : log'[k][n] = log[k][n]
    <3>1. CASE UNCHANGED log
      BY <3>1
    <3>2. ASSUME NEW k \in Partitions, Append1(i, k)
          PROVE  \A j \in Partitions : \A n \in 1 .. Len(log[j]) : log'[j][n] = log[j][n]
      <4>1. log \in [Partitions -> Seq(Record)] /\ log[k] \in Seq(Record)
        BY DEF TopicTypeOK
      <4> DEFINE rec == [producer |-> i, seq |-> mySeq[i]]
      <4>2. log' = [log EXCEPT ![k] = Append(log[k], rec)]
        BY <3>2 DEF Append1
      <4> HIDE DEF rec
      <4>3. \A n \in 1 .. Len(log[k]) : Append(log[k], rec)[n] = log[k][n]
        BY <4>1
      <4> QED
        BY <4>1, <4>2, <4>3
    <3>3. \A k \in Partitions : leftover[k] + 1 .. position[k] \subseteq 1 .. Len(log[k])
      BY <1>0
    <3> QED
      BY <2>1, <3>1, <3>2, <3>3
  <2> QED
    BY <2>1, <2>2 DEF PassedInv, AfterReset, WarmBound, Known
<1>7. CASE /\ UNCHANGED <<log, position, dropped, leftover, history, Known, warmSeq>>
           /\ AfterReset' => AfterReset
           /\ phase # "resetCounters" /\ phase' # "resetCounters"
  BY <1>7 DEF PassedInv, WarmBound
<1>8. CASE /\ UNCHANGED <<log, position, dropped, leftover, history, Known, warmSeq>>
           /\ AfterReset' => AfterReset
           /\ phase = "resetCounters" /\ phase' = "resetCounters" /\ seq' = seq
  BY <1>8 DEF PassedInv, WarmBound
<1>9. phase = "resetCounters" => \A i \in Producers : ~ TakeSeq(i)
  BY DEF JoinedInv, TakeSeq, Goto
<1>10. \/ \E k \in Partitions : Consume(k)
       \/ ResetTracker \/ ResetCounters
       \/ \E i \in Producers : Produced(i) \/ ProduceFails(i)
       \/ /\ UNCHANGED <<log, position, dropped, leftover, history, Known, warmSeq>>
          /\ AfterReset' => AfterReset
          /\ phase' = "resetCounters" <=> phase = "resetCounters"
          /\ seq' = seq \/ \E i \in Producers : TakeSeq(i)
  BY DEF Next, ProduceLoop, LoopTop, Connect, ConnectFails, TakeSeq, RateCancelled, Produced,
         ProduceFails, CloseClient, ClearClient, Consume, Deliver, Resume, Drop, EngineCalls,
         StopProducers, ProducersJoined, ResetTracker, ResetCounters, StartProducers, GapDetector,
         FinalDetectGaps, Snapshot, Finished, Goto, loopLocals, others, vars, engineVars,
         loopVars, clientVars, topicVars, consumerVars, trackerVars, DetectGaps, Known, AfterReset
<1> QED
  BY <1>1, <1>2, <1>3, <1>4, <1>5, <1>6, <1>7, <1>8, <1>9, <1>10 DEF Consume

(* What a quiescent worker reports as lost was dropped, never reached the  *)
(* topic, or falls under one of the three named excuses.                   *)
THEOREM RoundTripLossExplained == Spec => []QuiescentLossExplained
<1>1. Init => JoinedInv /\ ArrivalInv /\ PassedInv
  BY DEF Init, JoinedInv, ArrivalInv, PassedInv, AfterReset
<1>2. ASSUME LoopTypeOK, TopicTypeOK, TrackerInv, ArrivalInv, PassedInv
      PROVE  QuiescentLossExplained
  <2> SUFFICES ASSUME Quiescent, NEW p \in Known, NEW s \in producers[p].pendingLost
               PROVE  \/ [producer |-> p, seq |-> s] \in dropped
                      \/ s <= seq /\ s \notin Appended(p)
                      \/ s <= warmSeq
                      \/ s \in history[p].overran
                      \/ stale
    BY DEF QuiescentLossExplained
  <2>1. /\ p \in Producers /\ Consistent(producers[p], history[p])
        /\ producers[p].highContiguous \in Nat /\ s \in Nat /\ seq \in Nat
        /\ history[p].first \in Nat
    BY <1>2 DEF TrackerInv, TrackerTypeOK, ProducerState, History, LoopTypeOK
  <2>2. AfterReset /\ WarmBound = warmSeq
    BY DEF Quiescent, AfterReset, WarmBound
  <2>3. CASE s \in Appended(p)
    <3> DEFINE rec == [producer |-> p, seq |-> s]
    <3>1. PICK k \in Partitions : \E n \in leftover[k] + 1 .. Len(log[k]) : log[k][n] = rec
      BY <2>3 DEF Appended
    <3>2. PICK n \in leftover[k] + 1 .. Len(log[k]) : log[k][n] = rec
      BY <3>1
    <3>3. Passed(rec)
      BY <1>2, <2>2, <3>2 DEF Quiescent, PassedInv, Passed
    <3>4. rec.producer = p /\ rec.seq = s
      OBVIOUS
    <3> HIDE DEF rec
    <3>5. rec \in dropped \/ s \in history[p].arrived \/ s <= warmSeq
      BY <2>2, <3>3, <3>4 DEF Passed
    <3> QED
      BY <2>1, <3>5 DEF Consistent, rec
  <2>4. CASE s \notin Appended(p) /\ ~ stale
    <3>1. producers[p].highContiguous <= seq
      BY <1>2, <2>1, <2>2, <2>4, WatermarkBound DEF ArrivalInv
    <3>2. s <= producers[p].highContiguous
      BY <2>1 DEF Consistent
    <3> QED
      BY <2>1, <2>4, <3>1, <3>2
  <2> QED
    BY <2>3, <2>4
<1>3. LoopTypeOK /\ TopicTypeOK /\ TrackerInv /\ ArrivalInv /\ PassedInv => QuiescentLossExplained
  BY <1>2
<1> QED
  BY <1>1, <1>3, JoinedStep, ArrivalStep, PassedStep, RoundTripNumbers, RoundTripTracker, PTL
     DEF Spec
=============================================================================
