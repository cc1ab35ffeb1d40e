------------------------ MODULE OffsetCommitLagProofs ------------------------
(***************************************************************************)
(* The books and the samples of OffsetCommitLag, for every batch size,     *)
(* every misreport and any number of records, faults and samples.          *)
(***************************************************************************)
EXTENDS OffsetCommitLag, TLAPS

(* Where the consumer is: the committed offset, its client's position and  *)
(* the end of the log are in order, and an undisturbed client commits      *)
(* exactly the batch it counts.                                            *)
ConsumerInv ==
  /\ committed <= position /\ position <= hwm
  /\ cons \in {"fetched", "counting"} => batch >= 1
  /\ cons = "fetched" => committed <= position - batch
  /\ ~ disturbed /\ cons = "counting" => position = committed
  /\ ~ disturbed /\ cons = "fetched" => position - batch = committed
  /\ ~ disturbed /\ cons = "ready" => position = committed
  /\ \A o \in 0 .. position - 1 : o \in handled

(* Producers run in the warmup and in the measurement only.                *)
ProducerInv == prod # "stopped" => phase \in {"warmup", "measure"}

(* What a sample has read so far differs from the books by no more than    *)
(* its slack.                                                              *)
SampleInv ==
  /\ sampler = "end" => sample.committed <= committed
  /\ even /\ ~ disturbed =>
       /\ phase # "resetDeleted"
       /\ sampler = "end" =>
            /\ sample.committed - (committed - Uncounted) + InFlight <= slack
            /\ (committed - Uncounted) - sample.committed + InFlight <= slack
       /\ sampler = "sent" =>
            /\ sample.reported >= misreport
            /\ sample.reported - misreport - (sent - deleted + owed) <= slack
            /\ (sent - deleted + owed) - (sample.reported - misreport) <= slack
       /\ sampler = "deleted" =>
            /\ sample.reported >= misreport
            /\ sample.reported - misreport - (sample.sent - deleted + owed) <= slack
            /\ (sample.sent - deleted + owed) - (sample.reported - misreport) <= slack

Inv ==
  /\ TypeOK
  /\ ConsumerInv
  /\ ProducerInv
  /\ BooksAgree
  /\ SampleInv
  /\ SampleErrorExplained
  /\ GateErrorHasCause

USE MisreportsAssumption, MaxBatchAssumption, BoundsAssumption

(* The empty sample is a sample.                                           *)
LEMMA NoSampleType == NoSample \in Sample
  BY DEF NoSample, Sample, Offsets

(* The invariant holds at the start.                                       *)
LEMMA InitInv == Init => Inv
  <1> SUFFICES ASSUME Init PROVE Inv
    OBVIOUS
  <1> USE DEF Init, NoSample, InFlight, Uncounted
  <1>1. TypeOK
    <2> HIDE DEF NoSample
    <2>1. /\ cancelled \in BOOLEAN /\ restarted \in BOOLEAN /\ disturbed \in BOOLEAN /\ even \in BOOLEAN
          /\ noisy \in BOOLEAN
      BY Zenon
    <2>2. QED
      BY <2>1, NoSampleType DEF TypeOK, Offsets, Phases
  <1>2. ConsumerInv
    BY DEF ConsumerInv
  <1>3. ProducerInv
    BY DEF ProducerInv
  <1>4. BooksAgree
    BY DEF BooksAgree
  <1>5. SampleInv /\ SampleErrorExplained /\ GateErrorHasCause
    BY DEF SampleInv, SampleErrorExplained, GateErrorHasCause
  <1>6. QED
    BY <1>1, <1>2, <1>3, <1>4, <1>5 DEF Inv

(* A commit covers the batch and at most the records behind the position.  *)
LEMMA AppliedFacts ==
  ASSUME TypeOK, ConsumerInv, cons = "fetched", Applied
  PROVE  /\ committed' \in Offsets /\ committed' >= committed + batch /\ committed' <= position
         /\ slack' \in Nat /\ UNCHANGED even
         /\ slack' = IF sampler \in {"idle", "ended"} THEN 0 ELSE slack + (committed' - committed)
  <1>1. PICK late \in 0 .. position - batch - committed :
          committed' = committed + batch + late /\ Moved(batch + late)
    BY DEF Applied
  <1>2. /\ committed \in Nat /\ batch \in Nat /\ position \in Nat /\ position <= MaxRecords
        /\ slack \in Nat
    BY DEF TypeOK, Offsets
  <1>3. late \in Nat /\ committed + batch + late <= position
    BY <1>1, <1>2 DEF ConsumerInv
  <1>4. QED
    BY <1>1, <1>2, <1>3 DEF Moved, Offsets

(* Every step keeps the types.                                             *)
LEMMA TypeStep == TypeOK /\ ConsumerInv /\ BooksAgree /\ [Next]_vars => TypeOK'
  <1> SUFFICES ASSUME TypeOK, ConsumerInv, BooksAgree, [Next]_vars
               PROVE  TypeOK'
    OBVIOUS
  <1> USE DEF TypeOK, Offsets, Phases, brokerVars, producerVars, consumerVars,
              samplerVars, engineVars, bookVars, Fault, NoFault, Moved, InFlight, Uncounted
  <1>1. CASE Append
    BY <1>1 DEF Append
  <1>2. CASE RecordSent
    BY <1>2 DEF RecordSent
  <1>3. CASE ProduceFails
    <2>1. disturbed' \in BOOLEAN
      BY <1>3, Zenon DEF ProduceFails
    <2>2. slack' \in Nat
      BY <1>3 DEF ProduceFails
    <2>3. prod' = "ready"
      BY <1>3 DEF ProduceFails
    <2>4. QED
      BY <1>3, <2>1, <2>2, <2>3 DEF ProduceFails
  <1>4. CASE Connect
    BY <1>4 DEF Connect, ResumeOffset, ConsumerInv
  <1>5. CASE ConnectFails
    BY <1>5 DEF ConnectFails
  <1>6. CASE Poll
    BY <1>6 DEF Poll, ConsumerInv
  <1>7. CASE FetchFails
    BY <1>7 DEF FetchFails
  <1>8. CASE Commit
    BY <1>8, AppliedFacts DEF Commit
  <1>9. CASE CommitFails
    <2>1. disturbed' \in BOOLEAN
      BY <1>9, Zenon DEF CommitFails
    <2>2. committed' \in Offsets /\ slack' \in Nat /\ UNCHANGED even
      BY <1>9, AppliedFacts DEF CommitFails
    <2>3. cons' \in {"ended", "ready"} /\ batch' = 0 /\ faults' \in Nat
      BY <1>9 DEF CommitFails
    <2>4. QED
      BY <1>9, <2>1, <2>2, <2>3 DEF CommitFails
  <1>10. CASE RecordDeleted
    BY <1>10 DEF RecordDeleted, ConsumerInv
  <1>11. CASE ConsumerEnds
    BY <1>11 DEF ConsumerEnds
  <1>12. CASE ReadCommitted
    <2>1. sample' \in Sample
      BY <1>12 DEF ReadCommitted, Sample, NoSample
    <2>2. even' \in BOOLEAN
      BY <1>12, Zenon DEF ReadCommitted
    <2>3. QED
      BY <1>12, <2>1, <2>2 DEF ReadCommitted
  <1>13. CASE GroupLagFails
    <2>1. even' \in BOOLEAN
      BY <1>13, Zenon DEF GroupLagFails
    <2>2. QED
      BY <1>13, <2>1, NoSampleType DEF GroupLagFails
  <1>14. CASE ReadEndOffsets
    <2>1. sample' \in Sample
      <3>1. PICK n \in Nat : sample' = [sample EXCEPT !.reported = n, !.committed = 0]
        <4>1. Max0(hwm - sample.committed + misreport) \in Nat
          BY DEF Max0, Sample
        <4>2. QED
          BY <1>14, <4>1 DEF ReadEndOffsets
      <3>2. QED
        <4> HIDE DEF TypeOK, Offsets
        <4>1. sample \in Sample /\ 0 \in Offsets
          BY DEF TypeOK, Offsets
        <4>2. QED
          BY <3>1, <4>1 DEF Sample
    <2>2. QED
      BY <1>14, <2>1 DEF ReadEndOffsets
  <1>15. CASE ReadSent
    <2>1. sample' \in Sample
      BY <1>15 DEF ReadSent, Sample
    <2>2. QED
      BY <1>15, <2>1 DEF ReadSent
  <1>16. CASE ReadDeleted
    <2>1. sample' \in Sample
      <3>1. PICK n \in Nat : sample' = [sample EXCEPT !.err = n, !.reported = 0, !.sent = 0]
        <4>1. LagError(sample.reported, sample.sent, deleted) \in Nat
          BY DEF LagError, Abs, Max0, Sample
        <4>2. QED
          BY <1>16, <4>1 DEF ReadDeleted
      <3>2. QED
        BY <3>1 DEF Sample
    <2>2. QED
      BY <1>16, <2>1 DEF ReadDeleted
  <1>17. CASE Fold
    <2>1. lagErrMax' \in Nat
      BY <1>17 DEF Fold, Sample
    <2>2. restarted' \in BOOLEAN
      BY <1>17, Zenon DEF Fold
    <2>3. gen' \in Nat
      BY <1>17 DEF Fold
    <2>4. even' \in BOOLEAN /\ noisy' \in BOOLEAN
      BY <1>17, Zenon DEF Fold
    <2>5. QED
      BY <1>17, <2>1, <2>2, <2>3, <2>4, NoSampleType DEF Fold
  <1>18. CASE SamplerEnds
    <2>1. even' \in BOOLEAN
      BY <1>18, Zenon DEF SamplerEnds
    <2>2. QED
      BY <1>18, <2>1, NoSampleType DEF SamplerEnds
  <1>19. CASE StartProducers
    BY <1>19 DEF StartProducers
  <1>20. CASE StopProducers
    <2>1. disturbed' \in BOOLEAN
      BY <1>20, Zenon DEF StopProducers
    <2>2. QED
      BY <1>20, <2>1 DEF StopProducers
  <1>21. CASE ResetSent
    <2>1. disturbed' \in BOOLEAN
      BY <1>21, Zenon DEF ResetSent
    <2>2. even' \in BOOLEAN
      BY <1>21, Zenon DEF ResetSent
    <2>3. QED
      BY <1>21, <2>1, <2>2 DEF ResetSent
  <1>22. CASE ResetDeleted
    BY <1>22 DEF ResetDeleted
  <1>23. CASE ResetLagErr
    <2>1. noisy' \in BOOLEAN
      BY <1>23, Zenon DEF ResetLagErr
    <2>2. QED
      BY <1>23, <2>1 DEF ResetLagErr
  <1>24. CASE DisconnectConsumers
    BY <1>24 DEF DisconnectConsumers
  <1>25. CASE StopConsumers
    BY <1>25 DEF StopConsumers
  <1>26. CASE UNCHANGED vars
    BY <1>26 DEF vars
  <1>27. QED
    BY <1>1, <1>2, <1>3, <1>4, <1>5, <1>6, <1>7, <1>8, <1>9, <1>10,
       <1>11, <1>12, <1>13, <1>14, <1>15, <1>16, <1>17, <1>18, <1>19, <1>20, <1>21, <1>22,
       <1>23, <1>24, <1>25, <1>26
       DEF Next, Producer, Consumer, Sampler, Engine, Terminated

(* What the two actions that set it by a condition make of disturbed.      *)
LEMMA DisturbedStep ==
  ASSUME TypeOK
  PROVE  /\ ResetSent /\ ~ disturbed' => Drained
         /\ StopProducers /\ ~ disturbed' => ~ disturbed /\ prod # "appended"
         /\ StopProducers /\ disturbed => disturbed'
         /\ ProduceFails /\ ~ disturbed' => ~ disturbed
         /\ ProduceFails /\ prod = "appended" => disturbed'
  <1>1. ResetSent /\ ~ disturbed' => Drained
    BY Zenon DEF ResetSent
  <1>2. StopProducers /\ ~ disturbed' => ~ disturbed /\ prod # "appended"
    BY Zenon DEF StopProducers
  <1>3. StopProducers /\ disturbed => disturbed'
    BY Zenon DEF StopProducers
  <1>4. ProduceFails /\ ~ disturbed' => ~ disturbed
    BY Zenon DEF ProduceFails
  <1>5. ProduceFails /\ prod = "appended" => disturbed'
    <2>1. "ready" # "appended"
      OBVIOUS
    <2>2. QED
      BY <2>1, Zenon DEF ProduceFails
  <1>6. QED
    BY <1>1, <1>2, <1>3, <1>4, <1>5

(* The steps that leave the consumer, the log and the commits alone, and   *)
(* do not make a disturbed worker an undisturbed one.                      *)
Elsewhere ==
  /\ UNCHANGED <<cons, position, batch, committed, handled>>
  /\ hwm' \in {hwm, hwm + 1}
  /\ ~ disturbed' => ~ disturbed

(* Producer, sampler and engine leave the consumer's state alone.          *)
LEMMA ElsewhereStep ==
  ASSUME TypeOK
  PROVE  /\ Producer => Elsewhere
         /\ Sampler => Elsewhere
         /\ Engine => Elsewhere \/ ResetSent
         /\ UNCHANGED vars => Elsewhere
  <1> USE DEF TypeOK, brokerVars, producerVars, consumerVars, samplerVars, engineVars, bookVars
  <1>1. Producer => Elsewhere
    BY DisturbedStep DEF Producer, Append, RecordSent, ProduceFails, Elsewhere
  <1>2. Sampler => Elsewhere
    BY DEF Sampler, ReadCommitted, GroupLagFails, ReadEndOffsets, ReadSent, ReadDeleted, Fold,
           SamplerEnds, Elsewhere
  <1>3. StopProducers => Elsewhere
    BY DisturbedStep DEF StopProducers, Elsewhere
  <1>4. Engine => Elsewhere \/ ResetSent
    BY <1>3 DEF Engine, StartProducers, ResetDeleted, ResetLagErr, DisconnectConsumers,
           StopConsumers, Elsewhere
  <1>5. UNCHANGED vars => Elsewhere
    BY DEF vars, Elsewhere
  <1>6. QED
    BY <1>1, <1>2, <1>4, <1>5

(* Every step keeps the consumer's place in the log.                       *)
LEMMA ConsumerStep == TypeOK /\ ConsumerInv /\ [Next]_vars => ConsumerInv'
  <1> SUFFICES ASSUME TypeOK, ConsumerInv, [Next]_vars
               PROVE  ConsumerInv'
    OBVIOUS
  <1> USE DEF TypeOK, Offsets
  <1>1. CASE Elsewhere
    BY <1>1 DEF Elsewhere, ConsumerInv
  <1>2. CASE ResetSent
    <2>1. UNCHANGED <<cons, position, batch, committed, handled, hwm>>
      BY <1>2 DEF ResetSent, brokerVars, consumerVars
    <2>2. CASE disturbed'
      BY <2>1, <2>2 DEF ConsumerInv
    <2>3. CASE ~ disturbed'
      <3>1. Drained
        BY <1>2, <2>3, DisturbedStep
      <3>2. QED
        BY <2>1, <3>1 DEF Drained, ConsumerInv
    <2>4. QED
      BY <2>2, <2>3
  <1>3. CASE Connect
    BY <1>3 DEF Connect, ResumeOffset, ConsumerInv, brokerVars, bookVars
  <1>4. CASE ConnectFails
    BY <1>4 DEF ConnectFails, ConsumerInv, brokerVars, bookVars
  <1>5. CASE Poll
    BY <1>5 DEF Poll, ConsumerInv, brokerVars, bookVars
  <1>6. CASE FetchFails
    BY <1>6 DEF FetchFails, ConsumerInv, brokerVars, bookVars
  <1>7. CASE Commit
    <2>1. committed' \in Offsets /\ committed' >= committed + batch /\ committed' <= position
      BY <1>7, AppliedFacts DEF Commit
    <2>2. QED
      BY <1>7, <2>1 DEF Commit, ConsumerInv, bookVars
  <1>8. CASE CommitFails
    <2>1. disturbed'
      BY <1>8, Zenon DEF CommitFails
    <2>2. committed' \in Offsets /\ committed' <= position
      BY <1>8, AppliedFacts DEF CommitFails, ConsumerInv
    <2>3. /\ cons' \in {"ended", "ready"}
          /\ UNCHANGED <<position, handled, hwm>>
      BY <1>8 DEF CommitFails
    <2>4. QED
      BY <2>1, <2>2, <2>3 DEF ConsumerInv
  <1>9. CASE RecordDeleted
    BY <1>9 DEF RecordDeleted, ConsumerInv, brokerVars, bookVars
  <1>10. CASE ConsumerEnds
    BY <1>10 DEF ConsumerEnds, ConsumerInv, brokerVars, bookVars
  <1>11. QED
    BY <1>1, <1>2, <1>3, <1>4, <1>5, <1>6, <1>7, <1>8, <1>9, <1>10, ElsewhereStep
       DEF Next, Consumer, Terminated

(* Every step keeps the producer's place.                                  *)
LEMMA ProducerStep == TypeOK /\ ProducerInv /\ [Next]_vars => ProducerInv'
  <1> SUFFICES ASSUME TypeOK, ProducerInv, [Next]_vars
               PROVE  ProducerInv'
    OBVIOUS
  <1> USE DEF TypeOK, ProducerInv, Phases, engineVars, producerVars
  <1>1. CASE Producer
    BY <1>1 DEF Producer, Append, RecordSent, ProduceFails
  <1>2. CASE Consumer
    BY <1>2 DEF Consumer, Connect, ConnectFails, Poll, FetchFails, Commit, CommitFails,
                RecordDeleted, ConsumerEnds
  <1>3. CASE Sampler
    BY <1>3 DEF Sampler, ReadCommitted, GroupLagFails, ReadEndOffsets, ReadSent, ReadDeleted,
                Fold, SamplerEnds
  <1>4. CASE Engine
    BY <1>4 DEF Engine, StartProducers, StopProducers, ResetSent, ResetDeleted, ResetLagErr,
                DisconnectConsumers, StopConsumers
  <1>5. CASE UNCHANGED vars
    BY <1>5 DEF vars
  <1>6. QED
    BY <1>1, <1>2, <1>3, <1>4, <1>5 DEF Next, Terminated

(* The steps that move no record from one counter to another.              *)
StillBooks ==
  UNCHANGED <<hwm, committed, sent, deleted, owed, disturbed>>

(* Every step keeps the books.                                             *)
LEMMA BooksStep ==
  TypeOK /\ ConsumerInv /\ ProducerInv /\ BooksAgree /\ [Next]_vars => BooksAgree'
  <1> SUFFICES ASSUME TypeOK, ConsumerInv, ProducerInv, BooksAgree, [Next]_vars
               PROVE  BooksAgree'
    OBVIOUS
  <1> USE DEF TypeOK, Offsets, InFlight, Uncounted
  <1>1. ASSUME StillBooks, InFlight' = InFlight, Uncounted' = Uncounted,
               (phase' = "resetDeleted") = (phase = "resetDeleted"), prod' = prod
        PROVE  BooksAgree'
    BY <1>1 DEF StillBooks, BooksAgree, Drained
  <1>2. CASE Append
    BY <1>2 DEF Append, BooksAgree, ProducerInv, bookVars, consumerVars, engineVars
  <1>3. CASE RecordSent
    BY <1>3 DEF RecordSent, BooksAgree, ProducerInv, brokerVars, bookVars, consumerVars,
                engineVars
  <1>4. CASE ProduceFails
    <2>1. CASE prod = "appended"
      BY <1>4, <2>1, DisturbedStep DEF ProduceFails, BooksAgree, brokerVars, consumerVars
    <2>2. CASE prod # "appended"
      <3>1. UNCHANGED disturbed
        BY <1>4, <2>2, Zenon DEF ProduceFails
      <3>2. QED
        BY <1>1, <1>4, <2>2, <3>1 DEF ProduceFails, brokerVars, consumerVars, engineVars, StillBooks
    <2>3. QED
      BY <2>1, <2>2
  <1>5. CASE Connect
    BY <1>1, <1>5 DEF Connect, StillBooks, brokerVars, producerVars, engineVars, bookVars
  <1>6. CASE ConnectFails
    BY <1>1, <1>6 DEF ConnectFails, StillBooks, brokerVars, producerVars, engineVars, bookVars
  <1>7. CASE Poll
    BY <1>1, <1>7 DEF Poll, StillBooks, brokerVars, producerVars, engineVars, bookVars
  <1>8. CASE FetchFails
    BY <1>1, <1>8 DEF FetchFails, StillBooks, brokerVars, producerVars, engineVars, bookVars
  <1>9. CASE Commit
    <2>1. committed' \in Offsets /\ committed' >= committed + batch /\ committed' <= position
      BY <1>9, AppliedFacts DEF Commit
    <2>2. ~ disturbed => committed' = committed + batch
      BY <1>9, <2>1 DEF Commit, ConsumerInv
    <2>3. QED
      BY <1>9, <2>2 DEF Commit, BooksAgree, ConsumerInv, Drained, producerVars, engineVars, bookVars
  <1>10. CASE CommitFails
    <2>1. disturbed'
      BY <1>10, Zenon DEF CommitFails
    <2>2. QED
      BY <2>1 DEF BooksAgree
  <1>11. CASE RecordDeleted
    BY <1>11 DEF RecordDeleted, BooksAgree, ConsumerInv, Drained, brokerVars,
                 producerVars, engineVars, bookVars
  <1>12. CASE ConsumerEnds
    BY <1>1, <1>12 DEF ConsumerEnds, StillBooks, brokerVars, producerVars, engineVars, bookVars
  <1>13. CASE Sampler
    BY <1>1, <1>13 DEF Sampler, ReadCommitted, GroupLagFails, ReadEndOffsets, ReadSent, ReadDeleted,
           Fold, SamplerEnds, StillBooks, brokerVars, producerVars, consumerVars, engineVars, bookVars
  <1>14. CASE StartProducers
    BY <1>14 DEF StartProducers, BooksAgree, ProducerInv, brokerVars, consumerVars,
                 bookVars
  <1>15. CASE StopProducers
    BY <1>15, DisturbedStep DEF StopProducers, BooksAgree, brokerVars, consumerVars
  <1>16. CASE ResetSent
    <2>1. phase' = "resetDeleted" /\ sent' = 0 /\ owed' = 0
      BY <1>16 DEF ResetSent
    <2>2. ASSUME ~ disturbed' PROVE Drained'
      <3>1. Drained
        BY <1>16, <2>2, DisturbedStep
      <3>2. UNCHANGED <<prod, cons, batch, hwm, committed>>
        BY <1>16 DEF ResetSent, brokerVars, consumerVars
      <3>3. QED
        BY <3>1, <3>2 DEF Drained
    <2>3. QED
      BY <2>1, <2>2 DEF BooksAgree
  <1>17. CASE ResetDeleted
    BY <1>17 DEF ResetDeleted, BooksAgree, Drained, brokerVars, producerVars, bookVars
  <1>18. CASE ResetLagErr
    BY <1>1, <1>18 DEF ResetLagErr, StillBooks, brokerVars, producerVars, consumerVars, bookVars
  <1>19. CASE DisconnectConsumers
    BY <1>1, <1>19 DEF DisconnectConsumers, StillBooks, brokerVars, producerVars, consumerVars,
                       engineVars, bookVars
  <1>20. CASE StopConsumers
    BY <1>1, <1>20 DEF StopConsumers, StillBooks, brokerVars, producerVars, consumerVars, bookVars
  <1>21. CASE UNCHANGED vars
    BY <1>1, <1>21 DEF vars, StillBooks, brokerVars, producerVars, consumerVars, engineVars, bookVars
  <1>22. QED
    BY <1>2, <1>3, <1>4, <1>5, <1>6, <1>7, <1>8, <1>9, <1>10, <1>11, <1>12, <1>13, <1>14, <1>15,
       <1>16, <1>17, <1>18, <1>19, <1>20, <1>21
       DEF Next, Producer, Consumer, Engine, Terminated

(* The fields of a sample are numbers.                                     *)
LEMMA SampleFields ==
  ASSUME TypeOK
  PROVE  /\ sample.committed \in Nat /\ sample.reported \in Nat
         /\ sample.sent \in Nat /\ sample.err \in Nat /\ misreport \in Nat
  BY DEF TypeOK, Sample, Offsets

(* Outside the sampler, a step adds to the slack what it moves, and none   *)
(* but the reset, which spoils the sample, undoes a disturbance.           *)
LEMMA OutsideSampler ==
  ASSUME TypeOK, ConsumerInv, ProducerInv, BooksAgree, SampleInv, SampleErrorExplained,
         Producer \/ Consumer \/ Engine, TypeOK'
  PROVE  SampleInv' /\ SampleErrorExplained'
  <1> USE SampleFields DEF SampleInv, SampleErrorExplained, InFlight, Uncounted, Moved, brokerVars,
          producerVars, consumerVars, samplerVars, engineVars, bookVars
  <1>1. CASE Append
    BY <1>1 DEF Append, TypeOK, Offsets
  <1>2. CASE RecordSent
    BY <1>2 DEF RecordSent, TypeOK, Offsets
  <1>3. CASE ProduceFails
    BY <1>3, DisturbedStep DEF ProduceFails, TypeOK
  <1>4. CASE Connect
    BY <1>4 DEF Connect, TypeOK
  <1>5. CASE ConnectFails
    BY <1>5 DEF ConnectFails, TypeOK
  <1>6. CASE Poll
    BY <1>6 DEF Poll, TypeOK
  <1>7. CASE FetchFails
    BY <1>7 DEF FetchFails, TypeOK
  <1>8. CASE Commit
    <2>1. /\ committed' \in Offsets /\ committed' >= committed + batch /\ committed' <= position
          /\ slack' \in Nat /\ UNCHANGED even
          /\ slack' = IF sampler \in {"idle", "ended"} THEN 0 ELSE slack + (committed' - committed)
      BY <1>8, AppliedFacts DEF Commit
    <2>2. ~ disturbed => committed' = committed + batch
      BY <1>8, <2>1 DEF Commit, ConsumerInv, TypeOK, Offsets
    <2>3. QED
      BY <1>8, <2>1, <2>2 DEF Commit, ConsumerInv, TypeOK, Offsets
  <1>9. CASE CommitFails
    <2>1. disturbed'
      BY <1>9, Zenon DEF CommitFails
    <2>2. committed' >= committed /\ UNCHANGED <<sampler, sample>>
      <3>1. batch \in Nat /\ committed \in Nat /\ cons = "fetched"
        BY <1>9 DEF CommitFails, TypeOK, Offsets
      <3>2. Applied => committed' \in Nat /\ committed' >= committed + batch
        BY <3>1, AppliedFacts DEF Offsets
      <3>3. Applied \/ committed' = committed
        BY <1>9 DEF CommitFails
      <3>4. UNCHANGED <<sampler, sample>>
        BY <1>9 DEF CommitFails
      <3>5. QED
        BY <3>1, <3>2, <3>3, <3>4
    <2>3. QED
      BY <2>1, <2>2 DEF TypeOK, Offsets
  <1>10. CASE RecordDeleted
    BY <1>10 DEF RecordDeleted, TypeOK, Offsets, ConsumerInv
  <1>11. CASE ConsumerEnds
    BY <1>11 DEF ConsumerEnds, TypeOK
  <1>12. CASE StartProducers
    BY <1>12 DEF StartProducers, TypeOK, ProducerInv
  <1>13. CASE StopProducers
    BY <1>13, DisturbedStep DEF StopProducers, TypeOK
  <1>14. CASE ResetDeleted
    BY <1>14 DEF ResetDeleted, TypeOK
  <1>15. CASE ResetLagErr
    BY <1>15 DEF ResetLagErr, TypeOK
  <1>16. CASE DisconnectConsumers
    BY <1>16 DEF DisconnectConsumers, TypeOK
  <1>17. CASE StopConsumers
    BY <1>17 DEF StopConsumers, TypeOK
  <1>18. CASE ResetSent
    <2>1. ~ even'
      BY <1>18, Zenon DEF ResetSent
    <2>2. UNCHANGED <<sampler, sample, committed>>
      BY <1>18 DEF ResetSent
    <2>3. QED
      BY <2>1, <2>2
  <1>19. QED
    BY <1>1, <1>2, <1>3, <1>4, <1>5, <1>6, <1>7, <1>8, <1>9, <1>10,
       <1>11, <1>12, <1>13, <1>14, <1>15, <1>16, <1>17, <1>18 DEF Producer, Consumer, Engine

(* A step of the sampler reads no further from the truth than the slack    *)
(* allows.                                                                 *)
LEMMA SamplerStep ==
  ASSUME TypeOK, ConsumerInv, BooksAgree, SampleInv, SampleErrorExplained, Sampler, TypeOK'
  PROVE  SampleInv' /\ SampleErrorExplained'
  <1> USE SampleFields DEF SampleInv, SampleErrorExplained, InFlight, Uncounted, brokerVars,
          producerVars, consumerVars, engineVars, bookVars
  <1>1. CASE ReadCommitted
    <2>1. even' => ~ disturbed /\ phase # "resetDeleted"
      BY <1>1, Zenon DEF ReadCommitted
    <2>2. sample'.committed = committed
      BY <1>1 DEF ReadCommitted, NoSample
    <2>3. QED
      BY <1>1, <2>1, <2>2 DEF ReadCommitted, BooksAgree, TypeOK, Offsets
  <1>2. CASE GroupLagFails \/ Fold \/ SamplerEnds
    <2>1. sampler' \in {"idle", "ended"} /\ ~ even'
      BY <1>2 DEF GroupLagFails, Fold, SamplerEnds
    <2>2. QED
      BY <2>1
  <1>3. CASE ReadEndOffsets
    <2>1. sample'.reported = hwm - sample.committed + misreport
      BY <1>3 DEF ReadEndOffsets, Max0, TypeOK, Sample, Offsets, ConsumerInv
    <2>2. QED
      BY <1>3, <2>1 DEF ReadEndOffsets, BooksAgree, TypeOK, Offsets, Uncounted, ConsumerInv
  <1>4. CASE ReadSent
    <2>1. sample'.sent = sent /\ sample'.reported = sample.reported
      BY <1>4 DEF ReadSent, TypeOK, Sample
    <2>2. QED
      BY <1>4, <2>1 DEF ReadSent, TypeOK
  <1>5. CASE ReadDeleted
    <2>1. sample'.err = LagError(sample.reported, sample.sent, deleted)
      BY <1>5 DEF ReadDeleted, TypeOK, Sample
    <2>2. QED
      BY <1>5, <2>1 DEF ReadDeleted, LagError, Abs, Max0, TypeOK
  <1>6. QED
    BY <1>1, <1>2, <1>3, <1>4, <1>5 DEF Sampler

(* A sample taken at rest from even books measures the connector's error,  *)
(* so the maximum over such samples is that error.                         *)
LEMMA GateStep ==
  ASSUME TypeOK, SampleErrorExplained, GateErrorHasCause, [Next]_vars
  PROVE  GateErrorHasCause'
  <1>1. CASE Fold
    <2> SUFFICES ASSUME ~ noisy'
                 PROVE  lagErrMax' \in {0, misreport'}
      BY DEF GateErrorHasCause
    <2>1. ~ noisy /\ even /\ ~ disturbed /\ ~ (owed + slack > 0)
      BY <1>1, Zenon DEF Fold
    <2>2. /\ sampler = "fold" /\ misreport' = misreport
          /\ lagErrMax' = IF sample.err <= lagErrMax THEN lagErrMax ELSE sample.err
      BY <1>1 DEF Fold, brokerVars
    <2>3. owed \in Nat /\ slack \in Nat /\ lagErrMax \in Nat
      BY DEF TypeOK
    <2>4. sample.err = misreport
      BY <2>1, <2>2, <2>3, SampleFields DEF SampleErrorExplained
    <2>5. QED
      BY <2>1, <2>2, <2>3, <2>4, SampleFields DEF GateErrorHasCause
  <1>2. CASE ResetLagErr
    BY <1>2 DEF ResetLagErr, GateErrorHasCause
  <1>3. CASE UNCHANGED <<noisy, lagErrMax, misreport>>
    BY <1>3 DEF GateErrorHasCause
  <1>4. Fold \/ ResetLagErr \/ UNCHANGED <<noisy, lagErrMax, misreport>>
    BY DEF Next, Producer, Append, RecordSent, ProduceFails, Consumer, Connect, ConnectFails, Poll,
           FetchFails, Commit, CommitFails, RecordDeleted, ConsumerEnds, Sampler, ReadCommitted,
           GroupLagFails, ReadEndOffsets, ReadSent, ReadDeleted, SamplerEnds, Engine,
           StartProducers, StopProducers, ResetSent, ResetDeleted, DisconnectConsumers,
           StopConsumers, Terminated, vars, brokerVars, samplerVars
  <1>5. QED
    BY <1>1, <1>2, <1>3, <1>4

(* Every step keeps the invariant.                                         *)
LEMMA InvStep == Inv /\ [Next]_vars => Inv'
  <1> SUFFICES ASSUME Inv, [Next]_vars
               PROVE  Inv'
    OBVIOUS
  <1> USE DEF Inv
  <1>1. TypeOK' /\ ConsumerInv' /\ ProducerInv' /\ BooksAgree'
    BY TypeStep, ConsumerStep, ProducerStep, BooksStep
  <1>2. SampleInv' /\ SampleErrorExplained'
    <2>1. CASE Producer \/ Consumer \/ Engine
      BY <1>1, <2>1, OutsideSampler
    <2>2. CASE Sampler
      BY <1>1, <2>2, SamplerStep
    <2>3. CASE UNCHANGED vars
      BY <2>3 DEF vars, SampleInv, SampleErrorExplained, InFlight, Uncounted, brokerVars,
                  producerVars, consumerVars, samplerVars, engineVars, bookVars
    <2>4. QED
      BY <2>1, <2>2, <2>3 DEF Next, Terminated
  <1>3. GateErrorHasCause'
    BY GateStep
  <1>4. QED
    BY <1>1, <1>2, <1>3

(* The inductive invariant holds in every reachable state.                 *)
LEMMA Invariance == Spec => []Inv
  BY InitInv, InvStep, PTL DEF Spec

(* The worker's books agree with the broker's lag, for every batch size    *)
(* and any number of records, leftovers, disconnects and failed calls.     *)
THEOREM BooksAgreeAlways == Spec => []BooksAgree
  <1>1. Inv => BooksAgree
    BY DEF Inv
  <1>2. QED
    BY <1>1, Invariance, PTL

(* The error a sample measures is the connector's, up to the records in    *)
(* flight and the leftovers, for every misreport.                          *)
THEOREM SampleErrorAlwaysExplained == Spec => []SampleErrorExplained
  <1>1. Inv => SampleErrorExplained
    BY DEF Inv
  <1>2. QED
    BY <1>1, Invariance, PTL

(* The error the gate looks at is the connector's when every sample since  *)
(* the reset was taken at rest.                                            *)
THEOREM GateErrorAlwaysHasCause == Spec => []GateErrorHasCause
  <1>1. Inv => GateErrorHasCause
    BY DEF Inv
  <1>2. QED
    BY <1>1, Invariance, PTL

(* Whatever the group committed was handed to the tracker.                 *)
THEOREM NeverSkipped == Spec => []NothingSkipped
  <1>1. Inv => NothingSkipped
    BY DEF Inv, TypeOK, Offsets, ConsumerInv, NothingSkipped
  <1>2. QED
    BY <1>1, Invariance, PTL
=============================================================================
