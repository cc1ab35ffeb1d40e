------------------------ MODULE TransactionsEOSProofs ------------------------
(***************************************************************************)
(* What the transactions_eos worker counts is what the broker committed,   *)
(* and the alarms it raises have a cause, for any number of partitions,    *)
(* transactions, records and faults.                                       *)
(*                                                                         *)
(* The invariant follows one committed record: from the transaction in     *)
(* progress (LoopInv, BodyInv) through its outcome (CommitInv, CountInv)   *)
(* to the consumer (ReadInv, SeenInv) and the tracker (TrackedInv); that   *)
(* its number is unique in the topic (NumberInv) is what tells a           *)
(* redelivery from a second record.                                        *)
(***************************************************************************)
EXTENDS TransactionsEOS, SequenceTrackerProofs

Offsets(k) == 1 .. Len(log[k])
InTxn      == {"produce", "end", "count"}
Last       == Len(txns)

(* Where the loop is with its transaction.                                 *)
LoopInv ==
  /\ pc \in {"produce", "end"} => Last > Earlier /\ txns[Last] = "open"
  /\ pc = "count" => Last > Earlier /\ txns[Last] = Disposition
  /\ pc \in {"begin"} \cup InTxn => connected
  /\ phase \notin {"warmup", "measure"} => pc = "ended"
  /\ pc = "produce" => Cardinality(bodies) < TxnRecords

(* This run's committed records carry each number once, and only numbers   *)
(* taken.                                                                  *)
NumberInv ==
  /\ \A k \in Partitions : \A n \in Offsets(k) :
       /\ log[k][n].txn <= Last
       /\ Own(log[k][n]) /\ log[k][n].stamp = "commit" => log[k][n].seq <= seqs["commit"]
  /\ \A j, k \in Partitions : \A m \in Offsets(j), n \in Offsets(k) :
       (/\ Own(log[j][m]) /\ Own(log[k][n])
        /\ log[j][m].stamp = "commit" /\ log[k][n].stamp = "commit"
        /\ log[j][m].seq = log[k][n].seq) => j = k /\ m = n

(* The records of the transaction in progress are stamped with its         *)
(* intended outcome, and are the ones in bodies unless a produce failed.   *)
BodyInv ==
  pc \in InTxn =>
    /\ \A k \in Partitions : \A n \in Offsets(k) : log[k][n].txn = Last =>
         log[k][n].stamp = Stamp /\ (~ produceErr => log[k][n].seq \in bodies)
    /\ \A s \in bodies : \E k \in Partitions : \E n \in Offsets(k) :
         log[k][n].seq = s /\ log[k][n].txn = Last

(* No record stamped for abort is committed; what is committed is counted  *)
(* as sent, or about to be, or its EndTransaction failed.                  *)
CommitInv ==
  \A k \in Partitions : \A n \in Offsets(k) :
    txns[log[k][n].txn] = "committed" =>
      /\ log[k][n].stamp = "commit"
      /\ Own(log[k][n]) =>
           \/ log[k][n].seq \in counted
           \/ log[k][n].txn \in unknown
           \/ pc = "count" /\ log[k][n].txn = Last

CountInv ==
  \A s \in counted : \E k \in Partitions : \E n \in Offsets(k) :
    log[k][n].seq = s /\ Own(log[k][n]) /\ txns[log[k][n].txn] = "committed"

(* The consumer reads only what is decided, and has seen every committed   *)
(* record of this run it passed, unless the broker dropped it.             *)
ReadInv ==
  /\ leaks = 0 => eosViolations = 0
  /\ \A k \in Partitions : \A n \in 1 .. position[k] :
       /\ txns[log[k][n].txn] # "open"
       /\ Own(log[k][n]) /\ txns[log[k][n].txn] = "committed" => log[k][n].seq \in seen \cup dropped

(* What was seen was produced by this run or an earlier one, and without a *)
(* rewind lies behind the consumer's position.                             *)
SeenInv ==
  /\ \A s \in seen : s <= seqs["commit"] \/ s \in LeftSeqs
  /\ rewinds = 0 =>
       /\ kip890Residual = 0 \/ NumberShared
       /\ \A s \in seen : \E k \in Partitions : \E n \in 1 .. position[k] :
            log[k][n].stamp = "commit" /\ log[k][n].seq = s

(* Everything seen entered the tracker once, before or after the reset.    *)
WarmBound == IF phase = "resetting" THEN seqs["commit"] ELSE warmSeq

TrackedInv ==
  /\ seen = Arrived \cup warmSeen /\ Arrived \cap warmSeen = {}
  /\ phase \in {"warmup", "warmedUp"} => warmSeen = {}
  /\ phase \notin {"warmup", "warmedUp"} =>
       \A s \in warmSeen : s <= WarmBound \/ s \in LeftSeqs
  /\ "commit" \in Known => producers["commit"].received = Cardinality(Arrived)

-----------------------------------------------------------------------------
(* The earlier runs' transactions are some number.                         *)
LEMMA EarlierFacts == Earlier \in Nat /\ Earlier <= MaxTxns
BY EarlierAssumption DEF Earlier

(* The broker aborts what is open and leaves the rest.                     *)
LEMMA AbandonedFacts ==
  ASSUME txns \in Seq(TxnStates)
  PROVE  /\ Abandoned \in Seq(TxnStates) /\ Len(Abandoned) = Last
         /\ \A t \in 1 .. Last :
              Abandoned[t] = IF txns[t] = "open" THEN "aborted" ELSE txns[t]
<1>1. DOMAIN txns = 1 .. Last /\ Last \in Nat /\ \A t \in 1 .. Last : txns[t] \in TxnStates
  BY DEF Last
<1>2. \A t \in 1 .. Last : Abandoned[t] = IF txns[t] = "open" THEN "aborted" ELSE txns[t]
  BY <1>1 DEF Abandoned
<1>3. Abandoned = [t \in 1 .. Last |-> IF txns[t] = "open" THEN "aborted" ELSE txns[t]]
  BY <1>1 DEF Abandoned
<1>4. Abandoned \in [1 .. Last -> TxnStates]
  BY <1>1, <1>3 DEF TxnStates
<1>5. Abandoned \in Seq(TxnStates) /\ Len(Abandoned) = Last
  BY <1>1, <1>4
<1> QED
  BY <1>2, <1>5

(* How a step may change the transactions: one is begun, or one that is    *)
(* open is decided, and only EndTransaction commits.                       *)
TxnsChange ==
  /\ txns' \in Seq(TxnStates) /\ Last' \in {Last, Last + 1}
  /\ \A t \in 1 .. Last : txns[t] # "open" => txns'[t] = txns[t]
  /\ \A t \in 1 .. Last : txns'[t] = "committed" /\ txns[t] # "committed" =>
       t = Last /\ pc = "end" /\ Disposition = "committed"

(* Every step changes the transactions in this way only.                   *)
LEMMA TxnsStep ==
  ASSUME BrokerTypeOK, LoopInv, [Next]_vars
  PROVE  TxnsChange
<1>0. txns \in Seq(TxnStates) /\ Last \in Nat
  BY DEF BrokerTypeOK, TxnStates, Last
<1>1. CASE txns' = txns
  BY <1>0, <1>1 DEF TxnsChange, Last
<1>2. CASE txns' = Abandoned
  BY <1>0, <1>2, AbandonedFacts DEF TxnsChange, Last
<1>3. CASE txns' = Append(txns, "open")
  BY <1>0, <1>3 DEF TxnsChange, Last, TxnStates
<1>4. ASSUME NEW outcome \in {Disposition, "aborted", "open"}, pc = "end",
             txns' = [txns EXCEPT ![Len(txns)] = outcome]
      PROVE  TxnsChange
  <2>1. Last \in 1 .. Last /\ txns[Last] = "open" /\ outcome \in TxnStates
    BY <1>0, <1>4, EarlierFacts DEF LoopInv, Disposition, TxnStates
  <2>2. txns' = [txns EXCEPT ![Last] = outcome]
    BY <1>4 DEF Last
  <2>3. txns' \in Seq(TxnStates) /\ Last' = Last
    BY <1>0, <2>1, <2>2 DEF Last
  <2>4. \A t \in 1 .. Last : txns'[t] = IF t = Last THEN outcome ELSE txns[t]
    BY <1>0, <2>2 DEF Last
  <2>5. outcome = "committed" => Disposition = "committed"
    BY <1>4
  <2> QED
    BY <1>4, <2>1, <2>3, <2>4, <2>5 DEF TxnsChange
<1>5. CASE pc = "end" /\ \E outcome \in {Disposition, "aborted", "open"} :
             txns' = [txns EXCEPT ![Len(txns)] = outcome]
  BY <1>4, <1>5
<1>6. \/ txns' = txns
      \/ txns' = Abandoned
      \/ txns' = Append(txns, "open")
      \/ pc = "end" /\ \E outcome \in {Disposition, "aborted", "open"} :
           txns' = [txns EXCEPT ![Len(txns)] = outcome]
  BY DEF Next, ProduceLoop, Return, Connect, BeginTransaction, BeginFails, Produce, ProduceFails,
         RateCancelled, EndTransaction, EndFails, CountSent, TxnTimeout, Consume, Deliver,
         SkipAborted, Leak, Drop, Resume, Fetch, EngineCalls, StopProducers, ProducersJoined,
         ResetTracker, ResetCounters, StartProducers, Snapshot, Finished, LeaveBody, Fault, vars,
         engineVars, localVars, loopVars, faultVars, counterVars, trackerVars, consumerVars
<1> QED
  BY <1>1, <1>2, <1>3, <1>5, <1>6

-----------------------------------------------------------------------------
(* A produce appends one record of the transaction in progress.            *)
NewRecord == [stamp |-> Stamp, seq |-> seqs[Stamp] + 1, txn |-> Last]

LogChange(k) ==
  /\ pc = "produce" /\ k \in Partitions
  /\ seqs' = [seqs EXCEPT ![Stamp] = seqs[Stamp] + 1]
  /\ NewRecord \in Record
  /\ log' \in [Partitions -> Seq(Record)]
  /\ Len(log'[k]) = Len(log[k]) + 1 /\ log'[k][Len(log[k]) + 1] = NewRecord
  /\ \A j \in Partitions : j # k => log'[j] = log[j]
  /\ \A j \in Partitions : \A n \in Offsets(j) : log'[j][n] = log[j][n]

(* The next number is within the bound.                                    *)
LEMMA TakeSeqFacts ==
  ASSUME LoopTypeOK, TakeSeq
  PROVE  /\ Stamp \in Stamps /\ seqs[Stamp] \in Nat /\ seqs[Stamp] + 1 \in 1 .. MaxSeq
         /\ seqs' = [seqs EXCEPT ![Stamp] = seqs[Stamp] + 1]
         /\ seqs' \in [Stamps -> 0 .. MaxSeq]
<1>1. Stamp \in Stamps /\ "commit" \in Stamps /\ "abort" \in Stamps
  BY DEF Stamp, Stamps
<1>2. seqs["commit"] \in 0 .. MaxSeq /\ seqs["abort"] \in 0 .. MaxSeq
  BY <1>1 DEF LoopTypeOK
<1>3. seqs[Stamp] \in Nat /\ seqs[Stamp] + 1 \in 1 .. MaxSeq
  BY <1>2, MaxSeqAssumption DEF TakeSeq, Stamp
<1>4. seqs' = [seqs EXCEPT ![Stamp] = seqs[Stamp] + 1]
  BY DEF TakeSeq
<1> QED
  BY <1>1, <1>3, <1>4, MaxSeqAssumption DEF LoopTypeOK

(* What AppendTo does to the topic.                                        *)
LEMMA AppendStep ==
  ASSUME LoopTypeOK, BrokerTypeOK, LoopInv, pc = "produce", TakeSeq,
         NEW k \in Partitions, AppendTo(k)
  PROVE  LogChange(k)
<1>1. /\ Stamp \in Stamps /\ seqs[Stamp] + 1 \in 1 .. MaxSeq
      /\ seqs' = [seqs EXCEPT ![Stamp] = seqs[Stamp] + 1]
  BY TakeSeqFacts
<1>2. Last \in 1 .. MaxTxns
  BY EOSBoundsAssumption, EarlierFacts DEF LoopInv, BrokerTypeOK, Last
<1>3. NewRecord \in Record
  BY <1>1, <1>2 DEF NewRecord, Record
<1>4. /\ log \in [Partitions -> Seq(Record)] /\ log[k] \in Seq(Record)
      /\ log' = [log EXCEPT ![k] = Append(log[k], NewRecord)]
  BY DEF BrokerTypeOK, AppendTo, NewRecord, Last
<1>5. Append(log[k], NewRecord) \in Seq(Record)
  BY <1>3, <1>4
<1>6. log'[k] = Append(log[k], NewRecord) /\ \A j \in Partitions : j # k => log'[j] = log[j]
  BY <1>4
<1>7. /\ Len(log'[k]) = Len(log[k]) + 1 /\ log'[k][Len(log[k]) + 1] = NewRecord
      /\ \A n \in Offsets(k) : log'[k][n] = log[k][n]
  BY <1>3, <1>4, <1>6 DEF Offsets
<1>8. \A j \in Partitions : \A n \in Offsets(j) : log'[j][n] = log[j][n]
  BY <1>6, <1>7
<1>9. log' \in [Partitions -> Seq(Record)]
  BY <1>4, <1>5
<1> QED
  BY <1>1, <1>3, <1>6, <1>7, <1>8, <1>9 DEF LogChange

(* Which offsets there are after a produce.                                *)
LEMMA OffsetsAfter ==
  ASSUME BrokerTypeOK, NEW k \in Partitions, LogChange(k), NEW j \in Partitions
  PROVE  /\ Offsets(j) \subseteq Offsets(j)' /\ Len(log[k]) \in Nat
         /\ Len(log[k]) + 1 \in Offsets(k)'
         /\ \A n \in Offsets(j)' :
              \/ n \in Offsets(j) /\ log'[j][n] = log[j][n]
              \/ j = k /\ n = Len(log[k]) + 1 /\ log'[j][n] = NewRecord
<1>1. \A i \in Partitions : Len(log[i]) \in Nat
  BY DEF BrokerTypeOK
<1>2. CASE j = k
  <2>1. Len(log'[k]) = Len(log[k]) + 1
    BY DEF LogChange
  <2>2. Offsets(k) = 1 .. Len(log[k]) /\ Offsets(k)' = 1 .. Len(log[k]) + 1
    BY <2>1 DEF Offsets
  <2>3. Offsets(k)' = Offsets(k) \cup {Len(log[k]) + 1}
    BY <1>1, <2>2
  <2> QED
    BY <1>1, <1>2, <2>3 DEF LogChange
<1>3. CASE j # k
  <2>1. log'[j] = log[j]
    BY <1>3 DEF LogChange
  <2>2. Len(log'[k]) = Len(log[k]) + 1
    BY DEF LogChange
  <2> QED
    BY <1>1, <2>1, <2>2 DEF Offsets
<1> QED
  BY <1>2, <1>3

(* A step appends one record of the transaction in progress, with a new    *)
(* number, or leaves the topic alone.                                      *)
LEMMA LogStep ==
  ASSUME LoopTypeOK, BrokerTypeOK, LoopInv, [Next]_vars
  PROVE  \/ \E k \in Partitions : /\ Produce \/ ProduceFails
                                  /\ LogChange(k)
         \/ log' = log
<1>1. \/ log' = log
      \/ /\ Produce \/ ProduceFails
         /\ pc = "produce" /\ TakeSeq /\ \E k \in Partitions : AppendTo(k)
  BY DEF Next, ProduceLoop, Return, Connect, BeginTransaction, BeginFails, Produce, ProduceFails,
         RateCancelled, EndTransaction, EndFails, CountSent, TxnTimeout, Consume, Deliver,
         SkipAborted, Leak, Drop, Resume, Fetch, EngineCalls, StopProducers, ProducersJoined,
         ResetTracker, ResetCounters, StartProducers, Snapshot, Finished, LeaveBody, Fault, vars,
         engineVars, localVars, loopVars, faultVars, counterVars, trackerVars, consumerVars
<1> QED
  BY <1>1, AppendStep

-----------------------------------------------------------------------------
(* A transaction has finitely many bodies ...                              *)
LEMMA BodiesFinite ==
  ASSUME LoopTypeOK
  PROVE  IsFiniteSet(bodies) /\ Cardinality(bodies) \in Nat
<1>1. IsFiniteSet(1 .. MaxSeq)
  BY MaxSeqAssumption, FS_Interval
<1>2. IsFiniteSet(bodies)
  BY <1>1, FS_Subset DEF LoopTypeOK
<1> QED
  BY <1>2, FS_CardinalityType

(* ... and a produce adds at most one.                                     *)
LEMMA BodiesGrow ==
  ASSUME LoopTypeOK, NEW s \in 1 .. MaxSeq
  PROVE  /\ Cardinality(bodies) \in Nat
         /\ Cardinality(bodies \cup {s}) \in Nat
         /\ Cardinality(bodies \cup {s}) <= Cardinality(bodies) + 1
<1>1. IsFiniteSet(bodies) /\ Cardinality(bodies) \in Nat
  BY BodiesFinite
<1>2. CASE s \in bodies
  <2>1. bodies \cup {s} = bodies
    BY <1>2
  <2>2. Cardinality(bodies \cup {s}) = Cardinality(bodies)
    BY <2>1, Zenon
  <2> QED
    BY <1>1, <2>2
<1>3. CASE s \notin bodies
  <2>1. Cardinality(bodies \cup {s}) = Cardinality(bodies) + 1
    BY <1>1, <1>3, FS_AddElement
  <2> QED
    BY <1>1, <2>1
<1> QED
  BY <1>2, <1>3

(* Every step of the produce loop keeps its types and its place.           *)
LEMMA ProduceLoopStep ==
  ASSUME LoopTypeOK, BrokerTypeOK, LoopInv, ProduceLoop
  PROVE  LoopTypeOK' /\ LoopInv'
<1> USE MaxSeqAssumption, TxnRecordsAssumption, EOSBoundsAssumption
<1>0. txns \in Seq(TxnStates) /\ Last \in Nat /\ Last <= MaxTxns /\ Earlier <= Last /\ Earlier \in Nat
  BY EarlierFacts DEF BrokerTypeOK, Last
<1>1. CASE Return
  BY <1>1 DEF Return, LoopTypeOK, LoopInv, engineVars, localVars, InTxn, Last
<1>2. CASE Connect
  BY <1>2 DEF Connect, LoopTypeOK, LoopInv, engineVars, localVars, InTxn, Last
<1>3. CASE BeginTransaction
  <2>1. Last' = Last + 1 /\ txns'[Last'] = "open"
    BY <1>0, <1>3 DEF BeginTransaction, Last
  <2>2. Cardinality(bodies') = 0 /\ bodies' = {}
    BY <1>3, FS_EmptySet DEF BeginTransaction
  <2>3. cycle' \in 0 .. 1 /\ commit' \in BOOLEAN /\ produceErr' \in BOOLEAN
    <3>1. cycle' \in 0 .. 1
      BY <1>3 DEF BeginTransaction, NextCycle, LoopTypeOK
    <3>2. commit' \in BOOLEAN /\ produceErr' \in BOOLEAN
      BY <1>3, Zenon DEF BeginTransaction
    <3> QED
      BY <3>1, <3>2
  <2>4. /\ pc = "begin" /\ pc' = "produce"
        /\ UNCHANGED <<phase, stop, warmSeq, connected, seqs, sent, counted, unknown>>
    BY <1>3 DEF BeginTransaction, engineVars
  <2>5. LoopTypeOK'
    BY <2>2, <2>3, <2>4 DEF LoopTypeOK
  <2>6. LoopInv'
    BY <1>0, <2>1, <2>2, <2>4 DEF LoopInv, InTxn
  <2> QED
    BY <2>5, <2>6
<1>4. CASE BeginFails
  <2>1. cycle' \in 0 .. 1 /\ connected' \in BOOLEAN
    BY <1>4 DEF BeginFails, NextCycle, LoopTypeOK
  <2> QED
    BY <1>4, <2>1 DEF BeginFails, LoopTypeOK, LoopInv, engineVars, localVars, InTxn
<1>5. CASE Produce
  <2>1. /\ seqs[Stamp] + 1 \in 1 .. MaxSeq
        /\ seqs' \in [Stamps -> 0 .. MaxSeq]
    BY <1>5, TakeSeqFacts DEF Produce
  <2>2. /\ bodies' = bodies \cup {seqs[Stamp] + 1}
        /\ pc = "produce" /\ pc' = IF Cardinality(bodies') = TxnRecords THEN "end" ELSE "produce"
        /\ UNCHANGED <<phase, stop, warmSeq, connected, cycle, commit, produceErr, sent, counted,
                       unknown, txns>>
    BY <1>5 DEF Produce, engineVars
  <2>3. /\ Cardinality(bodies) \in Nat /\ Cardinality(bodies') \in Nat
        /\ Cardinality(bodies') <= Cardinality(bodies) + 1
        /\ Cardinality(bodies) < TxnRecords
    BY <2>1, <2>2, BodiesGrow DEF LoopInv
  <2>4. Cardinality(bodies') <= TxnRecords
    BY <2>3
  <2>5. LoopTypeOK'
    BY <2>1, <2>2, <2>4 DEF LoopTypeOK
  <2>6. LoopInv'
    BY <2>2, <2>3, <2>4 DEF LoopInv, InTxn, Last
  <2> QED
    BY <2>5, <2>6
<1>6. CASE ProduceFails
  <2>1. seqs' \in [Stamps -> 0 .. MaxSeq]
    BY <1>6, TakeSeqFacts DEF ProduceFails
  <2>2. produceErr' \in BOOLEAN
    BY <1>6 DEF ProduceFails
  <2> QED
    BY <1>6, <2>1, <2>2 DEF ProduceFails, LoopTypeOK, LoopInv, engineVars, InTxn, Last
<1>7. CASE RateCancelled
  <2>1. produceErr' \in BOOLEAN
    BY <1>7 DEF RateCancelled
  <2> QED
    BY <1>7, <2>1 DEF RateCancelled, LoopTypeOK, LoopInv, engineVars, InTxn, Last
<1>8. CASE EndTransaction
  <2>1. /\ pc = "end" /\ pc' = "count" /\ txns' = [txns EXCEPT ![Last] = Disposition]
        /\ UNCHANGED <<phase, stop, warmSeq, connected, cycle, commit, bodies, produceErr, seqs,
                       sent, counted, unknown>>
    BY <1>8 DEF EndTransaction, engineVars, localVars, Last
  <2>2. Last > Earlier /\ Last >= 1 /\ Disposition' = Disposition
    BY <1>0, <2>1 DEF LoopInv, Disposition
  <2>3. Last' = Last /\ txns'[Last] = Disposition
    BY <1>0, <2>1, <2>2 DEF Last
  <2>4. LoopTypeOK'
    BY <2>1 DEF LoopTypeOK
  <2>5. LoopInv'
    BY <2>1, <2>2, <2>3 DEF LoopInv, InTxn
  <2> QED
    BY <2>4, <2>5
<1>9. CASE EndFails
  <2>1. Last \in 1 .. MaxTxns /\ unknown' = unknown \cup {Last}
    BY <1>0, <1>9 DEF EndFails, LoopInv, Last
  <2>2. commit' \in BOOLEAN /\ produceErr' \in BOOLEAN /\ connected' \in BOOLEAN
    BY <1>9 DEF EndFails, LeaveBody, LoopTypeOK
  <2>3. /\ bodies' = {} /\ pc' \in {"ended", "top"} /\ pc = "end"
        /\ UNCHANGED <<phase, stop, warmSeq, cycle, seqs, sent, counted>>
    BY <1>9 DEF EndFails, LeaveBody, engineVars
  <2>4. LoopTypeOK'
    BY <2>1, <2>2, <2>3, FS_EmptySet DEF LoopTypeOK
  <2>5. LoopInv'
    BY <2>3 DEF LoopInv, InTxn
  <2> QED
    BY <2>4, <2>5
<1>10. CASE CountSent
  <2>1. commit' \in BOOLEAN /\ produceErr' \in BOOLEAN
    BY <1>10 DEF CountSent, LeaveBody
  <2>2. /\ bodies' = {} /\ pc' \in {"ended", "top"} /\ pc = "count"
        /\ UNCHANGED <<phase, stop, warmSeq, connected, cycle, seqs, unknown>>
        /\ counted' \subseteq counted \cup bodies
        /\ sent' = sent \/ sent' = sent + Cardinality(bodies)
    BY <1>10 DEF CountSent, LeaveBody, engineVars
  <2>3. Cardinality(bodies) \in Nat
    BY BodiesFinite
  <2>4. LoopTypeOK'
    BY <2>1, <2>2, <2>3, FS_EmptySet DEF LoopTypeOK
  <2>5. LoopInv'
    BY <2>2 DEF LoopInv, InTxn
  <2> QED
    BY <2>4, <2>5
<1>11. CASE TxnTimeout
  <2>1. ~ connected /\ UNCHANGED <<engineVars, loopVars>>
    BY <1>11 DEF TxnTimeout
  <2> QED
    BY <2>1 DEF LoopTypeOK, LoopInv, engineVars, loopVars, localVars, InTxn
<1> QED
  BY <1>1, <1>2, <1>3, <1>4, <1>5, <1>6, <1>7, <1>8, <1>9, <1>10, <1>11 DEF ProduceLoop

(* The consumer and the engine's calls keep them.                          *)
LEMMA LoopStep ==
  ASSUME LoopTypeOK, BrokerTypeOK, LoopInv, [Next]_vars
  PROVE  LoopTypeOK' /\ LoopInv'
<1>1. CASE UNCHANGED <<loopVars, txns, phase, stop, warmSeq>>
  BY <1>1 DEF LoopTypeOK, LoopInv, loopVars, localVars, InTxn, Last, Disposition
<1>2. CASE StopProducers
  BY <1>2 DEF StopProducers, LoopTypeOK, LoopInv, loopVars, localVars, InTxn, Last, Disposition
<1>3. CASE ProducersJoined
  BY <1>3 DEF ProducersJoined, LoopTypeOK, LoopInv, localVars, InTxn
<1>4. CASE ResetTracker
  BY <1>4 DEF ResetTracker, LoopTypeOK, LoopInv, loopVars, localVars, InTxn
<1>5. CASE ResetCounters
  BY <1>5 DEF ResetCounters, LoopTypeOK, LoopInv, localVars, InTxn, Stamps
<1>6. CASE StartProducers
  BY <1>6 DEF StartProducers, LoopTypeOK, LoopInv, localVars, InTxn
<1>7. CASE Snapshot
  BY <1>7 DEF Snapshot, LoopTypeOK, LoopInv, loopVars, localVars, InTxn
<1>8. \/ ProduceLoop \/ StopProducers \/ ProducersJoined \/ ResetTracker \/ ResetCounters
      \/ StartProducers \/ Snapshot
      \/ UNCHANGED <<loopVars, txns, phase, stop, warmSeq>>
  BY DEF Next, Consume, Deliver, SkipAborted, Leak, Drop, Resume, Fetch, EngineCalls, Finished,
         vars, engineVars
<1> QED
  BY <1>1, <1>2, <1>3, <1>4, <1>5, <1>6, <1>7, <1>8, ProduceLoopStep

(* The topic and the transactions keep their types.                        *)
LEMMA BrokerStep ==
  ASSUME LoopTypeOK, BrokerTypeOK, LoopInv, [Next]_vars
  PROVE  BrokerTypeOK'
<1>1. txns' \in Seq(TxnStates) /\ Last' \in Earlier .. MaxTxns
  <2>1. txns' \in Seq(TxnStates) /\ Last' \in {Last, Last + 1}
    BY TxnsStep DEF TxnsChange
  <2>2. Last' # Last => BeginTransaction
    <3>1. \/ txns' = txns \/ txns' = Abandoned \/ BeginTransaction
          \/ pc = "end" /\ \E outcome \in {Disposition, "aborted", "open"} :
               txns' = [txns EXCEPT ![Len(txns)] = outcome]
      BY DEF Next, ProduceLoop, Return, Connect, BeginTransaction, BeginFails, Produce,
             ProduceFails, RateCancelled, EndTransaction, EndFails, CountSent, TxnTimeout,
             Consume, Deliver, SkipAborted, Leak, Drop, Resume, Fetch, EngineCalls, StopProducers,
             ProducersJoined, ResetTracker, ResetCounters, StartProducers, Snapshot, Finished,
             LeaveBody, Fault, vars, engineVars, localVars, loopVars, faultVars, counterVars,
             trackerVars, consumerVars
    <3>2. Len(Abandoned) = Last
      BY AbandonedFacts DEF BrokerTypeOK, TxnStates
    <3>3. ASSUME NEW outcome, txns' = [txns EXCEPT ![Len(txns)] = outcome]
          PROVE  Last' = Last
      BY <3>3 DEF BrokerTypeOK, Last
    <3> QED
      BY <3>1, <3>2, <3>3 DEF Last
  <2> QED
    BY <2>1, <2>2, EarlierFacts, EOSBoundsAssumption DEF BeginTransaction, BrokerTypeOK, Last
<1>2. log' \in [Partitions -> Seq(Record)]
  BY LogStep DEF LogChange, BrokerTypeOK
<1>3. \A j \in Partitions : Len(log[j]) \in Nat /\ Len(log'[j]) \in Nat /\ Len(log[j]) <= Len(log'[j])
  <2>1. ASSUME NEW k \in Partitions, LogChange(k), NEW j \in Partitions
        PROVE  Len(log[j]) <= Len(log'[j])
    <3>1. Len(log[j]) \in Nat
      BY DEF BrokerTypeOK
    <3>2. CASE j = k
      BY <2>1, <3>1, <3>2 DEF LogChange
    <3>3. CASE j # k
      BY <2>1, <3>1, <3>3 DEF LogChange
    <3> QED
      BY <3>2, <3>3
  <2>2. \A j \in Partitions : Len(log[j]) \in Nat /\ Len(log'[j]) \in Nat
    BY <1>2 DEF BrokerTypeOK
  <2> QED
    BY <2>1, <2>2, LogStep
<1>4. position' \in [Partitions -> Nat] /\ \A j \in Partitions : position'[j] <= Len(log[j])
  <2>1. CASE position' = position
    BY <2>1 DEF BrokerTypeOK
  <2>2. ASSUME NEW k \in Partitions, position[k] < Len(log[k]),
               position' = [position EXCEPT ![k] = @ + 1]
        PROVE  position' \in [Partitions -> Nat] /\ \A j \in Partitions : position'[j] <= Len(log[j])
    BY <1>3, <2>2 DEF BrokerTypeOK
  <2>3. ASSUME NEW k \in Partitions, NEW offset \in 0 .. position[k] - 1,
               position' = [position EXCEPT ![k] = offset]
        PROVE  position' \in [Partitions -> Nat] /\ \A j \in Partitions : position'[j] <= Len(log[j])
    BY <1>3, <2>3 DEF BrokerTypeOK
  <2>4. \/ position' = position
        \/ \E k \in Partitions : position[k] < Len(log[k]) /\ position' = [position EXCEPT ![k] = @ + 1]
        \/ \E k \in Partitions : \E offset \in 0 .. position[k] - 1 :
             position' = [position EXCEPT ![k] = offset]
    BY DEF Next, ProduceLoop, Return, Connect, BeginTransaction, BeginFails, Produce,
           ProduceFails, RateCancelled, EndTransaction, EndFails, CountSent, TxnTimeout, Consume,
           Deliver, SkipAborted, Leak, Drop, Resume, Fetch, EngineCalls, StopProducers,
           ProducersJoined, ResetTracker, ResetCounters, StartProducers, Snapshot, Finished,
           LeaveBody, Fault, vars, engineVars, localVars, loopVars, faultVars, counterVars,
           trackerVars, consumerVars
  <2> QED
    BY <2>1, <2>2, <2>3, <2>4
<1>5. \A j \in Partitions : position'[j] <= Len(log'[j])
  BY <1>3, <1>4
<1> QED
  BY <1>1, <1>2, <1>4, <1>5 DEF BrokerTypeOK, TxnStates, Last

(* The variables have their types before the warmup.                       *)
LEMMA InitTypes == Init => LoopTypeOK /\ BrokerTypeOK /\ LoopInv
<1> SUFFICES ASSUME Init
             PROVE  LoopTypeOK /\ BrokerTypeOK /\ LoopInv
  OBVIOUS
<1>1. stop \in BOOLEAN /\ connected \in BOOLEAN /\ commit \in BOOLEAN /\ produceErr \in BOOLEAN
  BY DEF Init
<1>2. /\ phase = "warmup" /\ warmSeq = 0 /\ pc = "top" /\ cycle = 0 /\ bodies = {}
      /\ seqs = [s \in Stamps |-> 0] /\ sent = 0 /\ counted = {} /\ unknown = {}
  BY DEF Init
<1>3. LoopTypeOK
  BY <1>1, <1>2, MaxSeqAssumption, TxnRecordsAssumption, FS_EmptySet DEF LoopTypeOK
<1>4. BrokerTypeOK
  <2>1. /\ txns = EarlierTxns /\ position = [k \in Partitions |-> 0]
        /\ log \in [Partitions -> UNION {[1 .. n -> Leftovers] : n \in 0 .. MaxLeftovers}]
    BY DEF Init
  <2>2. ASSUME NEW n \in 0 .. MaxLeftovers, NEW x \in [1 .. n -> Leftovers]
        PROVE  x \in Seq(Record)
    <3>1. x \in [1 .. n -> Record] /\ n \in Nat
      BY EOSBoundsAssumption, EOSLeftoversAssumption
    <3> QED
      BY <3>1
  <2>3. log \in [Partitions -> Seq(Record)]
    BY <2>1, <2>2
  <2>4. txns \in Seq(TxnStates) /\ Len(txns) \in Earlier .. MaxTxns
    BY <2>1, EarlierAssumption, EarlierFacts, EOSBoundsAssumption DEF Earlier
  <2>5. \A k \in Partitions : position[k] <= Len(log[k])
    BY <2>1, <2>3
  <2> QED
    BY <2>1, <2>3, <2>4, <2>5 DEF BrokerTypeOK
<1>5. LoopInv
  BY <1>2 DEF LoopInv, InTxn
<1> QED
  BY <1>3, <1>4, <1>5

(* The loop and the topic keep their types, and a transaction is open      *)
(* exactly while the loop works on it or lost its client.                  *)
THEOREM EOSLoop == Spec => [](LoopTypeOK /\ BrokerTypeOK /\ LoopInv)
<1> QED
  BY InitTypes, LoopStep, BrokerStep, PTL DEF Spec

-----------------------------------------------------------------------------
(* The records of the topic stay, and one more is there after a produce.   *)
LEMMA LogGrows ==
  ASSUME LoopTypeOK, BrokerTypeOK, LoopInv, [Next]_vars, NEW j \in Partitions
  PROVE  /\ \A n \in Offsets(j) : n \in Offsets(j)' /\ log'[j][n] = log[j][n]
         /\ \A n \in Offsets(j)' :
              \/ n \in Offsets(j) /\ log'[j][n] = log[j][n]
              \/ /\ Produce \/ ProduceFails
                 /\ LogChange(j) /\ n = Len(log[j]) + 1 /\ log'[j][n] = NewRecord
<1>1. CASE log' = log
  BY <1>1 DEF Offsets
<1>2. ASSUME NEW k \in Partitions, Produce \/ ProduceFails, LogChange(k)
      PROVE  /\ \A n \in Offsets(j) : n \in Offsets(j)' /\ log'[j][n] = log[j][n]
             /\ \A n \in Offsets(j)' :
                  \/ n \in Offsets(j) /\ log'[j][n] = log[j][n]
                  \/ /\ Produce \/ ProduceFails
                     /\ LogChange(j) /\ n = Len(log[j]) + 1 /\ log'[j][n] = NewRecord
  <2>1. /\ Offsets(j) \subseteq Offsets(j)'
        /\ \A n \in Offsets(j)' :
             \/ n \in Offsets(j) /\ log'[j][n] = log[j][n]
             \/ j = k /\ n = Len(log[k]) + 1 /\ log'[j][n] = NewRecord
    BY <1>2, OffsetsAfter
  <2>2. \A n \in Offsets(j) : log'[j][n] = log[j][n]
    BY <1>2 DEF LogChange
  <2> QED
    BY <1>2, <2>1, <2>2
<1> QED
  BY <1>1, <1>2, LogStep

(* What is at an offset is a record.                                       *)
LEMMA RecordAt ==
  ASSUME BrokerTypeOK, NEW k \in Partitions, NEW n \in Offsets(k)
  PROVE  /\ log[k][n] \in Record /\ log[k][n].stamp \in Stamps
         /\ log[k][n].seq \in 1 .. MaxSeq /\ log[k][n].seq \in Nat
         /\ log[k][n].txn \in Nat /\ log[k][n].txn >= 1
<1>1. log[k] \in Seq(Record)
  BY DEF BrokerTypeOK
<1>2. log[k][n] \in Record
  BY <1>1 DEF Offsets
<1> QED
  BY <1>2, MaxSeqAssumption, EOSBoundsAssumption DEF Record

(* The numbers only grow.                                                  *)
LEMMA SeqsGrow ==
  ASSUME LoopTypeOK, [Next]_vars
  PROVE  /\ seqs["commit"] \in Nat /\ seqs'["commit"] \in Nat
         /\ seqs["commit"] <= seqs'["commit"]
         /\ pc # "produce" => seqs' = seqs
<1>1. seqs \in [Stamps -> 0 .. MaxSeq] /\ "commit" \in Stamps
  BY DEF LoopTypeOK, Stamps
<1>2. seqs' = seqs \/ (pc = "produce" /\ TakeSeq)
  BY DEF Next, ProduceLoop, Return, Connect, BeginTransaction, BeginFails, Produce, ProduceFails,
         RateCancelled, EndTransaction, EndFails, CountSent, TxnTimeout, Consume, Deliver,
         SkipAborted, Leak, Drop, Resume, Fetch, EngineCalls, StopProducers, ProducersJoined,
         ResetTracker, ResetCounters, StartProducers, Snapshot, Finished, LeaveBody, Fault, vars,
         engineVars, localVars, loopVars, faultVars, counterVars, trackerVars, consumerVars
<1>3. CASE seqs' = seqs
  BY <1>1, <1>3, MaxSeqAssumption
<1>4. CASE pc = "produce" /\ TakeSeq
  <2>1. /\ Stamp \in Stamps /\ seqs[Stamp] \in Nat /\ seqs' \in [Stamps -> 0 .. MaxSeq]
        /\ seqs' = [seqs EXCEPT ![Stamp] = seqs[Stamp] + 1]
    BY <1>4, TakeSeqFacts
  <2> QED
    BY <1>1, <1>4, <2>1, MaxSeqAssumption
<1> QED
  BY <1>2, <1>3, <1>4

(* What a produce appends carries the next number.                         *)
LEMMA NewRecordFacts ==
  ASSUME LoopTypeOK, BrokerTypeOK, LoopInv, NEW k \in Partitions, LogChange(k),
         Produce \/ ProduceFails
  PROVE  /\ NewRecord.stamp = Stamp /\ NewRecord.seq = seqs[Stamp] + 1 /\ NewRecord.txn = Last
         /\ Own(NewRecord)
         /\ NewRecord.stamp = "commit" =>
              NewRecord.seq = seqs["commit"] + 1 /\ NewRecord.seq = seqs'["commit"]
         /\ txns' = txns /\ txns[Last] = "open" /\ pc = "produce"
         /\ commit' = commit /\ counted' = counted /\ unknown' = unknown
<1>1. NewRecord.stamp = Stamp /\ NewRecord.seq = seqs[Stamp] + 1 /\ NewRecord.txn = Last
  BY DEF NewRecord
<1>2. /\ txns' = txns /\ pc = "produce" /\ commit' = commit
      /\ counted' = counted /\ unknown' = unknown
  BY DEF Produce, ProduceFails
<1>3. "commit" \in Stamps /\ seqs \in [Stamps -> 0 .. MaxSeq]
  BY DEF LoopTypeOK, Stamps
<1>4. Stamp = "commit" => seqs'["commit"] = seqs["commit"] + 1
  BY <1>3 DEF LogChange
<1> QED
  BY <1>1, <1>2, <1>4 DEF LoopInv, Own

(* Committed records carry each number once.                               *)
LEMMA NumberStep ==
  ASSUME LoopTypeOK, BrokerTypeOK, LoopInv, NumberInv, [Next]_vars
  PROVE  NumberInv'
<1>0. /\ seqs["commit"] \in Nat /\ seqs'["commit"] \in Nat /\ seqs["commit"] <= seqs'["commit"]
      /\ Last \in Nat /\ Last' \in Nat /\ Last <= Last'
  <2>1. Last \in Nat
    BY DEF BrokerTypeOK, Last
  <2> QED
    BY <2>1, SeqsGrow, TxnsStep DEF TxnsChange
<1>1. ASSUME NEW k \in Partitions, NEW n \in Offsets(k)'
      PROVE  /\ log'[k][n].txn <= Last'
             /\ Own(log'[k][n]) /\ log'[k][n].stamp = "commit" => log'[k][n].seq <= seqs'["commit"]
  <2>1. CASE n \in Offsets(k) /\ log'[k][n] = log[k][n]
    <3>1. log[k][n].txn \in Nat /\ log[k][n].seq \in Nat
      BY <2>1, RecordAt
    <3>2. /\ log[k][n].txn <= Last
          /\ Own(log[k][n]) /\ log[k][n].stamp = "commit" => log[k][n].seq <= seqs["commit"]
      BY <2>1 DEF NumberInv
    <3> QED
      BY <1>0, <2>1, <3>1, <3>2
  <2>2. CASE /\ Produce \/ ProduceFails
             /\ LogChange(k) /\ n = Len(log[k]) + 1 /\ log'[k][n] = NewRecord
    BY <1>0, <2>2, NewRecordFacts DEF Last
  <2> QED
    BY <2>1, <2>2, LogGrows
<1>2. ASSUME NEW j \in Partitions, NEW k \in Partitions,
             NEW m \in Offsets(j)', NEW n \in Offsets(k)', Own(log'[j][m]), Own(log'[k][n]),
             log'[j][m].stamp = "commit", log'[k][n].stamp = "commit",
             log'[j][m].seq = log'[k][n].seq
      PROVE  j = k /\ m = n
  <2>1. ASSUME NEW i \in Partitions, NEW l \in Offsets(i)', Own(log'[i][l]), log'[i][l].stamp = "commit"
        PROVE  \/ /\ l \in Offsets(i) /\ log'[i][l] = log[i][l]
                  /\ log'[i][l].seq \in Nat /\ log'[i][l].seq <= seqs["commit"]
               \/ /\ Produce \/ ProduceFails
                  /\ LogChange(i) /\ l = Len(log[i]) + 1
                  /\ log'[i][l].seq = seqs["commit"] + 1
    <3>1. CASE l \in Offsets(i) /\ log'[i][l] = log[i][l]
      BY <2>1, <3>1, RecordAt DEF NumberInv
    <3>2. CASE /\ Produce \/ ProduceFails
               /\ LogChange(i) /\ l = Len(log[i]) + 1 /\ log'[i][l] = NewRecord
      BY <2>1, <3>2, NewRecordFacts
    <3> QED
      BY <3>1, <3>2, LogGrows
  <2>2. CASE /\ m \in Offsets(j) /\ log'[j][m] = log[j][m]
             /\ n \in Offsets(k) /\ log'[k][n] = log[k][n]
    BY <1>2, <2>2 DEF NumberInv
  <2>3. CASE LogChange(j) /\ m = Len(log[j]) + 1 /\ LogChange(k) /\ n = Len(log[k]) + 1
    <3>1. j = k
      <4>1. Len(log[j]) \in Nat
        BY DEF BrokerTypeOK
      <4> QED
        BY <2>3, <4>1 DEF LogChange
    <3> QED
      BY <2>3, <3>1
  <2> QED
    BY <1>0, <1>2, <2>1, <2>2, <2>3
<1> QED
  BY <1>1, <1>2 DEF NumberInv, Own

(* The records of the transaction in progress.                             *)
LEMMA BodyStep ==
  ASSUME LoopTypeOK, BrokerTypeOK, LoopInv, NumberInv, BodyInv, [Next]_vars
  PROVE  BodyInv'
<1>0. Last \in Nat
  BY DEF BrokerTypeOK, Last
<1>1. CASE BeginTransaction
  <2>1. Last' = Last + 1 /\ log' = log /\ bodies' = {}
    BY <1>1 DEF BeginTransaction, BrokerTypeOK, Last
  <2>2. \A k \in Partitions : \A n \in Offsets(k) : log[k][n].txn # Last + 1
    BY <1>0, RecordAt DEF NumberInv
  <2> QED
    BY <2>1, <2>2 DEF BodyInv, Offsets
<1>2. CASE Produce \/ ProduceFails
  <2>1. /\ pc \in InTxn /\ Last' = Last /\ Stamp' = Stamp /\ bodies \subseteq bodies'
        /\ ~ produceErr' => ~ produceErr /\ Produce
        /\ bodies' \subseteq bodies \cup {seqs[Stamp] + 1}
        /\ Produce => seqs[Stamp] + 1 \in bodies'
        /\ seqs[Stamp] + 1 \in bodies' \ bodies => Produce
    BY <1>2 DEF Produce, ProduceFails, Last, Stamp, InTxn, LoopTypeOK
  <2>2. ASSUME NEW k \in Partitions, NEW n \in Offsets(k)', log'[k][n].txn = Last'
        PROVE  log'[k][n].stamp = Stamp' /\ (~ produceErr' => log'[k][n].seq \in bodies')
    <3>1. CASE n \in Offsets(k) /\ log'[k][n] = log[k][n]
      BY <2>1, <2>2, <3>1 DEF BodyInv
    <3>2. CASE LogChange(k) /\ n = Len(log[k]) + 1 /\ log'[k][n] = NewRecord
      BY <1>2, <2>1, <3>2, NewRecordFacts
    <3> QED
      BY <3>1, <3>2, LogGrows
  <2>3. ASSUME NEW s \in bodies'
        PROVE  \E k \in Partitions : \E n \in Offsets(k)' :
                 log'[k][n].seq = s /\ log'[k][n].txn = Last'
    <3>1. CASE s \in bodies
      <4>1. PICK k \in Partitions : \E n \in Offsets(k) : log[k][n].seq = s /\ log[k][n].txn = Last
        BY <2>1, <3>1 DEF BodyInv
      <4>2. PICK n \in Offsets(k) : log[k][n].seq = s /\ log[k][n].txn = Last
        BY <4>1
      <4>3. n \in Offsets(k)' /\ log'[k][n] = log[k][n]
        BY LogGrows
      <4> QED
        BY <2>1, <4>2, <4>3
    <3>2. CASE s \notin bodies
      <4>1. s = seqs[Stamp] + 1 /\ Produce
        BY <2>1, <3>2
      <4>2. PICK k \in Partitions : AppendTo(k)
        BY <4>1 DEF Produce
      <4>3. LogChange(k)
        BY <4>1, <4>2, AppendStep DEF Produce
      <4>4. Len(log[k]) + 1 \in Offsets(k)'
        BY <4>3, OffsetsAfter
      <4>5. log'[k][Len(log[k]) + 1] = NewRecord
        BY <4>3 DEF LogChange
      <4> QED
        BY <2>1, <4>1, <4>3, <4>4, <4>5, NewRecordFacts
    <3> QED
      BY <3>1, <3>2
  <2> QED
    BY <2>2, <2>3 DEF BodyInv
<1>3. CASE pc' \notin InTxn
  BY <1>3 DEF BodyInv
<1>4. CASE /\ pc \in InTxn /\ UNCHANGED <<log, commit, bodies>> /\ Last' = Last
           /\ ~ produceErr' => ~ produceErr
  BY <1>4 DEF BodyInv, Offsets, Stamp
<1>5. \/ BeginTransaction \/ Produce \/ ProduceFails
      \/ pc' \notin InTxn
      \/ /\ pc \in InTxn /\ UNCHANGED <<log, commit, bodies>> /\ Last' = Last
         /\ ~ produceErr' => ~ produceErr
  <2>1. CASE RateCancelled
    BY <2>1 DEF RateCancelled, InTxn, Last, LoopTypeOK
  <2>2. CASE EndTransaction
    BY <2>2 DEF EndTransaction, InTxn, Last, BrokerTypeOK, localVars
  <2>3. CASE Return \/ Connect \/ BeginFails \/ EndFails \/ CountSent \/ StartProducers
    BY <2>3 DEF Return, Connect, BeginFails, EndFails, CountSent, StartProducers, InTxn
  <2>4. CASE TxnTimeout
    BY <2>4 DEF TxnTimeout, InTxn, LoopInv, loopVars
  <2>5. CASE UNCHANGED <<pc, log, commit, bodies, produceErr, txns>>
    BY <2>5 DEF Last
  <2>6. \/ BeginTransaction \/ Produce \/ ProduceFails \/ RateCancelled \/ EndTransaction
        \/ Return \/ Connect \/ BeginFails \/ EndFails \/ CountSent \/ StartProducers \/ TxnTimeout
        \/ UNCHANGED <<pc, log, commit, bodies, produceErr, txns>>
    BY DEF Next, ProduceLoop, Consume, Deliver, SkipAborted, Leak, Drop, Resume, Fetch,
           EngineCalls, StopProducers, ProducersJoined, ResetTracker, ResetCounters, Snapshot,
           Finished, vars, loopVars, localVars
  <2> QED
    BY <2>1, <2>2, <2>3, <2>4, <2>5, <2>6
<1> QED
  BY <1>1, <1>2, <1>3, <1>4, <1>5

-----------------------------------------------------------------------------
(* What is counted stays counted, and only CountSent counts.               *)
LEMMA CountedGrows ==
  ASSUME LoopInv, [Next]_vars
  PROVE  /\ counted \subseteq counted' /\ unknown \subseteq unknown'
         /\ counted' # counted => CountSent
         /\ pc = "count" => CountSent \/ (pc' = "count" /\ txns' = txns)
<1>1. counted \subseteq counted' /\ unknown \subseteq unknown'
  BY DEF Next, ProduceLoop, Return, Connect, BeginTransaction, BeginFails, Produce, ProduceFails,
         RateCancelled, EndTransaction, EndFails, CountSent, TxnTimeout, Consume, Deliver,
         SkipAborted, Leak, Drop, Resume, Fetch, EngineCalls, StopProducers, ProducersJoined,
         ResetTracker, ResetCounters, StartProducers, Snapshot, Finished, LeaveBody, Fault, vars,
         engineVars, localVars, loopVars, faultVars, counterVars, trackerVars, consumerVars
<1>2. counted' # counted => CountSent
  BY DEF Next, ProduceLoop, Return, Connect, BeginTransaction, BeginFails, Produce, ProduceFails,
         RateCancelled, EndTransaction, EndFails, TxnTimeout, Consume, Deliver,
         SkipAborted, Leak, Drop, Resume, Fetch, EngineCalls, StopProducers, ProducersJoined,
         ResetTracker, ResetCounters, StartProducers, Snapshot, Finished, vars, loopVars
<1>3. pc = "count" => CountSent \/ (pc' = "count" /\ txns' = txns)
  BY DEF Next, ProduceLoop, Return, Connect, BeginTransaction, BeginFails, Produce, ProduceFails,
         RateCancelled, EndTransaction, EndFails, TxnTimeout, Consume, Deliver,
         SkipAborted, Leak, Drop, Resume, Fetch, EngineCalls, StopProducers, ProducersJoined,
         ResetTracker, ResetCounters, StartProducers, Snapshot, Finished, vars, loopVars,
         LoopInv, InTxn
<1> QED
  BY <1>1, <1>2, <1>3

(* The records the loop counts are those of the transaction it committed.  *)
LEMMA CountSentFacts ==
  ASSUME LoopInv, CountSent
  PROVE  /\ pc = "count" /\ log' = log /\ txns' = txns /\ Last' = Last /\ txns[Last] = Disposition
         /\ Last > Earlier
         /\ Disposition = "committed" => counted' = counted \cup bodies /\ ~ produceErr
         /\ Disposition # "committed" => counted' = counted
BY DEF CountSent, LoopInv, Disposition, Last

(* What is committed is counted, or about to be, or its call failed.       *)
LEMMA CommitStep ==
  ASSUME LoopTypeOK, BrokerTypeOK, LoopInv, NumberInv, BodyInv, CommitInv, [Next]_vars
  PROVE  CommitInv'
<1> SUFFICES ASSUME NEW k \in Partitions, NEW n \in Offsets(k)',
                    txns'[log'[k][n].txn] = "committed"
             PROVE  /\ log'[k][n].stamp = "commit"
                    /\ Own(log'[k][n]) =>
                         \/ log'[k][n].seq \in counted'
                         \/ log'[k][n].txn \in unknown'
                         \/ pc' = "count" /\ log'[k][n].txn = Last'
  BY DEF CommitInv, Own
<1>1. n \in Offsets(k) /\ log'[k][n] = log[k][n]
  <2>1. CASE /\ Produce \/ ProduceFails
             /\ LogChange(k) /\ n = Len(log[k]) + 1 /\ log'[k][n] = NewRecord
    BY <2>1, NewRecordFacts
  <2> QED
    BY <2>1, LogGrows
<1>2. log[k][n].txn \in 1 .. Last
  BY <1>1, RecordAt DEF NumberInv, BrokerTypeOK, Last
<1>3. CASE txns[log[k][n].txn] = "committed"
  <2>1. /\ log[k][n].stamp = "commit"
        /\ Own(log[k][n]) =>
             \/ log[k][n].seq \in counted
             \/ log[k][n].txn \in unknown
             \/ pc = "count" /\ log[k][n].txn = Last
    BY <1>1, <1>3 DEF CommitInv
  <2>2. CASE pc = "count" /\ log[k][n].txn = Last /\ CountSent
    <3>1. Disposition = "committed" /\ ~ produceErr /\ counted' = counted \cup bodies
      BY <1>3, <2>2, CountSentFacts
    <3>2. log[k][n].seq \in bodies
      BY <1>1, <2>2, <3>1 DEF BodyInv, InTxn
    <3> QED
      BY <1>1, <2>1, <3>1, <3>2
  <2>3. CASE pc = "count" /\ log[k][n].txn = Last /\ pc' = "count" /\ txns' = txns
    BY <1>1, <2>1, <2>3 DEF Last
  <2> QED
    BY <1>1, <2>1, <2>2, <2>3, CountedGrows
<1>4. CASE txns[log[k][n].txn] # "committed"
  <2>1. log[k][n].txn = Last /\ pc = "end" /\ Disposition = "committed"
    BY <1>1, <1>2, <1>4, TxnsStep DEF TxnsChange
  <2>2. log[k][n].stamp = "commit"
    BY <1>1, <2>1 DEF BodyInv, InTxn, Disposition, Stamp
  <2>3. txns' # txns
    BY <1>1, <1>4
  <2>4. EndTransaction \/ EndFails
    BY <2>1, <2>3 DEF Next, ProduceLoop, Return, Connect, BeginTransaction, BeginFails, Produce,
         ProduceFails, RateCancelled, CountSent, TxnTimeout, Consume, Deliver, SkipAborted, Leak,
         Drop, Resume, Fetch, EngineCalls, StopProducers, ProducersJoined, ResetTracker,
         ResetCounters, StartProducers, Snapshot, Finished, vars, LoopInv, InTxn
  <2>5. CASE EndTransaction
    <3>1. pc' = "count" /\ Last' = Last
      BY <2>5 DEF EndTransaction, BrokerTypeOK, Last
    <3> QED
      BY <1>1, <2>1, <2>2, <3>1
  <2>6. CASE EndFails
    BY <1>1, <2>1, <2>2, <2>6 DEF EndFails, Last
  <2> QED
    BY <2>4, <2>5, <2>6
<1> QED
  BY <1>3, <1>4

(* Whatever is counted is committed.                                       *)
LEMMA CountStep ==
  ASSUME LoopTypeOK, BrokerTypeOK, LoopInv, NumberInv, BodyInv, CountInv, [Next]_vars
  PROVE  CountInv'
<1> SUFFICES ASSUME NEW s \in counted'
             PROVE  \E k \in Partitions : \E n \in Offsets(k)' :
                      /\ log'[k][n].seq = s /\ Own(log'[k][n])
                      /\ txns'[log'[k][n].txn] = "committed"
  BY DEF CountInv, Own
<1>1. CASE s \in counted
  <2>1. PICK k \in Partitions : \E n \in Offsets(k) :
          log[k][n].seq = s /\ Own(log[k][n]) /\ txns[log[k][n].txn] = "committed"
    BY <1>1 DEF CountInv
  <2>2. PICK n \in Offsets(k) :
          log[k][n].seq = s /\ Own(log[k][n]) /\ txns[log[k][n].txn] = "committed"
    BY <2>1
  <2>3. n \in Offsets(k)' /\ log'[k][n] = log[k][n]
    BY LogGrows
  <2>4. log[k][n].txn \in 1 .. Last
    BY RecordAt DEF NumberInv, BrokerTypeOK, Last
  <2>5. txns'[log[k][n].txn] = "committed"
    BY <2>2, <2>4, TxnsStep DEF TxnsChange
  <2> QED
    BY <2>2, <2>3, <2>5
<1>2. CASE s \notin counted
  <2>1. CountSent
    BY <1>2, CountedGrows
  <2>2. /\ pc = "count" /\ log' = log /\ txns' = txns
        /\ txns[Last] = "committed" /\ s \in bodies /\ Last > Earlier
    BY <1>2, <2>1, CountSentFacts
  <2>3. PICK k \in Partitions : \E n \in Offsets(k) : log[k][n].seq = s /\ log[k][n].txn = Last
    BY <2>2 DEF BodyInv, InTxn
  <2> QED
    BY <2>2, <2>3 DEF Offsets, Own
<1> QED
  BY <1>1, <1>2

(* Before the warmup the topic holds nothing but leftovers ...             *)
LEMMA InitLeftovers ==
  ASSUME Init, NEW k \in Partitions, NEW n \in Offsets(k)
  PROVE  /\ log[k][n] \in Record /\ ~ Own(log[k][n]) /\ log[k][n].txn <= Last
         /\ txns[log[k][n].txn] = "committed" => log[k][n].stamp = "commit"
<1>1. /\ txns = EarlierTxns
      /\ log \in [Partitions -> UNION {[1 .. i -> Leftovers] : i \in 0 .. MaxLeftovers}]
  BY DEF Init
<1>2. PICK i \in 0 .. MaxLeftovers : log[k] \in [1 .. i -> Leftovers]
  BY <1>1
<1>3. i \in Nat /\ Len(log[k]) = i
  BY <1>2, EOSBoundsAssumption
<1>4. log[k][n] \in Leftovers
  BY <1>2, <1>3 DEF Offsets
<1>5. /\ log[k][n] \in Record /\ ~ Own(log[k][n])
      /\ EarlierTxns[log[k][n].txn] = "committed" => log[k][n].stamp = "commit"
  BY <1>4, EOSLeftoversAssumption
<1>6. log[k][n].txn \in Nat
  BY <1>5, EOSBoundsAssumption DEF Record
<1> QED
  BY <1>1, <1>5, <1>6, EarlierFacts DEF Own, Earlier, Last

(* ... and nothing of this run.                                            *)
LEMMA InitRecords == Init => NumberInv /\ BodyInv /\ CommitInv /\ CountInv
<1> SUFFICES ASSUME Init
             PROVE  NumberInv /\ BodyInv /\ CommitInv /\ CountInv
  OBVIOUS
<1>1. pc = "top" /\ counted = {}
  BY DEF Init
<1>2. \A k \in Partitions : \A n \in Offsets(k) :
        /\ ~ Own(log[k][n]) /\ log[k][n].txn <= Last
        /\ txns[log[k][n].txn] = "committed" => log[k][n].stamp = "commit"
  BY InitLeftovers
<1> QED
  BY <1>1, <1>2 DEF NumberInv, BodyInv, CommitInv, CountInv, InTxn

(* The numbers of the committed records, their transactions and what is    *)
(* counted agree.                                                          *)
SentInv == NumberInv /\ BodyInv /\ CommitInv /\ CountInv

(* This run's committed records have unique numbers, and what is counted   *)
(* as sent is what was committed.                                          *)
THEOREM EOSSent == Spec => []SentInv
<1>1. Init => SentInv
  BY InitRecords DEF SentInv
<1>2. LoopTypeOK /\ BrokerTypeOK /\ LoopInv /\ SentInv /\ [Next]_vars => SentInv'
  BY NumberStep, BodyStep, CommitStep, CountStep DEF SentInv
<1> QED
  BY <1>1, <1>2, EOSLoop, PTL DEF Spec

(* Only records of committed transactions are counted as sent, and between *)
(* two transactions each of them has been, unless its call failed.         *)
THEOREM EOSSentIsCommitted == Spec => []SentIsCommitted
<1>1. SentInv => SentIsCommitted
  <2> SUFFICES ASSUME SentInv
               PROVE  SentIsCommitted
    OBVIOUS
  <2>1. \A r \in Records : \E k \in Partitions : \E n \in Offsets(k) : r = log[k][n]
    BY DEF Records, Offsets
  <2>2. \A k \in Partitions : \A n \in Offsets(k) : log[k][n] \in Records
    BY DEF Records, Offsets
  <2>3. counted \subseteq CommittedSeqs
    BY <2>2 DEF SentInv, CountInv, CommittedSeqs
  <2>4. ASSUME pc \in {"top", "ended"}, NEW r \in Records, Own(r),
               txns[r.txn] = "committed"
        PROVE  r.seq \in counted \/ r.txn \in unknown
    BY <2>1, <2>4 DEF SentInv, CommitInv
  <2> QED
    BY <2>3, <2>4 DEF SentIsCommitted
<1> QED
  BY <1>1, EOSSent, PTL

-----------------------------------------------------------------------------
(* The counters of the consumer start over when ResetCounters resets them. *)
CountersStartOver == eosViolations' = 0 /\ kip890Residual' = 0

(* The consumer's state is changed by the consumer, but for the reset.     *)
LEMMA OnlyConsumerReads ==
  ASSUME [Next]_vars
  PROVE  \/ \E k \in Partitions : Consume(k)
         \/ /\ UNCHANGED <<position, seen, dropped, leaks, rewinds>>
            /\ CountersStartOver \/ UNCHANGED <<eosViolations, kip890Residual>>
            /\ warmSeen' \in {warmSeen, seen}
            /\ faults' = faults \/ Fault
BY DEF Next, ProduceLoop, Return, Connect, BeginTransaction, BeginFails, Produce, ProduceFails,
       RateCancelled, EndTransaction, EndFails, CountSent, TxnTimeout, EngineCalls, StopProducers,
       ProducersJoined, ResetTracker, ResetCounters, StartProducers, Snapshot, Finished, vars,
       engineVars, consumerVars, faultVars, counterVars, CountersStartOver

(* What the consumer reads is the record behind its position.              *)
LEMMA FetchFacts ==
  ASSUME BrokerTypeOK, NEW k \in Partitions, NEW state, Fetch(k, state)
  PROVE  /\ position[k] \in Nat /\ position[k] + 1 \in Offsets(k)
         /\ Fetched(k) = log[k][position[k] + 1] /\ txns[Fetched(k).txn] = state
         /\ Fetched(k).stamp \in Stamps /\ Fetched(k).seq \in 1 .. MaxSeq /\ Fetched(k).seq \in Nat
         /\ \A j \in Partitions : position'[j] = IF j = k THEN position[k] + 1 ELSE position[j]
         /\ txns' = txns /\ log' = log /\ seqs' = seqs /\ phase' = phase
         /\ warmSeen' = warmSeen /\ warmSeq' = warmSeq
<1>1. /\ position[k] \in Nat /\ position[k] < Len(log[k]) /\ Len(log[k]) \in Nat
      /\ position \in [Partitions -> Nat]
  BY DEF Fetch, BrokerTypeOK
<1>2. position[k] + 1 \in Offsets(k)
  BY <1>1 DEF Offsets
<1>3. Fetched(k) = log[k][position[k] + 1]
  BY DEF Fetched
<1>4. Fetched(k).stamp \in Stamps /\ Fetched(k).seq \in 1 .. MaxSeq /\ Fetched(k).seq \in Nat
  BY <1>2, <1>3, RecordAt
<1>5. \A j \in Partitions : position'[j] = IF j = k THEN position[k] + 1 ELSE position[j]
  BY <1>1 DEF Fetch
<1>6. /\ txns[Fetched(k).txn] = state /\ txns' = txns /\ log' = log /\ seqs' = seqs
      /\ phase' = phase /\ warmSeen' = warmSeen /\ warmSeq' = warmSeq
  BY DEF Fetch, Fetched, engineVars, loopVars
<1> QED
  BY <1>1, <1>2, <1>3, <1>4, <1>5, <1>6

(* What the consumer remembers after a step of its own: a record was       *)
(* handled, or skipped, or dropped, or a resumption moved it back.         *)
LEMMA ConsumeEffect ==
  ASSUME NEW k \in Partitions, Consume(k)
  PROVE  \/ /\ Fetch(k, "committed") /\ HandleRecord(Fetched(k))
            /\ UNCHANGED <<faults, dropped, leaks, rewinds>>
         \/ /\ Fetch(k, "aborted")
            /\ UNCHANGED <<faults, dropped, leaks, rewinds, seen, eosViolations, kip890Residual,
                           trackerVars>>
         \/ /\ Fetch(k, "aborted") /\ HandleRecord(Fetched(k))
            /\ Fault /\ leaks' = leaks + 1 /\ UNCHANGED <<dropped, rewinds>>
         \/ /\ Fetch(k, "committed") /\ Fault
            /\ dropped' = IF Own(Fetched(k)) THEN dropped \cup {Fetched(k).seq} ELSE dropped
            /\ UNCHANGED <<leaks, rewinds, seen, eosViolations, kip890Residual, trackerVars>>
         \/ /\ Fault /\ rewinds' = rewinds + 1
            /\ \E offset \in 0 .. position[k] - 1 : position' = [position EXCEPT ![k] = offset]
            /\ UNCHANGED <<txns, log, seqs, phase, warmSeq, warmSeen, dropped, leaks, seen,
                           eosViolations, kip890Residual, trackerVars>>
BY DEF Consume, Deliver, SkipAborted, Leak, Drop, Resume, faultVars, counterVars, engineVars, loopVars

(* The consumer's variables keep their types.                              *)
LEMMA ConsumerStep ==
  ASSUME BrokerTypeOK, ConsumerTypeOK, [Next]_vars
  PROVE  ConsumerTypeOK'
<1>0. /\ faults \in Nat /\ eosViolations \in Nat /\ kip890Residual \in Nat
      /\ leaks \in 0 .. faults /\ rewinds \in 0 .. faults
  BY DEF ConsumerTypeOK
<1>1. ASSUME NEW k \in Partitions, NEW state, Fetch(k, state), HandleRecord(Fetched(k))
      PROVE  /\ seen' \subseteq 1 .. MaxSeq
             /\ eosViolations' \in Nat /\ kip890Residual' \in Nat
  <2>1. /\ seen' = seen \/ seen' = seen \cup {Fetched(k).seq}
        /\ eosViolations' \in {eosViolations, eosViolations + 1}
        /\ kip890Residual' \in {kip890Residual, kip890Residual + 1}
    BY <1>1 DEF HandleRecord, HandleAborted, HandleDuplicate, HandleCommitted
  <2>2. Fetched(k).seq \in 1 .. MaxSeq /\ seen \subseteq 1 .. MaxSeq
    BY <1>1, FetchFacts DEF ConsumerTypeOK
  <2>3. eosViolations' \in Nat /\ kip890Residual' \in Nat
    BY <1>0, <2>1
  <2>4. seen' \subseteq 1 .. MaxSeq
    BY <2>1, <2>2
  <2> QED
    BY <2>3, <2>4
<1>2. ASSUME NEW k \in Partitions, NEW state, Fetch(k, state)
      PROVE  Fetched(k).seq \in 1 .. MaxSeq /\ warmSeen' = warmSeen
  BY <1>2, FetchFacts
<1>3. Fault => faults' = faults + 1 /\ faults' \in Nat
  BY <1>0 DEF Fault
<1>4. /\ eosViolations' \in Nat /\ kip890Residual' \in Nat
      /\ seen' \subseteq 1 .. MaxSeq
  <2>1. ASSUME NEW k \in Partitions, Consume(k)
        PROVE  /\ eosViolations' \in Nat /\ kip890Residual' \in Nat
               /\ seen' \subseteq 1 .. MaxSeq
    <3>1. CASE UNCHANGED <<seen, eosViolations, kip890Residual>>
      BY <1>0, <3>1 DEF ConsumerTypeOK
    <3> QED
      BY <1>1, <2>1, <3>1, ConsumeEffect
  <2>2. CASE /\ seen' = seen
             /\ CountersStartOver \/ UNCHANGED <<eosViolations, kip890Residual>>
    BY <1>0, <2>2 DEF ConsumerTypeOK, CountersStartOver
  <2> QED
    BY <2>1, <2>2, OnlyConsumerReads
<1>5. dropped' \subseteq 1 .. MaxSeq /\ warmSeen' \subseteq 1 .. MaxSeq
  <2>1. ASSUME NEW k \in Partitions, Consume(k)
        PROVE  dropped' \subseteq 1 .. MaxSeq /\ warmSeen' \subseteq 1 .. MaxSeq
    <3>1. /\ warmSeen' = warmSeen
          /\ \/ dropped' = dropped
             \/ Fetch(k, "committed") /\ dropped' = dropped \cup {Fetched(k).seq}
      BY <1>2, <2>1, ConsumeEffect
    <3>2. dropped \subseteq 1 .. MaxSeq /\ warmSeen \subseteq 1 .. MaxSeq
      BY DEF ConsumerTypeOK
    <3>3. Fetch(k, "committed") => Fetched(k).seq \in 1 .. MaxSeq
      BY <1>2
    <3> QED
      BY <3>1, <3>2, <3>3
  <2> QED
    BY <2>1, OnlyConsumerReads DEF ConsumerTypeOK
<1>6. faults' \in Nat /\ leaks' \in 0 .. faults' /\ rewinds' \in 0 .. faults'
  <2>1. ASSUME NEW k \in Partitions, Consume(k)
        PROVE  \/ UNCHANGED <<faults, leaks, rewinds>>
               \/ Fault /\ leaks' \in {leaks, leaks + 1} /\ rewinds' \in {rewinds, rewinds + 1}
    BY <2>1, ConsumeEffect
  <2>2. \/ UNCHANGED <<faults, leaks, rewinds>>
        \/ Fault /\ leaks' \in {leaks, leaks + 1} /\ rewinds' \in {rewinds, rewinds + 1}
    BY <2>1, OnlyConsumerReads
  <2> QED
    BY <1>0, <1>3, <2>2
<1> QED
  BY <1>4, <1>5, <1>6 DEF ConsumerTypeOK

(* What the consumer saw or the broker dropped stays so.                   *)
LEMMA SeenGrows ==
  ASSUME [Next]_vars
  PROVE  seen \subseteq seen' /\ dropped \subseteq dropped'
BY OnlyConsumerReads, ConsumeEffect DEF HandleRecord, HandleAborted, HandleDuplicate, HandleCommitted

(* The consumer has seen every committed record it passed, and counts no   *)
(* violation without a leak.                                               *)
LEMMA ReadStep ==
  ASSUME LoopTypeOK, BrokerTypeOK, ConsumerTypeOK, LoopInv, NumberInv, CommitInv, ReadInv, [Next]_vars
  PROVE  ReadInv'
<1>0. leaks \in Nat /\ eosViolations \in Nat /\ \A k \in Partitions : position[k] \in Nat
  BY DEF ConsumerTypeOK, BrokerTypeOK
<1>1. ASSUME NEW k \in Partitions, Fetch(k, "committed"), HandleRecord(Fetched(k))
      PROVE  eosViolations' = eosViolations /\ Fetched(k).seq \in seen'
  <2>1. Fetched(k).stamp = "commit"
    BY <1>1, FetchFacts DEF CommitInv
  <2> QED
    BY <1>1, <2>1 DEF HandleRecord, HandleAborted, HandleDuplicate, HandleCommitted, DeliveredBefore
<1>2. leaks' = 0 => eosViolations' = 0
  <2>1. ASSUME NEW k \in Partitions, Consume(k)
        PROVE  leaks' = leaks + 1 \/ (leaks' = leaks /\ eosViolations' = eosViolations)
    BY <1>1, <2>1, ConsumeEffect
  <2>2. \/ leaks' = leaks + 1
        \/ leaks' = leaks /\ (eosViolations' = eosViolations \/ eosViolations' = 0)
    BY <2>1, OnlyConsumerReads DEF CountersStartOver
  <2> QED
    BY <1>0, <2>2 DEF ReadInv
<1>3. ASSUME NEW k \in Partitions, NEW n \in 1 .. position'[k]
      PROVE  /\ txns'[log'[k][n].txn] # "open"
             /\ Own(log'[k][n]) /\ txns'[log'[k][n].txn] = "committed" =>
                  log'[k][n].seq \in seen' \cup dropped'
  <2>1. CASE n \in 1 .. position[k]
    <3>1. n \in Offsets(k)
      BY <1>0, <2>1 DEF BrokerTypeOK, Offsets
    <3>2. log'[k][n] = log[k][n]
      BY <3>1, LogGrows
    <3>3. log[k][n].txn \in 1 .. Last
      BY <3>1, RecordAt DEF NumberInv, BrokerTypeOK, Last
    <3>4. /\ txns[log[k][n].txn] # "open"
          /\ Own(log[k][n]) /\ txns[log[k][n].txn] = "committed" =>
               log[k][n].seq \in seen \cup dropped
      BY <2>1 DEF ReadInv
    <3>5. txns'[log[k][n].txn] = txns[log[k][n].txn]
      BY <3>3, <3>4, TxnsStep DEF TxnsChange
    <3> QED
      BY <3>2, <3>4, <3>5, SeenGrows
  <2>2. CASE n \notin 1 .. position[k]
    <3>1. position' # position
      BY <2>2
    <3>2. PICK j \in Partitions : Consume(j)
      BY <3>1, OnlyConsumerReads
    <3>3. ~ \E offset \in 0 .. position[j] - 1 : position' = [position EXCEPT ![j] = offset]
      <4>1. SUFFICES ASSUME NEW offset \in 0 .. position[j] - 1,
                            position' = [position EXCEPT ![j] = offset]
                     PROVE  FALSE
        OBVIOUS
      <4>2. position'[k] = IF k = j THEN offset ELSE position[k]
        BY <4>1 DEF BrokerTypeOK
      <4>3. position[j] \in Nat /\ position[k] \in Nat
        BY <1>0
      <4>4. position'[k] \in Nat /\ position'[k] <= position[k]
        BY <4>1, <4>2, <4>3
      <4> QED
        BY <2>2, <4>3, <4>4
    <3>4. \/ Fetch(j, "aborted")
          \/ Fetch(j, "committed") /\ (Own(Fetched(j)) => Fetched(j).seq \in seen' \cup dropped')
      BY <1>1, <3>2, <3>3, ConsumeEffect
    <3>5. PICK state \in {"committed", "aborted"} :
            /\ Fetch(j, state)
            /\ Own(Fetched(j)) /\ state = "committed" => Fetched(j).seq \in seen' \cup dropped'
      BY <3>4
    <3>6. /\ txns' = txns /\ log' = log /\ txns[Fetched(j).txn] = state
          /\ Fetched(j) = log[j][position[j] + 1]
          /\ position'[k] = IF k = j THEN position[j] + 1 ELSE position[k]
      BY <3>5, FetchFacts
    <3>7. k = j /\ n = position[j] + 1
      BY <1>0, <2>2, <3>6
    <3> QED
      BY <3>5, <3>6, <3>7
  <2> QED
    BY <2>1, <2>2
<1> QED
  BY <1>2, <1>3 DEF ReadInv, Own

(* A leftover record's number is one of LeftSeqs.                          *)
LEMMA LeftSeqsAt ==
  ASSUME NEW k \in Partitions, NEW n \in Offsets(k),
         ~ Own(log[k][n]), log[k][n].stamp = "commit"
  PROVE  log[k][n].seq \in LeftSeqs
<1>1. log[k][n] \in Records
  BY DEF Records, Offsets
<1> QED
  BY <1>1 DEF LeftSeqs

(* The leftovers stay in the topic, and so does what shares a number with  *)
(* one.                                                                    *)
LEMMA LeftStays ==
  ASSUME LoopTypeOK, BrokerTypeOK, LoopInv, [Next]_vars
  PROVE  LeftSeqs \subseteq LeftSeqs' /\ (NumberShared => NumberShared')
<1>1. \A k \in Partitions : \A n \in Offsets(k) : n \in Offsets(k)' /\ log'[k][n] = log[k][n]
  BY LogGrows
<1>2. Records \subseteq Records'
  BY <1>1 DEF Records, Offsets
<1>3. LeftSeqs \subseteq LeftSeqs'
  BY <1>2 DEF LeftSeqs, Own
<1>4. ASSUME NumberShared
      PROVE  NumberShared'
  <2>1. PICK j \in Partitions, k \in Partitions : \E m \in Offsets(j), n \in Offsets(k) :
          /\ <<j, m>> # <<k, n>> /\ ~ Own(log[j][m])
          /\ log[j][m].stamp = "commit" /\ log[k][n].stamp = "commit"
          /\ log[j][m].seq = log[k][n].seq
    BY <1>4 DEF NumberShared, Offsets
  <2>2. PICK m \in Offsets(j), n \in Offsets(k) :
          /\ <<j, m>> # <<k, n>> /\ ~ Own(log[j][m])
          /\ log[j][m].stamp = "commit" /\ log[k][n].stamp = "commit"
          /\ log[j][m].seq = log[k][n].seq
    BY <2>1
  <2>3. /\ m \in Offsets(j)' /\ log'[j][m] = log[j][m]
        /\ n \in Offsets(k)' /\ log'[k][n] = log[k][n]
    BY <1>1
  <2> QED
    BY <2>2, <2>3 DEF NumberShared, Offsets, Own
<1> QED
  BY <1>3, <1>4

(* What was seen was produced, and is counted again only after a rewind.   *)
LEMMA SeenStep ==
  ASSUME LoopTypeOK, BrokerTypeOK, ConsumerTypeOK, LoopInv, NumberInv, SeenInv, [Next]_vars
  PROVE  SeenInv'
<1>0. /\ rewinds \in Nat /\ \A k \in Partitions : position[k] \in Nat
      /\ \A s \in seen : s \in Nat
      /\ seqs["commit"] \in Nat /\ seqs'["commit"] \in Nat /\ seqs["commit"] <= seqs'["commit"]
  BY SeqsGrow DEF ConsumerTypeOK, BrokerTypeOK
<1>1. CASE /\ UNCHANGED <<position, seen, rewinds>>
           /\ kip890Residual' \in {0, kip890Residual}
  <2>1. \A s \in seen' : s <= seqs'["commit"] \/ s \in LeftSeqs'
    BY <1>0, <1>1, LeftStays DEF SeenInv
  <2>2. ASSUME rewinds' = 0, NEW s \in seen'
        PROVE  \E k \in Partitions : \E n \in 1 .. position'[k] :
                 log'[k][n].stamp = "commit" /\ log'[k][n].seq = s
    <3>1. PICK k \in Partitions : \E n \in 1 .. position[k] :
            log[k][n].stamp = "commit" /\ log[k][n].seq = s
      BY <1>1, <2>2 DEF SeenInv
    <3>2. PICK n \in 1 .. position[k] : log[k][n].stamp = "commit" /\ log[k][n].seq = s
      BY <3>1
    <3>3. n \in Offsets(k)
      BY <1>0 DEF BrokerTypeOK, Offsets
    <3>4. log'[k][n] = log[k][n]
      BY <3>3, LogGrows
    <3> QED
      BY <1>1, <3>2, <3>4
  <2> QED
    BY <1>1, <2>1, <2>2, LeftStays DEF SeenInv
<1>2. ASSUME NEW k \in Partitions, NEW state, Fetch(k, state), rewinds' = rewinds,
             \/ UNCHANGED <<seen, kip890Residual>>
             \/ HandleRecord(Fetched(k))
      PROVE  SeenInv'
  <2> DEFINE rec == Fetched(k)
             at  == position[k] + 1
  <2>1. /\ position[k] \in Nat /\ at \in Offsets(k) /\ rec = log[k][at] /\ rec.seq \in Nat
        /\ log' = log /\ seqs' = seqs
        /\ \A j \in Partitions : position'[j] = IF j = k THEN at ELSE position[j]
    BY <1>2, FetchFacts
  <2>2. rec.stamp = "commit" => rec.seq <= seqs["commit"] \/ rec.seq \in LeftSeqs
    BY <2>1, LeftSeqsAt DEF NumberInv
  <2>3. \/ UNCHANGED <<seen, kip890Residual>>
        \/ rec.stamp = "commit" /\ rec.seq \in seen /\ UNCHANGED seen
        \/ rec.stamp = "commit" /\ seen' = seen \cup {rec.seq} /\ UNCHANGED kip890Residual
    BY <1>2 DEF HandleRecord, HandleAborted, HandleDuplicate, HandleCommitted, DeliveredBefore
  <2> HIDE DEF rec
  <2>4. \A s \in seen' : s <= seqs'["commit"] \/ s \in LeftSeqs'
    BY <2>1, <2>2, <2>3, LeftStays DEF SeenInv
  <2>5. ASSUME rewinds = 0, rec.stamp = "commit", rec.seq \in seen
        PROVE  NumberShared
    <3>1. PICK j \in Partitions : \E n \in 1 .. position[j] :
            log[j][n].stamp = "commit" /\ log[j][n].seq = rec.seq
      BY <2>5 DEF SeenInv
    <3>2. PICK n \in 1 .. position[j] : log[j][n].stamp = "commit" /\ log[j][n].seq = rec.seq
      BY <3>1
    <3>3. n \in Offsets(j)
      BY <1>0 DEF BrokerTypeOK, Offsets
    <3>4. <<j, n>> # <<k, at>> /\ <<k, at>> # <<j, n>>
      BY <1>0
    <3>5. ~ Own(log[j][n]) \/ ~ Own(log[k][at])
      BY <2>1, <2>5, <3>2, <3>3, <3>4 DEF NumberInv
    <3>6. log[k][at].stamp = "commit" /\ log[j][n].seq = log[k][at].seq
      BY <2>1, <2>5, <3>2
    <3>7. n \in 1 .. Len(log[j]) /\ at \in 1 .. Len(log[k])
      BY <2>1, <3>3 DEF Offsets
    <3> HIDE DEF at
    <3>8. CASE ~ Own(log[j][n])
      BY <3>2, <3>4, <3>6, <3>7, <3>8, Zenon DEF NumberShared
    <3>9. CASE ~ Own(log[k][at])
      BY <3>2, <3>4, <3>6, <3>7, <3>9, Zenon DEF NumberShared
    <3> QED
      BY <3>5, <3>8, <3>9
  <2>6. rewinds = 0 => kip890Residual' = 0 \/ NumberShared'
    BY <2>3, <2>5, LeftStays DEF SeenInv
  <2>7. ASSUME rewinds = 0, NEW s \in seen'
        PROVE  \E j \in Partitions : \E n \in 1 .. position'[j] :
                 log'[j][n].stamp = "commit" /\ log'[j][n].seq = s
    <3>1. CASE s \in seen
      <4>1. PICK j \in Partitions : \E n \in 1 .. position[j] :
              log[j][n].stamp = "commit" /\ log[j][n].seq = s
        BY <2>7, <3>1 DEF SeenInv
      <4>2. 1 .. position[j] \subseteq 1 .. position'[j]
        BY <1>0, <2>1
      <4> QED
        BY <2>1, <4>1, <4>2
    <3>2. CASE s \notin seen
      <4>1. rec.stamp = "commit" /\ s = rec.seq
        BY <2>3, <2>7, <3>2
      <4>2. at \in 1 .. position'[k]
        BY <2>1
      <4> QED
        BY <2>1, <4>1, <4>2
    <3> QED
      BY <3>1, <3>2
  <2> QED
    BY <1>2, <2>4, <2>6, <2>7 DEF SeenInv
<1>3. CASE rewinds' = rewinds + 1 /\ UNCHANGED <<seen, seqs>>
  <2>1. rewinds' # 0
    BY <1>0, <1>3
  <2>2. \A s \in seen' : s <= seqs'["commit"] \/ s \in LeftSeqs'
    BY <1>3, LeftStays DEF SeenInv
  <2> QED
    BY <2>1, <2>2 DEF SeenInv
<1>4. ASSUME NEW k \in Partitions, Consume(k)
      PROVE  SeenInv'
  BY <1>2, <1>3, <1>4, ConsumeEffect
<1> QED
  BY <1>1, <1>4, OnlyConsumerReads DEF CountersStartOver

(* Before the warmup nothing is read.                                      *)
LEMMA InitReads == Init => ConsumerTypeOK /\ ReadInv /\ SeenInv
<1> SUFFICES ASSUME Init
             PROVE  ConsumerTypeOK /\ ReadInv /\ SeenInv
  OBVIOUS
<1>1. /\ seen = {} /\ dropped = {} /\ warmSeen = {} /\ eosViolations = 0
      /\ kip890Residual = 0 /\ leaks = 0 /\ rewinds = 0
      /\ position = [k \in Partitions |-> 0]
  BY DEF Init
<1>2. ConsumerTypeOK
  <2> DEFINE filled == {k \in Partitions : log[k] # <<>>}
  <2>1. IsFiniteSet(filled)
    BY PartitionsAssumption, FS_Subset
  <2>2. faults \in Nat
    BY <2>1, FS_CardinalityType DEF Init
  <2> QED
    BY <1>1, <2>2 DEF ConsumerTypeOK
<1>3. ReadInv /\ SeenInv
  BY <1>1 DEF ReadInv, SeenInv
<1> QED
  BY <1>2, <1>3

(* The consumer's place in the topic and what it remembers agree.          *)
THEOREM EOSRead == Spec => [](ConsumerTypeOK /\ ReadInv /\ SeenInv)
<1>1. LoopTypeOK /\ BrokerTypeOK /\ LoopInv /\ SentInv /\ ConsumerTypeOK /\ ReadInv /\ SeenInv
        /\ [Next]_vars => (ConsumerTypeOK /\ ReadInv /\ SeenInv)'
  BY ConsumerStep, ReadStep, SeenStep DEF SentInv
<1> QED
  BY <1>1, InitReads, EOSLoop, EOSSent, PTL DEF Spec

(* The EOS counters raise no false alarm: without a leak no violation is   *)
(* counted, and without a resumption nothing is put down to KIP-890 but    *)
(* what shares its number with an earlier run's record.                    *)
THEOREM EOSViolationMeansLeak == Spec => []ViolationMeansLeak
<1>1. ReadInv /\ SeenInv => ViolationMeansLeak
  BY DEF ReadInv, SeenInv, ViolationMeansLeak
<1> QED
  BY <1>1, EOSRead, PTL

-----------------------------------------------------------------------------
(* A step of the worker is a call of one method of its tracker, with a     *)
(* number the tracker was not given before, or leaves the tracker alone.   *)
LEMMA TrackerCalls ==
  ASSUME BrokerTypeOK, [Next]_vars
  PROVE  \/ \E s \in 1 .. MaxSeq :
              /\ RecordFirst("commit", s) \/ RecordKnown("commit", s)
              /\ s \notin seen /\ seen' = seen \cup {s}
              /\ UNCHANGED <<phase, seqs, warmSeq, warmSeen>>
         \/ ResetTracker
         \/ UNCHANGED <<trackerVars, seen, warmSeen>>
<1>1. ASSUME NEW k \in Partitions, NEW state, Fetch(k, state), HandleRecord(Fetched(k))
      PROVE  \/ \E s \in 1 .. MaxSeq :
                  /\ RecordFirst("commit", s) \/ RecordKnown("commit", s)
                  /\ s \notin seen /\ seen' = seen \cup {s}
                  /\ UNCHANGED <<phase, seqs, warmSeq, warmSeen>>
             \/ UNCHANGED <<trackerVars, seen, warmSeen>>
  <2>1. /\ Fetched(k).seq \in 1 .. MaxSeq
        /\ UNCHANGED <<phase, seqs, warmSeq, warmSeen>>
    BY <1>1, FetchFacts
  <2>2. CASE HandleAborted(Fetched(k)) \/ HandleDuplicate(Fetched(k))
    BY <2>1, <2>2 DEF HandleAborted, HandleDuplicate
  <2>3. CASE HandleCommitted(Fetched(k))
    <3>1. /\ RecordFirst("commit", Fetched(k).seq) \/ RecordKnown("commit", Fetched(k).seq)
          /\ Fetched(k).seq \notin seen /\ seen' = seen \cup {Fetched(k).seq}
      BY <2>3 DEF HandleCommitted, DeliveredBefore
    <3> QED
      BY <2>1, <3>1
  <2> QED
    BY <1>1, <2>2, <2>3 DEF HandleRecord
<1>2. ASSUME NEW k \in Partitions, NEW state, Fetch(k, state)
      PROVE  warmSeen' = warmSeen
  BY <1>2, FetchFacts
<1>3. ASSUME NEW k \in Partitions, Consume(k)
      PROVE  \/ \E s \in 1 .. MaxSeq :
                  /\ RecordFirst("commit", s) \/ RecordKnown("commit", s)
                  /\ s \notin seen /\ seen' = seen \cup {s}
                  /\ UNCHANGED <<phase, seqs, warmSeq, warmSeen>>
             \/ UNCHANGED <<trackerVars, seen, warmSeen>>
  BY <1>1, <1>2, <1>3, ConsumeEffect
<1>4. \/ \E k \in Partitions : Consume(k)
      \/ ResetTracker
      \/ UNCHANGED <<trackerVars, seen, warmSeen>>
  BY DEF Next, ProduceLoop, Return, Connect, BeginTransaction, BeginFails, Produce, ProduceFails,
         RateCancelled, EndTransaction, EndFails, CountSent, TxnTimeout, EngineCalls,
         StopProducers, ProducersJoined, ResetCounters, StartProducers, Snapshot, Finished, vars,
         engineVars, consumerVars, counterVars
<1> QED
  BY <1>3, <1>4

(* The worker uses its tracker only through the tracker's operations, so   *)
(* every theorem about the tracker holds of the worker's.                  *)
THEOREM EOSImplementsTracker == Spec => TrackerSpec
<1>1. Init => TrackerInit
  BY DEF Init
<1>2. ASSUME BrokerTypeOK, [Next]_vars
      PROVE  [TrackerNext]_trackerVars
  <2>1. "commit" \in Producers
    BY ProducersAssumption DEF Stamps
  <2>2. CASE \E s \in 1 .. MaxSeq : RecordFirst("commit", s) \/ RecordKnown("commit", s)
    BY <2>1, <2>2 DEF TrackerNext
  <2>3. CASE ResetTracker
    BY <2>3 DEF ResetTracker, TrackerNext
  <2> QED
    BY <1>2, <2>2, <2>3, TrackerCalls
<1> QED
  BY <1>1, <1>2, EOSLoop, PTL DEF Spec, TrackerSpec

(* The worker's tracker is consistent with what the consumer gave it.      *)
THEOREM EOSTracker == Spec => []TrackerInv
<1> QED
  BY EOSImplementsTracker, TrackerInvariant, PTL

(* Every variable of the worker keeps its type.                            *)
THEOREM EOSTypes == Spec => []TypeOK
<1>1. LoopTypeOK /\ BrokerTypeOK /\ ConsumerTypeOK /\ TrackerInv => TypeOK
  BY DEF TypeOK, TrackerInv
<1> QED
  BY <1>1, EOSLoop, EOSRead, EOSTracker, PTL

(* A record with a new number enters the tracker's count once.             *)
LEMMA CountedOnce ==
  ASSUME TrackerInv, TrackerInv', NEW s \in 1 .. MaxSeq, s \notin Arrived,
         RecordFirst("commit", s) \/ RecordKnown("commit", s),
         "commit" \in Known => producers["commit"].received = Cardinality(Arrived)
  PROVE  /\ Arrived' = Arrived \cup {s} /\ "commit" \in Known'
         /\ producers'["commit"].received = Cardinality(Arrived')
<1>0. "commit" \in Producers /\ s \in Nat \ {0}
  BY ProducersAssumption, MaxSeqAssumption DEF Stamps
<1>1. Arrived' = Arrived \cup {s} /\ Known' = Known \cup {"commit"}
  BY <1>0, RecordRemembers DEF Arrived
<1>2. CASE RecordFirst("commit", s)
  <2>1. Arrived = {}
    BY <1>0, <1>2 DEF RecordFirst, TrackerInv, NoHistory, Arrived
  <2>2. producers'["commit"] = NewProducerState(s)
    BY <1>2 DEF RecordFirst, Put
  <2>3. NewProducerState(s).received = 1
    <3> DEFINE ps == [ highContiguous |-> s - 1, window |-> {0}, received |-> 1,
                       duplicates |-> 0, outOfOrder |-> 0, confirmedLost |-> 0,
                       pendingLost |-> {}, lastReportedLost |-> 0, lastSeen |-> s ]
    <3>1. ps \in ProducerState /\ ps.received = 1
      BY <1>0, ReorderWindowAssumption DEF ProducerState, Positions
    <3>2. NewProducerState(s) = advanceContiguous(ps)
      BY DEF NewProducerState
    <3> HIDE DEF ps
    <3>3. advanceContiguous(ps).received = ps.received
      BY <3>1, AdvanceFacts
    <3> QED
      BY <3>1, <3>2, <3>3
  <2>4. Cardinality(Arrived') = 1
    <3>1. Arrived' = {s}
      BY <1>1, <2>1
    <3>2. Cardinality({s}) = 1
      BY FS_Singleton
    <3> QED
      BY <3>1, <3>2, Zenon
  <2> QED
    BY <1>1, <2>2, <2>3, <2>4
<1>3. CASE RecordKnown("commit", s)
  <2>1. /\ "commit" \in Known /\ producers["commit"] \in ProducerState
        /\ Consistent(producers["commit"], history["commit"])
    BY <1>3 DEF RecordKnown, TrackerInv, TrackerTypeOK
  <2>2. producers'["commit"] = RecordExisting(producers["commit"], s)
    BY <1>3 DEF RecordKnown, Put
  <2>3. producers'["commit"].received = producers["commit"].received + 1
    BY <1>0, <2>1, <2>2, RecordExistingEffect
  <2>4. IsFiniteSet(Arrived)
    BY <2>1 DEF Consistent, Arrived
  <2>5. Cardinality(Arrived \cup {s}) = Cardinality(Arrived) + 1
    BY <2>4, FS_AddElement
  <2>6. Cardinality(Arrived') = Cardinality(Arrived \cup {s})
    BY <1>1, Zenon
  <2> QED
    BY <1>1, <2>1, <2>3, <2>5, <2>6
<1> QED
  BY <1>2, <1>3

(* Everything seen entered the tracker once, before or after the reset.    *)
LEMMA TrackedStep ==
  ASSUME LoopTypeOK, BrokerTypeOK, ConsumerTypeOK, LoopInv, SeenInv, TrackerInv, TrackerInv',
         TrackedInv, [Next]_vars
  PROVE  TrackedInv'
<1>0. /\ seqs["commit"] \in Nat /\ seqs'["commit"] \in Nat /\ seqs["commit"] <= seqs'["commit"]
      /\ "commit" \in Producers /\ (\A s \in warmSeen : s \in Nat) /\ LeftSeqs \subseteq LeftSeqs'
  BY SeqsGrow, LeftStays, ProducersAssumption DEF Stamps, ConsumerTypeOK
<1>1. ASSUME NEW s \in 1 .. MaxSeq, RecordFirst("commit", s) \/ RecordKnown("commit", s),
             s \notin seen, seen' = seen \cup {s}, UNCHANGED <<phase, seqs, warmSeq, warmSeen>>
      PROVE  TrackedInv'
  <2>1. /\ s \notin Arrived /\ s \notin warmSeen
        /\ "commit" \in Known => producers["commit"].received = Cardinality(Arrived)
    BY <1>1 DEF TrackedInv
  <2>2. /\ Arrived' = Arrived \cup {s}
        /\ producers'["commit"].received = Cardinality(Arrived')
    BY <1>1, <2>1, CountedOnce
  <2>3. WarmBound' = WarmBound
    BY <1>1 DEF WarmBound
  <2> QED
    BY <1>0, <1>1, <2>1, <2>2, <2>3 DEF TrackedInv
<1>2. CASE ResetTracker
  <2>1. /\ phase' = "resetting" /\ warmSeen' = seen /\ seen' = seen /\ seqs' = seqs
        /\ Known' = {} /\ Arrived' = {}
    BY <1>0, <1>2 DEF ResetTracker, Reset, counterVars, loopVars, Known, Arrived, NoHistory
  <2>2. \A s \in seen : s <= seqs["commit"] \/ s \in LeftSeqs'
    BY <1>0 DEF SeenInv
  <2> QED
    BY <2>1, <2>2 DEF TrackedInv, WarmBound
<1>3. CASE UNCHANGED <<trackerVars, seen, warmSeen>>
  <2>1. Known' = Known /\ Arrived' = Arrived /\ producers' = producers
    BY <1>3 DEF trackerVars, Known, Arrived
  <2>2. /\ phase' \in {"warmup", "warmedUp"} => phase \in {"warmup", "warmedUp"}
        /\ phase' \notin {"warmup", "warmedUp"} =>
             \/ phase \in {"warmup", "warmedUp"} /\ warmSeen' = {}
             \/ phase \notin {"warmup", "warmedUp"}
    <3>1. phase' \in {"warmup", "warmedUp"} => phase \in {"warmup", "warmedUp"}
      BY DEF Next, ProduceLoop, Return, Connect, BeginTransaction, BeginFails, Produce,
             ProduceFails, RateCancelled, EndTransaction, EndFails, CountSent, TxnTimeout,
             Consume, Deliver, SkipAborted, Leak, Drop, Resume, Fetch, EngineCalls, StopProducers,
             ProducersJoined, ResetTracker, ResetCounters, StartProducers, Snapshot, Finished,
             LeaveBody, Fault, vars, engineVars, localVars, loopVars, faultVars, counterVars,
             trackerVars, consumerVars
    <3> QED
      BY <1>3, <3>1 DEF TrackedInv
  <2>3. phase \notin {"warmup", "warmedUp"} =>
          \/ WarmBound' = WarmBound
          \/ WarmBound = seqs["commit"] /\ WarmBound' = seqs'["commit"]
    <3>1. CASE phase = "resetting"
      <4>1. phase' = "resetting" \/ (phase' = "reset" /\ warmSeq' = seqs["commit"])
        BY <3>1 DEF Next, ProduceLoop, Return, Connect, BeginTransaction, BeginFails, Produce,
               ProduceFails, RateCancelled, EndTransaction, EndFails, CountSent, TxnTimeout,
               Consume, Deliver, SkipAborted, Leak, Drop, Resume, Fetch, EngineCalls,
               StopProducers, ProducersJoined, ResetTracker, ResetCounters, StartProducers,
               Snapshot, Finished, LeaveBody, Fault, vars, engineVars, localVars, loopVars,
               faultVars, counterVars, trackerVars, consumerVars
      <4> QED
        BY <3>1, <4>1 DEF WarmBound
    <3>2. CASE phase \notin {"warmup", "warmedUp", "resetting"}
      <4>1. warmSeq' = warmSeq /\ phase' # "resetting"
        BY <3>2 DEF Next, ProduceLoop, Return, Connect, BeginTransaction, BeginFails, Produce,
               ProduceFails, RateCancelled, EndTransaction, EndFails, CountSent, TxnTimeout,
               Consume, Deliver, SkipAborted, Leak, Drop, Resume, Fetch, EngineCalls,
               StopProducers, ProducersJoined, ResetTracker, ResetCounters, StartProducers,
               Snapshot, Finished, LeaveBody, Fault, vars, engineVars, localVars, loopVars,
               faultVars, counterVars, trackerVars, consumerVars
      <4> QED
        BY <3>2, <4>1 DEF WarmBound
    <3> QED
      BY <3>1, <3>2
  <2>4. ASSUME phase' \notin {"warmup", "warmedUp"}, NEW s \in warmSeen'
        PROVE  s <= WarmBound' \/ s \in LeftSeqs'
    <3>1. phase \notin {"warmup", "warmedUp"} /\ s \in warmSeen
      BY <1>3, <2>2, <2>4
    <3>2. s \in Nat /\ (s <= WarmBound \/ s \in LeftSeqs')
      BY <1>0, <3>1 DEF TrackedInv
    <3>3. CASE WarmBound' = WarmBound
      BY <3>2, <3>3
    <3>4. CASE WarmBound = seqs["commit"] /\ WarmBound' = seqs'["commit"]
      BY <1>0, <3>2, <3>4
    <3> QED
      BY <2>3, <3>1, <3>3, <3>4
  <2>5. phase' \in {"warmup", "warmedUp"} => warmSeen' = {}
    BY <1>3, <2>2 DEF TrackedInv
  <2>6. /\ seen' = Arrived' \cup warmSeen' /\ Arrived' \cap warmSeen' = {}
        /\ "commit" \in Known' => producers'["commit"].received = Cardinality(Arrived')
    BY <1>3, <2>1, Zenon DEF TrackedInv
  <2> QED
    BY <2>4, <2>5, <2>6 DEF TrackedInv
<1> QED
  BY <1>1, <1>2, <1>3, TrackerCalls

(* What the consumer has seen is what the tracker was given, before the    *)
(* reset and after it.                                                     *)
THEOREM EOSTracked == Spec => []TrackedInv
<1>1. Init => TrackedInv
  BY ProducersAssumption DEF Init, TrackerInit, TrackedInv, Arrived, Known, NoHistory, Stamps
<1>2. /\ LoopTypeOK /\ BrokerTypeOK /\ ConsumerTypeOK /\ LoopInv /\ SeenInv
      /\ TrackerInv /\ TrackerInv' /\ TrackedInv /\ [Next]_vars
      => TrackedInv'
  BY TrackedStep
<1> QED
  BY <1>1, <1>2, EOSLoop, EOSRead, EOSTracker, PTL DEF Spec

(* A committed record enters the tracker once in the whole run.            *)
THEOREM EOSTrackedOnce == Spec => []TrackedOnce
<1>1. TrackedInv => TrackedOnce
  BY DEF TrackedInv, TrackedOnce
<1> QED
  BY <1>1, EOSTracked, PTL

(* A committed record of this run that a quiescent worker has passed was   *)
(* given to the tracker after the warmup, or belongs to it, or was dropped *)
(* by the broker, or an earlier run's took its place in the warmup.        *)
LEMMA CommittedIsTracked ==
  ASSUME BrokerTypeOK, ReadInv, TrackedInv, Quiescent,
         NEW k \in Partitions, NEW n \in Offsets(k),
         Own(log[k][n]), txns[log[k][n].txn] = "committed"
  PROVE  \/ log[k][n].seq \in Arrived \cup dropped \cup (LeftSeqs \cap warmSeen)
         \/ log[k][n].seq <= warmSeq
<1>1. n \in 1 .. position[k] /\ phase = "done"
  BY DEF Quiescent, Offsets
<1>2. log[k][n].seq \in seen \cup dropped
  BY <1>1 DEF ReadInv
<1>3. \A s \in warmSeen : s <= warmSeq \/ s \in LeftSeqs
  BY <1>1 DEF TrackedInv, WarmBound
<1> QED
  BY <1>2, <1>3 DEF TrackedInv

(* A quiescent worker has given every sent record of the measurement that  *)
(* was not dropped to the tracker, unless an earlier run's record put its  *)
(* number into w.seen during the warmup.                                   *)
THEOREM EOSSentIsTracked == Spec => []SentIsTracked
<1>1. LoopTypeOK /\ BrokerTypeOK /\ SentInv /\ ReadInv /\ TrackedInv => SentIsTracked
  <2> SUFFICES ASSUME LoopTypeOK, BrokerTypeOK, SentInv, ReadInv, TrackedInv, Quiescent,
                      NEW s \in counted, s > warmSeq
               PROVE  s \in Arrived \cup dropped \cup (LeftSeqs \cap warmSeen)
    BY DEF SentIsTracked
  <2>1. PICK k \in Partitions : \E n \in Offsets(k) :
          log[k][n].seq = s /\ Own(log[k][n]) /\ txns[log[k][n].txn] = "committed"
    BY DEF SentInv, CountInv
  <2>2. s \in Arrived \cup dropped \cup (LeftSeqs \cap warmSeen) \/ s <= warmSeq
    BY <2>1, CommittedIsTracked
  <2>3. s \in Nat /\ warmSeq \in Nat
    BY DEF LoopTypeOK
  <2> QED
    BY <2>2, <2>3
<1> QED
  BY <1>1, EOSLoop, EOSSent, EOSRead, EOSTracked, PTL

(* A loss that a quiescent worker reports was dropped by the broker, was   *)
(* not committed, belongs to the warmup or overran the window, or an       *)
(* earlier run's record stands in its place or above it.                   *)
THEOREM EOSLossExplained == Spec => []LossExplained
<1>1. /\ LoopTypeOK /\ BrokerTypeOK /\ ConsumerTypeOK
      /\ ReadInv /\ SeenInv /\ TrackedInv /\ TrackerInv
      => LossExplained
  <2> SUFFICES ASSUME LoopTypeOK, BrokerTypeOK, ConsumerTypeOK, ReadInv, SeenInv, TrackedInv,
                      TrackerInv, Quiescent, "commit" \in Known,
                      NEW s \in producers["commit"].pendingLost
               PROVE  \/ s \in dropped
                      \/ s <= seqs["commit"] /\ s \notin CommittedSeqs
                      \/ s <= warmSeq
                      \/ s \in history["commit"].overran
                      \/ s \in LeftSeqs \cap warmSeen
                      \/ \E t \in LeftSeqs \cap Arrived : seqs["commit"] < s /\ s < t
    BY DEF LossExplained
  <2>1. s \in Arrived => s \in history["commit"].overran
    BY DEF TrackerInv, Consistent, Arrived
  <2>2. CASE s \in CommittedSeqs
    <3>1. PICK r \in Records : s = r.seq /\ Own(r) /\ txns[r.txn] = "committed"
      BY <2>2 DEF CommittedSeqs
    <3>2. PICK k \in Partitions : \E n \in Offsets(k) : r = log[k][n]
      BY DEF Records, Offsets
    <3>3. s \in Arrived \cup dropped \cup (LeftSeqs \cap warmSeen) \/ s <= warmSeq
      BY <3>1, <3>2, CommittedIsTracked
    <3> QED
      BY <2>1, <3>3
  <2>3. CASE s \notin CommittedSeqs /\ ~ (s <= seqs["commit"])
    <3>1. /\ producers["commit"] \in ProducerState
          /\ Consistent(producers["commit"], history["commit"])
      BY DEF TrackerInv, TrackerTypeOK
    <3>2. PICK t \in Arrived : producers["commit"].highContiguous <= t
      BY <3>1 DEF Consistent, Arrived
    <3>3. /\ s \in Nat /\ s <= producers["commit"].highContiguous
          /\ producers["commit"].highContiguous \in Nat
      BY <3>1 DEF Consistent, ProducerState
    <3>4. t \in seen /\ t \in Nat /\ seqs["commit"] \in Nat
      BY DEF TrackedInv, ConsumerTypeOK, LoopTypeOK, Stamps
    <3>5. t \in LeftSeqs
      BY <2>3, <3>2, <3>3, <3>4 DEF SeenInv
    <3>6. s = t \/ s < t
      BY <3>2, <3>3, <3>4
    <3> QED
      BY <2>1, <2>3, <3>2, <3>3, <3>4, <3>5, <3>6
  <2> QED
    BY <2>2, <2>3
<1> QED
  BY <1>1, EOSLoop, EOSRead, EOSTracked, EOSTracker, PTL
=============================================================================
