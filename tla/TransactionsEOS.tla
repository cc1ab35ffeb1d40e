--------------------------- MODULE TransactionsEOS ---------------------------
(***************************************************************************)
(* The transactions_eos worker (burnin/worker/transactions_eos.go): one    *)
(* transactional produce loop that commits and aborts in turn, the topic,  *)
(* a read_committed consumer, and the engine's calls around the warmup.    *)
(*                                                                         *)
(* A record carries its producer id, a sequence number and the intended    *)
(* outcome in the TxnOutcome header.  Producer id and outcome go together, *)
(* so one stamp, "commit" or "abort", stands for both.                     *)
(*                                                                         *)
(* The broker is external.  A read_committed consumer reads up to the      *)
(* first open transaction and skips what is aborted.  When a call fails,   *)
(* its effect may have taken place or not.  An open transaction whose      *)
(* client is gone is aborted when the next client fences it or by the      *)
(* transaction timeout.  A faulty broker may drop a committed record or    *)
(* leak an aborted one: that is what the worker is there to detect.        *)
(*                                                                         *)
(* Topic, group, transactional id and producer ids do not depend on the    *)
(* run, and the sequence numbers and w.seen start afresh with a worker:    *)
(* what an earlier run left unread looks like records of this run.         *)
(*                                                                         *)
(* The tracker is the one of SequenceTracker, with the stamps for producer *)
(* ids.  The engine's calls of DetectGaps only concern the live metric and *)
(* are left to RoundTrip; w.received, a plain counter, is left out.        *)
(***************************************************************************)
EXTENDS SequenceTracker, Sequences

CONSTANTS
  Partitions,      \* partitions of the topic
  TxnRecords,      \* txnRecordsPerCycle
  EarlierTxns,     \* the states of the transactions of earlier runs
  Leftovers,       \* records of theirs that the group may not have read
  MaxLeftovers,    \* bound: how many of them in a partition
  MaxTxns,         \* bound: transactions begun, the earlier ones included
  MaxFaults        \* bound: failed calls, drops, leaks, resumptions and leftovers together

ASSUME PartitionsAssumption == IsFiniteSet(Partitions)
ASSUME TxnRecordsAssumption == TxnRecords \in Nat \ {0}
ASSUME EOSBoundsAssumption == {MaxLeftovers, MaxTxns, MaxFaults} \subseteq Nat

Stamps    == {"commit", "abort"}
TxnStates == {"open", "committed", "aborted"}

(* MaxSeq bounds the sequence numbers taken, of both stamps.               *)
ASSUME ProducersAssumption == Producers = Stamps

Record == [stamp : Stamps, seq : 1 .. MaxSeq, txn : 1 .. MaxTxns]

(* The earlier runs' transactions come first, and none of theirs is        *)
(* committed against its stamp either.                                     *)
Earlier  == Len(EarlierTxns)
Own(rec) == rec.txn > Earlier

ASSUME EarlierAssumption == EarlierTxns \in Seq(TxnStates) /\ Earlier <= MaxTxns
ASSUME EOSLeftoversAssumption ==
  Leftovers \subseteq { rec \in Record :
    ~ Own(rec) /\ (EarlierTxns[rec.txn] = "committed" => rec.stamp = "commit") }

VARIABLES
  phase,           \* where the engine is with this worker
  stop,            \* whether the producers' context is cancelled
  \* the produce loop
  pc,
  connected,       \* w.txnCli # nil
  cycle,           \* w.cycle modulo 2
  commit,          \* local: whether this transaction is to be committed
  bodies,          \* local: the sequences produced without an error
  produceErr,      \* local
  seqs,            \* w.committedSeq and w.abortSeq
  sent,            \* w.sent
  \* the broker
  txns,            \* the state of each transaction, in the order begun
  log,             \* records of each partition, in offset order
  position,        \* next offset the consumer reads
  \* the consumer
  seen,            \* w.seen: committed sequences delivered before
  eosViolations, kip890Residual,
  \* history
  counted,         \* sequences counted as sent
  unknown,         \* transactions whose EndTransaction failed
  dropped,         \* this run's committed sequences the broker did not deliver
  leaks, rewinds,  \* aborted records delivered, resumptions
  faults,          \* failed calls, drops, leaks, resumptions and leftovers so far
  warmSeq,         \* w.committedSeq when the warmup ended
  warmSeen         \* what was delivered before the tracker was reset

engineVars   == <<phase, stop, warmSeq, warmSeen>>
localVars    == <<commit, bodies, produceErr>>
loopVars     == <<pc, connected, cycle, localVars, seqs, sent, counted, unknown>>
faultVars    == <<dropped, leaks, rewinds>>
counterVars  == <<seen, eosViolations, kip890Residual>>
consumerVars == <<position, faultVars, counterVars, trackerVars>>
vars == <<engineVars, loopVars, txns, log, consumerVars, faults>>

LoopTypeOK ==
  /\ phase \in {"warmup", "warmedUp", "resetting", "reset", "measure", "drain", "done"}
  /\ stop \in BOOLEAN /\ connected \in BOOLEAN /\ commit \in BOOLEAN /\ produceErr \in BOOLEAN
  /\ pc \in {"top", "begin", "produce", "end", "count", "ended"}
  /\ cycle \in 0 .. 1
  /\ bodies \subseteq 1 .. MaxSeq /\ Cardinality(bodies) <= TxnRecords
  /\ seqs \in [Stamps -> 0 .. MaxSeq] /\ warmSeq \in 0 .. MaxSeq
  /\ sent \in Nat /\ counted \subseteq 1 .. MaxSeq /\ unknown \subseteq 1 .. MaxTxns

BrokerTypeOK ==
  /\ txns \in Seq(TxnStates) /\ Len(txns) \in Earlier .. MaxTxns
  /\ log \in [Partitions -> Seq(Record)]
  /\ position \in [Partitions -> Nat]
  /\ \A k \in Partitions : position[k] <= Len(log[k])

ConsumerTypeOK ==
  /\ seen \subseteq 1 .. MaxSeq /\ dropped \subseteq 1 .. MaxSeq /\ warmSeen \subseteq 1 .. MaxSeq
  /\ {eosViolations, kip890Residual} \subseteq Nat
  /\ {leaks, rewinds} \subseteq 0 .. faults /\ faults \in Nat

TypeOK == LoopTypeOK /\ BrokerTypeOK /\ ConsumerTypeOK /\ TrackerTypeOK

Init ==
  /\ phase = "warmup" /\ stop = FALSE /\ warmSeq = 0 /\ warmSeen = {}
  /\ pc = "top" /\ connected = FALSE /\ cycle = 0
  /\ commit = FALSE /\ bodies = {} /\ produceErr = FALSE
  /\ seqs = [s \in Stamps |-> 0] /\ sent = 0 /\ counted = {} /\ unknown = {}
  /\ txns = EarlierTxns
  /\ log \in [Partitions -> UNION {[1 .. n -> Leftovers] : n \in 0 .. MaxLeftovers}]
  /\ position = [k \in Partitions |-> 0]
  /\ seen = {} /\ eosViolations = 0 /\ kip890Residual = 0
  /\ dropped = {} /\ leaks = 0 /\ rewinds = 0
  /\ faults = Cardinality({k \in Partitions : log[k] # <<>>})
  /\ TrackerInit

-----------------------------------------------------------------------------
(* produceLoop.                                                            *)

Fault == faults < MaxFaults /\ faults' = faults + 1

Abandoned == [t \in DOMAIN txns |-> IF txns[t] = "open" THEN "aborted" ELSE txns[t]]

(* The context is checked, also by sleepCtx after a failed connection.     *)
Return ==
  /\ pc = "top" /\ stop
  /\ pc' = "ended"
  /\ UNCHANGED <<faults, engineVars, connected, cycle, localVars, seqs, sent, counted, unknown>>
  /\ UNCHANGED <<txns, log, consumerVars>>

(* The client is there or built; a new one fences the transaction of the   *)
(* one before.                                                             *)
Connect ==
  /\ pc = "top" /\ ~ stop
  /\ pc' = "begin"
  /\ connected' = TRUE
  /\ txns' = IF connected THEN txns ELSE Abandoned
  /\ UNCHANGED <<faults, engineVars, cycle, localVars, seqs, sent, counted, unknown, log, consumerVars>>

(* commit, bodies and produceErr are local to the loop's body.             *)
LeaveBody == commit' = FALSE /\ bodies' = {} /\ produceErr' = FALSE

NextCycle == cycle' = (cycle + 1) % 2

BeginTransaction ==
  /\ pc = "begin" /\ Len(txns) < MaxTxns
  /\ NextCycle
  /\ commit' = (cycle' = 0)
  /\ txns' = Append(txns, "open")
  /\ bodies' = {} /\ produceErr' = FALSE
  /\ pc' = "produce"
  /\ UNCHANGED <<faults, engineVars, connected, seqs, sent, counted, unknown, log, consumerVars>>

BeginFails ==
  /\ pc = "begin"
  /\ NextCycle
  /\ pc' = IF stop THEN "ended" ELSE "top"
  /\ connected' = stop
  /\ UNCHANGED <<faults, engineVars, localVars, seqs, sent, counted, unknown, txns, log, consumerVars>>

Stamp == IF commit THEN "commit" ELSE "abort"

AppendTo(k) ==
  log' = [log EXCEPT ![k] =
            Append(@, [stamp |-> Stamp, seq |-> seqs[Stamp] + 1, txn |-> Len(txns)])]

TakeSeq == seqs["commit"] + seqs["abort"] < MaxSeq /\ seqs' = [seqs EXCEPT ![Stamp] = @ + 1]

(* One record of the transaction is produced ...                           *)
Produce ==
  /\ pc = "produce"
  /\ TakeSeq
  /\ \E k \in Partitions : AppendTo(k)
  /\ bodies' = bodies \cup {seqs[Stamp] + 1}
  /\ pc' = IF Cardinality(bodies') = TxnRecords THEN "end" ELSE "produce"
  /\ UNCHANGED <<faults, engineVars, connected, cycle, commit, produceErr, sent, counted, unknown>>
  /\ UNCHANGED <<txns, consumerVars>>

(* ... or the produce fails, with the record appended or not, and its      *)
(* sequence number is used up ...                                          *)
ProduceFails ==
  /\ Fault
  /\ pc = "produce"
  /\ TakeSeq
  /\ UNCHANGED log \/ \E k \in Partitions : AppendTo(k)
  /\ produceErr' = TRUE
  /\ pc' = "end"
  /\ UNCHANGED <<engineVars, connected, cycle, commit, bodies, sent, counted, unknown>>
  /\ UNCHANGED <<txns, consumerVars>>

(* ... or waitForRate is cancelled.                                        *)
RateCancelled ==
  /\ pc = "produce" /\ stop
  /\ produceErr' = TRUE
  /\ pc' = "end"
  /\ UNCHANGED <<faults, engineVars, connected, cycle, commit, bodies, seqs, sent, counted, unknown>>
  /\ UNCHANGED <<txns, log, consumerVars>>

(* Mutant: only a produce error aborts.                                    *)
DispositionIgnoresCycle == IF produceErr THEN "aborted" ELSE "committed"

(* A produce error forces an abort.                                        *)
Disposition == IF ~ commit \/ produceErr THEN "aborted" ELSE "committed"

EndTransaction ==
  /\ pc = "end"
  /\ txns' = [txns EXCEPT ![Len(txns)] = Disposition]
  /\ pc' = "count"
  /\ UNCHANGED <<faults, engineVars, connected, cycle, localVars, seqs, sent, counted, unknown>>
  /\ UNCHANGED <<log, consumerVars>>

(* The call fails: the broker may have done what was asked, or aborted the *)
(* transaction on its own, or left it open.  A cancelled loop returns with *)
(* the client, which StopProducers closes.                                 *)
EndFails ==
  /\ Fault
  /\ pc = "end"
  /\ \E outcome \in {Disposition, "aborted", "open"} :
       txns' = [txns EXCEPT ![Len(txns)] = outcome]
  /\ unknown' = unknown \cup {Len(txns)}
  /\ pc' = IF stop THEN "ended" ELSE "top"
  /\ connected' = stop
  /\ LeaveBody
  /\ UNCHANGED <<engineVars, cycle, seqs, sent, counted, log, consumerVars>>

(* Mutant: the cancelled loop returns before it counts.                    *)
CountSentUnlessStopped ==
  /\ pc = "count"
  /\ IF Disposition = "committed" /\ ~ stop
     THEN sent' = sent + Cardinality(bodies) /\ counted' = counted \cup bodies
     ELSE UNCHANGED <<sent, counted>>
  /\ pc' = IF stop THEN "ended" ELSE "top"
  /\ LeaveBody
  /\ UNCHANGED <<faults, engineVars, connected, cycle, seqs, unknown, txns, log, consumerVars>>

CountSent ==
  /\ pc = "count"
  /\ IF Disposition = "committed"
     THEN sent' = sent + Cardinality(bodies) /\ counted' = counted \cup bodies
     ELSE UNCHANGED <<sent, counted>>
  /\ pc' = IF stop THEN "ended" ELSE "top"
  /\ LeaveBody
  /\ UNCHANGED <<faults, engineVars, connected, cycle, seqs, unknown, txns, log, consumerVars>>

(* The transaction timeout of a client that is gone.                       *)
TxnTimeout ==
  /\ ~ connected /\ txns # Abandoned
  /\ txns' = Abandoned
  /\ UNCHANGED <<faults, engineVars, loopVars, log, consumerVars>>

ProduceLoop ==
  \/ Return \/ Connect \/ BeginTransaction \/ BeginFails
  \/ Produce \/ ProduceFails \/ RateCancelled
  \/ EndTransaction \/ EndFails \/ CountSent
  \/ TxnTimeout

-----------------------------------------------------------------------------
(* consumeLoop and handleRecord.                                           *)

(* Mutant: a watermark in place of the set.                                *)
DeliveredBelow(seq) == \E s \in seen : seq <= s

DeliveredBefore(seq) == seq \in seen

HandleAborted(rec) ==
  /\ rec.stamp = "abort"
  /\ eosViolations' = eosViolations + 1
  /\ UNCHANGED <<seen, kip890Residual, trackerVars>>

HandleDuplicate(rec) ==
  /\ rec.stamp = "commit" /\ DeliveredBefore(rec.seq)
  /\ kip890Residual' = kip890Residual + 1
  /\ UNCHANGED <<seen, eosViolations, trackerVars>>

HandleCommitted(rec) ==
  /\ rec.stamp = "commit" /\ ~ DeliveredBefore(rec.seq)
  /\ seen' = seen \cup {rec.seq}
  /\ RecordFirst(rec.stamp, rec.seq) \/ RecordKnown(rec.stamp, rec.seq)
  /\ UNCHANGED <<eosViolations, kip890Residual>>

HandleRecord(rec) ==
  HandleAborted(rec) \/ HandleDuplicate(rec) \/ HandleCommitted(rec)

(* The consumer reads the next record of partition k, of a transaction in  *)
(* the given state.                                                        *)
Fetch(k, state) ==
  /\ phase # "done"
  /\ position[k] < Len(log[k])
  /\ txns[log[k][position[k] + 1].txn] = state
  /\ position' = [position EXCEPT ![k] = @ + 1]
  /\ UNCHANGED <<engineVars, loopVars, txns, log>>

Fetched(k) == log[k][position[k] + 1]

Deliver(k) ==
  /\ Fetch(k, "committed")
  /\ HandleRecord(Fetched(k))
  /\ UNCHANGED <<faults, faultVars>>

SkipAborted(k) ==
  /\ Fetch(k, "aborted")
  /\ UNCHANGED <<faults, faultVars, counterVars, trackerVars>>

Leak(k) ==
  /\ Fault
  /\ Fetch(k, "aborted")
  /\ HandleRecord(Fetched(k))
  /\ leaks' = leaks + 1
  /\ UNCHANGED <<dropped, rewinds>>

Drop(k) ==
  /\ Fault
  /\ Fetch(k, "committed")
  /\ dropped' = IF Own(Fetched(k)) THEN dropped \cup {Fetched(k).seq} ELSE dropped
  /\ UNCHANGED <<leaks, rewinds, counterVars, trackerVars>>

(* The consumer reconnects and resumes from the committed offset.          *)
Resume(k) ==
  /\ phase # "done"
  /\ Fault
  /\ rewinds' = rewinds + 1
  /\ \E offset \in 0 .. position[k] - 1 : position' = [position EXCEPT ![k] = offset]
  /\ UNCHANGED <<engineVars, loopVars, txns, log, dropped, leaks, counterVars, trackerVars>>

Consume(k) == Deliver(k) \/ SkipAborted(k) \/ Leak(k) \/ Drop(k) \/ Resume(k)

-----------------------------------------------------------------------------
(* The engine's calls.                                                     *)

StopProducers ==
  /\ phase \in {"warmup", "measure"} /\ ~ stop
  /\ stop' = TRUE
  /\ UNCHANGED <<faults, phase, warmSeq, warmSeen, loopVars, txns, log, consumerVars>>

(* producerWG.Wait returns and the client is closed.                       *)
ProducersJoined ==
  /\ phase \in {"warmup", "measure"} /\ stop /\ pc = "ended"
  /\ phase' = IF phase = "warmup" THEN "warmedUp" ELSE "drain"
  /\ connected' = FALSE
  /\ UNCHANGED <<faults, stop, warmSeq, warmSeen, pc, cycle, localVars, seqs, sent, counted, unknown>>
  /\ UNCHANGED <<txns, log, consumerVars>>

(* Mutant: the reset also forgets what was delivered.                      *)
ResetTrackerAndSeen ==
  /\ phase = "warmedUp" /\ phase' = "resetting"
  /\ Reset
  /\ warmSeen' = seen
  /\ seen' = {}
  /\ UNCHANGED <<faults, stop, warmSeq, loopVars, txns, log, position, faultVars>>
  /\ UNCHANGED <<eosViolations, kip890Residual>>

(* ResetAfterWarmup: the tracker, then the counters.                       *)
ResetTracker ==
  /\ phase = "warmedUp" /\ phase' = "resetting"
  /\ Reset
  /\ warmSeen' = seen
  /\ UNCHANGED <<faults, stop, warmSeq, loopVars, txns, log, position, faultVars, counterVars>>

ResetCounters ==
  /\ phase = "resetting" /\ phase' = "reset"
  /\ warmSeq' = seqs["commit"]
  /\ sent' = 0 /\ eosViolations' = 0 /\ kip890Residual' = 0
  /\ UNCHANGED <<faults, stop, warmSeen, pc, connected, cycle, localVars, seqs, counted, unknown>>
  /\ UNCHANGED <<txns, log, position, faultVars, seen, trackerVars>>

StartProducers ==
  /\ phase = "reset" /\ phase' = "measure"
  /\ stop' = FALSE
  /\ pc' = "top"
  /\ UNCHANGED <<faults, warmSeq, warmSeen, connected, cycle, localVars, seqs, sent, counted, unknown>>
  /\ UNCHANGED <<txns, log, consumerVars>>

(* The drain ends and the snapshot is taken.                               *)
Snapshot ==
  /\ phase = "drain" /\ phase' = "done"
  /\ UNCHANGED <<faults, stop, warmSeq, warmSeen, loopVars, txns, log, consumerVars>>

EngineCalls ==
  \/ StopProducers \/ ProducersJoined
  \/ ResetTracker \/ ResetCounters \/ StartProducers \/ Snapshot

Finished == phase = "done" /\ UNCHANGED vars

Next == ProduceLoop \/ (\E k \in Partitions : Consume(k)) \/ EngineCalls \/ Finished

Spec == Init /\ [][Next]_vars

-----------------------------------------------------------------------------
Records == UNION { { log[k][n] : n \in 1 .. Len(log[k]) } : k \in Partitions }

CommittedSeqs == { r.seq : r \in { r \in Records : Own(r) /\ txns[r.txn] = "committed" } }
LeftSeqs      == { r.seq : r \in { r \in Records : ~ Own(r) /\ r.stamp = "commit" } }
Arrived       == history["commit"].arrived
Quiescent     == phase = "done" /\ \A k \in Partitions : position[k] = Len(log[k])

(* An earlier run's record shares its number with another record.          *)
NumberShared ==
  \E j, k \in Partitions : \E m \in 1 .. Len(log[j]), n \in 1 .. Len(log[k]) :
    /\ <<j, m>> # <<k, n>> /\ ~ Own(log[j][m])
    /\ log[j][m].stamp = "commit" /\ log[k][n].stamp = "commit"
    /\ log[j][m].seq = log[k][n].seq

(* The EOS counters raise no false alarm: as long as the broker delivers   *)
(* no aborted record no violation is counted, and as long as it redelivers *)
(* none nothing is put down to KIP-890, whatever calls failed, unless an   *)
(* earlier run left a record with the same number.                         *)
ViolationMeansLeak ==
  /\ leaks = 0 => eosViolations = 0
  /\ rewinds = 0 /\ ~ NumberShared => kip890Residual = 0

(* Only records of transactions the broker committed are counted as sent,  *)
(* and between two transactions every committed record has been, unless    *)
(* the call that committed it returned an error.                           *)
SentIsCommitted ==
  /\ counted \subseteq CommittedSeqs
  /\ pc \in {"top", "ended"} =>
       \A r \in Records :
         Own(r) /\ txns[r.txn] = "committed" => r.seq \in counted \/ r.txn \in unknown

(* A committed record enters the tracker once in the whole run: the        *)
(* tracker counts no duplicates among its arrivals, and a record of the    *)
(* warmup that is redelivered after the reset does not enter it again.     *)
TrackedOnce ==
  /\ Arrived \cap warmSeen = {}
  /\ "commit" \in Known => producers["commit"].received = Cardinality(Arrived)

(* A quiescent worker has given every sent record of the measurement that  *)
(* was not dropped to the tracker, unless an earlier run's record put its  *)
(* number into w.seen during the warmup.                                   *)
SentIsTracked ==
  Quiescent => \A s \in counted : s > warmSeq =>
    s \in Arrived \cup dropped \cup (LeftSeqs \cap warmSeen)

(* A loss that a quiescent worker reports was dropped by the broker or     *)
(* belongs to a transaction that was not committed (the sequence numbers   *)
(* of a transaction aborted by a produce error are used up), but for       *)
(* warmup records and for the sequences that overran the window.  An       *)
(* earlier run's record makes two more: its own number, when it was read   *)
(* in the warmup, and the numbers this run has not reached below it, when  *)
(* it was read in the measurement.                                         *)
LossExplained ==
  Quiescent /\ "commit" \in Known =>
    \A s \in producers["commit"].pendingLost :
      \/ s \in dropped
      \/ s <= seqs["commit"] /\ s \notin CommittedSeqs
      \/ s <= warmSeq
      \/ s \in history["commit"].overran
      \/ s \in LeftSeqs \cap warmSeen
      \/ \E t \in LeftSeqs \cap Arrived : seqs["commit"] < s /\ s < t
=============================================================================
