--------------------------- MODULE OffsetCommitLag ---------------------------
(***************************************************************************)
(* The offset_commit_lag worker (burnin/worker/offset_commit_lag.go): its  *)
(* produce loop, its group consumer with manual commits, and the lag       *)
(* sampler that compares the lag the broker reports with the worker's own  *)
(* books, w.sent - w.deleted.  The engine's calls around the warmup and    *)
(* the measurement (burnin/engine/engine.go) run concurrently with all     *)
(* three.                                                                  *)
(*                                                                         *)
(* One produce loop, as in every shipped configuration; what several loops *)
(* do to w.prodCli is in RoundTrip.  The offsets of the topic's partitions *)
(* are added up, as lagSampler adds up their lags; the client has handled  *)
(* everything below its position, so which of these records are the        *)
(* committed ones makes no difference.  Latency, corruption, error and     *)
(* duplicate counters, which the sampler does not read, are left out.      *)
(*                                                                         *)
(* Topic and group do not depend on the run: a run may start with records  *)
(* of an earlier one that the group has not committed.  The group's offset *)
(* at the start counts as zero.                                            *)
(*                                                                         *)
(* The broker is external.  A produce appends one record; a failed one may *)
(* have appended it or not.  A commit that fails may have been applied or  *)
(* not.  The lag is computed from two requests, the committed offsets      *)
(* first and the end offsets second.  A connector that misreports it is    *)
(* what the worker is there to detect: it reports misreport records too    *)
(* many.                                                                   *)
(***************************************************************************)
EXTENDS Integers

CONSTANTS
  Misreports,    \* by how much the connector may overstate a lag
  MaxBatch,      \* records a poll returns at most
  MaxLeftovers,  \* bound: records that an earlier run left uncommitted
  MaxRecords,    \* bound: records appended, these included
  MaxFaults,     \* bound: failing broker calls
  MaxSamples,    \* bound: completed samples
  MaxDisconnects \* bound: disconnects forced by the engine

ASSUME MisreportsAssumption == Misreports \subseteq Nat
ASSUME MaxBatchAssumption == MaxBatch \in Nat \ {0}
ASSUME BoundsAssumption ==
  /\ {MaxRecords, MaxFaults, MaxSamples, MaxDisconnects} \subseteq Nat
  /\ MaxLeftovers \in 0 .. MaxRecords

(* The sample after which the consumer is restarted, once.                 *)
RestartSample == 3

VARIABLES
  phase,      \* where the engine is with this worker
  cancelled,  \* whether the consumers' context is cancelled
  \* the broker
  hwm,        \* records appended
  committed,  \* the group's committed offset
  misreport,  \* by how much it overstates a lag
  \* the produce loop
  prod,       \* "stopped", "ready" or "appended": the ack is on its way
  sent,       \* w.sent
  \* the consume loop
  cons,       \* "closed", "ready", "fetched", "counting" or "ended"
  position,   \* next offset its client fetches
  batch,      \* records fetched and not yet committed or counted
  deleted,    \* w.deleted: records whose commit succeeded
  gen,        \* w.disconnectGen
  seenGen,    \* the generation its client was built for
  \* the sampler
  sampler,    \* "idle", "end", "sent", "deleted", "fold" or "ended"
  sample,     \* what it has read
  samples,    \* its samples variable
  restarted,  \* w.restarted
  lagErrMax,  \* w.lagAccuracyErrMax
  \* history
  handled,    \* offsets handed to the tracker
  owed,       \* records of an earlier run, which w.deleted counts and w.sent does not
  disturbed,  \* whether a fault, a cancelled call or an early reset may have put the books out
  even,       \* whether the books agreed when the sample began, and were not reset since
  slack,      \* records in flight when the sample began, or moved since
  noisy,      \* whether a sample folded since the reset was not taken at rest
  faults      \* failed broker calls so far

brokerVars   == <<hwm, committed, misreport>>
producerVars == <<prod, sent>>
consumerVars == <<cons, position, batch, deleted, seenGen, handled>>
samplerVars  == <<sampler, sample, samples, restarted, lagErrMax, noisy>>
engineVars   == <<phase, cancelled>>
bookVars     == <<owed, disturbed>>
vars == <<engineVars, brokerVars, producerVars, consumerVars, gen, samplerVars, bookVars, even, slack, faults>>

Phases == {"started", "warmup", "warmedUp", "resetDeleted", "resetErr", "reset", "measure",
           "drain", "done"}

NoSample == [committed |-> 0, reported |-> 0, sent |-> 0, err |-> 0]

InFlight == IF prod = "appended" THEN 1 ELSE 0
Uncounted == IF cons = "counting" THEN batch ELSE 0

Max0(n) == IF n > 0 THEN n ELSE 0
Abs(n)  == IF n < 0 THEN -n ELSE n

Offsets == 0 .. MaxRecords
Sample  == [committed : Offsets, reported : Nat, sent : Nat, err : Nat]

TypeOK ==
  /\ phase \in Phases
  /\ cancelled \in BOOLEAN
  /\ hwm \in Offsets /\ committed \in Offsets /\ position \in Offsets
  /\ misreport \in Misreports
  /\ prod \in {"stopped", "ready", "appended"}
  /\ sent \in Nat /\ deleted \in Nat
  /\ cons \in {"closed", "ready", "fetched", "counting", "ended"}
  /\ batch \in 0 .. MaxBatch
  /\ gen \in Nat /\ seenGen \in Nat
  /\ sampler \in {"idle", "end", "sent", "deleted", "fold", "ended"}
  /\ sample \in Sample
  /\ samples \in Nat
  /\ restarted \in BOOLEAN
  /\ lagErrMax \in Nat
  /\ handled \subseteq Offsets
  /\ owed \in Nat /\ disturbed \in BOOLEAN
  /\ even \in BOOLEAN /\ slack \in Nat /\ noisy \in BOOLEAN
  /\ faults \in Nat

Init ==
  /\ phase = "started" /\ cancelled = FALSE
  /\ hwm \in 0 .. MaxLeftovers /\ owed = hwm /\ committed = 0
  /\ misreport \in Misreports
  /\ prod = "stopped" /\ sent = 0
  /\ cons = "closed" /\ position = 0 /\ batch = 0 /\ deleted = 0
  /\ gen = 0 /\ seenGen = 0
  /\ sampler = "idle" /\ sample = NoSample /\ samples = 0
  /\ restarted = FALSE /\ lagErrMax = 0 /\ noisy = FALSE
  /\ handled = {}
  /\ disturbed = FALSE
  /\ even = FALSE /\ slack = 0 /\ faults = 0

-----------------------------------------------------------------------------
(* History.  n records moved in one of the four numbers a sample reads.    *)
Moved(n) ==
  /\ slack' = IF sampler \in {"idle", "ended"} THEN 0 ELSE slack + n
  /\ UNCHANGED even

Fault == faults < MaxFaults /\ faults' = faults + 1
NoFault == UNCHANGED faults

-----------------------------------------------------------------------------
(* produceLoop.                                                            *)

(* ProduceSync: the record is in the log.                                  *)
Append ==
  /\ prod = "ready" /\ hwm < MaxRecords
  /\ hwm' = hwm + 1
  /\ prod' = "appended"
  /\ Moved(1) /\ NoFault
  /\ UNCHANGED <<committed, misreport, sent, consumerVars, gen, samplerVars, engineVars, bookVars>>

(* ... and its ack has arrived: recordSent.                                *)
RecordSent ==
  /\ prod = "appended"
  /\ prod' = "ready"
  /\ sent' = sent + 1
  /\ Moved(1) /\ NoFault
  /\ UNCHANGED <<brokerVars, consumerVars, gen, samplerVars, engineVars, bookVars>>

(* A produce that fails after the append: the client is closed and built   *)
(* anew, and the record is not counted.  One that fails before it leaves   *)
(* no trace but an error.                                                  *)
ProduceFails ==
  /\ Fault
  /\ \/ /\ prod = "appended"
        /\ prod' = "ready"
        /\ disturbed' = TRUE
        /\ Moved(1)
     \/ prod = "ready" /\ UNCHANGED <<prod, disturbed, even, slack>>
  /\ UNCHANGED <<sent, brokerVars, consumerVars, gen, samplerVars, engineVars, owed>>

-----------------------------------------------------------------------------
(* consumeLoop.                                                            *)

(* Mutant: a client without a committed offset to resume from, at the end  *)
(* of the log.                                                             *)
ResumeOffsetAtEnd == hwm

(* A client of the group resumes from the committed offset.                *)
ResumeOffset == committed

(* The client is built, or rebuilt after a forced disconnect, which the    *)
(* loop notices between two polls.                                         *)
Connect ==
  /\ ~ cancelled
  /\ cons = "closed" \/ (cons = "ready" /\ seenGen # gen)
  /\ seenGen' = gen
  /\ cons' = "ready"
  /\ position' = ResumeOffset
  /\ NoFault
  /\ UNCHANGED <<batch, deleted, handled>>
  /\ UNCHANGED <<brokerVars, producerVars, gen, samplerVars, engineVars, bookVars, even, slack>>

(* transport.NewClient fails.  The new generation has been noted by then,  *)
(* so that an old client stays in use.                                     *)
ConnectFails ==
  /\ ~ cancelled
  /\ cons = "closed" \/ (cons = "ready" /\ seenGen # gen)
  /\ Fault
  /\ seenGen' = gen
  /\ UNCHANGED <<cons, position, batch, deleted, handled>>
  /\ UNCHANGED <<brokerVars, producerVars, gen, samplerVars, engineVars, bookVars, even, slack>>

(* PollFetches returns n records, and handleRecord feeds each of them to   *)
(* the tracker.                                                            *)
Poll ==
  /\ cons = "ready" /\ seenGen = gen /\ ~ cancelled
  /\ \E n \in 1 .. MaxBatch :
       /\ position + n <= hwm
       /\ batch' = n
       /\ position' = position + n
       /\ handled' = handled \cup position .. position + n - 1
  /\ cons' = "fetched"
  /\ NoFault
  /\ UNCHANGED <<deleted, seenGen>>
  /\ UNCHANGED <<brokerVars, producerVars, gen, samplerVars, engineVars, bookVars, even, slack>>

(* Mutant: the loop returns on any error.                                  *)
FetchFailsEnds ==
  /\ cons = "ready" /\ seenGen = gen /\ ~ cancelled
  /\ Fault
  /\ cons' = "ended"
  /\ UNCHANGED <<position, batch, deleted, seenGen, handled>>
  /\ UNCHANGED <<brokerVars, producerVars, gen, samplerVars, engineVars, bookVars, even, slack>>

(* PollFetches returns errors: whatever else it returned is not handled,   *)
(* and the client is closed.                                               *)
FetchFails ==
  /\ cons = "ready" /\ seenGen = gen /\ ~ cancelled
  /\ Fault
  /\ cons' = "closed"
  /\ UNCHANGED <<position, batch, deleted, seenGen, handled>>
  /\ UNCHANGED <<brokerVars, producerVars, gen, samplerVars, engineVars, bookVars, even, slack>>

(* The broker applies CommitRecords, for the records of the batch and, in  *)
(* the batch's partitions, for those of an earlier one whose commit failed.*)
Applied ==
  \E late \in 0 .. position - batch - committed :
    /\ committed' = committed + batch + late
    /\ Moved(batch + late)

Commit ==
  /\ cons = "fetched"
  /\ cons' = "counting"
  /\ Applied
  /\ NoFault
  /\ UNCHANGED <<position, batch, deleted, seenGen, handled, bookVars>>
  /\ UNCHANGED <<hwm, misreport, producerVars, gen, samplerVars, engineVars>>

(* CommitRecords fails, applied or not.  The loop goes on polling behind   *)
(* the batch, unless the failure is the cancellation.                      *)
CommitFails ==
  /\ cons = "fetched"
  /\ IF cancelled THEN cons' = "ended" /\ NoFault
                  ELSE cons' = "ready" /\ Fault
  /\ Applied \/ UNCHANGED <<committed, even, slack>>
  /\ batch' = 0
  /\ disturbed' = TRUE
  /\ UNCHANGED <<position, deleted, seenGen, handled, owed>>
  /\ UNCHANGED <<hwm, misreport, producerVars, gen, samplerVars, engineVars>>

(* Mutant: one count for the whole batch.                                  *)
RecordDeletedOncePerBatch ==
  /\ cons = "counting"
  /\ cons' = "ready"
  /\ batch' = 0
  /\ deleted' = deleted + 1
  /\ Moved(1) /\ NoFault
  /\ UNCHANGED <<position, seenGen, handled>>
  /\ UNCHANGED <<brokerVars, producerVars, gen, samplerVars, engineVars, bookVars>>

(* recordDeleted, for each record of the committed batch.                  *)
RecordDeleted ==
  /\ cons = "counting"
  /\ cons' = IF batch = 1 THEN "ready" ELSE "counting"
  /\ batch' = batch - 1
  /\ deleted' = deleted + 1
  /\ Moved(1) /\ NoFault
  /\ UNCHANGED <<position, seenGen, handled>>
  /\ UNCHANGED <<brokerVars, producerVars, gen, samplerVars, engineVars, bookVars>>

(* The loop, or the poll it is in, sees the cancelled context.             *)
ConsumerEnds ==
  /\ cancelled
  /\ cons \in {"closed", "ready"}
  /\ cons' = "ended"
  /\ NoFault
  /\ UNCHANGED <<position, batch, deleted, seenGen, handled>>
  /\ UNCHANGED <<brokerVars, producerVars, gen, samplerVars, engineVars, bookVars, even, slack>>

-----------------------------------------------------------------------------
(* lagSampler.                                                             *)

(* A tick: GroupLag's first request.                                       *)
ReadCommitted ==
  /\ sampler = "idle" /\ samples < MaxSamples /\ ~ cancelled
  /\ sampler' = "end"
  /\ sample' = [NoSample EXCEPT !.committed = committed]
  /\ even' = (~ disturbed /\ phase # "resetDeleted")
  /\ slack' = InFlight + Uncounted
  /\ NoFault
  /\ UNCHANGED <<samples, restarted, lagErrMax, noisy>>
  /\ UNCHANGED <<brokerVars, producerVars, consumerVars, gen, engineVars, bookVars>>

(* GroupLag fails: the tick is skipped.                                    *)
GroupLagFails ==
  /\ sampler = "end"
  /\ Fault
  /\ sampler' = "idle" /\ sample' = NoSample /\ even' = FALSE /\ slack' = 0
  /\ UNCHANGED <<samples, restarted, lagErrMax, noisy>>
  /\ UNCHANGED <<brokerVars, producerVars, consumerVars, gen, engineVars, bookVars>>

(* GroupLag's second request, and the sum of the positive lags.            *)
ReadEndOffsets ==
  /\ sampler = "end"
  /\ sampler' = "sent"
  /\ sample' = [sample EXCEPT !.reported = Max0(hwm - sample.committed + misreport),
                              !.committed = 0]
  /\ NoFault
  /\ UNCHANGED <<samples, restarted, lagErrMax, noisy>>
  /\ UNCHANGED <<brokerVars, producerVars, consumerVars, gen, engineVars, bookVars, even, slack>>

ReadSent ==
  /\ sampler = "sent"
  /\ sampler' = "deleted"
  /\ sample' = [sample EXCEPT !.sent = sent]
  /\ NoFault
  /\ UNCHANGED <<samples, restarted, lagErrMax, noisy>>
  /\ UNCHANGED <<brokerVars, producerVars, consumerVars, gen, engineVars, bookVars, even, slack>>

(* Mutant: the reported lag is compared with the records sent.             *)
LagErrorOfSent(reported, s, d) == Abs(reported - s)

(* The difference from the books, which are clamped at zero.               *)
LagError(reported, s, d) == Abs(reported - Max0(s - d))

ReadDeleted ==
  /\ sampler = "deleted"
  /\ sampler' = "fold"
  /\ sample' = [sample EXCEPT !.err = LagError(sample.reported, sample.sent, deleted),
                              !.reported = 0, !.sent = 0]
  /\ NoFault
  /\ UNCHANGED <<samples, restarted, lagErrMax, noisy>>
  /\ UNCHANGED <<brokerVars, producerVars, consumerVars, gen, engineVars, bookVars, even, slack>>

(* setLagAccuracyErr, and the forced restart after the third sample.       *)
Fold ==
  /\ sampler = "fold"
  /\ sampler' = "idle" /\ sample' = NoSample /\ even' = FALSE /\ slack' = 0
  /\ lagErrMax' = IF sample.err <= lagErrMax THEN lagErrMax ELSE sample.err
  /\ noisy' = (noisy \/ ~ even \/ disturbed \/ owed + slack > 0)
  /\ samples' = samples + 1
  /\ IF samples + 1 = RestartSample /\ ~ restarted
     THEN restarted' = TRUE /\ gen' = gen + 1
     ELSE UNCHANGED <<restarted, gen>>
  /\ NoFault
  /\ UNCHANGED <<brokerVars, producerVars, consumerVars, engineVars, bookVars>>

SamplerEnds ==
  /\ cancelled
  /\ sampler \in {"idle", "end"}
  /\ sampler' = "ended" /\ sample' = NoSample /\ even' = FALSE /\ slack' = 0
  /\ NoFault
  /\ UNCHANGED <<samples, restarted, lagErrMax, noisy>>
  /\ UNCHANGED <<brokerVars, producerVars, consumerVars, gen, engineVars, bookVars>>

-----------------------------------------------------------------------------
(* The engine's calls.                                                     *)

StartProducers ==
  /\ \/ phase = "started" /\ phase' = "warmup"
     \/ phase = "reset" /\ phase' = "measure"
  /\ prod' = "ready"
  /\ NoFault
  /\ UNCHANGED <<cancelled, sent>>
  /\ UNCHANGED <<brokerVars, consumerVars, gen, samplerVars, bookVars, even, slack>>

(* StopProducers cancels the produce loop and waits for it.  A produce the *)
(* cancellation interrupts is not counted, though the broker has it.       *)
StopProducers ==
  /\ \/ phase = "warmup" /\ phase' = "warmedUp"
     \/ phase = "measure" /\ phase' = "drain"
  /\ prod' = "stopped"
  /\ disturbed' = (disturbed \/ prod = "appended")
  /\ Moved(InFlight) /\ NoFault
  /\ UNCHANGED <<cancelled, sent, owed>>
  /\ UNCHANGED <<brokerVars, consumerVars, gen, samplerVars>>

(* Every record is committed and counted.                                  *)
Drained == prod = "stopped" /\ committed = hwm /\ Uncounted = 0

(* ResetAfterWarmup stores its zeros one after the other; the consumer and *)
(* the sampler do not stop for it.                                         *)
ResetSent ==
  /\ phase = "warmedUp" /\ phase' = "resetDeleted"
  /\ sent' = 0
  /\ owed' = 0 /\ disturbed' = ~ Drained
  /\ even' = FALSE
  /\ NoFault
  /\ UNCHANGED <<cancelled, prod>>
  /\ UNCHANGED <<brokerVars, consumerVars, gen, samplerVars, slack>>

ResetDeleted ==
  /\ phase = "resetDeleted" /\ phase' = "resetErr"
  /\ deleted' = 0
  /\ NoFault
  /\ UNCHANGED <<cancelled, cons, position, batch, seenGen, handled>>
  /\ UNCHANGED <<brokerVars, producerVars, gen, samplerVars, bookVars, even, slack>>

(* Mutant: the reset forgets the maximum.                                  *)
ResetLagErrForgotten ==
  /\ phase = "resetErr" /\ phase' = "reset"
  /\ noisy' = FALSE
  /\ NoFault
  /\ UNCHANGED <<cancelled, sampler, sample, samples, restarted, lagErrMax>>
  /\ UNCHANGED <<brokerVars, producerVars, consumerVars, gen, bookVars, even, slack>>

ResetLagErr ==
  /\ phase = "resetErr" /\ phase' = "reset"
  /\ lagErrMax' = 0 /\ noisy' = FALSE
  /\ NoFault
  /\ UNCHANGED <<cancelled, sampler, sample, samples, restarted>>
  /\ UNCHANGED <<brokerVars, producerVars, consumerVars, gen, bookVars, even, slack>>

(* The disconnect manager's DisconnectConsumers.                           *)
DisconnectConsumers ==
  /\ phase = "measure" /\ gen < MaxDisconnects
  /\ gen' = gen + 1
  /\ NoFault
  /\ UNCHANGED <<engineVars, brokerVars, producerVars, consumerVars, samplerVars, bookVars, even, slack>>

(* After the drain the counters are captured and StopConsumers cancels.    *)
StopConsumers ==
  /\ phase = "drain" /\ phase' = "done"
  /\ cancelled' = TRUE
  /\ NoFault
  /\ UNCHANGED <<brokerVars, producerVars, consumerVars, gen, samplerVars, bookVars, even, slack>>

-----------------------------------------------------------------------------
Producer == Append \/ RecordSent \/ ProduceFails
Consumer == Connect \/ ConnectFails \/ Poll \/ FetchFails \/ Commit \/ CommitFails
              \/ RecordDeleted \/ ConsumerEnds
Sampler  == ReadCommitted \/ GroupLagFails \/ ReadEndOffsets \/ ReadSent \/ ReadDeleted
              \/ Fold \/ SamplerEnds
Engine   == StartProducers \/ StopProducers \/ ResetSent \/ ResetDeleted \/ ResetLagErr
              \/ DisconnectConsumers \/ StopConsumers

Terminated == phase = "done" /\ cons = "ended" /\ sampler = "ended" /\ UNCHANGED vars

Next == Producer \/ Consumer \/ Sampler \/ Engine \/ Terminated

(* The consume loop is scheduled and the broker answers it.                *)
Spec == Init /\ [][Next]_vars /\ WF_vars(Consumer)

-----------------------------------------------------------------------------
(* The worker's books agree with the broker as long as nothing disturbed   *)
(* them (no commit or acknowledged produce failed or was cancelled): the   *)
(* lag is w.sent - w.deleted, up to what is between two counters and what  *)
(* an earlier run left.  A reset of a drained worker evens out whatever    *)
(* happened before it, the leftovers included.                             *)
BooksAgree ==
  ~ disturbed =>
    IF phase = "resetDeleted"
    THEN Drained /\ sent = 0 /\ owed = 0
    ELSE hwm - committed = sent + InFlight - (deleted + Uncounted) + owed

(* The accuracy error of a sample is the connector's own error, up to the  *)
(* records that were between two counters when the sample began or moved   *)
(* while its four numbers were read one after the other, and up to what an *)
(* earlier run left.  A sample of a worker at rest without leftovers is    *)
(* exact.                                                                  *)
SampleErrorExplained ==
  (sampler = "fold" /\ even /\ ~ disturbed) =>
    /\ sample.err <= misreport + owed + slack
    /\ sample.err >= misreport - slack

(* The error the gate looks at, the maximum over the samples, is the       *)
(* connector's own when each sample folded since the reset was taken at    *)
(* rest: nothing of the warmup, such as the error an earlier run's records *)
(* make, reaches it.                                                       *)
GateErrorHasCause == ~ noisy => lagErrMax \in {0, misreport}

(* Resuming from the committed offset skips nothing: whatever is committed *)
(* was handed to the tracker, through restarts, failed commits and a       *)
(* client that polls on behind an uncommitted batch.                       *)
NothingSkipped == \A o \in 0 .. committed - 1 : o \in handled

(* The lag returns to zero after the producers stopped, if no commit       *)
(* failed.  (After one, a client without further traffic never commits     *)
(* again.)                                                                 *)
CatchesUp == (phase = "drain") ~> (Drained \/ cancelled \/ disturbed)

-----------------------------------------------------------------------------
(***************************************************************************)
(* What the repository says of the sampler and the code does not do.       *)
(***************************************************************************)

(* offset_commit_lag.go:26 "the running MAX accuracy error must stay       *)
(* within max_lag_accuracy_error_msgs (1, absorbing only in-flight poll    *)
(* skew)".                                                                 *)
AccuracyErrorWithinOne == lagErrMax <= 1
=============================================================================
