# A TLA+ verification project for the kubemq-kafka burn-in harness

The repository documents KubeMQ's Kafka connector and holds the program that soaks it:
`burnin/`, a long-running Go harness that produces and consumes through the connector, follows
every record by sequence number, and ends with a verdict on which the process exit code depends.
The connector itself is not in the repository; the examples in seven languages are clients without
state of their own. The harness is what this project models. The question throughout is the one
that matters for a test instrument: **can the verdict be trusted** - does a run end, is it judged
once and by its own numbers, is every reported loss, duplicate or violation real, and is every real
one reported?

Findings, that is, places where a comment in the code promises something the code does not do, are
collected in [Findings](#findings).

## Inventory

| Component | State | Operations | Interacts with |
|---|---|---|---|
| Sequence tracker (`tracker/tracker.go`) | per producer id: watermark, bitset window, suspected losses, counters | `Record`, `DetectGaps`, `Reset`, totals | called by consumer goroutines, churner, engine |
| Run engine (`engine/engine.go`, `worker_group.go`) | state, run context and `runDone`, worker groups, snapshots, verdict | start, stop, graceful shutdown, run loop (setup, warmup, measure, drain, snapshot, verdict), periodic tasks | started by HTTP and `main`, drives the workers |
| Process and control server (`main.go`, `server/server.go`) | main goroutine, signal, exit code | boot, wait, exit; `/run/start`, `/run/stop`, `/run/report`, status | calls the engine concurrently with the run loop |
| `produce_round_trip` worker | producer client, sequence counter, counters | produce loops, consume loops, start/stop | broker, tracker |
| `keyed_ordering` worker | the same, and the last offset of each partition | the same, and an offset-order check | broker, tracker |
| `consumer_group` worker | the same, member generations, attributed loss | the same, and a rebalance churner | tracker, `BaseWorker` counters |
| `offset_commit_lag` worker | the same, committed count, lag samples | manual commits, lag sampler | broker, admin client |
| `transactions_eos` worker | transactional client, cycle, two sequences, the set of delivered records | transactions that commit and abort in turn, read_committed consumer | broker, tracker |
| `admin_topic_churn` worker | cycle | create, describe, grow, probe with invalid sizes, delete a topic per cycle | admin client |
| Worker base (`worker/worker.go`) | counters, contexts, wait groups, disconnect generation | record*, `ResetAfterWarmup`, stop | all workers |
| Forced disconnects (`disconnect/`) | a ticker | bump every worker's disconnect generation | worker base |
| Verdict (`engine/verdict.go`, `report/report.go`, `RunReport`) | verdict, report | two judges and a reconciliation | snapshots, exit code |
| Configuration (`config/config.go`, `api/models.go`) | the startup configuration, the configuration of the run | defaults, file, environment, validation, durations, overlay of a request | `main`, control server, engine |
| Cleanup command (`cmd/cleanup/`) | none of its own: the topics | delete the listed topics | admin client, between runs |
| Metrics, transport, payload | Prometheus collectors, clients | - | - |

What makes these hard:

* **Concurrency.** HTTP handlers, the main goroutine, the run loop, up to six periodic tasks and the
  goroutines of every worker share the engine's fields, the tracker and the counters. Some of the
  sharing is locked, some is atomic and some (`w.prodCli`, `e.workerGroups` in the run loop,
  `peakRate`, the load-compare-add-store of `reconcileGroupLoss`) is neither.
* **Delivery.** Partitions deliver out of order with respect to each other, groups redeliver after
  a reconnect or a rebalance, the broker under test may drop a record or leak an aborted one, and
  a failed produce or `EndTransaction` may have taken effect.
* **Phases.** The warmup's traffic goes through the same tracker and counters as the measurement's
  and is wiped between two sets of records that are still in flight.
* **Ends.** A run ends by its duration, a request, a signal or an error, at any point.
* **Leftovers.** Topics, groups and producer ids are named after the worker, not the run: what one run
  leaves behind (records, offsets, topics of a churn cycle) the next one finds. The process keeps one
  startup configuration under all the overlays its clients post.

The properties that make each component correct are the ones listed with its run below; the
hazards they are aimed at are in `PROJECT.json` under `hazards`, each at its line.

## Modules

| Module | Models | Uses |
|---|---|---|
| `TrackerOps` | the pure part of the tracker: `Record` on one producer's state | - |
| `LossLedger` | abstract: what a tracker promises its callers about loss | - |
| `SequenceTracker` | the tracker under concurrent callers | extends `TrackerOps`, implements `LossLedger` |
| `Engine` | run lifecycle, control API, main goroutine, report readers | - |
| `RunConfig` | where the configuration of a run comes from | - |
| `ConsumerGroupLoss` | loss attribution of `consumer_group` | - |
| `RoundTrip` | `produce_round_trip` (and `keyed_ordering`'s check) from produce to tracker | extends and implements `SequenceTracker` |
| `TransactionsEOS` | `transactions_eos` and its broker | extends and implements `SequenceTracker` |
| `OffsetCommitLag` | `offset_commit_lag`: commits, lag sampler, restart | - |
| `AdminTopicChurn` | `admin_topic_churn` over several runs, and the cleanup command | - |
| `Verdict` | both judges, the reconciliation, the exit code | - |
| `SequenceTrackerProofs`, `ConsumerGroupLossProofs`, `VerdictProofs`, `OffsetCommitLagProofs`, `AdminTopicChurnProofs` | theorems | extend the above and `TLAPS` |
| `EngineProofs` | theorems about the process: its run lifecycle and its configurations | extends `Engine` and `RunConfig` |
| `RoundTripProofs`, `TransactionsEOSProofs` | theorems about the workers | extend the worker and `SequenceTrackerProofs` |
| `MC*` | instances for TLC | one per model |

Definitions whose comment begins with *Mutant* are wrong variants of the operator after them. Each
stands for a plausible bug, and with it in place of the original the property it is paired with in
`PROJECT.json` fails: the properties do depend on the code.

### The tracker: `TrackerOps`, `SequenceTracker`

A producer's state has the fields of `producerState`; the bitset is the set of its positions. Every
method holds `Tracker.mu`, so each is one action: `RecordFirst` and `RecordKnown` (the two branches
of `Record`), `DetectGaps` (with the caller's `metrics.AddLost`) and the one `Reset` after the
warmup. `Record` receives any sequence in any order: reordering, redelivery and loss are what the
broker may do. Unsigned wrap-around is out of reach (sequences start at 1 and would need 2^64
records), so naturals stand for `uint64`; the subtractions the code guards are guarded in the model.

The variable `history` is not in the code. It remembers what really arrived, and two things the
tracker itself cannot know: which sequences *overran* the window (`slideWindow` computes their
offset to be exactly `reorderWindow` and does not set their bit) and which were *skipped* (a slide
longer than the window scans only `reorderWindow` positions). The properties say that, up to these
two exceptions, the tracker is right.

`LossLedger` is the same component as its callers see it, without watermark, window or counters: a
set of suspected sequences per source, from which a sequence is withdrawn when and only when it
arrives, and to which an arrival that is too far ahead may add sequences before it that have not
arrived. The refinement mapping (`Ledger` in `SequenceTracker`) reads `suspected` off `pendingLost`;
`DetectGaps` is a stutter and `Reset` forgets everything.

### The engine: `Engine`

A run is the number of the accepted `StartRunFromConfig` call. The engine's fields hold the values
of the run started last; a run's context, `runDone`, groups and run loop carry its number. Each
critical section of `e.mu` is one action, and so is each call the run loop makes between two of
them. Timers are durations without a clock: what waits may take any time. The outcome of a verdict
is arbitrary here; `Verdict` models how it is computed. `overlapped` records whether a run was ever
started while another's loop was active. The code's state check excludes that except between
`setError` and the deferred function of `runLoop` (`OverlapNeedsError`). A run loop finds its worker
groups in the shared field `e.workerGroups` every time it stops, resets or snapshots them, and so does the
model (`groups`): after an overlap these are another run's. The properties about results, channels,
producers and ends are therefore stated for behaviours without an overlap, because in that window most of
them fail (see [Findings](#findings)).

The circumstances of a process (`env`: does the broker fail, is the run bounded, was `-run` given,
may the 120 s of the shutdown pass) are chosen in `Init`, so that one run covers several of them.
`RunReport` takes the lock anew for the snapshots, the configuration, the run id and the verdict; each is a
step of a reader, a client's or `main`'s own after `GracefulShutdown`, and the record `report` keeps
which run each step found. `main` then reads the warnings once more for the exit code.

### The configuration: `RunConfig`

A configuration is a function from fields to values, where fields that are validated alike are one
field and a value is what validation, parsing and merging tell apart: Go's zero value, the text
`"0"`, a bad value, good ones. A file is merged into the defaults field by field and the environment
after it; the body of a request replaces whole blocks, because decoding allocates the block with
zeros and encoding it again omits none of them. Decoding errors are ignored, parsed durations are not
part of the JSON form. `loaded` and `named` are history: what `Load` returned and which blocks
the current run's request named.

### Loss attribution: `ConsumerGroupLoss`

The rebalance churner and `StopProducers` both run `reconcileGroupLoss`; its load of the tracker's
total, load of `attributed`, add and store are four actions of either goroutine. The tracker is
reduced to what its callers see: a total that slides raise and late deliveries lower, and the part
already reported. History: what the reset wiped (`wiped`), losses confirmed after the last read (`late`),
all losses and those since the reset (`confirmed`, `measured`), the highest total a reconciliation acted
on (`peak`), and whether two reconciliations overlapped (`raced`) or one straddled the reset
(`straddled`).

### The workers: `RoundTrip`, `TransactionsEOS`

Both compose a worker, a topic with partitions in offset order, a consumer group and the engine's
calls, in the order the run loop makes them: warmup, stop, reset (tracker first, then the counters,
with deliveries in between), measurement, stop, drain, snapshot. The broker is external: a
produced record is appended to some partition, a failed call may or may not have had its effect, a
consumer resumes from any earlier offset after a reconnect, and a bounded number of records is
dropped or leaked. Both modules extend `SequenceTracker`: its variables are part of their state and
its actions are conjuncts of theirs. `TrackerSpec` is the tracker's whole specification, which either
worker implements, so what is proved of the tracker holds in the worker. (The tracker's `Init`, `Next`,
`Spec` are therefore named `TrackerInit`, `TrackerNext`, `TrackerSpec`; likewise `RunConfig` has `ConfigSpec`.)

In `RoundTrip` the produce loops are parameters: the shared client (`prodCli`), which the code
reads and writes without a lock, is tested, used, closed and cleared in separate actions.
Topic, group and producer ids carry no run id and sequences start at 1 in every run, so the topic
may hold any number of undelivered records of an earlier run (`Leftovers`) with the same producer id.

In `TransactionsEOS` a record's stamp stands for producer id and intended outcome together, and the
transactions are open, committed or aborted at the broker; an open one is aborted by the next
client's fencing or by the transaction timeout. An earlier run's transactions come first in the order of
transactions (`EarlierTxns`), and some of their records may be unread at the start (`Leftovers`): their
keys enter `seen` like this run's. `w.received`, a plain count of deliveries, is left out of both modules.

### The lag sampler: `OffsetCommitLag`

Produce loop, manual-commit consumer and lag sampler run against each other and against the engine's
calls. Appending a record and counting it, applying a commit and counting its records, and the
sampler's four reads (committed offsets and end offsets in `GroupLag`, `w.sent`, `w.deleted`) are
separate actions; so are the three stores of the warmup reset that matter here. The connector may
misreport a lag by a constant, which is what the worker is to detect. The run may start with records an
earlier one left uncommitted. A commit covers the partitions of its batch only, so a batch whose commit
failed is committed later, in part or not at all. History variables say how many leftovers the books owe
(`owed`), whether a failed or cancelled call or a reset of an undrained worker may have put them out
(`disturbed`), how many records moved during the current sample (`slack`), and whether a sample since the
reset was taken in motion (`noisy`).

### The topic churn: `AdminTopicChurn`

A cycle is a sequence of calls, each answered, sent twice by the client because the first answer was
lost, or ending in an error whether or not it was applied; under a cancelled context it may end in
that error for free. The topics are kept from run to run while each new worker counts its cycles from
one, and the cleanup command may remove them in between. `lenient` is a connector that accepts
partition counts it should refuse.

### The verdict: `Verdict`

Percentages are compared as fractions (per mille), a worker's snapshot has the one fidelity counter
its own gate looks at, and one worker at a time is judged, because both judges fail a run when some
worker fails. The memory is sampled once more between the snapshots and the verdict, which a report
read in between does not see. `main`'s last steps (`GracefulShutdown`'s result, the printed report, the
exit code) run against the run loop: `GracefulShutdown` returns without a verdict while the run is stopping
and after 120 s, so each of them may come before or after the verdict. `gaveUp` remembers a result that was
read before there was one.

## Runs

The longest passing run takes less than three minutes with two workers. Deadlock is checked
everywhere but in `run_config`, whose process may have exited or have used up its starts; elsewhere
the end of a process or of a measurement is an explicit stuttering action.

| Run | Bounds | Shows |
|---|---|---|
| `tracker` | window 2, 9 sequences, 6 deliveries | suspected losses and counts match what arrived, up to overrun and skipped sequences (`LossSound`, `LossComplete`, `ExactWithinWindow`); a duplicate is justified (`DuplicateJustified`); the tracker implements the ledger: a loss is withdrawn when and only when that sequence is delivered (`LedgerSpec`) |
| `engine` | 2 runs, 2 worker types, two environments: a bounded `-run` with a failing broker and a slow shutdown, and an unbounded process with a healthy broker, driven by its clients | the results served belong to the current run and measure it (`ResultsOfCurrentRun`); a report whose reader saw no start in between is of one run (`ReportOfOneRun`); exit code 0 means a completed run whose printed report says the same (`ExitZeroMeansCompletedRun`); what is read in a terminal state does not change until the next start (`TerminalStateIsFinal`); the loop closes its own channel once (`DoneClosedOnce`); nothing goes on producing (`NothingLeftProducing`); `OverlapNeedsError`; a cancelled run ends, `GracefulShutdown` returns, no consumers stay attached (`EveryRunEnds`, `ShutdownReturns`, `ConsumersReleased`) |
| `run_config` | files, environments and requests that set up to two fields, 2 starts | a run goes by the durations its configuration states and its workers have what they need (`RunsAsStated`); a block a request omits has the values of the process, whatever earlier requests said (`OmittedFallsThrough`) |
| `group_loss` | 2 members, 3 losses, 2 churns | after the last reconciliation only wiped and late losses are missing (`NoSilentLoss`), without an overlap the counter is the highest total a reconciliation acted on (`CountsThePeak`), it holds nothing of the warmup (`GroupLossIsMeasured`), and no loss is handed out twice by `DetectGaps` (`MetricNeverOvercounts`) |
| `round_trip` | 1 producer, 2 partitions, window 1, 4 sequences, 2 clients, a rewind, a drop or up to 2 leftover records per partition, 5 deliveries | reported losses are explained (`QuiescentLossExplained`); an earlier run's records end in the warmup (`WarmupAbsorbsLeftovers`); order violations need a redelivery; refinement of `SequenceTracker` (`TrackerSpec`) |
| `transactions_eos` | 2 partitions, 2 records per transaction, 2 transactions and an earlier run's, up to 1 leftover record per partition, 4 sequences, 2 faults (leftovers included), 6 deliveries | no false EOS violation and no residual without a redelivery or an earlier run's record of the same number (`ViolationMeansLeak`); sent is exactly committed, up to unknown outcomes (`SentIsCommitted`); a record is tracked once in the whole run (`TrackedOnce`); sent records reach the tracker; losses are explained |
| `offset_lag` | an exact connector and one that misreports by 2, batches of up to 2, 2 records of which an earlier run may have left 1, 3 samples, a fault, a disconnect besides the forced restart | the books agree with the broker until something disturbs them (`BooksAgree`); a sample's error is the connector's up to what moved while it was taken and what an earlier run left (`SampleErrorExplained`); no error of the warmup reaches the gate (`GateErrorHasCause`); resuming skips nothing (`NothingSkipped`); the lag returns to zero (`CatchesUp`) |
| `admin_churn` | 2 runs of 3 cycles over 2 names, 2 faults, correct and lenient connectors | no failure is counted without an accepted probe or a fault, over all runs (`FailuresHaveCauses`); leftover topics are accounted for (`LeftoversExplained`); `StopProducers` returns (`StopReturns`) |
| `verdict` | all worker types, every gate on both sides of its threshold, two configurations | the report `main` prints and the exit code agree, unless `main` gave up on the verdict (`ReportMatchesExitCode`); an early report is never revised for the better, and for the worse only by the gates the report trims (`EarlyReportTrimsOnly`) |
| `tracker_false_loss`, `engine_empty_drain`, `round_trip_unconfirmed` | | one violated promise each, see [Findings](#findings) |

Why the bounds are enough. The tracker's cases depend on where a sequence lies relative to the
first one, the watermark and the window; with window 2, nine sequences hold two windows' width of
skipped sequences beyond an overrun, and six deliveries an overrun, a second slide, a recovery and
a duplicate. The proofs remove these bounds. Two runs are what one run needs to meet the leftovers
of another. One producer in `round_trip` is the value of `producers_per_channel` in every shipped
configuration. Two transactions are one per intended outcome, or two of the same when a begin
failed in between; two records are the least that a produce error can split. A sample is disturbed by
one record moving between two of its reads, and the restart needs its third sample. One leftover is enough
to share a number with a record of this run (the instance has one this run commits and one beyond), to put
the books out, or to raise a watermark. Three memory samples are no baseline, no growth and growth past the
factor. Two fields of a request
are enough for one block to enable a worker and another to withhold what it needs. Partitions are
interchangeable in `round_trip` and `transactions_eos`, hence the symmetry; no temporal property
other than a refinement, which is a safety property, is checked with it.

Fairness. In `Engine`: weak fairness for each run loop, for the exits of its background
goroutines, for boot, for the poll that notices a terminal state, for the two waits of
`GracefulShutdown` and for the rest of `main`. In `OffsetCommitLag`: for the consume loop. In
`AdminTopicChurn`: for the churn loop. The Go scheduler runs every runnable goroutine, broker calls
take a context or a timeout and return, and tickers fire. Clients and the operator's signal get none:
nobody has to stop a run, and nobody has to start the next one.

## Proofs

TLAPS proves every invariant and every action property that the passing runs check, both refinements,
and type correctness, for every value of the constants within the named assumptions. What each rests
on:

* **`SequenceTrackerProofs`: `TrackerInvariant`**, and from it type correctness, `WindowSound`,
  `WindowComplete`, `LossSound`, `LossComplete`, `LossCount`, `ExactWithinWindow` and the metric's
  bound, for every window size and every set of producers. None of these is inductive alone: that
  a loss is real depends on the window being complete, and a count on the finiteness of what
  arrived. `Consistent` puts them together for one producer, in terms of window positions, and adds
  that the first sequence is at or below the watermark, that the watermark is not past every arrival
  and that a tracker which was never overrun has no suspected losses. There is one lemma per branch
  of `Record` (recovery, duplicate, inside the window, overrun) and one for `advanceContiguous`, which
  rests on the least-number principle: its loop stops because the position after the window is never
  set. Assumption: the window has at least one position.
  The action properties (`TrackerDuplicateJustified`, `TrackerLossWithdrawn`) and the refinement
  **`TrackerImplementsLedger`** follow from the same invariant and from `RecordExistingEffect`, which
  says what one `Record` does to the counts and the suspicions. The new suspicions of a slide precede
  the arrival that caused it and have not arrived, because an evicted position without a bit is one
  whose sequence did not arrive or overran.
* **`RoundTripProofs`: `RoundTripImplementsTracker`** (`Spec => TrackerSpec`), hence the tracker's
  invariant in the worker, for any number of produce loops, partitions, clients, rewinds and leftover
  records; types; and the run's properties. Each has an invariant of its own: numbers in the topic were
  taken (`SeqInv`), an unrewound partition's last offset is behind its position (`OffsetInv`), what
  arrived since the reset was taken by this run (`ArrivalInv`), what the consumers passed since the reset
  was tracked, dropped or belongs to the warmup (`PassedInv`). Assumptions: finitely many partitions, and
  the leftovers are records.
* **`TransactionsEOSProofs`** follows one committed record through the worker, for any number of
  partitions, transactions, records per transaction and faults: the transaction in progress (`LoopInv`)
  and its records (`BodyInv`), what is committed is counted, about to be, or of unknown outcome, and
  never stamped for abort (`CommitInv`), what is counted is committed (`CountInv`); the consumer has seen
  every committed record it passed, unless it was dropped (`ReadInv`), and what it has seen lies behind
  its position unless it was rewound (`SeenInv`); what it has seen is what the tracker was given, once,
  before the reset or after it (`TrackedInv`). That this run's committed number occurs once in the topic
  (`NumberInv`) is what tells a redelivery from a second record; an earlier run's record may have it too,
  which is the exception the properties name. The assumption on the leftovers is that no earlier run
  committed a record against its stamp, which the proof shows of this one. From these: `SentIsCommitted`,
  `ViolationMeansLeak`, `TrackedOnce`, `SentIsTracked`, `LossExplained`, the types, and `TrackerSpec`.
* **`EngineProofs`: `EngineInvariant`**, for any number of runs and workers and every set of
  environments. `LoopInv` follows one run loop (where its tasks may be alive), `OwnInv`, `ResultInv` and
  `RunInv` tie its groups and the engine's shared fields to the loop that owns them as long as no run
  loops overlapped, `ReportInv` and `MainInv` say what a reader that takes the lock several times knows
  between two of its reads. From it every safety property of the run `engine`.
  In the same module, **`ConfigInvariant`**: the startup configuration stays the one that was loaded and
  states its durations, and the configuration of a run was validated and falls through to it outside
  the blocks named; for any files, environments and requests. It rests on no field being in two blocks
  (`BlocksDisjoint`) and on a copy without parsed durations (`ParseFacts`).
* **`ConsumerGroupLossProofs`: `GroupLossInvariant`** and the four properties of `group_loss`, for any
  number of members, losses and churns. The invariant says what each goroutine knows between its
  steps: who is about to add has loaded an attributed total the counter covers, who has added knows
  that the counter covers the loss it read; hence a store never runs ahead of its add, whatever the
  other did in between; without a race exactly the peak, and without one that straddles the reset no more
  than was confirmed since. One lemma per action, one step per conjunct. Assumption: at least two
  members, which the constructor enforces.
* **`VerdictProofs`: `VerdictsAgree`, `EarlyFailureStands`, `EarlyReportRevised`**, for every snapshot and
  every validated configuration. Every gate of the report is a gate of the engine (`StricterEngine`):
  the loss gates are equal although one takes the maximum of threshold and boundary and the other
  compares with both, and the p99 gates are equal because a validated threshold is positive. Both warn
  about the memory in the same cases because a validated growth factor is at least 1. A shutdown that did
  not give up found the verdict, hence the report printed after it is reconciled with it. A report that
  passed is revised only by a gate it trims (`TrimmedGates`). Assumption: what `config.Validate` accepts.
* **`OffsetCommitLagProofs`: `BooksAgreeAlways`, `SampleErrorAlwaysExplained`, `GateErrorAlwaysHasCause`,
  `NeverSkipped`**, for any number of records, leftovers, batches, faults, samples and disconnects.
  `BooksAgree` relates the broker's offsets to the worker's counters and is inductive with the types and the
  consumer's part of the invariant; the sample's error needs
  one more conjunct per location of the sampler, saying how far what it has read so far may be from the
  broker: by no more than `slack`. That nothing is skipped needs that the position is never behind
  the committed offset and everything below the position was handled.
* **`AdminTopicChurnProofs`: `NoFailureWithoutCause`, `EveryLeftoverExplained`**, for any number of
  runs, cycles and names and every leniency. Each bounds the cardinality of a set of topics by a
  count of causes, and leaves out the topic of the cycle under way; the invariant adds that no cycle
  is under way outside warmup and measurement. The lemmas say how a set of topics changes when one
  topic does.

What the proofs changed. `QuiescentLossExplained` used to count an earlier run's record among those this
run brought to the topic, so that a failed produce of the same number was left unexplained. The
instance of the run has no such coincidence; the proof attempt did. `Appended` now counts this run's
records only. The assumptions on files, overrides, requests, leftovers and partitions were implicit in
the instances and are now stated, so that TLC evaluates them.

Only model-checked, because liveness under fairness is outside what the prover handles: `EveryRunEnds`,
`ShutdownReturns` and `ConsumersReleased` of `Engine`, `CatchesUp` of `OffsetCommitLag`, `StopReturns` of
`AdminTopicChurn`.

## Findings

With a run that shows them:

1. *A delivered record is reported as lost* (`tracker_false_loss`, `tracker.go:223`). The sequence
   that causes a slide gets the offset `reorderWindow`, its bit is not set, and a later slide
   evicts it, although "the surviving pending count is the true loss".
2. *A stopped run drains without consumers* (`engine_empty_drain`, `engine.go:429`). The consumers'
   context derives from the run's, so `/run/stop` and signals end them before the drain that is to
   "let in-flight deliveries land at the consumers".
3. *Losses near the end are not counted* (`round_trip_unconfirmed`, `engine.go:433`). A gap is
   confirmed only when a slide evicts it; the final gap detection does not look into the window
   (10,000 sequences by default).

Further disagreements between a comment and the code. Each is stated at the end of its module as an
invariant, which TLC refutes when it is added to the cfg of that module's run:

* *A duplicate without a redelivery* (`DuplicateMeansRedelivery` of `RoundTrip`, also without drops and
  rewinds; `tracker.go:56`). The first record after the reset sets the watermark; a record of another
  partition that precedes it counts as a duplicate, and the default gate tolerates none, whereas
  `worker.go:323` speaks of "a legal at-least-once redelivery".
* *A worker that sent nothing passes* (`ThroughputIsGated` of `Verdict`; `verdict.go:67`). The gate
  that is "skipped for the cyclic admin worker" is skipped as well for a worker with nothing sent.
* *A shutdown that does not wait* (`ShutdownWaitsForRun` of `Engine`; `engine.go:231`).
  GracefulShutdown "cancels any active run, waits, and returns whether it passed" (`engine.go:223`); a run that is stopping
  is not waited for, and the process exits with 1 before its verdict exists.
* *A lag error above 1 without a fault of the connector* (`AccuracyErrorWithinOne` of `OffsetCommitLag`, also with an exact connector and no faults;
  `offset_commit_lag.go:196`). The error absorbs "only in-flight poll skew" (`offset_commit_lag.go:26`):
  a batch that moves between the reads is more than one record, and a commit that failed after it
  was applied is never counted.
* *An accepted probe counted as rejected* (`RejectionIsNoAccept` of `AdminTopicChurn`;
  `admin_topic_churn.go:144`). Any other error is "still a correct rejection of the bad request (not an
  accept)", also when the answer of an accepted request was lost.

Consequences of the code that the models contain or that the properties name as an exception,
without a statement of their own:

* In the window after `setError` a new run is accepted; the old loop's deferred function then marks
  the new run as stopped and closes its `runDone` (`engine.go:181`, `265`). A third run can then be started
  beside the second, whose loop stops, drains and snapshots the third's groups (`engine.go:390`, `419`,
  `443`) and leaves its own producing until the process ends; a `StopProducers` of groups whose producers two
  loops started waits for the ones it cannot cancel.
* A start that fails while the consumers are being started leaves the first ones attached: the context is
  not cancelled, and `StopRun` refuses in state error (`engine.go:214`, `291`).
* A process that gives up on the verdict (state stopping, or 120 s) exits with 1, and the report it prints
  just before may say PASSED by the report's own gates (`engine.go:231`, `238`, `main.go:264`); or the
  verdict arrives in between and the report says PASSED with the engine's consent (`gaveUp` in
  `ReportMatchesExitCode`).
* A report that is read while a new run is started mixes the two runs, and one read between the
  snapshots and the verdict is judged by the report's own gates alone.
* The group loss counter is a peak, not a sum. `attributed` is not reset with the counter after the
  warmup, nor lowered by a late delivery, so a loss confirmed afterwards goes uncounted until the total
  passes the former peak (`CountsThePeak`, the term `wiped` in `NoSilentLoss`), although
  `consumer_group.go:24` says that "any tracker loss delta observed across a rebalance is counted". The final reconciliation precedes
  the drain (`late`), overlapping reconciliations may count a loss twice (`raced`), one that straddles the
  reset adds the warmup's (`straddled`), and the churner's `DetectGaps` swallows deltas of the metric
  (`discarded`), which no gate reads.
* A slide of more than the window forgets the sequences in between (`skipped`).
* With `producers_per_channel` above 1, the produce loops number their records from one counter
  while the tracker follows each producer id, and test, use, close and clear the shared client without a
  lock: one may use the nil another stored, or overwrite a client nobody closes then. `config.go:489`
  accepts such a configuration.
* In `transactions_eos` the sequence numbers of a transaction aborted by a produce error look lost
  (second case of `LossExplained`), an ordinary redelivery counts as the KIP-890 residual, and a
  leaked record of such a transaction carries the stamp `commit` and is not counted as a violation.
* A run stopped through the API or by a signal leaves records unread (finding 2), and the next run of the
  same topic takes them for its own. In `produce_round_trip` one read after the reset raises the watermark
  (`stale`). In `transactions_eos` its key stays in `seen`: this run's record of that number counts as a
  KIP-890 residual without a redelivery, never reaches the tracker if the leftover was read in the warmup
  (`SentIsTracked`), and is then reported as lost although it was committed and delivered
  (`LossExplained`). In `offset_commit_lag` the lag error is off by up to the number of leftovers until a
  drained worker is reset (`owed`); a reset before the leftovers are committed keeps it to the end of the run.
* In `offset_commit_lag` a consumer without further traffic never commits a batch whose commit failed
  (the exception in `CatchesUp`), and a warmup reset before the drain is complete puts the books out.
* In `admin_topic_churn` a grow whose answer was lost is sent again and refused, which counts as a
  failure, and a topic that a failed delete left behind fails a later run's cycle of the same number.
* A run started through the API keeps the run id of the process, `topic_prefix` does not enter
  a topic's name, and `max_duration` is parsed and read by nobody.

## Not modelled

* Rates, peak, sliding windows and latencies: measured and reported; the gates on average rate and
  latency are in `Verdict` as arbitrary numbers. That `ResetAfterWarmup` replaces the `peakRate`
  pointer while it is in use affects only a reported number.
* Several produce loops on one worker: `RoundTrip` has them as a parameter and its theorems hold for any
  number, the runs use one, as every shipped configuration does. That no client is used after it was
  cleared or left open is no property here: it is plain with one loop and false with two.
* Payload and CRC, headers, Prometheus registration, HTTP and JSON, console and file reports: pure
  functions or I/O without state.
* Status, snapshot, health and info handlers: they only read.
* The Kafka client library and the broker: external, modelled by what the workers rely on.
* The examples: clients without state of their own.

## Plan

Done: the nine models above, their runs, and proofs of all their safety properties. Next:

1. `CountsThePeak` is about a tracker reduced to its totals; show that `ConsumerGroupLoss`
   abstracts `SequenceTracker`, so that its tracker is the real one too.
2. The deadlock freedom of `Engine` and `AdminTopicChurn` as invariants that say who can move next.
3. An abstract specification of a run (started, measured, judged, over) that `Engine` implements while no
   run loops overlap.
