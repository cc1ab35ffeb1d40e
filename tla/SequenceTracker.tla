--------------------------- MODULE SequenceTracker ---------------------------
(***************************************************************************)
(* The sequence tracker of one worker (burnin/tracker/tracker.go) under    *)
(* the concurrent use the harness makes of it: consumer goroutines call    *)
(* Record for whatever the broker delivers (out of order across partitions,*)
(* redelivered after a rebalance or reconnect, or never), the engine's gap *)
(* detector calls DetectGaps and adds the deltas to the live loss metric,  *)
(* and the warmup ends with one Reset.  Every method holds Tracker.mu, so  *)
(* each is one action.                                                     *)
(***************************************************************************)
EXTENDS TrackerOps

CONSTANTS
  Producers,      \* producer ids, the keys of Tracker.producers
  MaxSeq,         \* bound: sequences a producer sends
  MaxDeliveries   \* bound: records delivered per producer between resets

ASSUME MaxSeqAssumption == MaxSeq \in Nat
ASSUME MaxDeliveriesAssumption == MaxDeliveries \in Nat

VARIABLES
  producers,  \* Tracker.producers: a map from the producer ids seen so far
  warmup,     \* whether ResetAfterWarmup is still to come
  lostMetric, \* what metrics.AddLost has received, by producer
  history     \* what really arrived since the last Reset, by producer

trackerVars == <<producers, warmup, lostMetric, history>>

(***************************************************************************)
(* The history is not in the code.  It remembers, for each producer:       *)
(*   first    the sequence that created its state,                         *)
(*   arrived  every sequence passed to Record,                             *)
(*   overran  the sequences that arrived beyond the window (slideWindow),  *)
(*   skipped  the sequences a slide jumped over without examining them.    *)
(***************************************************************************)
History == [ first : Nat, arrived : SUBSET Nat, overran : SUBSET Nat, skipped : SUBSET Nat ]

NoHistory == [ first |-> 0, arrived |-> {}, overran |-> {}, skipped |-> {} ]

Known == DOMAIN producers

TrackerTypeOK ==
  /\ Known \subseteq Producers
  /\ producers \in [Known -> ProducerState]
  /\ warmup \in BOOLEAN
  /\ lostMetric \in [Producers -> Nat]
  /\ history \in [Producers -> History]

TrackerInit ==
  /\ producers = [p \in {} |-> {}]
  /\ warmup = TRUE
  /\ lostMetric = [p \in Producers |-> 0]
  /\ history = [p \in Producers |-> NoHistory]

-----------------------------------------------------------------------------
(* Assignment to a key of a Go map.                                        *)
Put(m, key, value) ==
  [k \in DOMAIN m \cup {key} |-> IF k = key THEN value ELSE m[k]]

(* Sequences between the old window and the new watermark.                 *)
Skipped(ps, seq) ==
  ps.highContiguous + ReorderWindow + 1 .. seq - ReorderWindow - 1

FirstHistory(seq) == [ first |-> seq, arrived |-> {seq}, overran |-> {}, skipped |-> {} ]

HistoryAfter(h, ps, seq) ==
  [ first   |-> h.first,
    arrived |-> h.arrived \cup {seq},
    overran |-> IF IsOverrun(ps, seq) THEN h.overran \cup {seq} ELSE h.overran,
    skipped |-> h.skipped \cup Skipped(ps, seq) ]

(* Record: the branch that creates the producer's state.                   *)
RecordFirst(p, seq) ==
  /\ p \notin Known
  /\ producers' = Put(producers, p, NewProducerState(seq))
  /\ history' = [history EXCEPT ![p] = FirstHistory(seq)]
  /\ UNCHANGED <<warmup, lostMetric>>

(* Record for a producer already in the map.                               *)
RecordKnown(p, seq) ==
  /\ p \in Known
  /\ producers[p].received < MaxDeliveries
  /\ producers' = Put(producers, p, RecordExisting(producers[p], seq))
  /\ history' = [history EXCEPT ![p] = HistoryAfter(@, producers[p], seq)]
  /\ UNCHANGED <<warmup, lostMetric>>

(* The loss DetectGaps reports for one producer: positive deltas only.     *)
Delta(ps) ==
  IF ps.confirmedLost > ps.lastReportedLost
  THEN ps.confirmedLost - ps.lastReportedLost ELSE 0

(* DetectGaps as the engine's gapDetector, drain loop and final detection  *)
(* call it: every delta goes to the live metric.                           *)
DetectGaps ==
  /\ producers' = [p \in Known |-> 
       [producers[p] EXCEPT !.lastReportedLost = producers[p].confirmedLost]]
  /\ lostMetric' = [p \in Producers |->
       IF p \in Known THEN lostMetric[p] + Delta(producers[p]) ELSE lostMetric[p]]
  /\ UNCHANGED <<warmup, history>>

(* Reset, once, from ResetAfterWarmup.                                     *)
Reset ==
  /\ warmup
  /\ warmup' = FALSE
  /\ producers' = [p \in {} |-> {}]
  /\ history' = [p \in Producers |-> NoHistory]
  /\ UNCHANGED lostMetric

TrackerNext ==
  \/ \E p \in Producers, seq \in 1 .. MaxSeq : RecordFirst(p, seq) \/ RecordKnown(p, seq)
  \/ DetectGaps
  \/ Reset

(* The tracker is used only through its operations.  A worker's model that *)
(* extends this module implements this specification, and what is proved   *)
(* of the tracker then holds of the worker.                                *)
TrackerSpec == TrackerInit /\ [][TrackerNext]_trackerVars

-----------------------------------------------------------------------------
(* Sequences above the watermark whose bit is set.                         *)
InWindow(ps) == { ps.highContiguous + 1 + i : i \in ps.window }

(* Tracker.Record never marks a sequence that was not delivered: what the  *)
(* window says was seen above the watermark did arrive.                    *)
WindowSound ==
  \A p \in Known : InWindow(producers[p]) \subseteq history[p].arrived

(* Tracker.Record remembers every arrival above the watermark, except the  *)
(* ones that overran the window: slideWindow computes their offset to be   *)
(* exactly reorderWindow and never sets their bit (tracker.go:190, 223).   *)
WindowComplete ==
  \A p \in Known :
    { s \in history[p].arrived : s > producers[p].highContiguous }
      \subseteq InWindow(producers[p]) \cup history[p].overran

(* A sequence counted as lost by slideWindow and not recovered by Record   *)
(* was never delivered, except the sequences that overran the window.      *)
LossSound ==
  \A p \in Known : producers[p].pendingLost \cap history[p].arrived \subseteq history[p].overran

(* Every sequence the watermark passed without a delivery is a suspected   *)
(* loss, except those a slide of more than reorderWindow jumped over       *)
(* (tracker.go:197 caps the scan).                                         *)
LossComplete ==
  \A p \in Known :
    (history[p].first .. producers[p].highContiguous) \ history[p].arrived
      \subseteq producers[p].pendingLost \cup history[p].skipped

(* The loss TotalLost reports is the number of suspected losses, and they  *)
(* all lie between the first sequence and the watermark: Record and        *)
(* slideWindow store the count at every change of the map.                 *)
LossCount ==
  \A p \in Known :
    /\ producers[p].confirmedLost = Cardinality(producers[p].pendingLost)
    /\ producers[p].pendingLost \subseteq history[p].first .. producers[p].highContiguous

(* While deliveries stay within the reorder window and above the first one,*)
(* Tracker's counts are exact: no loss is reported and received minus      *)
(* duplicates is the number of distinct sequences that arrived.            *)
ExactWithinWindow ==
  \A p \in Known :
    (history[p].overran = {} /\ \A s \in history[p].arrived : s >= history[p].first)
      => /\ producers[p].confirmedLost = 0
         /\ producers[p].received - producers[p].duplicates = Cardinality(history[p].arrived)

(* The live metric never falls behind what DetectGaps has reported, though *)
(* the confirmed loss may fall and rise again between two calls.           *)
MetricCoversReported ==
  \A p \in Known : lostMetric[p] >= producers[p].lastReportedLost

(***************************************************************************)
(* The inductive invariant the proofs use: the facts above for one         *)
(* producer, in terms of window positions, with what makes them inductive: *)
(* the first sequence is at or below the watermark, the watermark is not   *)
(* past every arrival, only finitely many sequences arrived or are         *)
(* pending, and a tracker that was never overrun has neither pending nor   *)
(* skipped sequences.                                                      *)
(***************************************************************************)
Consistent(ps, h) ==
  /\ h.first <= ps.highContiguous
  /\ \E s \in h.arrived : ps.highContiguous <= s
  /\ \A i \in ps.window : ps.highContiguous + 1 + i \in h.arrived
  /\ \A s \in h.arrived : s > ps.highContiguous =>
        s - ps.highContiguous - 1 \in ps.window \/ s \in h.overran
  /\ \A s \in ps.pendingLost : s \in h.arrived => s \in h.overran
  /\ \A s \in h.first .. ps.highContiguous :
        s \in h.arrived \/ s \in ps.pendingLost \/ s \in h.skipped
  /\ ps.pendingLost \subseteq h.first .. ps.highContiguous
  /\ IsFiniteSet(ps.pendingLost) /\ ps.confirmedLost = Cardinality(ps.pendingLost)
  /\ h.overran = {} => ps.pendingLost = {} /\ h.skipped = {}
  /\ IsFiniteSet(h.arrived)
  /\ (h.overran = {} /\ \A s \in h.arrived : s >= h.first) =>
        ps.received = ps.duplicates + Cardinality(h.arrived)

(* The tracker's counters, window and pending losses stay consistent with  *)
(* what Record was given, and the metric with what DetectGaps reported.    *)
TrackerInv ==
  /\ TrackerTypeOK
  /\ \A p \in Known : Consistent(producers[p], history[p])
  /\ \A p \in Producers \ Known : history[p] = NoHistory
  /\ MetricCoversReported

(* Record counts a duplicate only for a sequence that arrived before, that *)
(* precedes the first one, or that a slide jumped over.                    *)
DuplicateJustified ==
  [][\A p \in Known \cap Known' :
       producers'[p].duplicates > producers[p].duplicates =>
         LET seq == producers'[p].lastSeen
         IN  seq \in history[p].arrived \cup history[p].skipped \/ seq < history[p].first]_trackerVars

(* Once reported, a loss is withdrawn only by the late delivery of that    *)
(* very sequence, which Record then does not count as a duplicate.         *)
LossWithdrawnByDelivery ==
  [][\A p \in Known \cap Known' :
       LET gone == producers[p].pendingLost \ producers'[p].pendingLost
       IN  gone # {} => /\ gone = {producers'[p].lastSeen}
                        /\ producers'[p].received = producers[p].received + 1
                        /\ producers'[p].duplicates = producers[p].duplicates]_trackerVars

(* The tracker implements the loss ledger it promises its callers: of its  *)
(* state they only see the suspected losses.                               *)
Ledger == INSTANCE LossLedger
  WITH Sources   <- Producers,
       Numbers   <- 1 .. MaxSeq,
       arrived   <- [p \in Producers |-> history[p].arrived],
       suspected <- [p \in Producers |-> IF p \in Known THEN producers[p].pendingLost ELSE {}],
       excused   <- [p \in Producers |-> history[p].overran]

(* Record raises suspicions of loss only about sequences that did not      *)
(* arrive and lie before one that did, and withdraws a suspicion when and  *)
(* only when that sequence arrives; DetectGaps changes none.               *)
LedgerSpec == Ledger!Spec

(***************************************************************************)
(* What the comments of tracker.go claim and the code does not do.         *)
(***************************************************************************)

(* tracker.go:204 "the surviving pending count is the true loss. This      *)
(* avoids false positives when a slow or redelivering consumer falls more  *)
(* than reorder_window behind the producer": no delivered sequence is lost.*)
PendingIsTrueLoss ==
  \A p \in Known : producers[p].pendingLost \cap history[p].arrived = {}
=============================================================================
