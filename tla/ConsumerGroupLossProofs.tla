---------------------- MODULE ConsumerGroupLossProofs ----------------------
(***************************************************************************)
(* Proofs about ConsumerGroupLoss, for any number of members, losses and   *)
(* churns.  Inv is inductive: a reconciler that is about to add knows that *)
(* the attributed total it loaded is still covered by the counter, because *)
(* what ResetAfterWarmup takes from the counter is in wiped and the sum    *)
(* only grows; one that has added knows that the counter covers the loss   *)
(* it read, so its store keeps AttributedIsCounted, whatever the other one *)
(* did in between.                                                         *)
(***************************************************************************)
EXTENDS ConsumerGroupLoss, TLAPS

USE DEF Reconcilers, Phases, Members, trackerVars, countVars, metricVars, churnVars, localVars,
        raceVars

(* Init satisfies Inv: nothing is attributed and nobody reconciles.        *)
LEMMA InitInv == Init => Inv
<1> SUFFICES ASSUME Init PROVE Inv
  OBVIOUS
<1> USE DEF Init
<1>1. TypeOK
  <2>1. 0 \in Members
    BY NumConsumersAssumption
  <2>2. pc \in [Reconcilers -> {"idle", "totalLost", "loadPrev", "add", "store", "finish"}]
    OBVIOUS
  <2>3. consumerGen \in [Members -> Nat] /\ seenLost \in [Reconcilers -> Nat] /\ seenPrev \in [Reconcilers -> Nat]
    OBVIOUS
  <2>4. phase \in Phases /\ next \in Members /\ raced \in BOOLEAN /\ straddled \in BOOLEAN
    BY <2>1
  <2> QED
    BY <2>2, <2>3, <2>4 DEF TypeOK
<1>2. AttributedIsCounted /\ BoundedByConfirmed
  BY DEF AttributedIsCounted, BoundedByConfirmed, Counted
<1>3. ReconcilersOK
  BY DEF ReconcilersOK, Updating, Counted
<1>4. FinalReadOK /\ EngineOK
  BY DEF FinalReadOK, EngineOK, FinalLoadDone
<1>5. ExactUnlessRaced
  BY DEF ExactUnlessRaced, Updating, Counted
<1>6. MeasuredOK /\ GroupLossIsMeasured /\ DeltasOK
  BY DEF MeasuredOK, SinceReset, GroupLossIsMeasured, DeltasOK, Delta
<1> QED
  BY <1>1, <1>2, <1>3, <1>4, <1>5, <1>6 DEF Inv

(* ConfirmLoss raises the loss, and late with it after the final read.      *)
LEMMA ConfirmLossInv ==
  ASSUME Inv, ConfirmLoss
  PROVE  Inv'
<1> USE DEF Inv, ConfirmLoss
<1>1. TypeOK'
  BY NumConsumersAssumption DEF TypeOK
<1>2. AttributedIsCounted'
  BY DEF TypeOK, AttributedIsCounted, ReconcilersOK, Updating, Counted
<1>3. ReconcilersOK'
  BY DEF TypeOK, AttributedIsCounted, ReconcilersOK, BoundedByConfirmed, Updating, Counted
<1>4. BoundedByConfirmed'
  BY DEF TypeOK, ReconcilersOK, BoundedByConfirmed
<1>5. FinalReadOK'
  BY DEF TypeOK, EngineOK, FinalReadOK, FinalLoadDone
<1>6. EngineOK'
  BY DEF TypeOK, EngineOK, ReconcilersOK, Updating, Counted
<1>7. ExactUnlessRaced'
  BY DEF TypeOK, ReconcilersOK, ExactUnlessRaced, Updating, Counted
<1>8. MeasuredOK'
  BY DEF TypeOK, EngineOK, MeasuredOK, SinceReset
<1>9. GroupLossIsMeasured'
  BY DEF TypeOK, GroupLossIsMeasured
<1>10. DeltasOK'
  BY DEF TypeOK, DeltasOK, Delta
<1> QED
  BY <1>1, <1>2, <1>3, <1>4, <1>5, <1>6, <1>7, <1>8, <1>9, <1>10

(* RecoverLoss only lowers the loss.                                        *)
LEMMA RecoverLossInv ==
  ASSUME Inv, RecoverLoss
  PROVE  Inv'
<1> USE DEF Inv, RecoverLoss
<1>1. TypeOK'
  BY NumConsumersAssumption DEF TypeOK
<1>2. AttributedIsCounted'
  BY DEF TypeOK, AttributedIsCounted, ReconcilersOK, Updating, Counted
<1>3. ReconcilersOK'
  BY DEF TypeOK, AttributedIsCounted, ReconcilersOK, BoundedByConfirmed, Updating, Counted
<1>4. BoundedByConfirmed'
  BY DEF TypeOK, ReconcilersOK, BoundedByConfirmed
<1>5. FinalReadOK'
  BY DEF TypeOK, EngineOK, FinalReadOK, FinalLoadDone
<1>6. EngineOK'
  BY DEF TypeOK, EngineOK, ReconcilersOK, Updating, Counted
<1>7. ExactUnlessRaced'
  BY DEF TypeOK, ReconcilersOK, ExactUnlessRaced, Updating, Counted
<1>8. MeasuredOK'
  BY DEF TypeOK, EngineOK, MeasuredOK, SinceReset
<1>9. GroupLossIsMeasured'
  BY DEF TypeOK, GroupLossIsMeasured
<1>10. DeltasOK'
  BY DEF TypeOK, DeltasOK, Delta
<1> QED
  BY <1>1, <1>2, <1>3, <1>4, <1>5, <1>6, <1>7, <1>8, <1>9, <1>10

(* A tick of the churner changes nothing Inv relates but its place.         *)
LEMMA ChurnerTickInv ==
  ASSUME Inv, ChurnerTick
  PROVE  Inv'
<1> USE DEF Inv, ChurnerTick, DiscardGaps, Delta
<1>1. TypeOK'
  BY NumConsumersAssumption DEF TypeOK
<1>2. AttributedIsCounted'
  BY DEF TypeOK, AttributedIsCounted, ReconcilersOK, Updating, Counted
<1>3. ReconcilersOK'
  BY DEF TypeOK, AttributedIsCounted, ReconcilersOK, BoundedByConfirmed, Updating, Counted
<1>4. BoundedByConfirmed'
  BY DEF TypeOK, ReconcilersOK, BoundedByConfirmed
<1>5. FinalReadOK'
  BY DEF TypeOK, EngineOK, FinalReadOK, FinalLoadDone
<1>6. EngineOK'
  BY DEF TypeOK, EngineOK, ReconcilersOK, Updating, Counted
<1>7. ExactUnlessRaced'
  BY DEF TypeOK, ReconcilersOK, ExactUnlessRaced, Updating, Counted
<1>8. MeasuredOK'
  BY DEF TypeOK, EngineOK, MeasuredOK, SinceReset
<1>9. GroupLossIsMeasured'
  BY DEF TypeOK, GroupLossIsMeasured
<1>10. DeltasOK'
  BY DEF TypeOK, DeltasOK, Delta
<1> QED
  BY <1>1, <1>2, <1>3, <1>4, <1>5, <1>6, <1>7, <1>8, <1>9, <1>10

(* Nor does the DetectGaps call of StopProducers.                           *)
LEMMA StopProducersInv ==
  ASSUME Inv, StopProducers
  PROVE  Inv'
<1> USE DEF Inv, StopProducers, DiscardGaps, Delta
<1>1. TypeOK'
  BY NumConsumersAssumption DEF TypeOK
<1>2. AttributedIsCounted'
  BY DEF TypeOK, AttributedIsCounted, ReconcilersOK, Updating, Counted
<1>3. ReconcilersOK'
  BY DEF TypeOK, AttributedIsCounted, ReconcilersOK, BoundedByConfirmed, Updating, Counted
<1>4. BoundedByConfirmed'
  BY DEF TypeOK, ReconcilersOK, BoundedByConfirmed
<1>5. FinalReadOK'
  BY DEF TypeOK, EngineOK, FinalReadOK, FinalLoadDone
<1>6. EngineOK'
  BY DEF TypeOK, EngineOK, ReconcilersOK, Updating, Counted
<1>7. ExactUnlessRaced'
  BY DEF TypeOK, ReconcilersOK, ExactUnlessRaced, Updating, Counted
<1>8. MeasuredOK'
  BY DEF TypeOK, EngineOK, MeasuredOK, SinceReset
<1>9. GroupLossIsMeasured'
  BY DEF TypeOK, GroupLossIsMeasured
<1>10. DeltasOK'
  BY DEF TypeOK, DeltasOK, Delta
<1> QED
  BY <1>1, <1>2, <1>3, <1>4, <1>5, <1>6, <1>7, <1>8, <1>9, <1>10

(* ReadTotalLost: the loss read is at most the loss confirmed; the engine's *)
(* read in the measurement is the one FinalReadOK is about.                 *)
LEMMA ReadTotalLostInv ==
  ASSUME Inv, NEW c \in Reconcilers, ReadTotalLost(c)
  PROVE  Inv'
<1> USE DEF Inv, ReadTotalLost
<1>1. TypeOK'
  BY NumConsumersAssumption DEF TypeOK
<1>2. AttributedIsCounted'
  BY DEF TypeOK, AttributedIsCounted, ReconcilersOK, Updating, Counted
<1>3. ReconcilersOK'
  BY DEF TypeOK, AttributedIsCounted, ReconcilersOK, BoundedByConfirmed, Updating, Counted
<1>4. BoundedByConfirmed'
  BY DEF TypeOK, ReconcilersOK, BoundedByConfirmed
<1>5. FinalReadOK'
  BY DEF TypeOK, EngineOK, FinalReadOK, FinalLoadDone
<1>6. EngineOK'
  BY DEF TypeOK, EngineOK, ReconcilersOK, Updating, Counted
<1>7. ExactUnlessRaced'
  BY DEF TypeOK, ReconcilersOK, ExactUnlessRaced, Updating, Counted
<1>8. MeasuredOK'
  BY DEF TypeOK, EngineOK, MeasuredOK, SinceReset
<1>9. GroupLossIsMeasured'
  BY DEF TypeOK, GroupLossIsMeasured
<1>10. DeltasOK'
  BY DEF TypeOK, DeltasOK, Delta
<1> QED
  BY <1>1, <1>2, <1>3, <1>4, <1>5, <1>6, <1>7, <1>8, <1>9, <1>10

(* LoadAttributed: a reconciler that will add has loaded a covered total.   *)
LEMMA LoadAttributedInv ==
  ASSUME Inv, NEW c \in Reconcilers, LoadAttributed(c)
  PROVE  Inv'
<1> USE DEF Inv, LoadAttributed
<1>1. TypeOK'
  BY NumConsumersAssumption DEF TypeOK
<1>2. AttributedIsCounted'
  BY DEF TypeOK, AttributedIsCounted, ReconcilersOK, Updating, Counted
<1>3. ReconcilersOK'
  BY DEF TypeOK, AttributedIsCounted, ReconcilersOK, BoundedByConfirmed, Updating, Counted
<1>4. BoundedByConfirmed'
  BY DEF TypeOK, ReconcilersOK, BoundedByConfirmed
<1>5. FinalReadOK'
  BY DEF TypeOK, EngineOK, FinalReadOK, FinalLoadDone
<1>6. EngineOK'
  BY DEF TypeOK, EngineOK, ReconcilersOK, Updating, Counted
<1>7. ExactUnlessRaced'
  <2> SUFFICES ASSUME ~ raced' PROVE ExactUnlessRaced'
    BY DEF ExactUnlessRaced
  <2>1. /\ ~ raced /\ attributed' = attributed /\ Counted' = Counted /\ seenLost' = seenLost
        /\ pc[c] = "loadPrev" /\ \A d \in Reconcilers \ {c} : pc'[d] = pc[d]
        /\ seenPrev'[c] = attributed /\ \A d \in Reconcilers \ {c} : seenPrev'[d] = seenPrev[d]
        /\ peak' = IF seenLost[c] > peak THEN seenLost[c] ELSE peak
        /\ \A d \in Reconcilers : seenLost[d] \in Nat
        /\ attributed \in Nat /\ peak \in Nat
    BY DEF TypeOK, Counted
  <2>2. \A d \in Reconcilers : Updating(d) => seenLost[d] = peak /\ seenPrev[d] = attributed
    BY <2>1 DEF ExactUnlessRaced
  <2>3. CASE seenLost[c] > attributed
    <3>1. pc'[c] = "add" /\ \A d \in Reconcilers : ~ Updating(d)
      BY <2>3, <2>1 DEF TypeOK, Updating
    <3>2. attributed = peak /\ Counted = attributed
      BY <2>1, <3>1 DEF ExactUnlessRaced, Updating
    <3>3. peak' = seenLost[c] /\ \A d \in Reconcilers : Updating(d)' => d = c
      BY <2>1, <2>3, <3>1, <3>2 DEF Updating
    <3>4. \A d \in Reconcilers : pc'[d] # "store"
      BY <2>1, <3>1 DEF Updating
    <3> QED
      BY <2>1, <3>1, <3>2, <3>3, <3>4 DEF ExactUnlessRaced, Updating
  <2>4. CASE ~ (seenLost[c] > attributed)
    <3>1. /\ pc'[c] = "finish"
          /\ \A d \in Reconcilers : Updating(d)' <=> Updating(d)
      BY <2>4, <2>1 DEF TypeOK, Updating
    <3>2. seenLost[c] <= peak
      <4>1. CASE \E d \in Reconcilers : Updating(d)
        <5>1. PICK d \in Reconcilers : Updating(d)
          BY <4>1
        <5>2. seenLost[d] > seenPrev[d]
          BY <5>1 DEF ReconcilersOK
        <5> QED
          BY <2>1, <2>2, <2>4, <5>1, <5>2 DEF TypeOK
      <4>2. CASE \A d \in Reconcilers : ~ Updating(d)
        BY <2>1, <2>4, <4>2 DEF ExactUnlessRaced
      <4> QED
        BY <4>1, <4>2
    <3>3. peak' = peak
      BY <2>1, <3>2
    <3>4. \A d \in Reconcilers : Updating(d) => d # c
      BY <2>1 DEF Updating
    <3>5. \A d \in Reconcilers : pc'[d] = "store" <=> pc[d] = "store"
      BY <2>1, <3>1
    <3> QED
      BY <2>1, <2>2, <3>1, <3>3, <3>4, <3>5 DEF ExactUnlessRaced
  <2> QED
    BY <2>3, <2>4
<1>8. MeasuredOK'
  BY DEF TypeOK, EngineOK, MeasuredOK, SinceReset
<1>9. GroupLossIsMeasured'
  BY DEF TypeOK, GroupLossIsMeasured
<1>10. DeltasOK'
  BY DEF TypeOK, DeltasOK, Delta
<1> QED
  BY <1>1, <1>2, <1>3, <1>4, <1>5, <1>6, <1>7, <1>8, <1>9, <1>10

(* AddGroupLoss: the counter covers the loss that was read.                 *)
LEMMA AddGroupLossInv ==
  ASSUME Inv, NEW c \in Reconcilers, AddGroupLoss(c)
  PROVE  Inv'
<1> USE DEF Inv, AddGroupLoss
<1>1. TypeOK'
  BY DEF TypeOK, ReconcilersOK, Updating
<1>2. AttributedIsCounted'
  BY DEF TypeOK, AttributedIsCounted, ReconcilersOK, Updating, Counted
<1>3. ReconcilersOK'
  <2>1. /\ seenLost' = seenLost /\ seenPrev' = seenPrev /\ confirmed' = confirmed
        /\ pc'[c] = "store" /\ \A d \in Reconcilers \ {c} : pc'[d] = pc[d]
    BY DEF TypeOK
  <2>2. seenLost[c] > seenPrev[c] /\ seenPrev[c] =< Counted
    BY DEF ReconcilersOK, Updating
  <2>3. /\ Counted \in Int /\ Counted' \in Int
        /\ Counted' = Counted + (seenLost[c] - seenPrev[c])
        /\ \A d \in Reconcilers : seenLost[d] \in Int /\ seenPrev[d] \in Int
    BY DEF TypeOK, Counted
  <2>4. seenLost[c] =< Counted' /\ Counted =< Counted'
    BY <2>2, <2>3
  <2>5. \A d \in Reconcilers : Updating(d)' => Updating(d)
    BY <2>1 DEF Updating
  <2> SUFFICES ASSUME NEW d \in Reconcilers
               PROVE  /\ Updating(d)' => seenLost[d] > seenPrev[d]
                      /\ pc'[d] = "add" => seenPrev[d] =< Counted'
                      /\ pc'[d] \in {"store", "finish"} => seenLost[d] =< Counted'
                      /\ seenLost[d] =< confirmed
    BY <2>1 DEF ReconcilersOK
  <2>6. CASE d = c
    BY <2>1, <2>2, <2>4, <2>6 DEF ReconcilersOK
  <2>7. CASE d # c
    <3>1. pc'[d] = pc[d]
      BY <2>1, <2>7
    <3>2. /\ Updating(d) => seenLost[d] > seenPrev[d]
          /\ pc[d] = "add" => seenPrev[d] =< Counted
          /\ pc[d] \in {"store", "finish"} => seenLost[d] =< Counted
          /\ seenLost[d] =< confirmed
      BY DEF ReconcilersOK
    <3> QED
      BY <2>3, <2>4, <2>5, <3>1, <3>2
  <2> QED
    BY <2>6, <2>7
<1>4. BoundedByConfirmed'
  BY DEF TypeOK, ReconcilersOK, BoundedByConfirmed
<1>5. FinalReadOK'
  BY DEF TypeOK, EngineOK, FinalReadOK, FinalLoadDone
<1>6. EngineOK'
  BY DEF TypeOK, EngineOK, ReconcilersOK, Updating, Counted
<1>7. ExactUnlessRaced'
  <2> SUFFICES ASSUME ~ raced PROVE ExactUnlessRaced'
    BY DEF ExactUnlessRaced
  <2>1. \A d \in Reconcilers : pc[d] = "store" => FALSE
    BY DEF TypeOK, ExactUnlessRaced, Updating
  <2>2. Counted = attributed /\ seenPrev[c] = attributed
    BY <2>1 DEF TypeOK, ExactUnlessRaced, Updating
  <2>3. Counted' = seenLost[c] /\ seenLost' = seenLost /\ seenPrev' = seenPrev
    BY <2>2 DEF TypeOK, Counted
  <2>4. pc'[c] = "store" /\ \A d \in Reconcilers \ {c} : pc'[d] = pc[d]
    BY DEF TypeOK
  <2>5. \A d \in Reconcilers : pc'[d] = "store" => d = c
    BY <2>1, <2>4
  <2>6. \A d \in Reconcilers : Updating(d)' => Updating(d)
    BY <2>4 DEF Updating
  <2>7. Updating(c) /\ Updating(c)'
    BY <2>4 DEF Updating
  <2>8. /\ \A d \in Reconcilers : Updating(d) => seenPrev[d] = attributed /\ seenLost[d] = peak
        /\ \A d, f \in Reconcilers : Updating(d) /\ Updating(f) => d = f
    BY DEF ExactUnlessRaced
  <2>9. UNCHANGED <<raced, peak, attributed>>
    OBVIOUS
  <2> QED
    BY <2>3, <2>4, <2>5, <2>6, <2>7, <2>8, <2>9 DEF ExactUnlessRaced
<1>8. MeasuredOK'
  BY DEF TypeOK, EngineOK, MeasuredOK, SinceReset
<1>9. GroupLossIsMeasured'
  <2> SUFFICES ASSUME phase \in {"measure", "drain", "snapshot", "done"}, ~ raced, ~ straddled
               PROVE  groupLoss' <= measured
    BY DEF GroupLossIsMeasured
  <2>1. seenLost[c] <= measured
    BY DEF MeasuredOK, SinceReset
  <2>2. Updating(c) /\ \A d \in Reconcilers : pc[d] # "store"
    BY DEF ExactUnlessRaced, Updating
  <2>3. seenPrev[c] = attributed /\ Counted = attributed
    BY <2>2 DEF ExactUnlessRaced
  <2>4. groupLoss' + wiped = seenLost[c]
    BY <2>3 DEF TypeOK, Counted
  <2> QED
    BY <1>1, <2>1, <2>4 DEF TypeOK
<1>10. DeltasOK'
  BY DEF TypeOK, DeltasOK, Delta
<1> QED
  BY <1>1, <1>2, <1>3, <1>4, <1>5, <1>6, <1>7, <1>8, <1>9, <1>10

(* StoreAttributed: the stored total is covered.                            *)
LEMMA StoreAttributedInv ==
  ASSUME Inv, NEW c \in Reconcilers, StoreAttributed(c)
  PROVE  Inv'
<1> USE DEF Inv, StoreAttributed
<1>1. TypeOK'
  BY NumConsumersAssumption DEF TypeOK
<1>2. AttributedIsCounted'
  BY DEF TypeOK, AttributedIsCounted, ReconcilersOK, Updating, Counted
<1>3. ReconcilersOK'
  BY DEF TypeOK, AttributedIsCounted, ReconcilersOK, BoundedByConfirmed, Updating, Counted
<1>4. BoundedByConfirmed'
  BY DEF TypeOK, ReconcilersOK, BoundedByConfirmed
<1>5. FinalReadOK'
  BY DEF TypeOK, EngineOK, FinalReadOK, FinalLoadDone
<1>6. EngineOK'
  BY DEF TypeOK, EngineOK, ReconcilersOK, Updating, Counted
<1>7. ExactUnlessRaced'
  BY DEF TypeOK, ReconcilersOK, ExactUnlessRaced, Updating, Counted
<1>8. MeasuredOK'
  BY DEF TypeOK, EngineOK, MeasuredOK, SinceReset
<1>9. GroupLossIsMeasured'
  BY DEF TypeOK, GroupLossIsMeasured
<1>10. DeltasOK'
  BY DEF TypeOK, DeltasOK, Delta
<1> QED
  BY <1>1, <1>2, <1>3, <1>4, <1>5, <1>6, <1>7, <1>8, <1>9, <1>10

(* ChurnMember: the next member is again a member.                          *)
LEMMA ChurnMemberInv ==
  ASSUME Inv, ChurnMember
  PROVE  Inv'
<1> USE DEF Inv, ChurnMember
<1>1. TypeOK'
  BY NumConsumersAssumption DEF TypeOK
<1>2. AttributedIsCounted'
  BY DEF TypeOK, AttributedIsCounted, ReconcilersOK, Updating, Counted
<1>3. ReconcilersOK'
  BY DEF TypeOK, AttributedIsCounted, ReconcilersOK, BoundedByConfirmed, Updating, Counted
<1>4. BoundedByConfirmed'
  BY DEF TypeOK, ReconcilersOK, BoundedByConfirmed
<1>5. FinalReadOK'
  BY DEF TypeOK, EngineOK, FinalReadOK, FinalLoadDone
<1>6. EngineOK'
  BY DEF TypeOK, EngineOK, ReconcilersOK, Updating, Counted
<1>7. ExactUnlessRaced'
  BY DEF TypeOK, ReconcilersOK, ExactUnlessRaced, Updating, Counted
<1>8. MeasuredOK'
  BY DEF TypeOK, EngineOK, MeasuredOK, SinceReset
<1>9. GroupLossIsMeasured'
  BY DEF TypeOK, GroupLossIsMeasured
<1>10. DeltasOK'
  BY DEF TypeOK, DeltasOK, Delta
<1> QED
  BY <1>1, <1>2, <1>3, <1>4, <1>5, <1>6, <1>7, <1>8, <1>9, <1>10

(* ProducersStopped: the final reconciliation is over.                      *)
LEMMA ProducersStoppedInv ==
  ASSUME Inv, ProducersStopped
  PROVE  Inv'
<1> USE DEF Inv, ProducersStopped
<1>1. TypeOK'
  BY NumConsumersAssumption DEF TypeOK
<1>2. AttributedIsCounted'
  BY DEF TypeOK, AttributedIsCounted, ReconcilersOK, Updating, Counted
<1>3. ReconcilersOK'
  BY DEF TypeOK, AttributedIsCounted, ReconcilersOK, BoundedByConfirmed, Updating, Counted
<1>4. BoundedByConfirmed'
  BY DEF TypeOK, ReconcilersOK, BoundedByConfirmed
<1>5. FinalReadOK'
  BY DEF TypeOK, EngineOK, FinalReadOK, FinalLoadDone
<1>6. EngineOK'
  BY DEF TypeOK, EngineOK, ReconcilersOK, Updating, Counted
<1>7. ExactUnlessRaced'
  BY DEF TypeOK, ReconcilersOK, ExactUnlessRaced, Updating, Counted
<1>8. MeasuredOK'
  BY DEF TypeOK, EngineOK, MeasuredOK, SinceReset
<1>9. GroupLossIsMeasured'
  BY DEF TypeOK, EngineOK, GroupLossIsMeasured
<1>10. DeltasOK'
  BY DEF TypeOK, DeltasOK, Delta
<1> QED
  BY <1>1, <1>2, <1>3, <1>4, <1>5, <1>6, <1>7, <1>8, <1>9, <1>10

(* ResetTracker only lowers the loss.                                       *)
LEMMA ResetTrackerInv ==
  ASSUME Inv, ResetTracker
  PROVE  Inv'
<1> USE DEF Inv, ResetTracker
<1>1. TypeOK'
  BY NumConsumersAssumption DEF TypeOK
<1>2. AttributedIsCounted'
  BY DEF TypeOK, AttributedIsCounted, ReconcilersOK, Updating, Counted
<1>3. ReconcilersOK'
  BY DEF TypeOK, AttributedIsCounted, ReconcilersOK, BoundedByConfirmed, Updating, Counted
<1>4. BoundedByConfirmed'
  BY DEF TypeOK, ReconcilersOK, BoundedByConfirmed
<1>5. FinalReadOK'
  BY DEF TypeOK, EngineOK, FinalReadOK, FinalLoadDone
<1>6. EngineOK'
  BY DEF TypeOK, EngineOK, ReconcilersOK, Updating, Counted
<1>7. ExactUnlessRaced'
  BY DEF TypeOK, ReconcilersOK, ExactUnlessRaced, Updating, Counted
<1>8. MeasuredOK'
  <2>1. pc["engine"] = "idle" /\ lost' = 0 /\ measured' \in Nat /\ pc' = pc
    BY <1>1 DEF EngineOK, TypeOK
  <2>2. ~ straddled' => pc["churner"] \notin {"loadPrev", "add"}
    OBVIOUS
  <2> QED
    BY <2>1, <2>2 DEF MeasuredOK
<1>9. GroupLossIsMeasured'
  BY DEF TypeOK, GroupLossIsMeasured
<1>10. DeltasOK'
  BY DEF TypeOK, DeltasOK, Delta
<1> QED
  BY <1>1, <1>2, <1>3, <1>4, <1>5, <1>6, <1>7, <1>8, <1>9, <1>10

(* ResetCounter moves the counter into wiped.                               *)
LEMMA ResetCounterInv ==
  ASSUME Inv, ResetCounter
  PROVE  Inv'
<1> USE DEF Inv, ResetCounter
<1>1. TypeOK'
  BY NumConsumersAssumption DEF TypeOK
<1>2. AttributedIsCounted'
  BY DEF TypeOK, AttributedIsCounted, ReconcilersOK, Updating, Counted
<1>3. ReconcilersOK'
  BY DEF TypeOK, AttributedIsCounted, ReconcilersOK, BoundedByConfirmed, Updating, Counted
<1>4. BoundedByConfirmed'
  BY DEF TypeOK, ReconcilersOK, BoundedByConfirmed
<1>5. FinalReadOK'
  BY DEF TypeOK, EngineOK, FinalReadOK, FinalLoadDone
<1>6. EngineOK'
  BY DEF TypeOK, EngineOK, ReconcilersOK, Updating, Counted
<1>7. ExactUnlessRaced'
  BY DEF TypeOK, ReconcilersOK, ExactUnlessRaced, Updating, Counted
<1>8. MeasuredOK'
  BY DEF TypeOK, EngineOK, MeasuredOK, SinceReset
<1>9. GroupLossIsMeasured'
  BY DEF TypeOK, GroupLossIsMeasured
<1>10. DeltasOK'
  BY DEF TypeOK, DeltasOK, Delta
<1> QED
  BY <1>1, <1>2, <1>3, <1>4, <1>5, <1>6, <1>7, <1>8, <1>9, <1>10

(* The engine's DetectGaps calls touch the metric only.                     *)
LEMMA EngineDetectGapsInv ==
  ASSUME Inv, EngineDetectGaps
  PROVE  Inv'
<1> USE DEF Inv, EngineDetectGaps, ReportGaps, Delta
<1>1. TypeOK'
  BY NumConsumersAssumption DEF TypeOK
<1>2. AttributedIsCounted'
  BY DEF TypeOK, AttributedIsCounted, ReconcilersOK, Updating, Counted
<1>3. ReconcilersOK'
  BY DEF TypeOK, AttributedIsCounted, ReconcilersOK, BoundedByConfirmed, Updating, Counted
<1>4. BoundedByConfirmed'
  BY DEF TypeOK, ReconcilersOK, BoundedByConfirmed
<1>5. FinalReadOK'
  BY DEF TypeOK, EngineOK, FinalReadOK, FinalLoadDone
<1>6. EngineOK'
  BY DEF TypeOK, EngineOK, ReconcilersOK, Updating, Counted
<1>7. ExactUnlessRaced'
  BY DEF TypeOK, ReconcilersOK, ExactUnlessRaced, Updating, Counted
<1>8. MeasuredOK'
  BY DEF TypeOK, EngineOK, MeasuredOK, SinceReset
<1>9. GroupLossIsMeasured'
  BY DEF TypeOK, GroupLossIsMeasured
<1>10. DeltasOK'
  BY DEF TypeOK, DeltasOK, Delta
<1> QED
  BY <1>1, <1>2, <1>3, <1>4, <1>5, <1>6, <1>7, <1>8, <1>9, <1>10

(* So does the final one.                                                   *)
LEMMA FinalDetectGapsInv ==
  ASSUME Inv, FinalDetectGaps
  PROVE  Inv'
<1> USE DEF Inv, FinalDetectGaps, ReportGaps, Delta
<1>1. TypeOK'
  BY NumConsumersAssumption DEF TypeOK
<1>2. AttributedIsCounted'
  BY DEF TypeOK, AttributedIsCounted, ReconcilersOK, Updating, Counted
<1>3. ReconcilersOK'
  BY DEF TypeOK, AttributedIsCounted, ReconcilersOK, BoundedByConfirmed, Updating, Counted
<1>4. BoundedByConfirmed'
  BY DEF TypeOK, ReconcilersOK, BoundedByConfirmed
<1>5. FinalReadOK'
  BY DEF TypeOK, EngineOK, FinalReadOK, FinalLoadDone
<1>6. EngineOK'
  BY DEF TypeOK, EngineOK, ReconcilersOK, Updating, Counted
<1>7. ExactUnlessRaced'
  BY DEF TypeOK, ReconcilersOK, ExactUnlessRaced, Updating, Counted
<1>8. MeasuredOK'
  BY DEF TypeOK, EngineOK, MeasuredOK, SinceReset
<1>9. GroupLossIsMeasured'
  BY DEF TypeOK, GroupLossIsMeasured
<1>10. DeltasOK'
  BY DEF TypeOK, DeltasOK, Delta
<1> QED
  BY <1>1, <1>2, <1>3, <1>4, <1>5, <1>6, <1>7, <1>8, <1>9, <1>10

(* Snapshot reads.                                                          *)
LEMMA SnapshotInv ==
  ASSUME Inv, Snapshot
  PROVE  Inv'
<1> USE DEF Inv, Snapshot
<1>1. TypeOK'
  BY NumConsumersAssumption DEF TypeOK
<1>2. AttributedIsCounted'
  BY DEF TypeOK, AttributedIsCounted, ReconcilersOK, Updating, Counted
<1>3. ReconcilersOK'
  BY DEF TypeOK, AttributedIsCounted, ReconcilersOK, BoundedByConfirmed, Updating, Counted
<1>4. BoundedByConfirmed'
  BY DEF TypeOK, ReconcilersOK, BoundedByConfirmed
<1>5. FinalReadOK'
  BY DEF TypeOK, EngineOK, FinalReadOK, FinalLoadDone
<1>6. EngineOK'
  BY DEF TypeOK, EngineOK, ReconcilersOK, Updating, Counted
<1>7. ExactUnlessRaced'
  BY DEF TypeOK, ReconcilersOK, ExactUnlessRaced, Updating, Counted
<1>8. MeasuredOK'
  BY DEF TypeOK, EngineOK, MeasuredOK, SinceReset
<1>9. GroupLossIsMeasured'
  BY DEF TypeOK, GroupLossIsMeasured
<1>10. DeltasOK'
  BY DEF TypeOK, DeltasOK, Delta
<1> QED
  BY <1>1, <1>2, <1>3, <1>4, <1>5, <1>6, <1>7, <1>8, <1>9, <1>10

(* Every step of Next, and every stuttering step, keeps Inv.               *)
LEMMA NextInv == Inv /\ [Next]_vars => Inv'
<1> SUFFICES ASSUME Inv, [Next]_vars PROVE Inv'
  OBVIOUS
<1>1. CASE ConfirmLoss
  BY <1>1, ConfirmLossInv
<1>2. CASE RecoverLoss
  BY <1>2, RecoverLossInv
<1>3. CASE ChurnerTick
  BY <1>3, ChurnerTickInv
<1>4. CASE StopProducers
  BY <1>4, StopProducersInv
<1>5. CASE ChurnMember
  BY <1>5, ChurnMemberInv
<1>6. CASE ProducersStopped
  BY <1>6, ProducersStoppedInv
<1>7. CASE ResetTracker
  BY <1>7, ResetTrackerInv
<1>8. CASE ResetCounter
  BY <1>8, ResetCounterInv
<1>9. CASE EngineDetectGaps
  BY <1>9, EngineDetectGapsInv
<1>10. CASE FinalDetectGaps
  BY <1>10, FinalDetectGapsInv
<1>11. CASE Snapshot
  BY <1>11, SnapshotInv
<1>12. ASSUME NEW c \in Reconcilers, Reconcile(c) PROVE Inv'
  BY <1>12, ReadTotalLostInv, LoadAttributedInv, AddGroupLossInv, StoreAttributedInv DEF Reconcile
<1>13. CASE UNCHANGED vars
  BY <1>13 DEF vars, Inv, TypeOK, AttributedIsCounted, ReconcilersOK, BoundedByConfirmed, FinalReadOK,
              EngineOK, ExactUnlessRaced, MeasuredOK, GroupLossIsMeasured, DeltasOK, SinceReset, Delta,
              FinalLoadDone, Updating, Counted
<1> QED
  BY <1>1, <1>2, <1>3, <1>4, <1>5, <1>6, <1>7, <1>8, <1>9, <1>10, <1>11, <1>12, <1>13 DEF Next, Finished

(* The attribution stays consistent in every execution of the two          *)
(* reconcilers, the consumers and the engine.                              *)
THEOREM GroupLossInvariant == Spec => []Inv
<1> QED
  BY InitInv, NextInv, PTL DEF Spec

(* In every execution, what reconcileGroupLoss stored as attributed has    *)
(* been added to the counter.                                              *)
THEOREM GroupLossAttributed == Spec => []AttributedIsCounted
<1>1. Inv => AttributedIsCounted
  BY DEF Inv
<1> QED
  BY <1>1, GroupLossInvariant, PTL

(* In every execution, after StopProducers' final reconciliation no loss   *)
(* is missing but the wiped and the late ones.                             *)
THEOREM GroupLossNotSilent == Spec => []NoSilentLoss
<1>1. Inv => NoSilentLoss
  BY DEF Inv, TypeOK, NoSilentLoss, FinalReadOK, EngineOK, FinalLoadDone, Counted
<1> QED
  BY <1>1, GroupLossInvariant, PTL

(* In every execution without overlapping reconciliations the counter is   *)
(* the highest loss total a reconciliation acted on.                       *)
THEOREM GroupLossCountsThePeak == Spec => []CountsThePeak
<1>1. Inv => CountsThePeak
  BY DEF Inv, CountsThePeak, ExactUnlessRaced, Updating
<1> QED
  BY <1>1, GroupLossInvariant, PTL

(* In every execution the group loss the gate reads was confirmed in the   *)
(* measurement, but for overlapping reconciliations and the one that       *)
(* straddles the reset.                                                    *)
THEOREM GroupLossOfMeasurement == Spec => []GroupLossIsMeasured
<1>1. Inv => GroupLossIsMeasured
  BY DEF Inv
<1> QED
  BY <1>1, GroupLossInvariant, PTL

(* In every execution the deltas DetectGaps hands out to its three callers *)
(* never add up to more than the confirmed losses.                         *)
THEOREM GroupLossMetric == Spec => []MetricNeverOvercounts
<1>1. Inv => MetricNeverOvercounts
  BY DEF Inv, TypeOK, DeltasOK, Delta, MetricNeverOvercounts
<1> QED
  BY <1>1, GroupLossInvariant, PTL
=============================================================================
