------------------------ MODULE SequenceTrackerProofs ------------------------
(***************************************************************************)
(* Proofs that the sequence tracker keeps its promises for every reorder   *)
(* window, every set of producers and every bound.                         *)
(***************************************************************************)
EXTENDS SequenceTracker, FiniteSetTheorems, WellFoundedInduction, TLAPS

(* The least-number principle, from the well-foundedness of < on Nat.      *)
LEMMA LeastNatural ==
  ASSUME NEW T \in SUBSET Nat, T # {}
  PROVE  \E x \in T : \A y \in T : ~ (y < x)
<1> DEFINE R == OpToRel(<, Nat)
<1>1. IsWellFoundedOn(R, Nat)
  BY NatLessThanWellFounded
<1>2. ASSUME NEW a \in Nat, NEW b \in Nat, a < b
      PROVE  <<a, b>> \in R
  BY <1>2 DEF OpToRel
<1> HIDE DEF R
<1>3. PICK x \in T : \A y \in T : ~ (<<y, x>> \in R)
  BY <1>1, WFMin, Zenon
<1>4. \A y \in T : ~ (y < x)
  BY <1>3, <1>2
<1> QED
  BY <1>4

(* The loop of advanceContiguous stops: the run of set bits is well        *)
(* defined, because position ReorderWindow is never set.                   *)
LEMMA ContiguousRunFacts ==
  ASSUME NEW w \in SUBSET Positions
  PROVE  LET n == ContiguousRun(w)
         IN  /\ n \in 0 .. ReorderWindow
             /\ n \notin w
             /\ \A i \in 0 .. n - 1 : i \in w
<1> USE ReorderWindowAssumption
<1> DEFINE Clear == { n \in 0 .. ReorderWindow : n \notin w }
           Stops(n) == /\ n \notin w
                       /\ \A i \in 0 .. n - 1 : i \in w
<1>1. ReorderWindow \in Clear
  BY DEF Positions
<1>2. PICK n \in Clear : \A m \in Clear : ~ (m < n)
  <2>1. Clear \in SUBSET Nat /\ Clear # {}
    BY <1>1
  <2> HIDE DEF Clear
  <2> QED
    BY <2>1, LeastNatural
<1>3. \A i \in 0 .. n - 1 : i \in w
  BY <1>2
<1>4. \E m \in 0 .. ReorderWindow : Stops(m)
  BY <1>2, <1>3
<1> QED
  BY <1>4 DEF ContiguousRun

(* What advanceContiguous does, in terms of sequences: the watermark only  *)
(* passes marked sequences, and the marks above it stay.                   *)
LEMMA AdvanceFacts ==
  ASSUME NEW ps \in ProducerState
  PROVE  LET a == advanceContiguous(ps)
             n == a.highContiguous - ps.highContiguous
         IN  /\ a \in ProducerState
             /\ n \in Nat
             /\ n \notin ps.window
             /\ \A i \in 0 .. n - 1 : i \in ps.window
             /\ a.window = { i \in Positions : i + n \in ps.window }
             /\ a.received = ps.received
             /\ a.duplicates = ps.duplicates
             /\ a.outOfOrder = ps.outOfOrder
             /\ a.confirmedLost = ps.confirmedLost
             /\ a.pendingLost = ps.pendingLost
             /\ a.lastReportedLost = ps.lastReportedLost
             /\ a.lastSeen = ps.lastSeen
<1> USE ReorderWindowAssumption
<1> DEFINE k == ContiguousRun(ps.window)
           a == advanceContiguous(ps)
<1>1. /\ k \in Nat
      /\ k \notin ps.window
      /\ \A i \in 0 .. k - 1 : i \in ps.window
  BY ContiguousRunFacts DEF ProducerState
<1>2. a = [ps EXCEPT !.highContiguous = ps.highContiguous + k,
                     !.window = shiftLeft(ps.window, k)]
  BY DEF advanceContiguous
<1>3. a \in ProducerState /\ a.highContiguous = ps.highContiguous + k
  <2>1. a = [ highContiguous   |-> ps.highContiguous + k,
              window           |-> shiftLeft(ps.window, k),
              received         |-> ps.received,
              duplicates       |-> ps.duplicates,
              outOfOrder       |-> ps.outOfOrder,
              confirmedLost    |-> ps.confirmedLost,
              pendingLost      |-> ps.pendingLost,
              lastReportedLost |-> ps.lastReportedLost,
              lastSeen         |-> ps.lastSeen ]
    BY <1>2 DEF ProducerState
  <2>2. shiftLeft(ps.window, k) \in SUBSET Positions
    BY DEF shiftLeft
  <2> HIDE DEF a, k
  <2> QED
    BY <1>1, <2>1, <2>2 DEF ProducerState
<1>4. a.highContiguous - ps.highContiguous = k
  BY <1>1, <1>3 DEF ProducerState
<1>5. a.window = { i \in Positions : i + k \in ps.window }
  BY <1>2 DEF ProducerState, shiftLeft
<1>6. /\ a.received = ps.received
      /\ a.duplicates = ps.duplicates
      /\ a.outOfOrder = ps.outOfOrder
      /\ a.confirmedLost = ps.confirmedLost
      /\ a.pendingLost = ps.pendingLost
      /\ a.lastReportedLost = ps.lastReportedLost
      /\ a.lastSeen = ps.lastSeen
  BY <1>2 DEF ProducerState
<1> HIDE DEF k, a
<1> QED
  BY <1>1, <1>3, <1>4, <1>5, <1>6 DEF a

-----------------------------------------------------------------------------
(* The first record of a producer leaves a consistent state.               *)
LEMMA NewProducerStateConsistent ==
  ASSUME NEW seq \in Nat \ {0}
  PROVE  /\ NewProducerState(seq) \in ProducerState
         /\ FirstHistory(seq) \in History
         /\ NewProducerState(seq).lastReportedLost = 0
         /\ Consistent(NewProducerState(seq), FirstHistory(seq))
<1> USE ReorderWindowAssumption
<1> DEFINE ps == [ highContiguous |-> seq - 1, window |-> {0}, received |-> 1,
                   duplicates |-> 0, outOfOrder |-> 0, confirmedLost |-> 0,
                   pendingLost |-> {}, lastReportedLost |-> 0, lastSeen |-> seq ]
           a == advanceContiguous(ps)
           n == a.highContiguous - ps.highContiguous
           h == FirstHistory(seq)
<1>1. ps \in ProducerState
  BY DEF ProducerState, Positions
<1>2. /\ a \in ProducerState
      /\ n \in Nat
      /\ n \notin ps.window
      /\ \A i \in 0 .. n - 1 : i \in ps.window
      /\ a.window = { i \in Positions : i + n \in ps.window }
      /\ a.received = 1
      /\ a.duplicates = 0
      /\ a.confirmedLost = 0
      /\ a.pendingLost = {}
      /\ a.lastReportedLost = 0
  BY <1>1, AdvanceFacts
<1>3. NewProducerState(seq) = a
  BY DEF NewProducerState
<1>4. h \in History /\ h.first = seq /\ h.arrived = {seq} /\ h.overran = {} /\ h.skipped = {}
  BY DEF FirstHistory, History
<1>5. a.highContiguous = seq - 1 + n /\ n >= 1
  BY <1>1, <1>2 DEF ProducerState
<1> HIDE DEF a, h, n
<1>6. n = 1 /\ a.window = {} /\ a.highContiguous = seq
  BY <1>2, <1>5 DEF Positions
<1>7. Cardinality({}) = 0 /\ IsFiniteSet({}) /\ IsFiniteSet({seq}) /\ Cardinality({seq}) = 1
  BY FS_EmptySet, FS_Singleton
<1>8. Consistent(a, h)
  BY <1>2, <1>4, <1>6, <1>7 DEF Consistent
<1> QED
  BY <1>2, <1>3, <1>4, <1>8 DEF h

-----------------------------------------------------------------------------
(* What Record does to every record of a known producer before it looks at *)
(* the watermark: count it and remember it as the last one seen.          *)
LEMMA CountedFacts ==
  ASSUME NEW ps \in ProducerState, NEW seq \in Nat
  PROVE  LET c == Counted(ps, seq)
         IN  /\ c \in ProducerState
             /\ c.highContiguous = ps.highContiguous
             /\ c.window = ps.window
             /\ c.received = ps.received + 1
             /\ c.duplicates = ps.duplicates
             /\ c.confirmedLost = ps.confirmedLost
             /\ c.pendingLost = ps.pendingLost
             /\ c.lastReportedLost = ps.lastReportedLost
             /\ c.lastSeen = seq
<1> DEFINE ooo == IF seq < ps.lastSeen THEN ps.outOfOrder + 1 ELSE ps.outOfOrder
           c   == Counted(ps, seq)
<1>1. c = [ highContiguous   |-> ps.highContiguous,
            window           |-> ps.window,
            received         |-> ps.received + 1,
            duplicates       |-> ps.duplicates,
            outOfOrder       |-> ooo,
            confirmedLost    |-> ps.confirmedLost,
            pendingLost      |-> ps.pendingLost,
            lastReportedLost |-> ps.lastReportedLost,
            lastSeen         |-> seq ]
  <2> DEFINE rcv == ps.received + 1
  <2>1. c = [ps EXCEPT !.received = rcv, !.outOfOrder = ooo, !.lastSeen = seq]
    BY DEF Counted, IsOutOfOrder
  <2> HIDE DEF c, ooo, rcv
  <2> QED
    BY <2>1 DEF ProducerState, rcv
<1>2. ooo \in Nat
  BY DEF ProducerState
<1> HIDE DEF ooo, c
<1>3. c \in ProducerState
  BY <1>1, <1>2 DEF ProducerState
<1> QED
  BY <1>1, <1>3 DEF c

(* A late delivery of a suspected loss keeps the state consistent.         *)
LEMMA RecoveryConsistent ==
  ASSUME NEW ps \in ProducerState, NEW h \in History, NEW seq \in Nat,
         Consistent(ps, h), IsRecovery(ps, seq)
  PROVE  LET r == Recover(Counted(ps, seq), seq)
         IN  /\ r \in ProducerState
             /\ r.lastReportedLost = ps.lastReportedLost
             /\ Consistent(r, HistoryAfter(h, ps, seq))
<1> USE ReorderWindowAssumption
<1> DEFINE c == Counted(ps, seq)
           pending == ps.pendingLost \ {seq}
           r == Recover(c, seq)
           g == HistoryAfter(h, ps, seq)
<1>1. /\ c \in ProducerState
      /\ c.highContiguous = ps.highContiguous
      /\ c.window = ps.window
      /\ c.received = ps.received + 1
      /\ c.duplicates = ps.duplicates
      /\ c.pendingLost = ps.pendingLost
      /\ c.lastReportedLost = ps.lastReportedLost
  BY CountedFacts
<1>2. /\ seq \in ps.pendingLost
      /\ seq <= ps.highContiguous
      /\ h.overran # {}
      /\ IsFiniteSet(ps.pendingLost)
      /\ IsFiniteSet(h.arrived)
  BY DEF IsRecovery, Consistent
<1>3. IsFiniteSet(pending) /\ Cardinality(pending) \in Nat
  BY <1>2, FS_RemoveElement, FS_CardinalityType
<1> HIDE DEF c
<1>4. /\ r \in ProducerState
      /\ r.highContiguous = ps.highContiguous
      /\ r.window = ps.window
      /\ r.pendingLost = pending
      /\ r.confirmedLost = Cardinality(pending)
      /\ r.lastReportedLost = ps.lastReportedLost
  <2>1. r = [ highContiguous   |-> c.highContiguous,
              window           |-> c.window,
              received         |-> c.received,
              duplicates       |-> c.duplicates,
              outOfOrder       |-> c.outOfOrder,
              confirmedLost    |-> Cardinality(pending),
              pendingLost      |-> pending,
              lastReportedLost |-> c.lastReportedLost,
              lastSeen         |-> c.lastSeen ]
    <3> DEFINE card == Cardinality(pending)
    <3>1. r = [c EXCEPT !.pendingLost = pending, !.confirmedLost = card]
      BY <1>1 DEF Recover
    <3> HIDE DEF r, card, pending
    <3> QED
      BY <1>1, <3>1 DEF ProducerState, card
  <2>2. pending \in SUBSET Nat
    BY DEF ProducerState
  <2> HIDE DEF r, pending
  <2> QED
    BY <1>1, <1>3, <2>1, <2>2 DEF ProducerState
<1>5. /\ g.first = h.first
      /\ g.arrived = h.arrived \cup {seq}
      /\ g.overran = h.overran
      /\ g.skipped = h.skipped
  BY <1>2 DEF HistoryAfter, IsOverrun, Skipped, ProducerState
<1>6. IsFiniteSet(g.arrived)
  BY <1>2, <1>5, FS_AddElement
<1> HIDE DEF r, g
<1>7. Consistent(r, g)
  BY <1>2, <1>3, <1>4, <1>5, <1>6 DEF Consistent, ProducerState
<1> QED
  BY <1>4, <1>7 DEF r, g, c

(* A duplicate keeps the state consistent: within the window the sequence  *)
(* had arrived before, so the distinct count does not change.              *)
LEMMA DuplicateConsistent ==
  ASSUME NEW ps \in ProducerState, NEW h \in History, NEW seq \in Nat,
         Consistent(ps, h), IsDuplicate(ps, seq)
  PROVE  LET r == [Counted(ps, seq) EXCEPT !.duplicates = @ + 1]
         IN  /\ r \in ProducerState
             /\ r.lastReportedLost = ps.lastReportedLost
             /\ Consistent(r, HistoryAfter(h, ps, seq))
<1> USE ReorderWindowAssumption
<1> DEFINE c == Counted(ps, seq)
           dup == c.duplicates + 1
           r == [c EXCEPT !.duplicates = dup]
           g == HistoryAfter(h, ps, seq)
<1>1. /\ c \in ProducerState
      /\ c.highContiguous = ps.highContiguous
      /\ c.window = ps.window
      /\ c.received = ps.received + 1
      /\ c.duplicates = ps.duplicates
      /\ c.pendingLost = ps.pendingLost
      /\ c.confirmedLost = ps.confirmedLost
      /\ c.lastReportedLost = ps.lastReportedLost
  BY CountedFacts
<1>2. dup \in Nat
  BY <1>1 DEF ProducerState
<1> HIDE DEF c
<1>3. /\ r \in ProducerState
      /\ r.highContiguous = ps.highContiguous
      /\ r.window = ps.window
      /\ r.pendingLost = ps.pendingLost
      /\ r.confirmedLost = ps.confirmedLost
      /\ r.received = ps.received + 1
      /\ r.duplicates = ps.duplicates + 1
      /\ r.lastReportedLost = ps.lastReportedLost
  <2>1. r.duplicates = dup
    BY <1>1 DEF ProducerState
  <2>2. dup = ps.duplicates + 1
    BY <1>1
  <2> HIDE DEF dup
  <2> QED
    BY <1>1, <1>2, <2>1, <2>2 DEF ProducerState
<1>4. ~ IsOverrun(ps, seq) /\ Skipped(ps, seq) = {}
  BY DEF IsDuplicate, IsOverrun, Skipped, ProducerState, Positions
<1>5. /\ g.first = h.first
      /\ g.arrived = h.arrived \cup {seq}
      /\ g.overran = h.overran
      /\ g.skipped = h.skipped
  BY <1>4 DEF HistoryAfter
<1>6. IsFiniteSet(g.arrived)
  BY <1>5, FS_AddElement DEF Consistent
<1> HIDE DEF r, g
<1>7. seq > ps.highContiguous => seq - ps.highContiguous - 1 \in ps.window
  BY DEF IsDuplicate, ProducerState
<1>8. seq \notin ps.pendingLost
  BY DEF IsDuplicate, Consistent, ProducerState, Positions, History
<1>9. ASSUME g.overran = {}, \A s \in g.arrived : s >= g.first
      PROVE  r.received = r.duplicates + Cardinality(g.arrived)
  <2>1. seq \in h.arrived
    <3>1. seq >= h.first /\ h.skipped = {} /\ ps.pendingLost = {}
      BY <1>5, <1>9 DEF Consistent
    <3>2. CASE seq <= ps.highContiguous
      BY <3>1, <3>2 DEF Consistent, ProducerState, History
    <3>3. CASE seq > ps.highContiguous
      <4>1. ps.highContiguous + 1 + (seq - ps.highContiguous - 1) = seq
        BY DEF ProducerState
      <4> QED
        BY <1>7, <3>3, <4>1 DEF Consistent
    <3> QED
      BY <3>2, <3>3 DEF ProducerState
  <2>2. g.arrived = h.arrived
    BY <1>5, <2>1
  <2>3. ps.received = ps.duplicates + Cardinality(h.arrived)
    BY <1>5, <1>9, <2>2 DEF Consistent
  <2>4. Cardinality(h.arrived) \in Nat
    BY FS_CardinalityType DEF Consistent
  <2> QED
    BY <1>3, <2>2, <2>3, <2>4 DEF ProducerState
<1>10. Consistent(r, g)
  BY <1>3, <1>5, <1>6, <1>7, <1>8, <1>9 DEF Consistent
<1> QED
  BY <1>3, <1>10 DEF r, g, c, dup

(* advanceContiguous keeps a consistent state consistent: the watermark    *)
(* only passes sequences that arrived.                                     *)
LEMMA AdvanceConsistent ==
  ASSUME NEW ps \in ProducerState, NEW h \in History, Consistent(ps, h)
  PROVE  LET a == advanceContiguous(ps)
         IN  /\ a \in ProducerState
             /\ a.lastReportedLost = ps.lastReportedLost
             /\ Consistent(a, h)
<1> USE ReorderWindowAssumption
<1> DEFINE a == advanceContiguous(ps)
           n == a.highContiguous - ps.highContiguous
<1>1. /\ a \in ProducerState
      /\ n \in Nat
      /\ \A i \in 0 .. n - 1 : i \in ps.window
      /\ a.window = { i \in Positions : i + n \in ps.window }
      /\ a.received = ps.received
      /\ a.duplicates = ps.duplicates
      /\ a.confirmedLost = ps.confirmedLost
      /\ a.pendingLost = ps.pendingLost
      /\ a.lastReportedLost = ps.lastReportedLost
  BY AdvanceFacts
<1>2. a.highContiguous = ps.highContiguous + n
  BY <1>1 DEF ProducerState
<1> HIDE DEF a, n
<1>3. h.first <= a.highContiguous /\ ps.pendingLost \subseteq h.first .. a.highContiguous
  BY <1>1, <1>2 DEF Consistent, ProducerState, History
<1>4. \A i \in a.window : a.highContiguous + 1 + i \in h.arrived
  <2> SUFFICES ASSUME NEW i \in a.window
               PROVE  a.highContiguous + 1 + i \in h.arrived
    OBVIOUS
  <2>1. i \in Nat /\ i + n \in ps.window
    BY <1>1 DEF Positions
  <2>2. a.highContiguous + 1 + i = ps.highContiguous + 1 + (i + n)
    BY <1>1, <1>2, <2>1 DEF ProducerState
  <2> QED
    BY <2>1, <2>2 DEF Consistent
<1>5. ASSUME NEW s \in h.arrived, s > a.highContiguous
      PROVE  s - a.highContiguous - 1 \in a.window \/ s \in h.overran
  <2>1. s \in Nat /\ s > ps.highContiguous
    BY <1>1, <1>2, <1>5 DEF History, ProducerState
  <2>2. CASE s - ps.highContiguous - 1 \in ps.window
    <3>1. s - a.highContiguous - 1 + n = s - ps.highContiguous - 1
      BY <1>1, <1>2, <2>1 DEF ProducerState
    <3>2. s - a.highContiguous - 1 \in Positions
      BY <1>1, <1>2, <1>5, <2>1, <2>2 DEF ProducerState, Positions
    <3> QED
      BY <1>1, <2>2, <3>1, <3>2
  <2> QED
    BY <2>1, <2>2 DEF Consistent
<1>6. ASSUME NEW s \in h.first .. a.highContiguous
      PROVE  s \in h.arrived \/ s \in ps.pendingLost \/ s \in h.skipped
  <2>1. s \in Nat
    BY <1>1 DEF History
  <2>2. CASE s <= ps.highContiguous
    BY <1>1, <2>1, <2>2 DEF Consistent, ProducerState, History
  <2>3. CASE s > ps.highContiguous
    <3>1. s - ps.highContiguous - 1 \in ps.window
      BY <1>1, <1>2, <2>1, <2>3 DEF ProducerState
    <3>2. ps.highContiguous + 1 + (s - ps.highContiguous - 1) = s
      BY <2>1 DEF ProducerState
    <3> QED
      BY <3>1, <3>2 DEF Consistent
  <2> QED
    BY <2>1, <2>2, <2>3 DEF ProducerState
<1>7. \E s \in h.arrived : a.highContiguous <= s
  <2>1. CASE n = 0
    BY <1>2, <2>1 DEF Consistent, ProducerState
  <2>2. CASE n > 0
    <3>1. n - 1 \in ps.window /\ a.highContiguous = ps.highContiguous + 1 + (n - 1)
      BY <1>1, <1>2, <2>2 DEF ProducerState
    <3>2. a.highContiguous \in h.arrived /\ a.highContiguous \in Nat
      BY <1>1, <3>1 DEF Consistent, ProducerState
    <3> QED
      BY <3>2
  <2> QED
    BY <1>1, <2>1, <2>2
<1>8. Consistent(a, h)
  BY <1>1, <1>3, <1>4, <1>5, <1>6, <1>7 DEF Consistent
<1> QED
  BY <1>1, <1>8 DEF a

(* A new sequence inside the window keeps the state consistent.            *)
LEMMA InWindowConsistent ==
  ASSUME NEW ps \in ProducerState, NEW h \in History, NEW seq \in Nat,
         Consistent(ps, h),
         ~ IsRecovery(ps, seq), ~ IsDuplicate(ps, seq), ~ IsOverrun(ps, seq)
  PROVE  LET c == Counted(ps, seq)
             r == advanceContiguous(
                    [c EXCEPT !.window = @ \cup {seq - ps.highContiguous - 1}])
         IN  /\ r \in ProducerState
             /\ r.lastReportedLost = ps.lastReportedLost
             /\ Consistent(r, HistoryAfter(h, ps, seq))
<1> USE ReorderWindowAssumption
<1> DEFINE c == Counted(ps, seq)
           offset == seq - ps.highContiguous - 1
           window == c.window \cup {offset}
           m == [c EXCEPT !.window = window]
           g == HistoryAfter(h, ps, seq)
<1>1. /\ c \in ProducerState
      /\ c.highContiguous = ps.highContiguous
      /\ c.window = ps.window
      /\ c.received = ps.received + 1
      /\ c.duplicates = ps.duplicates
      /\ c.pendingLost = ps.pendingLost
      /\ c.confirmedLost = ps.confirmedLost
      /\ c.lastReportedLost = ps.lastReportedLost
  BY CountedFacts
<1>2. seq > ps.highContiguous /\ offset \in Positions /\ offset \notin ps.window
  BY DEF IsRecovery, IsDuplicate, IsOverrun, ProducerState, Positions
<1>3. window \in SUBSET Positions /\ window = ps.window \cup {offset}
  BY <1>1, <1>2 DEF ProducerState
<1> HIDE DEF c
<1>4. /\ m \in ProducerState
      /\ m.highContiguous = ps.highContiguous
      /\ m.window = window
      /\ m.pendingLost = ps.pendingLost
      /\ m.confirmedLost = ps.confirmedLost
      /\ m.received = ps.received + 1
      /\ m.duplicates = ps.duplicates
      /\ m.lastReportedLost = ps.lastReportedLost
  <2> HIDE DEF window
  <2> QED
    BY <1>1, <1>3 DEF ProducerState
<1>5. Skipped(ps, seq) = {}
  BY DEF IsOverrun, Skipped, ProducerState
<1>6. /\ g.first = h.first
      /\ g.arrived = h.arrived \cup {seq}
      /\ g.overran = h.overran
      /\ g.skipped = h.skipped
      /\ g \in History
  BY <1>5 DEF HistoryAfter, History
<1>7. IsFiniteSet(g.arrived) /\ IsFiniteSet(h.arrived)
  BY <1>6, FS_AddElement DEF Consistent
<1> HIDE DEF m, g, window
<1>8. \A i \in m.window : m.highContiguous + 1 + i \in g.arrived
  <2>1. ps.highContiguous + 1 + offset = seq
    BY DEF ProducerState
  <2> QED
    BY <1>3, <1>4, <1>6, <2>1 DEF Consistent
<1>9. \A s \in g.arrived : s > m.highContiguous =>
        s - m.highContiguous - 1 \in m.window \/ s \in g.overran
  BY <1>3, <1>4, <1>6 DEF Consistent
<1>10. seq \notin m.pendingLost
  BY <1>2, <1>4 DEF Consistent, ProducerState, History
<1>11. ASSUME g.overran = {}, \A s \in g.arrived : s >= g.first
       PROVE  m.received = m.duplicates + Cardinality(g.arrived)
  <2>1. seq \notin h.arrived
    BY <1>2, <1>6, <1>11 DEF Consistent
  <2>2. Cardinality(g.arrived) = Cardinality(h.arrived) + 1
    BY <1>6, <1>7, <2>1, FS_AddElement
  <2>3. ps.received = ps.duplicates + Cardinality(h.arrived)
    BY <1>6, <1>11 DEF Consistent
  <2>4. Cardinality(h.arrived) \in Nat
    BY <1>7, FS_CardinalityType
  <2> QED
    BY <1>4, <2>2, <2>3, <2>4 DEF ProducerState
<1>12. Consistent(m, g)
  BY <1>4, <1>6, <1>7, <1>8, <1>9, <1>10, <1>11 DEF Consistent
<1>13. /\ advanceContiguous(m) \in ProducerState
       /\ advanceContiguous(m).lastReportedLost = ps.lastReportedLost
       /\ Consistent(advanceContiguous(m), g)
  BY <1>4, <1>6, <1>12, AdvanceConsistent
<1> QED
  BY <1>13 DEF m, g, c, window

(* A sequence beyond the window keeps the state consistent: what slideWindow *)
(* evicts is pending unless it arrived, what it jumps over is skipped.     *)
LEMMA OverrunConsistent ==
  ASSUME NEW ps \in ProducerState, NEW h \in History, NEW seq \in Nat,
         Consistent(ps, h), IsOverrun(ps, seq)
  PROVE  LET r == slideWindow(Counted(ps, seq), seq)
         IN  /\ r \in ProducerState
             /\ r.lastReportedLost = ps.lastReportedLost
             /\ Consistent(r, HistoryAfter(h, ps, seq))
<1> USE ReorderWindowAssumption
<1> DEFINE c == Counted(ps, seq)
           newHigh == seq - ReorderWindow - 1
           g == HistoryAfter(h, ps, seq)
           r == slideWindow(c, seq)
<1>1. /\ c \in ProducerState
      /\ c.highContiguous = ps.highContiguous
      /\ c.window = ps.window
      /\ c.received = ps.received + 1
      /\ c.duplicates = ps.duplicates
      /\ c.pendingLost = ps.pendingLost
      /\ c.confirmedLost = ps.confirmedLost
      /\ c.lastReportedLost = ps.lastReportedLost
  BY CountedFacts
<1>2. newHigh \in Nat /\ newHigh >= ps.highContiguous /\ seq > ps.highContiguous
  BY DEF IsOverrun, ProducerState
<1>3. /\ g.first = h.first
      /\ g.arrived = h.arrived \cup {seq}
      /\ g.overran = h.overran \cup {seq}
      /\ g.skipped = h.skipped \cup (ps.highContiguous + ReorderWindow + 1 .. newHigh)
      /\ g \in History
  <2>1. Skipped(ps, seq) = ps.highContiguous + ReorderWindow + 1 .. newHigh
    BY DEF Skipped
  <2>2. Skipped(ps, seq) \subseteq Nat
    BY <1>2, <2>1 DEF ProducerState
  <2> QED
    BY <2>1, <2>2 DEF HistoryAfter, History
<1>4. IsFiniteSet(g.arrived)
  BY <1>3, FS_AddElement DEF Consistent
<1> HIDE DEF c, g
<1>5. CASE newHigh = ps.highContiguous
  <2>1. r = [c EXCEPT !.window = c.window]
    BY <1>1, <1>2, <1>5 DEF slideWindow, MarkIfInWindow
  <2>2. r = c
    BY <1>1, <2>1 DEF ProducerState
  <2>3. Consistent(c, g)
    BY <1>1, <1>2, <1>3, <1>4, <1>5 DEF Consistent, ProducerState, History
  <2> QED
    BY <1>1, <2>2, <2>3 DEF c, g
<1>6. CASE newHigh > ps.highContiguous
  <2> DEFINE dist == Lesser(newHigh - c.highContiguous, ReorderWindow)
             evicted == Evicted(c, dist)
             pending == c.pendingLost \cup evicted
             card == Cardinality(pending)
             shifted == shiftLeft(c.window, dist)
             m == [c EXCEPT !.pendingLost = pending, !.confirmedLost = card,
                            !.window = shifted, !.highContiguous = newHigh]
  <2>1. r = advanceContiguous(m)
    <3>1. MarkIfInWindow(shifted, seq - newHigh - 1) = shifted
      BY DEF MarkIfInWindow
    <3>2. ~ (newHigh <= c.highContiguous)
      BY <1>1, <1>2, <1>6 DEF ProducerState
    <3> QED
      BY <3>1, <3>2, Zenon DEF slideWindow
  <2>2. /\ dist \in Nat
        /\ dist <= ReorderWindow
        /\ dist <= newHigh - ps.highContiguous
        /\ dist = newHigh - ps.highContiguous \/ dist = ReorderWindow
    BY <1>1, <1>2, <1>6 DEF Lesser, ProducerState
  <2> HIDE DEF dist
  <2>3. \A s \in Nat : s \in evicted <=>
          /\ s > ps.highContiguous
          /\ s <= ps.highContiguous + dist
          /\ s - ps.highContiguous - 1 \notin ps.window
    BY <1>1, <2>2 DEF Evicted, ProducerState
  <2>4. evicted \subseteq ps.highContiguous + 1 .. newHigh
    BY <1>1, <1>2, <2>2 DEF Evicted, ProducerState
  <2> HIDE DEF evicted
  <2>5. IsFiniteSet(pending) /\ card \in Nat /\ pending \in SUBSET Nat
    <3>1. IsFiniteSet(ps.highContiguous + 1 .. newHigh)
      BY <1>2, FS_Interval DEF ProducerState
    <3>2. IsFiniteSet(evicted)
      BY <2>4, <3>1, FS_Subset
    <3>3. IsFiniteSet(pending)
      BY <1>1, <3>2, FS_Union DEF Consistent
    <3>4. pending \in SUBSET Nat
      <4>1. \A s \in evicted : s \in Nat
        BY <1>2, <2>4 DEF ProducerState
      <4>2. c.pendingLost \in SUBSET Nat
        BY <1>1 DEF ProducerState
      <4> QED
        BY <4>1, <4>2
    <3> QED
      BY <3>3, <3>4, FS_CardinalityType
  <2>6. shifted \in SUBSET Positions
    BY DEF shiftLeft
  <2>7. \A i \in shifted : i \in Positions /\ i + dist \in ps.window
    BY <1>1 DEF shiftLeft
  <2>8. \A i \in Positions : i + dist \in ps.window => i \in shifted
    BY <1>1 DEF shiftLeft
  <2> HIDE DEF pending, card, shifted
  <2>9. m = [ highContiguous   |-> newHigh,
              window           |-> shifted,
              received         |-> c.received,
              duplicates       |-> c.duplicates,
              outOfOrder       |-> c.outOfOrder,
              confirmedLost    |-> card,
              pendingLost      |-> pending,
              lastReportedLost |-> c.lastReportedLost,
              lastSeen         |-> c.lastSeen ]
    <3> DEFINE nh == newHigh
    <3> HIDE DEF nh
    <3>1. m = [c EXCEPT !.pendingLost = pending, !.confirmedLost = card,
                        !.window = shifted, !.highContiguous = nh]
      BY DEF nh
    <3> HIDE DEF m
    <3> QED
      BY <1>1, <3>1 DEF ProducerState, nh
  <2> HIDE DEF m
  <2>10. m \in ProducerState
    BY <1>1, <1>2, <2>5, <2>6, <2>9 DEF ProducerState
  <2>11. /\ m.highContiguous = newHigh
         /\ m.window = shifted
         /\ m.received = ps.received + 1
         /\ m.duplicates = ps.duplicates
         /\ m.confirmedLost = card
         /\ m.pendingLost = ps.pendingLost \cup evicted
         /\ m.lastReportedLost = ps.lastReportedLost
    BY <1>1, <2>9 DEF pending
  <2>12. \A i \in m.window : m.highContiguous + 1 + i \in g.arrived
    <3> SUFFICES ASSUME NEW i \in shifted
                 PROVE  newHigh + 1 + i \in h.arrived
      BY <1>3, <2>11
    <3>1. dist = newHigh - ps.highContiguous
      BY <2>2, <2>7 DEF ProducerState, Positions
    <3>2. newHigh + 1 + i = ps.highContiguous + 1 + (i + dist)
      BY <1>2, <2>7, <3>1 DEF ProducerState, Positions
    <3> QED
      BY <2>7, <3>2 DEF Consistent
  <2>13. ASSUME NEW s \in g.arrived, s > m.highContiguous
         PROVE  s - m.highContiguous - 1 \in m.window \/ s \in g.overran
    <3>1. s \in Nat
      BY <1>3 DEF History
    <3>2. CASE s = seq
      BY <1>3, <3>2
    <3>3. CASE s # seq
      <4>1. s - ps.highContiguous - 1 \in ps.window \/ s \in h.overran
        BY <1>2, <1>3, <2>11, <2>13, <3>1, <3>3 DEF Consistent, ProducerState
      <4>2. CASE s - ps.highContiguous - 1 \in ps.window
        <5>1. dist = newHigh - ps.highContiguous
          BY <1>2, <2>2, <2>11, <2>13, <3>1, <4>2 DEF ProducerState, Positions
        <5>2. /\ s - newHigh - 1 \in Positions
              /\ s - newHigh - 1 + dist = s - ps.highContiguous - 1
          BY <1>2, <2>2, <2>11, <2>13, <3>1, <4>2, <5>1 DEF ProducerState, Positions
        <5> QED
          BY <2>8, <2>11, <4>2, <5>2
      <4> QED
        BY <1>3, <4>1, <4>2
    <3> QED
      BY <3>2, <3>3
  <2>14. ASSUME NEW s \in m.pendingLost, s \in g.arrived
         PROVE  s \in g.overran
    <3>1. CASE s \in ps.pendingLost
      BY <1>3, <2>14, <3>1 DEF Consistent
    <3>2. CASE s \in evicted
      BY <1>2, <1>3, <2>3, <2>4, <2>14, <3>2 DEF Consistent, ProducerState, History
    <3> QED
      BY <2>11, <3>1, <3>2
  <2>15. ASSUME NEW s \in g.first .. m.highContiguous
         PROVE  s \in g.arrived \/ s \in m.pendingLost \/ s \in g.skipped
    <3>1. s \in Nat /\ h.first <= s /\ s <= newHigh
      BY <1>2, <1>3, <2>11 DEF History
    <3>2. CASE s <= ps.highContiguous
      BY <1>3, <2>11, <3>1, <3>2 DEF Consistent, ProducerState, History
    <3>3. CASE s > ps.highContiguous /\ s <= ps.highContiguous + dist
      <4>1. CASE s - ps.highContiguous - 1 \in ps.window
        <5>1. ps.highContiguous + 1 + (s - ps.highContiguous - 1) = s
          BY <3>1 DEF ProducerState
        <5> QED
          BY <1>3, <4>1, <5>1 DEF Consistent
      <4> QED
        BY <2>3, <2>11, <3>1, <3>3, <4>1
    <3>4. CASE s > ps.highContiguous + dist
      BY <1>2, <1>3, <2>2, <3>1, <3>4 DEF ProducerState
    <3> QED
      BY <2>2, <3>1, <3>2, <3>3, <3>4 DEF ProducerState
  <2>16. m.pendingLost \subseteq g.first .. m.highContiguous /\ g.first <= m.highContiguous
    <3>1. h.first \in Nat /\ ps.highContiguous \in Nat /\ h.first <= ps.highContiguous
      BY DEF Consistent, ProducerState, History
    <3>2. \A s \in evicted : s \in h.first .. newHigh
      BY <1>2, <2>4, <3>1
    <3>3. \A s \in ps.pendingLost : s \in h.first .. newHigh
      BY <1>2, <3>1 DEF Consistent
    <3> QED
      BY <1>2, <1>3, <2>11, <3>1, <3>2, <3>3
  <2>17. Consistent(m, g)
    <3>1. IsFiniteSet(m.pendingLost) /\ m.confirmedLost = Cardinality(m.pendingLost)
      BY <1>1, <2>5, <2>11 DEF pending, card
    <3>2. g.overran # {}
      BY <1>3
    <3>3. seq \in g.arrived /\ m.highContiguous <= seq
      BY <1>3, <2>11
    <3> QED
      BY <1>4, <2>12, <2>13, <2>14, <2>15, <2>16, <3>1, <3>2, <3>3 DEF Consistent
  <2> QED
    BY <1>3, <2>1, <2>10, <2>11, <2>17, AdvanceConsistent DEF g, c
<1> QED
  BY <1>2, <1>5, <1>6 DEF ProducerState

(* Record keeps a producer's state consistent, whichever way it returns.   *)
LEMMA RecordExistingConsistent ==
  ASSUME NEW ps \in ProducerState, NEW h \in History, NEW seq \in Nat, Consistent(ps, h)
  PROVE  LET r == RecordExisting(ps, seq)
         IN  /\ r \in ProducerState
             /\ r.lastReportedLost = ps.lastReportedLost
             /\ Consistent(r, HistoryAfter(h, ps, seq))
<1> USE ReorderWindowAssumption
<1>1. /\ IsRecovery(ps, seq) => ~ IsDuplicate(ps, seq) /\ ~ IsOverrun(ps, seq)
      /\ IsDuplicate(ps, seq) => ~ IsOverrun(ps, seq)
  BY DEF IsRecovery, IsDuplicate, IsOverrun, ProducerState, Positions
<1>2. CASE IsRecovery(ps, seq)
  <2>1. RecordExisting(ps, seq) = Recover(Counted(ps, seq), seq)
    BY <1>1, <1>2 DEF RecordExisting
  <2> QED
    BY <1>2, <2>1, RecoveryConsistent
<1>3. CASE IsDuplicate(ps, seq)
  <2>1. RecordExisting(ps, seq) = [Counted(ps, seq) EXCEPT !.duplicates = @ + 1]
    BY <1>1, <1>3 DEF RecordExisting
  <2> QED
    BY <1>3, <2>1, DuplicateConsistent
<1>4. CASE IsOverrun(ps, seq)
  <2>1. RecordExisting(ps, seq) = slideWindow(Counted(ps, seq), seq)
    BY <1>1, <1>4 DEF RecordExisting
  <2> QED
    BY <1>4, <2>1, OverrunConsistent
<1>5. CASE ~ IsRecovery(ps, seq) /\ ~ IsDuplicate(ps, seq) /\ ~ IsOverrun(ps, seq)
  <2>1. RecordExisting(ps, seq) = advanceContiguous(
          [Counted(ps, seq) EXCEPT !.window = @ \cup {seq - ps.highContiguous - 1}])
    BY <1>5 DEF RecordExisting
  <2> QED
    BY <1>5, <2>1, InWindowConsistent
<1> QED
  BY <1>2, <1>3, <1>4, <1>5

(* The history of a producer keeps its type when Record takes a sequence.  *)
LEMMA HistoryAfterType ==
  ASSUME NEW ps \in ProducerState, NEW h \in History, NEW seq \in Nat
  PROVE  HistoryAfter(h, ps, seq) \in History
<1>1. Skipped(ps, seq) \subseteq Nat
  BY ReorderWindowAssumption DEF Skipped, ProducerState
<1> QED
  BY <1>1 DEF HistoryAfter, History

(* DetectGaps only changes what was reported.                              *)
LEMMA ReportedConsistent ==
  ASSUME NEW ps \in ProducerState
  PROVE  LET r == [ps EXCEPT !.lastReportedLost = ps.confirmedLost]
         IN  /\ r \in ProducerState
             /\ r.lastReportedLost = ps.confirmedLost
             /\ \A h \in History : Consistent(ps, h) => Consistent(r, h)
<1> DEFINE r == [ps EXCEPT !.lastReportedLost = ps.confirmedLost]
<1>1. /\ r \in ProducerState
      /\ r.lastReportedLost = ps.confirmedLost
      /\ r.highContiguous = ps.highContiguous
      /\ r.window = ps.window
      /\ r.received = ps.received
      /\ r.duplicates = ps.duplicates
      /\ r.confirmedLost = ps.confirmedLost
      /\ r.pendingLost = ps.pendingLost
  BY DEF ProducerState
<1> HIDE DEF r
<1>2. ASSUME NEW h \in History, Consistent(ps, h)
      PROVE  Consistent(r, h)
  BY <1>1, <1>2 DEF Consistent
<1> QED
  BY <1>1, <1>2 DEF r

-----------------------------------------------------------------------------
(* The invariant holds before the first record.                            *)
LEMMA TrackerInitInv == TrackerInit => TrackerInv
<1> SUFFICES ASSUME TrackerInit
             PROVE  TrackerInv
  OBVIOUS
<1>1. Known = {}
  BY DEF TrackerInit, Known
<1>2. TrackerTypeOK
  BY <1>1 DEF TrackerInit, TrackerTypeOK, Known, History, NoHistory
<1> QED
  BY <1>1, <1>2 DEF TrackerInit, TrackerInv, MetricCoversReported

(* Every method of the tracker preserves the invariant.                    *)
LEMMA TrackerNextInv == TrackerInv /\ [TrackerNext]_trackerVars => TrackerInv'
<1> SUFFICES ASSUME TrackerInv, [TrackerNext]_trackerVars
             PROVE  TrackerInv'
  OBVIOUS
<1>0. /\ TrackerTypeOK
      /\ \A p \in Known : Consistent(producers[p], history[p])
      /\ \A p \in Known : lostMetric[p] >= producers[p].lastReportedLost
  BY DEF TrackerInv, MetricCoversReported
<1>1. ASSUME NEW p \in Producers, NEW seq \in 1 .. MaxSeq, RecordFirst(p, seq)
      PROVE  TrackerInv'
  <2>1. seq \in Nat \ {0}
    BY MaxSeqAssumption
  <2> DEFINE r == NewProducerState(seq)
             h == FirstHistory(seq)
  <2>2. /\ r \in ProducerState
        /\ h \in History
        /\ r.lastReportedLost = 0
        /\ Consistent(r, h)
    BY <2>1, NewProducerStateConsistent
  <2> HIDE DEF r, h
  <2>3. /\ p \notin Known
        /\ producers' = [k \in Known \cup {p} |-> IF k = p THEN r ELSE producers[k]]
        /\ history' = [history EXCEPT ![p] = h]
        /\ warmup' = warmup
        /\ lostMetric' = lostMetric
    BY <1>1 DEF RecordFirst, Put, Known, r, h
  <2>4. Known' = Known \cup {p}
    BY <2>3 DEF Known
  <2>5. TrackerTypeOK'
    BY <1>0, <2>2, <2>3, <2>4 DEF TrackerTypeOK
  <2>6. ASSUME NEW q \in Known'
        PROVE  Consistent(producers'[q], history'[q])
               /\ lostMetric'[q] >= producers'[q].lastReportedLost
    <3>1. CASE q = p
      <4>1. producers'[q] = r /\ history'[q] = h
        BY <1>0, <2>3, <2>4, <3>1 DEF TrackerTypeOK
      <4>2. lostMetric'[q] \in Nat
        BY <2>5, <3>1 DEF TrackerTypeOK
      <4> QED
        BY <2>2, <4>1, <4>2
    <3>2. CASE q # p
      <4>1. /\ q \in Known
            /\ producers'[q] = producers[q]
            /\ history'[q] = history[q]
        BY <1>0, <2>3, <2>4, <3>2 DEF TrackerTypeOK
      <4> QED
        BY <1>0, <2>3, <4>1
    <3> QED
      BY <3>1, <3>2
  <2> QED
    BY <1>0, <2>3, <2>4, <2>5, <2>6 DEF TrackerInv, TrackerTypeOK, MetricCoversReported
<1>2. ASSUME NEW p \in Producers, NEW seq \in 1 .. MaxSeq, RecordKnown(p, seq)
      PROVE  TrackerInv'
  <2>1. seq \in Nat
    BY MaxSeqAssumption
  <2>2. p \in Known /\ producers[p] \in ProducerState /\ history[p] \in History
    BY <1>0, <1>2 DEF RecordKnown, TrackerTypeOK
  <2> DEFINE r == RecordExisting(producers[p], seq)
             h == HistoryAfter(history[p], producers[p], seq)
  <2>3. /\ r \in ProducerState
        /\ h \in History
        /\ r.lastReportedLost = producers[p].lastReportedLost
        /\ Consistent(r, h)
    BY <1>0, <2>1, <2>2, RecordExistingConsistent, HistoryAfterType
  <2>4. /\ producers' = [k \in Known \cup {p} |-> IF k = p THEN r ELSE producers[k]]
        /\ history' = [history EXCEPT ![p] = h]
        /\ warmup' = warmup
        /\ lostMetric' = lostMetric
    BY <1>0, <1>2 DEF RecordKnown, Put, Known, TrackerTypeOK
  <2> HIDE DEF r, h
  <2>5. Known' = Known
    BY <2>2, <2>4 DEF Known
  <2>6. TrackerTypeOK'
    BY <1>0, <2>2, <2>3, <2>4, <2>5 DEF TrackerTypeOK
  <2>7. ASSUME NEW q \in Known'
        PROVE  Consistent(producers'[q], history'[q])
               /\ lostMetric'[q] >= producers'[q].lastReportedLost
    <3>1. CASE q = p
      <4>1. producers'[q] = r /\ history'[q] = h
        BY <1>0, <2>4, <2>5, <3>1 DEF TrackerTypeOK
      <4> QED
        BY <1>0, <2>2, <2>3, <2>4, <3>1, <4>1
    <3>2. CASE q # p
      <4>1. /\ q \in Known
            /\ producers'[q] = producers[q]
            /\ history'[q] = history[q]
        BY <1>0, <2>4, <2>5, <3>2 DEF TrackerTypeOK
      <4> QED
        BY <1>0, <2>4, <4>1
    <3> QED
      BY <3>1, <3>2
  <2> QED
    BY <1>0, <2>2, <2>4, <2>5, <2>6, <2>7 DEF TrackerInv, TrackerTypeOK, MetricCoversReported
<1>3. CASE DetectGaps
  <2>1. Known' = Known
    BY <1>3 DEF DetectGaps, Known
  <2>2. ASSUME NEW q \in Known
        PROVE  /\ producers'[q] \in ProducerState
               /\ Consistent(producers'[q], history[q])
               /\ lostMetric'[q] \in Nat
               /\ lostMetric'[q] >= producers'[q].lastReportedLost
    <3>1. /\ q \in Producers
          /\ producers[q] \in ProducerState
          /\ history[q] \in History
          /\ lostMetric[q] \in Nat
      BY <1>0 DEF TrackerTypeOK
    <3>2. producers'[q] = [producers[q] EXCEPT !.lastReportedLost = producers[q].confirmedLost]
      BY <1>3 DEF DetectGaps, Known
    <3>3. /\ producers'[q] \in ProducerState
          /\ producers'[q].lastReportedLost = producers[q].confirmedLost
          /\ Consistent(producers'[q], history[q])
      BY <1>0, <3>1, <3>2, ReportedConsistent
    <3>4. lostMetric'[q] = lostMetric[q] + Delta(producers[q])
      BY <1>3, <3>1 DEF DetectGaps
    <3>5. /\ Delta(producers[q]) \in Nat
          /\ Delta(producers[q]) + producers[q].lastReportedLost >= producers[q].confirmedLost
          /\ producers[q].lastReportedLost \in Nat
          /\ producers[q].confirmedLost \in Nat
      BY <3>1 DEF Delta, ProducerState
    <3>6. lostMetric[q] >= producers[q].lastReportedLost
      BY <1>0
    <3>7. lostMetric'[q] \in Nat /\ lostMetric'[q] >= producers[q].confirmedLost
      BY <3>1, <3>4, <3>5, <3>6
    <3> QED
      BY <3>3, <3>7
  <2>3. TrackerTypeOK'
    <3>1. producers' \in [Known -> ProducerState]
      <4>1. producers' = [q \in Known |-> producers'[q]]
        BY <1>3 DEF DetectGaps, Known
      <4> QED
        BY <2>2, <4>1
    <3>2. lostMetric' \in [Producers -> Nat]
      <4>1. lostMetric' = [q \in Producers |-> lostMetric'[q]]
        BY <1>3 DEF DetectGaps
      <4>2. \A q \in Producers : lostMetric'[q] \in Nat
        BY <1>0, <1>3, <2>2 DEF DetectGaps, TrackerTypeOK
      <4> QED
        BY <4>1, <4>2
    <3> QED
      BY <1>0, <1>3, <2>1, <3>1, <3>2 DEF TrackerTypeOK, DetectGaps
  <2>4. history' = history
    BY <1>3 DEF DetectGaps
  <2> QED
    BY <2>1, <2>2, <2>3, <2>4 DEF TrackerInv, MetricCoversReported
<1>4. CASE Reset
  <2>1. Known' = {}
    BY <1>4 DEF Reset, Known
  <2>2. TrackerTypeOK'
    BY <1>0, <1>4, <2>1 DEF Reset, TrackerTypeOK, Known, History, NoHistory
  <2> QED
    BY <1>4, <2>1, <2>2 DEF TrackerInv, Reset, MetricCoversReported
<1>5. CASE UNCHANGED trackerVars
  BY <1>5 DEF TrackerInv, trackerVars, TrackerTypeOK, Known, MetricCoversReported
<1> QED
  BY <1>1, <1>2, <1>3, <1>4, <1>5 DEF TrackerNext

(* The tracker's state stays consistent with the deliveries Record was     *)
(* given, for every window size, set of producers and bound.               *)
THEOREM TrackerInvariant == TrackerSpec => []TrackerInv
<1> QED
  BY TrackerInitInv, TrackerNextInv, PTL DEF TrackerSpec

-----------------------------------------------------------------------------
(* Every variable of the tracker keeps its type.                           *)
THEOREM TrackerTypes == TrackerSpec => []TrackerTypeOK
<1>1. TrackerInv => TrackerTypeOK
  BY DEF TrackerInv
<1> QED
  BY <1>1, TrackerInvariant, PTL

(* The window never claims a sequence that Record was not given.           *)
THEOREM TrackerWindowSound == TrackerSpec => []WindowSound
<1>1. TrackerInv => WindowSound
  BY DEF TrackerInv, Consistent, WindowSound, InWindow
<1> QED
  BY <1>1, TrackerInvariant, PTL

(* Only sequences that overran the window can be forgotten by Record.      *)
THEOREM TrackerWindowComplete == TrackerSpec => []WindowComplete
<1>1. ASSUME TrackerInv
      PROVE  WindowComplete
  <2> SUFFICES ASSUME NEW p \in Known, NEW s \in history[p].arrived,
                      s > producers[p].highContiguous
               PROVE  s \in InWindow(producers[p]) \/ s \in history[p].overran
    BY DEF WindowComplete
  <2>1. s \in Nat /\ producers[p].highContiguous \in Nat
    BY <1>1 DEF TrackerInv, TrackerTypeOK, History, ProducerState
  <2>2. CASE s - producers[p].highContiguous - 1 \in producers[p].window
    <3>1. s = producers[p].highContiguous + 1 + (s - producers[p].highContiguous - 1)
      BY <2>1
    <3> QED
      BY <2>2, <3>1 DEF InWindow
  <2> QED
    BY <1>1, <2>2 DEF TrackerInv, Consistent
<1> QED
  BY <1>1, TrackerInvariant, PTL

(* Only a sequence that overran the window can be counted as lost by       *)
(* slideWindow although it was delivered.                                  *)
THEOREM TrackerLossSound == TrackerSpec => []LossSound
<1>1. TrackerInv => LossSound
  BY DEF TrackerInv, Consistent, LossSound
<1> QED
  BY <1>1, TrackerInvariant, PTL

(* Only a sequence that a slide jumped over can be lost without slideWindow *)
(* counting it.                                                            *)
THEOREM TrackerLossComplete == TrackerSpec => []LossComplete
<1>1. TrackerInv => LossComplete
  BY DEF TrackerInv, Consistent, LossComplete
<1> QED
  BY <1>1, TrackerInvariant, PTL

(* TotalLost is the number of pending losses, all of them at or below the  *)
(* watermark.                                                              *)
THEOREM TrackerLossCount == TrackerSpec => []LossCount
<1>1. TrackerInv => LossCount
  BY DEF TrackerInv, Consistent, LossCount
<1> QED
  BY <1>1, TrackerInvariant, PTL

(* Within the reorder window Tracker counts duplicates and loss exactly.   *)
THEOREM TrackerExactWithinWindow == TrackerSpec => []ExactWithinWindow
<1>1. ASSUME TrackerInv
      PROVE  ExactWithinWindow
  <2> SUFFICES ASSUME NEW p \in Known, history[p].overran = {},
                      \A s \in history[p].arrived : s >= history[p].first
               PROVE  /\ producers[p].confirmedLost = 0
                      /\ producers[p].received - producers[p].duplicates
                            = Cardinality(history[p].arrived)
    BY DEF ExactWithinWindow
  <2>1. producers[p] \in ProducerState /\ Consistent(producers[p], history[p])
    BY <1>1 DEF TrackerInv, TrackerTypeOK
  <2>2. Cardinality(history[p].arrived) \in Nat /\ Cardinality({}) = 0
    BY <2>1, FS_CardinalityType, FS_EmptySet DEF Consistent
  <2>3. producers[p].confirmedLost = 0
    BY <2>1, <2>2 DEF Consistent
  <2>4. producers[p].received = producers[p].duplicates + Cardinality(history[p].arrived)
    BY <2>1 DEF Consistent
  <2> QED
    BY <2>1, <2>2, <2>3, <2>4 DEF ProducerState
<1> QED
  BY <1>1, TrackerInvariant, PTL

(* The live metric covers every loss DetectGaps reported.                  *)
THEOREM TrackerMetric == TrackerSpec => []MetricCoversReported
<1>1. TrackerInv => MetricCoversReported
  BY DEF TrackerInv
<1> QED
  BY <1>1, TrackerInvariant, PTL

-----------------------------------------------------------------------------
(* The fields of a state after slideWindow moved the window and            *)
(* advanceContiguous moved it on.                                          *)
LEMMA SlidFields ==
  ASSUME NEW ps \in ProducerState, NEW pending, NEW card, NEW w, NEW hi, NEW x, NEW y
  PROVE  LET m == [ps EXCEPT !.pendingLost = pending, !.confirmedLost = card,
                             !.window = w, !.highContiguous = hi]
             r == [m EXCEPT !.highContiguous = x, !.window = y]
         IN  /\ r.received = ps.received
             /\ r.duplicates = ps.duplicates
             /\ r.lastSeen = ps.lastSeen
             /\ r.pendingLost = pending
BY DEF ProducerState

(* advanceContiguous and slideWindow leave the counts of received and      *)
(* duplicate records alone, and slideWindow only adds suspected losses.    *)
LEMMA SlideKeeps ==
  ASSUME NEW ps \in ProducerState, NEW seq \in Nat
  PROVE  LET r == slideWindow(ps, seq)
         IN  /\ r.received = ps.received
             /\ r.duplicates = ps.duplicates
             /\ r.lastSeen = ps.lastSeen
             /\ ps.pendingLost \subseteq r.pendingLost
             /\ r.pendingLost \ ps.pendingLost \subseteq 1 .. seq - 1
<1> DEFINE newHigh == seq - ReorderWindow - 1
           dist == Lesser(newHigh - ps.highContiguous, ReorderWindow)
           pending == ps.pendingLost \cup Evicted(ps, dist)
           card == Cardinality(pending)
           win == MarkIfInWindow(shiftLeft(ps.window, dist), seq - newHigh - 1)
           m == [ps EXCEPT !.pendingLost = pending, !.confirmedLost = card,
                           !.window = win, !.highContiguous = newHigh]
           r == slideWindow(ps, seq)
<1>1. CASE newHigh <= ps.highContiguous
  <2> DEFINE w == MarkIfInWindow(ps.window, seq - ps.highContiguous - 1)
  <2>1. r = [ps EXCEPT !.window = w]
    BY <1>1 DEF slideWindow
  <2> HIDE DEF w, r
  <2> QED
    BY <2>1 DEF ProducerState, r
<1>2. CASE ~ (newHigh <= ps.highContiguous)
  <2>1. r = advanceContiguous(m)
    BY <1>2, Zenon DEF slideWindow
  <2>2. PICK x, y : r = [m EXCEPT !.highContiguous = x, !.window = y]
    BY <2>1, Zenon DEF advanceContiguous
  <2>3. ps.pendingLost \subseteq pending /\ pending \ ps.pendingLost \subseteq Evicted(ps, dist)
    OBVIOUS
  <2>4. Evicted(ps, dist) \subseteq 1 .. seq - 1
    BY <1>2, ReorderWindowAssumption DEF Evicted, Lesser, ProducerState
  <2> HIDE DEF newHigh, dist, pending, card, win, r
  <2>5. /\ r.received = ps.received
        /\ r.duplicates = ps.duplicates
        /\ r.lastSeen = ps.lastSeen
        /\ r.pendingLost = pending
    BY <2>2, SlidFields
  <2> QED
    BY <2>3, <2>4, <2>5 DEF r
<1> QED
  BY <1>1, <1>2

(* What Record changes, by the way it returns: a duplicate is counted only *)
(* where it says so, and only a recovery takes a suspected loss back.      *)
LEMMA RecordExistingEffect ==
  ASSUME NEW ps \in ProducerState, NEW seq \in Nat
  PROVE  LET r == RecordExisting(ps, seq)
         IN  /\ r.lastSeen = seq
             /\ r.received = ps.received + 1
             /\ r.duplicates > ps.duplicates => IsDuplicate(ps, seq) /\ ~ IsRecovery(ps, seq)
             /\ IsRecovery(ps, seq) => r.duplicates = ps.duplicates
             /\ IsRecovery(ps, seq) => ps.pendingLost \ r.pendingLost = {seq}
             /\ ~ IsRecovery(ps, seq) => ps.pendingLost \subseteq r.pendingLost
             /\ ~ IsOverrun(ps, seq) => r.pendingLost \subseteq ps.pendingLost
             /\ r.pendingLost \ ps.pendingLost \subseteq 1 .. seq - 1
<1> DEFINE c == Counted(ps, seq)
           r == RecordExisting(ps, seq)
<1>0. /\ c \in ProducerState /\ c.lastSeen = seq /\ c.received = ps.received + 1
      /\ c.duplicates = ps.duplicates /\ c.pendingLost = ps.pendingLost
      /\ ps.duplicates \in Nat
  BY CountedFacts DEF ProducerState
<1>1. /\ IsRecovery(ps, seq) => ~ IsDuplicate(ps, seq) /\ ~ IsOverrun(ps, seq)
      /\ IsDuplicate(ps, seq) => ~ IsOverrun(ps, seq)
  BY ReorderWindowAssumption DEF IsRecovery, IsDuplicate, IsOverrun, ProducerState, Positions
<1>2. CASE IsRecovery(ps, seq)
  <2>1. r = Recover(c, seq)
    BY <1>1, <1>2 DEF RecordExisting
  <2> DEFINE rest == c.pendingLost \ {seq}
             card == Cardinality(rest)
  <2>2. r = [c EXCEPT !.pendingLost = rest, !.confirmedLost = card]
    BY <2>1 DEF Recover
  <2> HIDE DEF c, r, card, rest
  <2>3. /\ r.lastSeen = seq /\ r.received = ps.received + 1 /\ r.duplicates = ps.duplicates
        /\ r.pendingLost = rest
    BY <1>0, <2>2 DEF ProducerState
  <2> QED
    BY <1>0, <1>2, <2>3 DEF rest, IsRecovery, r
<1>3. CASE IsDuplicate(ps, seq)
  <2>1. r = [c EXCEPT !.duplicates = @ + 1]
    BY <1>1, <1>3 DEF RecordExisting
  <2> HIDE DEF c, r
  <2>2. r.lastSeen = seq /\ r.received = ps.received + 1 /\ r.pendingLost = ps.pendingLost
    BY <1>0, <2>1 DEF ProducerState
  <2> QED
    BY <1>1, <1>3, <2>2 DEF r
<1>4. CASE IsOverrun(ps, seq)
  <2>1. r = slideWindow(c, seq)
    BY <1>1, <1>4 DEF RecordExisting
  <2>2. /\ r.received = c.received /\ r.duplicates = c.duplicates
        /\ r.lastSeen = c.lastSeen /\ c.pendingLost \subseteq r.pendingLost
        /\ r.pendingLost \ c.pendingLost \subseteq 1 .. seq - 1
    BY <1>0, <2>1, SlideKeeps
  <2> HIDE DEF c, r
  <2> QED
    BY <1>0, <1>1, <1>4, <2>2 DEF r
<1>5. CASE ~ IsRecovery(ps, seq) /\ ~ IsDuplicate(ps, seq) /\ ~ IsOverrun(ps, seq)
  <2> DEFINE w == c.window \cup {seq - ps.highContiguous - 1}
             m == [c EXCEPT !.window = w]
  <2>1. r = advanceContiguous(m)
    BY <1>5 DEF RecordExisting
  <2>2. /\ m = [ highContiguous |-> c.highContiguous, window |-> w, received |-> c.received,
                 duplicates |-> c.duplicates, outOfOrder |-> c.outOfOrder,
                 confirmedLost |-> c.confirmedLost, pendingLost |-> c.pendingLost,
                 lastReportedLost |-> c.lastReportedLost, lastSeen |-> c.lastSeen ]
    <3> HIDE DEF c, w
    <3> QED
      BY <1>0 DEF ProducerState
  <2> HIDE DEF c, r, w, m
  <2>3. \E x, y : advanceContiguous(m) = [m EXCEPT !.highContiguous = x, !.window = y]
    BY Zenon DEF advanceContiguous
  <2>4. /\ r.received = c.received /\ r.duplicates = c.duplicates
        /\ r.lastSeen = c.lastSeen /\ c.pendingLost = r.pendingLost
    BY <2>1, <2>2, <2>3
  <2> QED
    BY <1>0, <1>5, <2>4 DEF r
<1> QED
  BY <1>2, <1>3, <1>4, <1>5

(* Record makes the producer known and remembers the sequence, and nothing *)
(* else of what arrived changes.                                           *)
LEMMA RecordRemembers ==
  ASSUME TrackerInv, NEW p \in Producers, NEW seq, RecordFirst(p, seq) \/ RecordKnown(p, seq)
  PROVE  /\ Known' = Known \cup {p}
         /\ \A q \in Producers : history'[q].arrived =
              IF q = p THEN history[q].arrived \cup {seq} ELSE history[q].arrived
<1>1. history \in [Producers -> History]
  BY DEF TrackerInv, TrackerTypeOK
<1>2. CASE RecordFirst(p, seq)
  <2>1. history[p].arrived = {}
    BY <1>2 DEF RecordFirst, TrackerInv, NoHistory
  <2> QED
    BY <1>1, <1>2, <2>1 DEF RecordFirst, Known, Put, FirstHistory
<1>3. CASE RecordKnown(p, seq)
  BY <1>1, <1>3 DEF RecordKnown, Known, Put, HistoryAfter
<1> QED
  BY <1>2, <1>3

(* The only step after which a producer's record count, duplicates or      *)
(* suspected losses differ is a Record of one of its sequences.            *)
LEMMA OnlyRecordCounts ==
  ASSUME TrackerInv, [TrackerNext]_trackerVars, NEW p \in Known \cap Known'
  PROVE  \/ /\ producers'[p].duplicates = producers[p].duplicates
            /\ producers'[p].pendingLost = producers[p].pendingLost
         \/ \E seq \in Nat : producers'[p] = RecordExisting(producers[p], seq)
<1>0. p \in Known /\ p \in Known' /\ producers[p] \in ProducerState
  BY DEF TrackerInv, TrackerTypeOK
<1>1. ASSUME NEW q \in Producers, NEW seq \in 1 .. MaxSeq, RecordFirst(q, seq)
      PROVE  producers'[p] = producers[p]
  BY <1>0, <1>1 DEF RecordFirst, Put, Known
<1>2. ASSUME NEW q \in Producers, NEW seq \in 1 .. MaxSeq, RecordKnown(q, seq)
      PROVE  producers'[p] = producers[p] \/ producers'[p] = RecordExisting(producers[p], seq)
  BY <1>0, <1>2 DEF RecordKnown, Put, Known
<1>3. CASE DetectGaps
  <2>1. producers'[p] = [producers[p] EXCEPT !.lastReportedLost = producers[p].confirmedLost]
    BY <1>0, <1>3 DEF DetectGaps, Known
  <2> QED
    BY <1>0, <2>1 DEF ProducerState
<1>4. CASE Reset
  BY <1>0, <1>4 DEF Reset, Known
<1>5. CASE UNCHANGED trackerVars
  BY <1>5 DEF trackerVars
<1>6. \A seq \in 1 .. MaxSeq : seq \in Nat
  BY MaxSeqAssumption
<1> QED
  BY <1>1, <1>2, <1>3, <1>4, <1>5, <1>6 DEF TrackerNext

(* A duplicate is counted only for a sequence that arrived before, that    *)
(* precedes the first one, or that a slide jumped over, whatever the       *)
(* window and the order of the deliveries.                                 *)
THEOREM TrackerDuplicateJustified == TrackerSpec => DuplicateJustified
<1>1. ASSUME TrackerInv, [TrackerNext]_trackerVars, NEW p \in Known \cap Known',
             producers'[p].duplicates > producers[p].duplicates
      PROVE  LET seq == producers'[p].lastSeen
             IN  seq \in history[p].arrived \cup history[p].skipped \/ seq < history[p].first
  <2> DEFINE ps == producers[p]
             h  == history[p]
  <2>1. ps \in ProducerState /\ h \in History /\ Consistent(ps, h)
    BY <1>1 DEF TrackerInv, TrackerTypeOK
  <2>2. ~ (producers'[p].duplicates = ps.duplicates)
    BY <1>1, <2>1 DEF ProducerState
  <2>3. PICK seq \in Nat : producers'[p] = RecordExisting(ps, seq)
    BY <1>1, <2>2, OnlyRecordCounts
  <2>4. producers'[p].lastSeen = seq /\ IsDuplicate(ps, seq) /\ ~ IsRecovery(ps, seq)
    BY <1>1, <2>1, <2>3, RecordExistingEffect
  <2> HIDE DEF ps, h
  <2>5. CASE seq <= ps.highContiguous
    BY <2>1, <2>4, <2>5 DEF Consistent, IsRecovery, ProducerState, History, h
  <2>6. CASE seq - ps.highContiguous - 1 \in ps.window
    <3>1. ps.highContiguous + 1 + (seq - ps.highContiguous - 1) = seq
      BY <2>1 DEF ProducerState
    <3>2. seq \in h.arrived
      BY <2>1, <2>6, <3>1 DEF Consistent
    <3> QED
      BY <2>4, <3>2 DEF h
  <2> QED
    BY <2>4, <2>5, <2>6 DEF IsDuplicate
<1>2. TrackerInv /\ [TrackerNext]_trackerVars =>
        [\A p \in Known \cap Known' :
           producers'[p].duplicates > producers[p].duplicates =>
             LET seq == producers'[p].lastSeen
             IN  seq \in history[p].arrived \cup history[p].skipped \/ seq < history[p].first]_trackerVars
  BY <1>1
<1> QED
  BY <1>2, TrackerInvariant, PTL DEF TrackerSpec, DuplicateJustified

(* A reported loss is withdrawn only by the late delivery of that very     *)
(* sequence, which is not counted as a duplicate.                          *)
THEOREM TrackerLossWithdrawn == TrackerSpec => LossWithdrawnByDelivery
<1>1. ASSUME TrackerInv, [TrackerNext]_trackerVars, NEW p \in Known \cap Known',
             producers[p].pendingLost \ producers'[p].pendingLost # {}
      PROVE  /\ producers[p].pendingLost \ producers'[p].pendingLost = {producers'[p].lastSeen}
             /\ producers'[p].received = producers[p].received + 1
             /\ producers'[p].duplicates = producers[p].duplicates
  <2>1. producers[p] \in ProducerState
    BY <1>1 DEF TrackerInv, TrackerTypeOK
  <2>2. PICK seq \in Nat : producers'[p] = RecordExisting(producers[p], seq)
    BY <1>1, OnlyRecordCounts
  <2>3. IsRecovery(producers[p], seq)
    BY <1>1, <2>1, <2>2, RecordExistingEffect
  <2> QED
    BY <2>1, <2>2, <2>3, RecordExistingEffect
<1>2. TrackerInv /\ [TrackerNext]_trackerVars =>
        [\A p \in Known \cap Known' :
           LET gone == producers[p].pendingLost \ producers'[p].pendingLost
           IN  gone # {} => /\ gone = {producers'[p].lastSeen}
                            /\ producers'[p].received = producers[p].received + 1
                            /\ producers'[p].duplicates = producers[p].duplicates]_trackerVars
  BY <1>1
<1> QED
  BY <1>2, TrackerInvariant, PTL DEF TrackerSpec, LossWithdrawnByDelivery
-----------------------------------------------------------------------------
(* One delivery to a producer whose ledger the maps arr, sus and exc show  *)
(* is a delivery of the ledger.                                            *)
LEMMA DeliveryIsReceipt ==
  ASSUME TrackerInv, TrackerInv', NEW p \in Known, NEW seq \in 1 .. MaxSeq, RecordKnown(p, seq)
  PROVE  Ledger!Next
<1> DEFINE arr == [q \in Producers |-> history[q].arrived]
           sus == [q \in Producers |-> IF q \in Known THEN producers[q].pendingLost ELSE {}]
           exc == [q \in Producers |-> history[q].overran]
           ps == producers[p]
           r  == RecordExisting(ps, seq)
           h  == history[p]
           lost == r.pendingLost \ ps.pendingLost
<1>1. /\ p \in Producers /\ seq \in Nat /\ ps \in ProducerState /\ h \in History
      /\ Consistent(ps, h)
      /\ history \in [Producers -> History]
  BY MaxSeqAssumption DEF TrackerInv, TrackerTypeOK
<1>2. /\ IsRecovery(ps, seq) => ps.pendingLost \ r.pendingLost = {seq}
      /\ ~ IsRecovery(ps, seq) => ps.pendingLost \subseteq r.pendingLost
      /\ ~ IsOverrun(ps, seq) => r.pendingLost \subseteq ps.pendingLost
      /\ lost \subseteq 1 .. seq - 1
  BY <1>1, RecordExistingEffect
<1>3. /\ IsRecovery(ps, seq) <=> seq \in ps.pendingLost
      /\ IsRecovery(ps, seq) => ~ IsOverrun(ps, seq)
  BY <1>1, ReorderWindowAssumption DEF Consistent, IsRecovery, IsOverrun, ProducerState, History
<1>4. /\ Known' = Known
      /\ producers' = [k \in Known |-> IF k = p THEN r ELSE producers[k]]
      /\ history' = [history EXCEPT ![p] = HistoryAfter(h, ps, seq)]
  BY DEF RecordKnown, Put, Known
<1>5. Consistent(r, HistoryAfter(h, ps, seq))
  BY <1>1, RecordExistingConsistent
<1>6. arr' = [arr EXCEPT ![p] = @ \cup {seq}]
  BY <1>1, <1>4 DEF HistoryAfter
<1>7. exc' = IF IsOverrun(ps, seq) THEN [exc EXCEPT ![p] = @ \cup {seq}] ELSE exc
  BY <1>1, <1>4 DEF HistoryAfter
<1>8. sus' = [sus EXCEPT ![p] = r.pendingLost] /\ sus[p] = ps.pendingLost
  BY <1>1, <1>4 DEF Known
<1> HIDE DEF arr, sus, exc, r, lost
<1>9. CASE seq \in ps.pendingLost
  <2>1. r.pendingLost = ps.pendingLost \ {seq} /\ ~ IsOverrun(ps, seq)
    BY <1>2, <1>3, <1>9
  <2>2. Ledger!Late(p, seq)
    BY <1>6, <1>7, <1>8, <1>9, <2>1 DEF Ledger!Late, Ledger!Arrive, arr, sus, exc
  <2> QED
    BY <1>1, <2>2 DEF Ledger!Next
<1>10. CASE seq \notin ps.pendingLost /\ ~ IsOverrun(ps, seq)
  <2>1. r.pendingLost = ps.pendingLost
    BY <1>2, <1>3, <1>10
  <2>2. sus' = sus
    BY <1>1, <1>8, <2>1 DEF sus
  <2>3. Ledger!InTime(p, seq)
    BY <1>6, <1>7, <1>8, <1>10, <2>2 DEF Ledger!InTime, Ledger!Arrive, arr, sus, exc
  <2> QED
    BY <1>1, <2>3 DEF Ledger!Next
<1>11. CASE seq \notin ps.pendingLost /\ IsOverrun(ps, seq)
  <2>1. r.pendingLost = ps.pendingLost \cup lost
    BY <1>2, <1>3, <1>11 DEF lost
  <2>2. lost \in SUBSET {n \in 1 .. MaxSeq : n < seq}
    BY <1>2, MaxSeqAssumption
  <2>3. lost \cap h.arrived \subseteq h.overran
    <3>1. ASSUME NEW x \in lost, x \in h.arrived
          PROVE  x \in h.overran
      <4>1. x \in r.pendingLost /\ x # seq
        BY <1>1, <1>2, <3>1 DEF lost
      <4>2. x \in HistoryAfter(h, ps, seq).overran
        BY <1>5, <3>1, <4>1 DEF Consistent, HistoryAfter
      <4> QED
        BY <1>11, <4>1, <4>2 DEF HistoryAfter
    <3> QED
      BY <3>1
  <2>4. /\ lost \cap arr[p] \subseteq exc[p]
        /\ sus' = [sus EXCEPT ![p] = @ \cup lost]
    BY <1>1, <1>8, <2>1, <2>3 DEF arr, exc
  <2>5. Ledger!TooFar(p, seq)
    BY <1>6, <1>7, <1>8, <1>11, <2>2, <2>4 DEF Ledger!TooFar, Ledger!Arrive, arr, sus, exc
  <2> QED
    BY <1>1, <2>5 DEF Ledger!Next
<1> QED
  BY <1>9, <1>10, <1>11

(* The tracker implements the loss ledger, for every window, every set of  *)
(* producers and every order of deliveries: Record is a receipt, Reset     *)
(* forgets, and DetectGaps changes nothing its callers can see.            *)
THEOREM TrackerImplementsLedger == TrackerSpec => LedgerSpec
<1> USE DEF Ledger!Nothing
<1>1. TrackerInit => Ledger!Init
  BY DEF TrackerInit, Known, NoHistory, Ledger!Init
<1>2. ASSUME TrackerInv, TrackerInv', [TrackerNext]_trackerVars
      PROVE  [Ledger!Next]_(Ledger!vars)
  <2>0. /\ history \in [Producers -> History] /\ Known \subseteq Producers
        /\ \A p \in Known : producers[p] \in ProducerState
    BY <1>2 DEF TrackerInv, TrackerTypeOK
  <2>1. ASSUME NEW p \in Producers, NEW seq \in 1 .. MaxSeq, RecordFirst(p, seq)
        PROVE  Ledger!Next
    <3> DEFINE r == NewProducerState(seq)
               arr == [q \in Producers |-> history[q].arrived]
               sus == [q \in Producers |-> IF q \in Known THEN producers[q].pendingLost ELSE {}]
               exc == [q \in Producers |-> history[q].overran]
    <3>1. /\ p \notin Known /\ Known' = Known \cup {p}
          /\ producers' = [k \in Known \cup {p} |-> IF k = p THEN r ELSE producers[k]]
          /\ history' = [history EXCEPT ![p] = FirstHistory(seq)]
      BY <2>1 DEF RecordFirst, Put, Known
    <3>2. r.pendingLost = {}
      <4> DEFINE fresh == [ highContiguous |-> seq - 1, window |-> {0}, received |-> 1,
                            duplicates |-> 0, outOfOrder |-> 0, confirmedLost |-> 0,
                            pendingLost |-> {}, lastReportedLost |-> 0, lastSeen |-> seq ]
      <4>1. fresh \in ProducerState
        BY MaxSeqAssumption, ReorderWindowAssumption DEF ProducerState, Positions
      <4>2. r = advanceContiguous(fresh)
        BY DEF NewProducerState
      <4> QED
        BY <4>1, <4>2, AdvanceFacts
    <3> HIDE DEF r
    <3>3. history[p].arrived = {} /\ history[p].overran = {}
      BY <1>2, <3>1 DEF TrackerInv, NoHistory
    <3>4. arr' = [arr EXCEPT ![p] = @ \cup {seq}] /\ exc' = exc
      BY <2>0, <3>1, <3>3 DEF FirstHistory
    <3>5. sus' = sus /\ sus[p] = {}
      BY <2>0, <3>1, <3>2
    <3>6. Ledger!InTime(p, seq)
      BY <3>4, <3>5 DEF Ledger!InTime, Ledger!Arrive
    <3> QED
      BY <3>6 DEF Ledger!Next
  <2>2. ASSUME NEW p \in Producers, NEW seq \in 1 .. MaxSeq, RecordKnown(p, seq)
        PROVE  Ledger!Next
    BY <1>2, <2>2, DeliveryIsReceipt DEF RecordKnown
  <2>3. CASE DetectGaps
    <3>1. Known' = Known /\ history' = history
      BY <2>3 DEF DetectGaps, Known
    <3>2. \A q \in Known : producers'[q].pendingLost = producers[q].pendingLost
      <4> SUFFICES ASSUME NEW q \in Known
                   PROVE  producers'[q].pendingLost = producers[q].pendingLost
        OBVIOUS
      <4>1. producers'[q] = [producers[q] EXCEPT !.lastReportedLost = producers[q].confirmedLost]
        BY <2>3 DEF DetectGaps, Known
      <4> QED
        BY <2>0, <4>1 DEF ProducerState
    <3> QED
      BY <3>1, <3>2 DEF Ledger!vars
  <2>4. CASE Reset
    <3>1. Known' = {} /\ history' = [p \in Producers |-> NoHistory]
      BY <2>4 DEF Reset, Known
    <3>2. Ledger!Forget
      BY <3>1 DEF Ledger!Forget, NoHistory
    <3> QED
      BY <3>2 DEF Ledger!Next
  <2>5. CASE UNCHANGED trackerVars
    BY <2>5 DEF trackerVars, Known, Ledger!vars
  <2> QED
    BY <1>2, <2>1, <2>2, <2>3, <2>4, <2>5 DEF TrackerNext
<1> QED
  BY <1>1, <1>2, TrackerInvariant, PTL DEF TrackerSpec, LedgerSpec, Ledger!Spec
=============================================================================
