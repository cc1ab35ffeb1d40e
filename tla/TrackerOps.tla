----------------------------- MODULE TrackerOps -----------------------------
(***************************************************************************)
(* The per-producer sequence state of burnin/tracker/tracker.go and the    *)
(* functions that compute on it.  A producerState is a record; every       *)
(* function below maps a state (and a sequence number) to the state the    *)
(* code leaves behind, so that a state machine can apply it in one step:   *)
(* the code holds Tracker.mu throughout.                                   *)
(*                                                                         *)
(* The bitset `window` is the set of positions whose bit is 1.  Its        *)
(* capacity is ReorderWindow rounded up to a multiple of 64, and the code  *)
(* only sets positions below ReorderWindow, so the capacity never binds.   *)
(* Counters are naturals: a 64-bit wrap needs more records than a run can  *)
(* deliver.  The first-record expression seq - 1 does wrap for seq = 0, but*)
(* producers number their records from 1.                                  *)
(***************************************************************************)
EXTENDS Integers, FiniteSets

CONSTANT ReorderWindow  \* Tracker.reorderWindow, at least 100 by config.Validate

ASSUME ReorderWindowAssumption == ReorderWindow \in Nat \ {0}

Positions == 0 .. ReorderWindow - 1

ProducerState ==
  [ highContiguous   : Nat,
    window           : SUBSET Positions,
    received         : Nat,
    duplicates       : Nat,
    outOfOrder       : Nat,
    confirmedLost    : Nat,
    pendingLost      : SUBSET Nat,
    lastReportedLost : Nat,
    lastSeen         : Nat ]

-----------------------------------------------------------------------------
(* shiftLeft applied d times: every bit moves d positions down and the     *)
(* lowest d bits fall out.                                                 *)
shiftLeft(window, d) == { i \in Positions : i + d \in window }

(* The number of iterations of the loop in advanceContiguous: the length   *)
(* of the run of set bits that starts at position 0.                       *)
ContiguousRun(window) ==
  CHOOSE n \in 0 .. ReorderWindow :
    /\ n \notin window
    /\ \A i \in 0 .. n - 1 : i \in window

(* Mutant: the watermark also steps over the first missing position.       *)
advanceContiguousOneTooFar(ps) ==
  LET n == ContiguousRun(ps.window)
  IN  [ps EXCEPT !.highContiguous = @ + n + 1, !.window = shiftLeft(@, n + 1)]

advanceContiguous(ps) ==
  LET n == ContiguousRun(ps.window)
  IN  [ps EXCEPT !.highContiguous = @ + n, !.window = shiftLeft(@, n)]

(* The state the first record of a producer creates.                       *)
NewProducerState(seq) ==
  advanceContiguous(
    [ highContiguous   |-> seq - 1,
      window           |-> {0},
      received         |-> 1,
      duplicates       |-> 0,
      outOfOrder       |-> 0,
      confirmedLost    |-> 0,
      pendingLost      |-> {},
      lastReportedLost |-> 0,
      lastSeen         |-> seq ])

-----------------------------------------------------------------------------
(* setBit guarded by the code's own test `int(offset) < t.reorderWindow`.  *)
MarkIfInWindow(window, offset) ==
  IF offset < ReorderWindow THEN window \cup {offset} ELSE window

(* Sequences that slideWindow moves from the window to pendingLost.        *)
Evicted(ps, slideDist) ==
  { ps.highContiguous + 1 + i : i \in (0 .. slideDist - 1) \ ps.window }

Lesser(a, b) == IF a <= b THEN a ELSE b

(* Mutant: evicted sequences are not remembered as suspected losses.       *)
slideWindowForgets(ps, newSeq) ==
  LET newHigh   == newSeq - ReorderWindow - 1
      slideDist == Lesser(newHigh - ps.highContiguous, ReorderWindow)
  IN  IF newHigh <= ps.highContiguous
      THEN ps
      ELSE advanceContiguous(
             [ps EXCEPT !.window = shiftLeft(@, slideDist), !.highContiguous = newHigh])

(* Mutant: every evicted sequence is a suspected loss, seen or not.        *)
slideWindowAllLost(ps, newSeq) ==
  LET newHigh   == newSeq - ReorderWindow - 1
      slideDist == Lesser(newHigh - ps.highContiguous, ReorderWindow)
      pending   == ps.pendingLost \cup (ps.highContiguous + 1 .. ps.highContiguous + slideDist)
  IN  IF newHigh <= ps.highContiguous
      THEN ps
      ELSE advanceContiguous(
             [ps EXCEPT !.pendingLost = pending, !.confirmedLost = Cardinality(pending),
                        !.window = shiftLeft(@, slideDist), !.highContiguous = newHigh])

slideWindow(ps, newSeq) ==
  LET newHigh   == newSeq - ReorderWindow - 1
      slideDist == Lesser(newHigh - ps.highContiguous, ReorderWindow)
      pending   == ps.pendingLost \cup Evicted(ps, slideDist)
      slid      == [ps EXCEPT
                      !.pendingLost    = pending,
                      !.confirmedLost  = Cardinality(pending),
                      !.window         = MarkIfInWindow(shiftLeft(@, slideDist),
                                                        newSeq - newHigh - 1),
                      !.highContiguous = newHigh]
  IN  IF newHigh <= ps.highContiguous
      THEN [ps EXCEPT !.window = MarkIfInWindow(@, newSeq - ps.highContiguous - 1)]
      ELSE advanceContiguous(slid)

-----------------------------------------------------------------------------
(* Record, after `received` and `lastSeen` are updated, by its four ways   *)
(* to return.                                                              *)
IsRecovery(ps, seq)  == seq <= ps.highContiguous /\ seq \in ps.pendingLost
IsDuplicate(ps, seq) == \/ seq <= ps.highContiguous /\ seq \notin ps.pendingLost
                        \/ seq - ps.highContiguous - 1 \in ps.window
IsOverrun(ps, seq)   == seq - ps.highContiguous - 1 >= ReorderWindow
IsOutOfOrder(ps, seq) == seq < ps.lastSeen

Counted(ps, seq) ==
  [ps EXCEPT !.received   = @ + 1,
             !.outOfOrder = IF IsOutOfOrder(ps, seq) THEN @ + 1 ELSE @,
             !.lastSeen   = seq]

(* Mutant: a late delivery of a suspected loss stays lost.                 *)
RecoverIgnored(ps, seq) == ps

(* Mutant: one late delivery clears every suspected loss.                  *)
RecoverAll(ps, seq) == [ps EXCEPT !.pendingLost = {}, !.confirmedLost = 0]

Recover(ps, seq) ==
  [ps EXCEPT !.pendingLost   = @ \ {seq},
             !.confirmedLost = Cardinality(ps.pendingLost \ {seq})]

RecordExisting(ps, seq) ==
  LET c == Counted(ps, seq)
  IN  CASE IsRecovery(ps, seq)  -> Recover(c, seq)
        [] IsDuplicate(ps, seq) -> [c EXCEPT !.duplicates = @ + 1]
        [] IsOverrun(ps, seq)   -> slideWindow(c, seq)
        [] OTHER                -> advanceContiguous(
                                     [c EXCEPT !.window = @ \cup {seq - ps.highContiguous - 1}])
=============================================================================
