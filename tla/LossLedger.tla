----------------------------- MODULE LossLedger -----------------------------
(***************************************************************************)
(* What a sequence tracker promises its callers about loss, without its    *)
(* watermark, window or counters: a ledger of suspected sequences.         *)
(*                                                                         *)
(* Whatever order the sequences of a source arrive in, a suspicion is      *)
(* withdrawn by the arrival of that very sequence and by nothing else, and *)
(* new suspicions are raised only by an arrival that is too far ahead,     *)
(* about sequences before it that have not arrived.  The one excuse: an    *)
(* arrival that was too far ahead may itself be suspected later.           *)
(***************************************************************************)
EXTENDS Naturals

CONSTANTS
  Sources,  \* whose sequences are tracked
  Numbers   \* the sequence numbers

VARIABLES
  arrived,    \* what arrived, by source
  suspected,  \* what is counted as lost, by source
  excused     \* the arrivals that were too far ahead, by source

vars == <<arrived, suspected, excused>>

Nothing == [p \in Sources |-> {}]

Init == arrived = Nothing /\ suspected = Nothing /\ excused = Nothing

Arrive(p, s) == arrived' = [arrived EXCEPT ![p] = @ \cup {s}]

(* A suspected sequence arrives after all.                                 *)
Late(p, s) ==
  /\ s \in suspected[p]
  /\ Arrive(p, s)
  /\ suspected' = [suspected EXCEPT ![p] = @ \ {s}]
  /\ UNCHANGED excused

(* A sequence that is not suspected arrives, in order, early or again.     *)
InTime(p, s) ==
  /\ s \notin suspected[p]
  /\ Arrive(p, s)
  /\ UNCHANGED <<suspected, excused>>

(* A sequence arrives too far ahead, and sequences before it are given up. *)
TooFar(p, s) ==
  /\ s \notin suspected[p]
  /\ Arrive(p, s)
  /\ excused' = [excused EXCEPT ![p] = @ \cup {s}]
  /\ \E lost \in SUBSET {n \in Numbers : n < s} :
       /\ lost \cap arrived[p] \subseteq excused[p]
       /\ suspected' = [suspected EXCEPT ![p] = @ \cup lost]

(* The measurement starts: everything is forgotten.                        *)
Forget == arrived' = Nothing /\ suspected' = Nothing /\ excused' = Nothing

Next ==
  \/ \E p \in Sources, s \in Numbers : Late(p, s) \/ InTime(p, s) \/ TooFar(p, s)
  \/ Forget

Spec == Init /\ [][Next]_vars
=============================================================================
