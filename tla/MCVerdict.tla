------------------------------ MODULE MCVerdict ------------------------------
(* Model-checking instances of Verdict: verdict*.cfg.  Every gate is met on *)
(* both sides of its threshold; the loss on it too (5 of 1000 records are  *)
(* the boundary of 0.5 %).                                                 *)
EXTENDS Verdict

MCLatencies ==
  { [p \in Percentiles |-> IF p \in slow THEN 9 ELSE 1] :
      slow \in {{}} \cup { {p} : p \in Percentiles } }
  \cup { [p \in Percentiles |-> 0] }

MCSnapshots ==
  [ sent : {0, 900, 1000}, received : {0, 1000}, lost : {0, 5, 6}, duplicated : {0, 1},
    errors : {0, 40}, corrupted : {0, 1}, latency : MCLatencies,
    downtime : {0, 2}, fidelity : 0 .. 1 ]

(* No baseline, and a peak that grows past the tolerated factor.           *)
MCMemory ==
  { [baseline |-> 0, peak |-> 21], [baseline |-> 10, peak |-> 10], [baseline |-> 10, peak |-> 21] }

MCDurations == {0, 12}

(* The defaults, and a configuration with a tolerated loss and lag.        *)
MCThresholds ==
  { [ loss |-> loss, duplication |-> 0, errorRate |-> 10, downtime |-> 100,
      latency |-> [p \in Percentiles |-> 8], throughput |-> 800, memoryGrowth |-> 2000,
      fidelity |-> [w \in FidelityWorkers |-> IF w = "offset_commit_lag" THEN 1 ELSE 0] ] :
    loss \in {0, 10} }
=============================================================================
