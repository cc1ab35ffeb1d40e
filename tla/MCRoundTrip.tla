----------------------------- MODULE MCRoundTrip -----------------------------
(* Model-checking instances of RoundTrip: round_trip*.cfg.  Partitions are *)
(* interchangeable: the client may append any record to any of them.       *)
EXTENDS RoundTrip, TLC

PartitionSymmetry == Permutations(Partitions)

(* A number this run does not reach.                                       *)
LeftRecords == {[producer |-> p, seq |-> MaxSeq] : p \in Producers}
=============================================================================
