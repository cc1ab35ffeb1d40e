-------------------------- MODULE MCTransactionsEOS --------------------------
(* Model-checking instance of TransactionsEOS: transactions_eos.cfg.       *)
(* Partitions are interchangeable: the client may append any record to any *)
(* of them.                                                                *)
EXTENDS TransactionsEOS, TLC

PartitionSymmetry == Permutations(Partitions)

(* Committed by an earlier run: a number this run commits as well, and one *)
(* it reaches only if it commits two transactions.                         *)
EarlierStates == <<"committed">>
LeftRecords   == { [stamp |-> "commit", seq |-> s, txn |-> 1] : s \in {2, MaxSeq} }
=============================================================================
