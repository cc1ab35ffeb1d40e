------------------------- MODULE MCConsumerGroupLoss -------------------------
(* Model-checking instances of ConsumerGroupLoss: group_loss*.cfg.         *)
EXTENDS ConsumerGroupLoss
=============================================================================
