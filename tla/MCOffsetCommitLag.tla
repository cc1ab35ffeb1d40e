-------------------------- MODULE MCOffsetCommitLag --------------------------
(* Model-checking instances of OffsetCommitLag: offset_lag*.cfg.           *)
EXTENDS OffsetCommitLag
=============================================================================
