-------------------------- MODULE MCSequenceTracker --------------------------
(* Model-checking instances of SequenceTracker: tracker*.cfg.              *)
EXTENDS SequenceTracker
=============================================================================
