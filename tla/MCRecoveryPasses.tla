-------------------------- MODULE MCRecoveryPasses --------------------------
(* Instances of RecoveryPasses for TLC: the constants are in the .cfg files. *)
EXTENDS RecoveryPasses
=============================================================================
