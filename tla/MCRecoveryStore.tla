-------------------------- MODULE MCRecoveryStore --------------------------
(* Instances of RecoveryStore for TLC: the constants are in the .cfg files. *)
EXTENDS RecoveryStore
============================================================================
