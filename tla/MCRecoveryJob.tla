--------------------------- MODULE MCRecoveryJob ---------------------------
(* RecoveryJob for TLC: a few reads, a few stop requests. *)
EXTENDS RecoveryJob
============================================================================
