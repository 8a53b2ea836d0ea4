--------------------------- MODULE MCAppRecovery ---------------------------
(* The pages of a recovery, model-checked on small bounds. *)
EXTENDS AppRecovery
=============================================================================
