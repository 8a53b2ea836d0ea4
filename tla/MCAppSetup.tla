----------------------------- MODULE MCAppSetup -----------------------------
(* The pages that set a recovery up, model-checked on small bounds. *)
EXTENDS AppSetup
=============================================================================
