--------------------------- MODULE MCCoordinator ---------------------------
(* Coordinator for TLC: a few runs of a few tokens each. *)
EXTENDS Coordinator
============================================================================
