-------------------------- MODULE DurableProgress --------------------------
(***************************************************************************)
(* What a recovery promises about stable storage, whatever happens to the  *)
(* process or the machine: sectors become stored, and stored sectors       *)
(* become claimed.  Neither is ever taken back, and nothing is claimed in  *)
(* the step that stores it: the claim is written after the data.           *)
(***************************************************************************)
CONSTANT Sectors

VARIABLES
    stored,   \* sectors whose recovered bytes are on stable storage
    claimed   \* sectors the recovery map on stable storage promises

Init == stored = {} /\ claimed = {}

Advance ==
    /\ stored \subseteq stored' /\ stored' \subseteq Sectors
    /\ claimed \subseteq claimed' /\ claimed' \subseteq stored

Spec == Init /\ [][Advance]_<<stored, claimed>>
============================================================================
