------------------------------ MODULE TrimPass ------------------------------
(***************************************************************************)
(* The trim pass scheduler (recovery/trim_pass.go): eat into an unresolved *)
(* extent from its left edge, in small clusters and then sector by sector, *)
(* until one sector failed FailureBudget times in a row; then from its     *)
(* right edge.  What lies between the two cursors is left for later.       *)
(***************************************************************************)
EXTENDS Integers

CONSTANTS SmallCluster,       \* sectors of an edge read
          FailureBudget       \* failures in a row that end an edge

ASSUME TrimPassAssumption == /\ SmallCluster \in Nat \ {0}
                             /\ FailureBudget \in Nat \ {0}

VARIABLES trimTarget,         \* Target: [start, end)
          trimLeft,           \* LeftCursor
          trimRight,          \* RightCursor
          trimMode,           \* Mode
          trimActive,         \* ActiveRequest: [start, end), empty when none
          trimLeftStreak,     \* LeftFailureStreak
          trimRightStreak,    \* RightFailureStreak
          trimReads           \* history: per sector, successful and failed reads

trimVars == <<trimTarget, trimLeft, trimRight, trimMode, trimActive,
              trimLeftStreak, trimRightStreak, trimReads>>

TrimPassMode == {"left_cluster", "left_single", "right_cluster",
                 "right_single", "done"}

Range2(r) == r.start .. r.end - 1

NoTrimRequest == [start |-> 0, end |-> 0]

(* Mutant: a cluster is a cluster, however little is left. *)
TrimSpanFull == SmallCluster

TrimSpan == IF trimRight - trimLeft > SmallCluster
            THEN SmallCluster ELSE trimRight - trimLeft

NextTrimPassRequest ==
    CASE trimMode = "left_cluster"  -> [start |-> trimLeft, end |-> trimLeft + TrimSpan]
      [] trimMode = "left_single"   -> [start |-> trimLeft, end |-> trimLeft + 1]
      [] trimMode = "right_cluster" -> [start |-> trimRight - TrimSpan, end |-> trimRight]
      [] trimMode = "right_single"  -> [start |-> trimRight - 1, end |-> trimRight]

----------------------------------------------------------------------------

StartTrimPass(target) ==
    /\ target.start < target.end
    /\ trimTarget = target
    /\ trimLeft = target.start
    /\ trimRight = target.end
    /\ trimMode = "left_cluster"
    /\ trimActive = NoTrimRequest
    /\ trimLeftStreak = 0
    /\ trimRightStreak = 0
    /\ trimReads = [s \in Range2(target) |-> [good |-> 0, bad |-> 0]]

DispatchTrimPass ==
    /\ trimActive = NoTrimRequest
    /\ trimMode # "done"
    /\ trimActive' = NextTrimPassRequest
    /\ UNCHANGED <<trimTarget, trimLeft, trimRight, trimMode, trimLeftStreak,
                   trimRightStreak, trimReads>>

FinishOrContinueTrim(left, right, preferred) ==
    /\ trimLeft' = left
    /\ trimRight' = right
    /\ trimMode' = IF left >= right THEN "done" ELSE preferred

Answered(result) ==
    /\ trimActive # NoTrimRequest
    /\ trimActive' = NoTrimRequest
    /\ trimReads' = [s \in DOMAIN trimReads |->
                       IF s \in Range2(trimActive)
                       THEN [trimReads[s] EXCEPT ![result] = @ + 1]
                       ELSE trimReads[s]]
    /\ UNCHANGED trimTarget

ResolveTrimLeftSuccess ==
    /\ trimMode \in {"left_cluster", "left_single"}
    /\ Answered("good")
    /\ FinishOrContinueTrim(trimLeft + (trimActive.end - trimActive.start),
                            trimRight, trimMode)
    /\ trimLeftStreak' = IF trimMode = "left_single" THEN 0 ELSE trimLeftStreak
    /\ UNCHANGED trimRightStreak

ResolveTrimRightSuccess ==
    /\ trimMode \in {"right_cluster", "right_single"}
    /\ Answered("good")
    /\ FinishOrContinueTrim(trimLeft,
                            trimRight - (trimActive.end - trimActive.start), trimMode)
    /\ trimRightStreak' = IF trimMode = "right_single" THEN 0 ELSE trimRightStreak
    /\ UNCHANGED trimLeftStreak

(* A failed cluster is read again sector by sector. *)
ResolveTrimLeftClusterFailure ==
    /\ trimMode = "left_cluster"
    /\ Answered("bad")
    /\ trimMode' = "left_single"
    /\ trimLeftStreak' = 0
    /\ UNCHANGED <<trimLeft, trimRight, trimRightStreak>>

ResolveTrimRightClusterFailure ==
    /\ trimMode = "right_cluster"
    /\ Answered("bad")
    /\ trimMode' = "right_single"
    /\ trimRightStreak' = 0
    /\ UNCHANGED <<trimLeft, trimRight, trimLeftStreak>>

(* The same sector is tried again until the budget is used up. *)
ResolveTrimLeftSingleFailure ==
    /\ trimMode = "left_single"
    /\ Answered("bad")
    /\ LET streak == trimLeftStreak + 1
           spent == streak >= FailureBudget
       IN /\ trimLeftStreak' = IF spent THEN 0 ELSE streak
          /\ FinishOrContinueTrim(trimLeft, trimRight,
                                  IF spent THEN "right_cluster" ELSE "left_single")
    /\ UNCHANGED trimRightStreak

ResolveTrimRightSingleFailure ==
    /\ trimMode = "right_single"
    /\ Answered("bad")
    /\ LET streak == trimRightStreak + 1
           spent == streak >= FailureBudget
       IN /\ trimRightStreak' = IF spent THEN 0 ELSE streak
          /\ FinishOrContinueTrim(trimLeft, trimRight,
                                  IF spent THEN "done" ELSE "right_single")
    /\ UNCHANGED trimLeftStreak

TrimPassNext ==
    \/ DispatchTrimPass
    \/ ResolveTrimLeftSuccess
    \/ ResolveTrimRightSuccess
    \/ ResolveTrimLeftClusterFailure
    \/ ResolveTrimRightClusterFailure
    \/ ResolveTrimLeftSingleFailure
    \/ ResolveTrimRightSingleFailure

TrimPassInit == \E target \in [start : Nat, end : Nat] : StartTrimPass(target)

TrimPassSpec == TrimPassInit /\ [][TrimPassNext]_trimVars

----------------------------------------------------------------------------

(* What the trim pass takes off its target was read, once, and what it     *)
(* leaves (RemainingTrimInterior) was not: the two edges never cross, no   *)
(* sector is given up for another pass after it was read, and none fails   *)
(* more often than in the cluster and the budget of single reads of each   *)
(* of the two edges.                                                       *)
TrimPassTakesOnlyRead ==
    \A s \in Range2(trimTarget) :
        /\ trimReads[s].good = IF s \in trimLeft .. trimRight - 1 THEN 0 ELSE 1
        /\ trimReads[s].bad <= 2 * (FailureBudget + 1)
=============================================================================
