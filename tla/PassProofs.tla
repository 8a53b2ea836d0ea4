------------------------------ MODULE PassProofs ------------------------------
(***************************************************************************)
(* Proofs about the machines that call no other part of the program: the   *)
(* schedulers of the trim pass, the fast pass, the adaptive pass and the   *)
(* scrape pass, for media of any size and for every policy; the order in   *)
(* which a stopping session is finalized; and the merge of any number of   *)
(* captures.                                                               *)
(***************************************************************************)
EXTENDS FastPass, TrimPass, AdaptivePass, ScrapePass, StopController, Merge,
        WellFoundedInduction, SequenceTheorems, FiniteSetTheorems, FunctionTheorems, TLAPS

----------------------------------------------------------------------------
(* The trim pass. *)

TrimTypeOK ==
    /\ trimTarget \in [start : Nat, end : Nat]
    /\ trimLeft \in Int /\ trimRight \in Int
    /\ trimMode \in TrimPassMode
    /\ trimActive \in [start : Int, end : Int]
    /\ trimLeftStreak \in Nat /\ trimRightStreak \in Nat
    /\ trimReads \in [Range2(trimTarget) -> [good : Nat, bad : Nat]]

(* The cursors stay in the target, apart while the pass goes on; and the   *)
(* read under way is the one the state asks for.                           *)
TrimCursors ==
    /\ trimTarget.start <= trimLeft /\ trimLeft <= trimRight
    /\ trimRight <= trimTarget.end
    /\ trimMode # "done" => trimLeft < trimRight
    /\ trimActive # NoTrimRequest =>
         trimMode # "done" /\ trimActive = NextTrimPassRequest

(* How often a sector between the cursors may have failed by now. *)
FailuresSoFar(s) ==
    CASE trimMode = "left_cluster"  -> 0
      [] trimMode = "left_single"   -> IF s = trimLeft THEN 1 + trimLeftStreak ELSE 1
      [] trimMode = "right_cluster" -> 1 + FailureBudget
      [] trimMode = "right_single"  -> IF s = trimRight - 1
                                       THEN FailureBudget + 2 + trimRightStreak
                                       ELSE FailureBudget + 2
      [] trimMode = "done"          -> 2 * (FailureBudget + 1)

TrimCounts ==
    /\ \A s \in Range2(trimTarget) :
         /\ trimReads[s].good = IF s \in trimLeft .. trimRight - 1 THEN 0 ELSE 1
         /\ trimReads[s].bad <= 2 * (FailureBudget + 1)
         /\ s \in trimLeft .. trimRight - 1 => trimReads[s].bad <= FailuresSoFar(s)
    /\ trimMode = "left_single" => trimLeftStreak < FailureBudget
    /\ trimMode = "right_single" => trimRightStreak < FailureBudget

TrimInv == TrimTypeOK /\ TrimCursors /\ TrimCounts

(* What an answered read does to the counts. *)
LEMMA AnsweredFacts ==
  ASSUME TrimInv, NEW result \in {"good", "bad"}, Answered(result)
  PROVE  /\ trimActive = NextTrimPassRequest /\ trimMode # "done"
         /\ trimActive' = NoTrimRequest /\ trimTarget' = trimTarget
         /\ trimReads' \in [Range2(trimTarget) -> [good : Nat, bad : Nat]]
         /\ \A s \in Range2(trimTarget) :
              /\ trimReads'[s].good = trimReads[s].good +
                   (IF result = "good" /\ s \in Range2(trimActive) THEN 1 ELSE 0)
              /\ trimReads'[s].bad = trimReads[s].bad +
                   (IF result = "bad" /\ s \in Range2(trimActive) THEN 1 ELSE 0)
<1>1. /\ trimActive = NextTrimPassRequest /\ trimMode # "done"
      /\ trimActive' = NoTrimRequest /\ trimTarget' = trimTarget
  BY DEF Answered, TrimInv, TrimCursors
<1>2. trimReads \in [Range2(trimTarget) -> [good : Nat, bad : Nat]]
  BY DEF TrimInv, TrimTypeOK
<1>3. trimReads' = [s \in Range2(trimTarget) |->
                      IF s \in Range2(trimActive)
                      THEN [trimReads[s] EXCEPT ![result] = @ + 1]
                      ELSE trimReads[s]]
  BY <1>2 DEF Answered
<1>4. CASE result = "good"
  BY <1>1, <1>2, <1>3, <1>4
<1>5. CASE result = "bad"
  BY <1>1, <1>2, <1>3, <1>5
<1> QED BY <1>4, <1>5

(* The range of the next read, as the cursors have it. *)
LEMMA NextRange ==
  ASSUME TrimTypeOK, TrimCursors, trimMode # "done"
  PROVE  /\ TrimSpan \in Nat /\ 1 <= TrimSpan /\ TrimSpan <= trimRight - trimLeft
         /\ trimMode = "left_cluster" =>
              NextTrimPassRequest = [start |-> trimLeft, end |-> trimLeft + TrimSpan]
         /\ trimMode = "left_single" =>
              NextTrimPassRequest = [start |-> trimLeft, end |-> trimLeft + 1]
         /\ trimMode = "right_cluster" =>
              NextTrimPassRequest = [start |-> trimRight - TrimSpan, end |-> trimRight]
         /\ trimMode = "right_single" =>
              NextTrimPassRequest = [start |-> trimRight - 1, end |-> trimRight]
         /\ NextTrimPassRequest \in [start : Int, end : Int]
<1>1. /\ TrimSpan \in Nat /\ 1 <= TrimSpan /\ TrimSpan <= trimRight - trimLeft
  BY TrimPassAssumption DEF TrimTypeOK, TrimCursors, TrimSpan
<1>2. trimLeft \in Int /\ trimRight \in Int /\ trimMode \in TrimPassMode
  BY DEF TrimTypeOK
<1> QED BY <1>1, <1>2 DEF NextTrimPassRequest, TrimPassMode

(* The read under way takes n sectors off one edge. *)
LEMMA ActiveRange ==
  ASSUME TrimInv, trimActive = NextTrimPassRequest, trimMode # "done"
  PROVE  \E n \in 1 .. trimRight - trimLeft :
           /\ trimMode \in {"left_cluster", "left_single"} =>
                /\ trimActive.end - trimActive.start = n
                /\ Range2(trimActive) = trimLeft .. trimLeft + n - 1
           /\ trimMode \in {"right_cluster", "right_single"} =>
                /\ trimActive.end - trimActive.start = n
                /\ Range2(trimActive) = trimRight - n .. trimRight - 1
           /\ trimMode \in {"left_single", "right_single"} => n = 1
<1>1. /\ trimLeft \in Int /\ trimRight \in Int /\ trimMode \in TrimPassMode
      /\ trimLeft < trimRight /\ TrimSpan \in 1 .. trimRight - trimLeft
  BY NextRange DEF TrimInv, TrimTypeOK, TrimCursors
<1>2. CASE trimMode = "left_cluster"
  <2>1. trimActive.start = trimLeft /\ trimActive.end = trimLeft + TrimSpan
    BY <1>2, NextRange DEF TrimInv
  <2> QED BY <1>1, <1>2, <2>1 DEF Range2
<1>3. CASE trimMode = "left_single"
  <2>1. trimActive.start = trimLeft /\ trimActive.end = trimLeft + 1
    BY <1>3, NextRange DEF TrimInv
  <2> QED BY <1>1, <1>3, <2>1 DEF Range2
<1>4. CASE trimMode = "right_cluster"
  <2>1. trimActive.start = trimRight - TrimSpan /\ trimActive.end = trimRight
    BY <1>4, NextRange DEF TrimInv
  <2> QED BY <1>1, <1>4, <2>1 DEF Range2
<1>5. CASE trimMode = "right_single"
  <2>1. trimActive.start = trimRight - 1 /\ trimActive.end = trimRight
    BY <1>5, NextRange DEF TrimInv
  <2> QED BY <1>1, <1>5, <2>1 DEF Range2
<1> QED BY <1>1, <1>2, <1>3, <1>4, <1>5 DEF TrimPassMode

LEMMA TrimDispatch ==
  ASSUME TrimInv, DispatchTrimPass
  PROVE  TrimInv'
<1>1. /\ UNCHANGED <<trimTarget, trimLeft, trimRight, trimMode, trimLeftStreak,
                     trimRightStreak, trimReads>>
      /\ trimMode # "done" /\ trimActive' = NextTrimPassRequest
  BY DEF DispatchTrimPass
<1>2. NextTrimPassRequest' = NextTrimPassRequest
  BY <1>1 DEF NextTrimPassRequest, TrimSpan
<1>3. TrimTypeOK'
  BY <1>1, NextRange DEF TrimInv, TrimTypeOK
<1>4. TrimCursors'
  BY <1>1, <1>2 DEF TrimInv, TrimCursors
<1>5. TrimCounts'
  BY <1>1 DEF TrimInv, TrimCounts, FailuresSoFar
<1> QED BY <1>3, <1>4, <1>5 DEF TrimInv

(* A successful read moves an edge over what it read. *)
LEMMA TrimSuccess ==
  ASSUME TrimInv, ResolveTrimLeftSuccess \/ ResolveTrimRightSuccess
  PROVE  TrimInv'
<1>1. /\ trimLeft \in Int /\ trimRight \in Int /\ trimMode \in TrimPassMode
      /\ trimTarget \in [start : Nat, end : Nat] /\ FailureBudget \in Nat \ {0}
      /\ trimLeftStreak \in Nat /\ trimRightStreak \in Nat
      /\ trimTarget.start <= trimLeft /\ trimRight <= trimTarget.end
  BY TrimPassAssumption DEF TrimInv, TrimTypeOK, TrimCursors
<1>2. Answered("good")
  BY DEF ResolveTrimLeftSuccess, ResolveTrimRightSuccess
<1>3. /\ trimActive = NextTrimPassRequest /\ trimMode # "done"
      /\ trimActive' = NoTrimRequest /\ trimTarget' = trimTarget
      /\ trimReads' \in [Range2(trimTarget) -> [good : Nat, bad : Nat]]
      /\ \A s \in Range2(trimTarget) :
           /\ trimReads'[s].good = trimReads[s].good + (IF s \in Range2(trimActive) THEN 1 ELSE 0)
           /\ trimReads'[s].bad = trimReads[s].bad
  <2>1. \A s \in Range2(trimTarget) : trimReads[s].bad \in Nat
    BY DEF TrimInv, TrimTypeOK
  <2> QED BY <1>2, <2>1, AnsweredFacts
<1>4. PICK n \in 1 .. trimRight - trimLeft :
        /\ trimMode \in {"left_cluster", "left_single"} =>
             /\ trimActive.end - trimActive.start = n
             /\ Range2(trimActive) = trimLeft .. trimLeft + n - 1
        /\ trimMode \in {"right_cluster", "right_single"} =>
             /\ trimActive.end - trimActive.start = n
             /\ Range2(trimActive) = trimRight - n .. trimRight - 1
        /\ trimMode \in {"left_single", "right_single"} => n = 1
  BY <1>3, ActiveRange
<1>5. PICK left \in Int, right \in Int :
        /\ trimLeft' = left /\ trimRight' = right
        /\ \/ /\ trimMode \in {"left_cluster", "left_single"}
              /\ left = trimLeft + n /\ right = trimRight
           \/ /\ trimMode \in {"right_cluster", "right_single"}
              /\ left = trimLeft /\ right = trimRight - n
  <2>1. \/ /\ trimMode \in {"left_cluster", "left_single"}
           /\ trimLeft' = trimLeft + n /\ trimRight' = trimRight
        \/ /\ trimMode \in {"right_cluster", "right_single"}
           /\ trimLeft' = trimLeft /\ trimRight' = trimRight - n
    BY <1>4 DEF ResolveTrimLeftSuccess, ResolveTrimRightSuccess, FinishOrContinueTrim
  <2> QED BY <1>1, <2>1
<1>6. /\ trimLeft' \in Int /\ trimRight' \in Int
      /\ trimLeft <= trimLeft' /\ trimLeft' <= trimRight' /\ trimRight' <= trimRight
      /\ trimMode = "left_single" => trimLeft' = trimLeft + 1
      /\ trimMode = "right_single" => trimRight' = trimRight - 1
  BY <1>1, <1>4, <1>5
<1>7. /\ \A s \in Int : s \in trimLeft .. trimRight - 1 =>
           (s \in Range2(trimActive) <=> s \notin trimLeft' .. trimRight' - 1)
      /\ \A s \in Int : s \in Range2(trimActive) => s \in trimLeft .. trimRight - 1
  BY <1>1, <1>4, <1>5
<1>8. /\ trimMode' = IF trimLeft' >= trimRight' THEN "done" ELSE trimMode
      /\ trimLeftStreak' \in Nat /\ trimLeftStreak' <= trimLeftStreak
      /\ trimRightStreak' \in Nat /\ trimRightStreak' <= trimRightStreak
      /\ trimMode = "left_single" => trimLeftStreak' = 0 /\ trimRight' = trimRight
      /\ trimMode = "right_single" => trimRightStreak' = 0 /\ trimLeft' = trimLeft
  BY <1>1 DEF ResolveTrimLeftSuccess, ResolveTrimRightSuccess, FinishOrContinueTrim
<1>9. TrimTypeOK'
  BY <1>1, <1>3, <1>6, <1>8 DEF TrimTypeOK, TrimPassMode, NoTrimRequest
<1>10. TrimCursors'
  BY <1>1, <1>3, <1>6, <1>8 DEF TrimCursors
<1>11. TrimCounts'
  <2>1. ASSUME NEW s \in Range2(trimTarget)
        PROVE  /\ trimReads'[s].good = IF s \in trimLeft' .. trimRight' - 1 THEN 0 ELSE 1
               /\ trimReads'[s].bad <= 2 * (FailureBudget + 1)
    <3>1. s \in Int /\ trimReads[s].good \in Nat /\ trimReads[s].bad \in Nat
      BY <1>1 DEF Range2, TrimInv, TrimTypeOK
    <3>2. /\ trimReads[s].good = IF s \in trimLeft .. trimRight - 1 THEN 0 ELSE 1
          /\ trimReads[s].bad <= 2 * (FailureBudget + 1)
      BY DEF TrimInv, TrimCounts
    <3>3. /\ trimReads'[s].good = trimReads[s].good +
               (IF s \in Range2(trimActive) THEN 1 ELSE 0)
          /\ trimReads'[s].bad = trimReads[s].bad
      BY <1>3
    <3>4. CASE s \in trimLeft .. trimRight - 1
      <4>1. s \in Range2(trimActive) <=> s \notin trimLeft' .. trimRight' - 1
        BY <1>7, <3>1, <3>4
      <4> QED BY <3>1, <3>2, <3>3, <3>4, <4>1
    <3>5. CASE s \notin trimLeft .. trimRight - 1
      <4>1. s \notin Range2(trimActive)
        BY <1>7, <3>1, <3>5
      <4>2. s < trimLeft \/ trimRight <= s
        BY <1>1, <3>1, <3>5
      <4>3. s \notin left .. right - 1
        BY <1>1, <1>5, <3>1, <4>2
      <4>4. s \notin trimLeft' .. trimRight' - 1
        BY <1>5, <4>3
      <4> QED BY <3>1, <3>2, <3>3, <3>5, <4>1, <4>4
    <3> QED BY <3>4, <3>5
  <2>2. ASSUME NEW s \in Range2(trimTarget), s \in trimLeft' .. trimRight' - 1
        PROVE  trimReads'[s].bad <= FailuresSoFar(s)'
    <3>1. s \in Int
      BY <1>1 DEF Range2
    <3>2. s \in left .. right - 1
      BY <1>5, <2>2
    <3>3. trimLeft' <= s /\ s < trimRight'
      BY <1>5, <3>1, <3>2
    <3>4. trimMode' = trimMode
      BY <1>6, <1>8, <3>1, <3>3
    <3>5. trimLeft <= s /\ s < trimRight
      BY <1>1, <1>6, <3>1, <3>3
    <3>6. s \in Int /\ s \in trimLeft .. trimRight - 1 /\ trimMode' = trimMode
      BY <1>1, <3>1, <3>4, <3>5
    <3>7. trimReads'[s].bad <= FailuresSoFar(s) /\ trimReads[s].bad \in Nat
      BY <1>3, <3>6 DEF TrimInv, TrimCounts, TrimTypeOK
    <3>8. s # trimLeft \/ trimLeft' = trimLeft
      BY <1>1, <1>6, <2>2, <3>6
    <3>9. CASE trimMode = "left_single"
      <4>1. trimReads'[s].bad <= 1
        <5>1. s # trimLeft
          BY <1>1, <1>6, <2>2, <3>6, <3>9
        <5> QED BY <3>7, <3>9, <5>1 DEF FailuresSoFar
      <4> QED BY <1>8, <3>6, <3>9, <4>1 DEF FailuresSoFar
    <3>10. CASE trimMode = "right_single"
      <4>1. s # trimRight - 1
        BY <1>1, <1>6, <2>2, <3>6, <3>10
      <4>2. trimReads'[s].bad <= FailureBudget + 2
        BY <3>7, <3>10, <4>1 DEF FailuresSoFar
      <4> QED BY <1>1, <1>8, <3>6, <3>7, <3>10, <4>2, <1>3 DEF FailuresSoFar
    <3>11. CASE trimMode \in {"left_cluster", "right_cluster"}
      BY <3>6, <3>7, <3>11 DEF FailuresSoFar
    <3> QED BY <1>1, <1>3, <3>9, <3>10, <3>11 DEF TrimPassMode
  <2>3. /\ trimMode' = "left_single" => trimLeftStreak' < FailureBudget
        /\ trimMode' = "right_single" => trimRightStreak' < FailureBudget
    BY <1>1, <1>8 DEF TrimInv, TrimCounts
  <2> QED BY <1>3, <2>1, <2>2, <2>3 DEF TrimCounts
<1> QED BY <1>9, <1>10, <1>11 DEF TrimInv

(* A failed read leaves the edges alone. *)
LEMMA TrimFailure ==
  ASSUME TrimInv,
         \/ ResolveTrimLeftClusterFailure \/ ResolveTrimRightClusterFailure
         \/ ResolveTrimLeftSingleFailure \/ ResolveTrimRightSingleFailure
  PROVE  TrimInv'
<1>1. /\ trimLeft \in Int /\ trimRight \in Int /\ trimMode \in TrimPassMode
      /\ trimTarget \in [start : Nat, end : Nat] /\ FailureBudget \in Nat \ {0}
      /\ trimLeftStreak \in Nat /\ trimRightStreak \in Nat
      /\ trimTarget.start <= trimLeft /\ trimRight <= trimTarget.end
      /\ trimLeft < trimRight
  BY TrimPassAssumption DEF TrimInv, TrimTypeOK, TrimCursors, ResolveTrimLeftClusterFailure,
     ResolveTrimRightClusterFailure, ResolveTrimLeftSingleFailure,
     ResolveTrimRightSingleFailure
<1>2. Answered("bad")
  BY DEF ResolveTrimLeftClusterFailure, ResolveTrimRightClusterFailure,
     ResolveTrimLeftSingleFailure, ResolveTrimRightSingleFailure
<1>3. /\ trimActive = NextTrimPassRequest /\ trimMode # "done"
      /\ trimActive' = NoTrimRequest /\ trimTarget' = trimTarget
      /\ trimReads' \in [Range2(trimTarget) -> [good : Nat, bad : Nat]]
      /\ \A s \in Range2(trimTarget) :
           /\ trimReads'[s].good = trimReads[s].good
           /\ trimReads'[s].bad = trimReads[s].bad + (IF s \in Range2(trimActive) THEN 1 ELSE 0)
  <2>1. \A s \in Range2(trimTarget) : trimReads[s].good \in Nat
    BY DEF TrimInv, TrimTypeOK
  <2> QED BY <1>2, <2>1, AnsweredFacts
<1>4. trimLeft' = trimLeft /\ trimRight' = trimRight
  BY DEF ResolveTrimLeftClusterFailure, ResolveTrimRightClusterFailure,
     ResolveTrimLeftSingleFailure, ResolveTrimRightSingleFailure, FinishOrContinueTrim
<1>5. \/ /\ trimMode = "left_cluster" /\ trimMode' = "left_single"
         /\ trimLeftStreak' = 0 /\ trimRightStreak' = trimRightStreak
      \/ /\ trimMode = "right_cluster" /\ trimMode' = "right_single"
         /\ trimRightStreak' = 0 /\ trimLeftStreak' = trimLeftStreak
      \/ /\ trimMode = "left_single" /\ trimRightStreak' = trimRightStreak
         /\ IF trimLeftStreak + 1 >= FailureBudget
            THEN trimMode' = "right_cluster" /\ trimLeftStreak' = 0
            ELSE trimMode' = "left_single" /\ trimLeftStreak' = trimLeftStreak + 1
      \/ /\ trimMode = "right_single" /\ trimLeftStreak' = trimLeftStreak
         /\ IF trimRightStreak + 1 >= FailureBudget
            THEN trimMode' = "done" /\ trimRightStreak' = 0
            ELSE trimMode' = "right_single" /\ trimRightStreak' = trimRightStreak + 1
  BY <1>1 DEF ResolveTrimLeftClusterFailure, ResolveTrimRightClusterFailure,
     ResolveTrimLeftSingleFailure, ResolveTrimRightSingleFailure, FinishOrContinueTrim
<1>6. TrimTypeOK'
  BY <1>1, <1>3, <1>4, <1>5 DEF TrimTypeOK, TrimPassMode, NoTrimRequest
<1>7. TrimCursors'
  BY <1>1, <1>3, <1>4 DEF TrimInv, TrimCursors
<1>8. TrimCounts'
  <2>1. ASSUME NEW s \in Range2(trimTarget)
        PROVE  /\ trimReads'[s].good = IF s \in trimLeft .. trimRight - 1 THEN 0 ELSE 1
               /\ s \in trimLeft .. trimRight - 1 =>
                    trimReads'[s].bad <= FailuresSoFar(s)' /\ trimReads'[s].bad <= 2 * (FailureBudget + 1)
               /\ trimReads'[s].bad <= 2 * (FailureBudget + 1)
    <3>1. /\ s \in Int /\ trimReads[s].bad \in Nat /\ trimReads'[s].bad \in Nat
      BY <1>1, <1>3 DEF Range2, TrimInv, TrimTypeOK
    <3>2. trimReads'[s].good = IF s \in trimLeft .. trimRight - 1 THEN 0 ELSE 1
      BY <1>3 DEF TrimInv, TrimCounts
    <3>3. CASE s \notin trimLeft .. trimRight - 1
      <4>1. s \notin Range2(trimActive)
        <5>1. PICK n \in 1 .. trimRight - trimLeft :
                /\ trimMode \in {"left_cluster", "left_single"} =>
                     Range2(trimActive) = trimLeft .. trimLeft + n - 1
                /\ trimMode \in {"right_cluster", "right_single"} =>
                     Range2(trimActive) = trimRight - n .. trimRight - 1
          BY <1>3, ActiveRange
        <5>2. trimLeft \in Int /\ trimRight \in Int /\ n \in Int /\ n <= trimRight - trimLeft
          BY <1>1, <1>3, <5>1
        <5>3. CASE trimMode \in {"left_cluster", "left_single"}
          BY <3>1, <3>3, <5>1, <5>2, <5>3
        <5>4. CASE trimMode \in {"right_cluster", "right_single"}
          BY <3>1, <3>3, <5>1, <5>2, <5>4
        <5> QED BY <1>1, <1>3, <5>3, <5>4 DEF TrimPassMode
      <4> QED BY <1>1, <1>3, <3>1, <3>2, <3>3, <4>1 DEF TrimInv, TrimCounts
    <3>4. CASE s \in trimLeft .. trimRight - 1
      <4>1. /\ trimReads[s].bad <= FailuresSoFar(s)
            /\ trimMode = "left_single" => trimLeftStreak < FailureBudget
            /\ trimMode = "right_single" => trimRightStreak < FailureBudget
        BY <3>4 DEF TrimInv, TrimCounts
      <4>2. /\ trimMode = "left_single" => (s \in Range2(trimActive) <=> s = trimLeft)
            /\ trimMode = "right_single" => (s \in Range2(trimActive) <=> s = trimRight - 1)
        BY <1>1, <1>3, <3>1, NextRange DEF TrimInv, Range2
      <4>3. CASE trimMode = "left_cluster"
        BY <1>1, <1>3, <1>4, <1>5, <3>1, <3>2, <4>1, <4>3 DEF FailuresSoFar
      <4>4. CASE trimMode = "left_single"
        BY <1>1, <1>3, <1>4, <1>5, <3>1, <3>2, <4>1, <4>2, <4>4 DEF FailuresSoFar
      <4>5. CASE trimMode = "right_cluster"
        BY <1>1, <1>3, <1>4, <1>5, <3>1, <3>2, <4>1, <4>5 DEF FailuresSoFar
      <4>6. CASE trimMode = "right_single"
        BY <1>1, <1>3, <1>4, <1>5, <3>1, <3>2, <4>1, <4>2, <4>6 DEF FailuresSoFar
      <4> QED BY <1>1, <1>3, <4>3, <4>4, <4>5, <4>6 DEF TrimPassMode
    <3> QED BY <3>3, <3>4
  <2>2. /\ trimMode' = "left_single" => trimLeftStreak' < FailureBudget
        /\ trimMode' = "right_single" => trimRightStreak' < FailureBudget
    BY <1>1, <1>5 DEF TrimInv, TrimCounts
  <2> QED BY <1>3, <1>4, <2>1, <2>2 DEF TrimCounts
<1> QED BY <1>6, <1>7, <1>8 DEF TrimInv

LEMMA TrimInvInit == TrimPassInit => TrimInv
<1> SUFFICES ASSUME NEW target \in [start : Nat, end : Nat], StartTrimPass(target)
             PROVE  TrimInv
  BY DEF TrimPassInit
<1>1. /\ trimTarget = target /\ target.start < target.end
      /\ trimLeft = target.start /\ trimRight = target.end
      /\ trimMode = "left_cluster" /\ trimActive = NoTrimRequest
      /\ trimLeftStreak = 0 /\ trimRightStreak = 0
      /\ trimReads = [s \in Range2(target) |-> [good |-> 0, bad |-> 0]]
      /\ target.start \in Nat /\ target.end \in Nat
  BY DEF StartTrimPass
<1>2. TrimTypeOK
  BY <1>1 DEF TrimTypeOK, TrimPassMode, NoTrimRequest
<1>3. TrimCursors
  BY <1>1 DEF TrimCursors
<1>4. TrimCounts
  BY <1>1, TrimPassAssumption DEF TrimCounts, FailuresSoFar, Range2
<1> QED BY <1>2, <1>3, <1>4 DEF TrimInv

LEMMA TrimInvStep == TrimInv /\ [TrimPassNext]_trimVars => TrimInv'
<1> SUFFICES ASSUME TrimInv, [TrimPassNext]_trimVars PROVE TrimInv'
  OBVIOUS
<1>1. CASE TrimPassNext
  BY <1>1, TrimDispatch, TrimSuccess, TrimFailure DEF TrimPassNext
<1>2. CASE UNCHANGED trimVars
  BY <1>2 DEF trimVars, TrimInv, TrimTypeOK, TrimCursors, TrimCounts, NextTrimPassRequest,
     TrimSpan, FailuresSoFar
<1> QED BY <1>1, <1>2

(* For every target, cluster size and failure budget: what the trim pass   *)
(* takes off was read exactly once, what it leaves was not read, and no    *)
(* sector failed more often than both edges together allow                 *)
(* (ResolveTrimPass, finishOrContinueTrimPass).                            *)
THEOREM TrimIsExact == TrimPassSpec => []TrimPassTakesOnlyRead
<1>1. TrimInv => TrimPassTakesOnlyRead
  BY DEF TrimInv, TrimCounts, TrimPassTakesOnlyRead
<1> QED BY <1>1, TrimInvInit, TrimInvStep, PTL DEF TrimPassSpec

----------------------------------------------------------------------------
(* The fast pass. *)

FastTypeOK ==
    /\ fastExtents \in SectorMaps
    /\ fastCursor \in Nat /\ fastBoundary \in Nat
    /\ fastMode \in FastPassMode
    /\ fastActive \in Request \cup {NoRequest}
    /\ fastCheckpoint \in BOOLEAN
    /\ fastRead \subseteq Sectors

(* What lies behind the cursor is settled, and nothing before it was read. *)
BehindCursor ==
    /\ \A s \in fastRead : fastExtents[s].state = "unknown" /\ s < fastCursor
    /\ \A s \in Sectors :
         s < fastCursor /\ fastExtents[s].state = "unknown" => s \in fastRead

(* The read under way is of the first unknown sectors there are. *)
ActiveIsNext ==
    fastActive # NoRequest =>
        /\ fastActive \in Request
        /\ fastMode \in {"cluster", "single"}
        /\ fastCursor <= fastActive.start
        /\ RequestEnd(fastActive) <= CapacitySectors
        /\ \A s \in fastActive.start .. RequestEnd(fastActive) - 1 : Schedulable(s)
        /\ \A s \in fastCursor .. fastActive.start - 1 : ~Schedulable(s)
        /\ fastMode = "single" =>
             fastActive.sectors = 1 /\ fastActive.start < fastBoundary

(* Sector by sector only where there is one left, and the end only where   *)
(* there is none.                                                          *)
ModeFits ==
    /\ fastMode = "single" /\ fastActive = NoRequest =>
         \E s \in Sectors : Schedulable(s) /\ fastCursor <= s /\ s < fastBoundary
    /\ fastMode \in {"checkpoint", "done"} =>
         \A s \in Sectors : fastCursor <= s => ~Schedulable(s)
    /\ fastCheckpoint => fastMode = "checkpoint" /\ fastActive = NoRequest

FastInv == FastTypeOK /\ BehindCursor /\ ActiveIsNext /\ ModeFits

Less == {pair \in Nat \X Nat : pair[1] < pair[2]}

LEMMA LeastNumber ==
  ASSUME NEW T \in SUBSET Nat, T # {}
  PROVE  \E m \in T : \A n \in T : m <= n
<1>1. IsWellFoundedOn(Less, Nat)
  BY NatLessThanWellFounded DEF OpToRel, Less
<1>2. PICK m \in T : \A n \in T : <<n, m>> \notin Less
  BY <1>1, WFMin
<1>3. ASSUME NEW n \in T PROVE m <= n
  <2>1. <<n, m>> \notin Less /\ n \in Nat /\ m \in Nat
    BY <1>2
  <2>2. <<n, m>> \in Nat \X Nat /\ <<n, m>>[1] = n /\ <<n, m>>[2] = m
    BY <2>1
  <2>3. ~(n < m)
    BY <2>1, <2>2 DEF Less
  <2> QED BY <2>1, <2>3
<1> QED BY <1>3

(* The first unknown sector exists if there is any, and so does its        *)
(* cluster: the scheduler is stuck only when nothing is left.              *)
LEMMA FirstExists ==
  ASSUME FastTypeOK, NEW t \in Sectors, Schedulable(t), fastCursor <= t
  PROVE  \E s \in Sectors : FirstSchedulable(s) /\ s <= t
<1> DEFINE Left == {s \in Sectors : Schedulable(s) /\ fastCursor <= s}
<1>1. Left \subseteq Nat /\ t \in Left
  BY CapacityAssumption DEF Sectors
<1>2. PICK s \in Left : \A r \in Left : s <= r
  BY <1>1, LeastNumber
<1>3. \A r \in fastCursor .. s - 1 : ~Schedulable(r)
  BY <1>1, <1>2, CapacityAssumption DEF FastTypeOK, Sectors, Schedulable
<1> QED BY <1>1, <1>2, <1>3 DEF FirstSchedulable

LEMMA ClusterExists ==
  ASSUME NEW s \in Sectors
  PROVE  \E n \in 1 .. CapacitySectors :
           /\ OneExtent(s, n) /\ n <= ClusterSize
           /\ n = ClusterSize \/ ~OneExtent(s, n + 1)
<1> DEFINE Ends == {n \in Nat \ {0} : n = ClusterSize \/ ~OneExtent(s, n + 1)}
<1>1. ClusterSize \in Ends /\ Ends \subseteq Nat
  BY FastPassAssumption
<1>2. PICK n \in Ends : \A m \in Ends : n <= m
  BY <1>1, LeastNumber
<1>3. n \in Nat \ {0} /\ n <= ClusterSize
  BY <1>1, <1>2
<1>4. OneExtent(s, n)
  <2>1. CASE n = 1
    BY <2>1, CapacityAssumption DEF OneExtent, Sectors
  <2>2. CASE n # 1
    <3>1. n - 1 \in Nat \ {0} /\ n - 1 \notin Ends
      BY <1>1, <1>2, <1>3, <2>2
    <3>2. OneExtent(s, (n - 1) + 1)
      BY <3>1
    <3>3. (n - 1) + 1 = n
      BY <1>3
    <3> QED BY <3>2, <3>3
  <2> QED BY <2>1, <2>2
<1>5. n \in 1 .. CapacitySectors
  BY <1>3, <1>4, CapacityAssumption DEF OneExtent, Sectors
<1> QED BY <1>2, <1>3, <1>4, <1>5

LEMMA StuckMeansDone ==
  ASSUME FastInv, fastActive = NoRequest, fastMode # "done", NextFastPassRequest = {}
  PROVE  \A s \in Sectors : fastCursor <= s => ~Schedulable(s)
<1>1. CASE fastMode = "checkpoint"
  BY <1>1 DEF FastInv, ModeFits
<1>2. CASE fastMode = "cluster"
  <2> SUFFICES ASSUME NEW t \in Sectors, fastCursor <= t, Schedulable(t) PROVE FALSE
    OBVIOUS
  <2>1. PICK s \in Sectors : FirstSchedulable(s)
    BY FirstExists DEF FastInv
  <2>2. PICK n \in 1 .. CapacitySectors :
          /\ OneExtent(s, n) /\ n <= ClusterSize
          /\ n = ClusterSize \/ ~OneExtent(s, n + 1)
    BY ClusterExists
  <2>3. [start |-> s, sectors |-> n] \in NextFastPassRequest
    BY <1>2, <2>1, <2>2 DEF NextFastPassRequest, NextClusterRange, Request
  <2> QED BY <2>3
<1>3. CASE fastMode = "single"
  <2>1. PICK t \in Sectors : Schedulable(t) /\ fastCursor <= t /\ t < fastBoundary
    BY <1>3 DEF FastInv, ModeFits
  <2>2. PICK s \in Sectors : FirstSchedulable(s) /\ s <= t
    BY <2>1, FirstExists DEF FastInv
  <2>3. s < fastBoundary /\ 1 \in 1 .. CapacitySectors
    BY <2>1, <2>2, CapacityAssumption DEF FastInv, FastTypeOK, Sectors
  <2>4. [start |-> s, sectors |-> 1] \in NextFastPassRequest
    BY <1>3, <2>2, <2>3 DEF NextFastPassRequest, NextSingleSector, Request
  <2> QED BY <2>4
<1> QED BY <1>1, <1>2, <1>3 DEF FastInv, FastTypeOK, FastPassMode

LEMMA RequestFacts ==
  /\ \A r \in Request : r.start \in Nat /\ r.sectors \in Nat \ {0} /\ r # NoRequest
  /\ Sectors \subseteq Nat
<1>1. \A r \in Request : r.sectors # NoRequest.sectors
  BY CapacityAssumption DEF Request, NoRequest
<1> QED BY <1>1, CapacityAssumption DEF Request, Sectors

LEMMA FastDispatchRead ==
  ASSUME FastInv, DispatchFastRead
  PROVE  FastInv'
<1>1. /\ fastActive = NoRequest /\ ~fastCheckpoint
      /\ UNCHANGED <<fastExtents, fastCursor, fastMode, fastBoundary,
                     fastCheckpoint, fastRead>>
  BY DEF DispatchFastRead
<1>2. PICK r \in NextFastPassRequest : fastActive' = r
  BY DEF DispatchFastRead
<1>3. /\ r \in Request /\ r # NoRequest /\ FirstSchedulable(r.start)
      /\ r.start \in Nat /\ r.sectors \in Nat \ {0}
      /\ \/ fastMode = "cluster" /\ OneExtent(r.start, r.sectors)
         \/ fastMode = "single" /\ r.sectors = 1 /\ r.start < fastBoundary
  BY <1>2, RequestFacts DEF NextFastPassRequest, NextClusterRange, NextSingleSector
<1>4. FastTypeOK'
  BY <1>1, <1>2, <1>3 DEF FastInv, FastTypeOK
<1>5. BehindCursor'
  BY <1>1 DEF FastInv, BehindCursor
<1>6. ActiveIsNext'
  <2>1. /\ fastCursor <= r.start
        /\ \A s \in fastCursor .. r.start - 1 : ~Schedulable(s)
        /\ r.start \in Sectors /\ fastExtents[r.start].state = "unknown"
    BY <1>3 DEF FirstSchedulable, Schedulable
  <2>2. /\ RequestEnd(r) <= CapacitySectors
        /\ \A s \in r.start .. RequestEnd(r) - 1 : Schedulable(s)
    <3>1. CASE fastMode = "cluster"
      <4>1. OneExtent(r.start, r.sectors)
        BY <1>3, <3>1
      <4> QED BY <1>3, <2>1, <4>1, CapacityAssumption
             DEF OneExtent, RequestEnd, Schedulable, Sectors
    <3>2. CASE fastMode = "single"
      BY <1>3, <2>1, <3>2, CapacityAssumption DEF RequestEnd, Schedulable, Sectors
    <3> QED BY <1>3, <3>1, <3>2
  <2> QED BY <1>1, <1>2, <1>3, <2>1, <2>2 DEF ActiveIsNext, RequestEnd, Schedulable
<1>7. ModeFits'
  BY <1>1, <1>2, <1>3 DEF ModeFits
<1> QED BY <1>4, <1>5, <1>6, <1>7 DEF FastInv

LEMMA FastCheckpointSteps ==
  ASSUME FastInv, DispatchFastCheckpoint \/ ResolveFastCheckpoint
  PROVE  FastInv'
<1>1. /\ UNCHANGED <<fastExtents, fastCursor, fastBoundary, fastActive, fastRead>>
      /\ fastActive = NoRequest /\ fastMode' \in {"checkpoint", "done"}
      /\ fastCheckpoint' \in BOOLEAN /\ (fastCheckpoint' => fastMode' = "checkpoint")
  BY DEF DispatchFastCheckpoint, ResolveFastCheckpoint, FastInv, ModeFits
<1>2. \A s \in Sectors : fastCursor <= s => ~Schedulable(s)
  <2>1. CASE DispatchFastCheckpoint
    BY <2>1, StuckMeansDone DEF DispatchFastCheckpoint
  <2>2. CASE ResolveFastCheckpoint
    BY <2>2 DEF ResolveFastCheckpoint, FastInv, ModeFits
  <2> QED BY <2>1, <2>2
<1>3. FastTypeOK'
  BY <1>1 DEF FastInv, FastTypeOK, FastPassMode
<1>4. BehindCursor' /\ ActiveIsNext'
  BY <1>1 DEF FastInv, BehindCursor, ActiveIsNext
<1>5. ModeFits'
  BY <1>1, <1>2 DEF ModeFits, Schedulable
<1> QED BY <1>3, <1>4, <1>5 DEF FastInv

(* The sectors of a read that is answered. *)
LEMMA AnsweredRange ==
  ASSUME FastInv, fastActive # NoRequest
  PROVE  /\ fastActive.start \in Nat /\ RequestEnd(fastActive) \in Nat
         /\ fastActive.start \in Sectors
         /\ fastActive.start < RequestEnd(fastActive)
         /\ fastCursor <= fastActive.start
         /\ RequestEnd(fastActive) <= CapacitySectors
         /\ \A s \in Sectors : fastActive.start <= s /\ s < RequestEnd(fastActive) =>
              fastExtents[s].state = "unknown"
         /\ \A s \in Sectors : fastCursor <= s /\ s < fastActive.start =>
              fastExtents[s].state # "unknown"
         /\ fastMode \in {"cluster", "single"} /\ ~fastCheckpoint
         /\ fastMode = "single" =>
              RequestEnd(fastActive) = fastActive.start + 1
              /\ fastActive.start < fastBoundary
<1>1. fastActive \in Request /\ fastCursor \in Nat
  BY DEF FastInv, FastTypeOK
<1>2. /\ fastActive.start \in Nat /\ fastActive.sectors \in Nat \ {0}
      /\ fastActive.start \in Sectors
  BY <1>1, RequestFacts DEF Request
<1>3. /\ fastActive.start \in Nat /\ RequestEnd(fastActive) \in Nat
      /\ fastActive.start < RequestEnd(fastActive)
      /\ fastActive.sectors = 1 => RequestEnd(fastActive) = fastActive.start + 1
  BY <1>2 DEF RequestEnd
<1>4. \A s \in Sectors : s \in Nat
  BY RequestFacts
<1>5. \A s \in Sectors : fastActive.start <= s /\ s < RequestEnd(fastActive) =>
        fastExtents[s].state = "unknown"
  BY <1>3, <1>4 DEF FastInv, ActiveIsNext, Schedulable
<1>6. \A s \in Sectors : fastCursor <= s /\ s < fastActive.start =>
        fastExtents[s].state # "unknown"
  BY <1>1, <1>3, <1>4 DEF FastInv, ActiveIsNext, Schedulable
<1> QED BY <1>2, <1>3, <1>5, <1>6 DEF FastInv, ActiveIsNext, ModeFits

LEMMA FastSuccess ==
  ASSUME FastInv, ResolveFastSuccess
  PROVE  FastInv'
<1> DEFINE next == RequestEnd(fastActive)
<1>1. /\ fastActive # NoRequest /\ fastActive' = NoRequest
      /\ fastRead' = fastRead \cup (fastActive.start .. next - 1)
      /\ UNCHANGED <<fastExtents, fastBoundary, fastCheckpoint>>
  BY DEF ResolveFastSuccess
<1>2. /\ fastActive.start \in Nat /\ next \in Nat /\ fastActive.start < next
      /\ fastCursor <= fastActive.start /\ next <= CapacitySectors
      /\ fastCursor \in Nat /\ fastBoundary \in Nat
      /\ \A s \in Sectors : fastActive.start <= s /\ s < next =>
           fastExtents[s].state = "unknown"
      /\ \A s \in Sectors : fastCursor <= s /\ s < fastActive.start =>
           fastExtents[s].state # "unknown"
      /\ fastMode \in {"cluster", "single"} /\ ~fastCheckpoint
      /\ Sectors \subseteq Nat
  BY <1>1, AnsweredRange, RequestFacts DEF FastInv, FastTypeOK
<1>3. /\ fastCursor' \in Nat /\ next <= fastCursor'
      /\ fastMode' \in {"cluster", "single"}
      /\ \A s \in Sectors : next <= s /\ s < fastCursor' => fastExtents[s].state # "unknown"
      /\ fastMode' = "single" => fastCursor' = next /\
           \E s \in next .. fastBoundary - 1 : Schedulable(s)
  <2>1. CASE fastMode = "single" /\ ~\E s \in next .. fastBoundary - 1 : Schedulable(s)
    <3>1. /\ fastMode' = "cluster"
          /\ fastCursor' = IF next < fastBoundary THEN fastBoundary ELSE next
      BY <2>1 DEF ResolveFastSuccess
    <3>2. \A s \in Sectors : next <= s /\ s < fastBoundary => fastExtents[s].state # "unknown"
      BY <1>2, <2>1 DEF Schedulable
    <3> QED BY <1>2, <3>1, <3>2
  <2>2. CASE ~(fastMode = "single" /\ ~\E s \in next .. fastBoundary - 1 : Schedulable(s))
    <3>1. fastCursor' = next /\ fastMode' = fastMode
      BY <2>2 DEF ResolveFastSuccess
    <3> QED BY <1>2, <2>2, <3>1
  <2> QED BY <2>1, <2>2
<1>4. FastTypeOK'
  <2>1. fastActive.start .. next - 1 \subseteq Sectors
    BY <1>2, CapacityAssumption DEF Sectors
  <2> QED BY <1>1, <1>3, <2>1 DEF FastInv, FastTypeOK, FastPassMode
<1>5. BehindCursor'
  <2>1. \A s \in fastRead' : fastExtents'[s].state = "unknown" /\ s < fastCursor'
    <3>1. \A s \in fastRead : fastExtents[s].state = "unknown" /\ s < fastCursor /\ s \in Nat
      BY <1>2 DEF FastInv, FastTypeOK, BehindCursor
    <3>2. \A s \in fastActive.start .. next - 1 :
            fastExtents[s].state = "unknown" /\ s < fastCursor'
      BY <1>2, <1>3, CapacityAssumption DEF Sectors
    <3> QED BY <1>1, <1>2, <1>3, <3>1, <3>2
  <2>2. ASSUME NEW s \in Sectors, s < fastCursor', fastExtents[s].state = "unknown"
        PROVE  s \in fastRead'
    <3>1. s \in Nat
      BY <1>2
    <3>2. s < fastCursor \/ s \in fastActive.start .. next - 1
      BY <1>2, <1>3, <2>2, <3>1
    <3> QED BY <1>1, <2>2, <3>2 DEF FastInv, BehindCursor
  <2> QED BY <1>1, <2>1, <2>2 DEF BehindCursor
<1>6. ActiveIsNext'
  BY <1>1 DEF ActiveIsNext
<1>7. ModeFits'
  <2>1. fastMode' = "single" =>
          \E s \in Sectors : Schedulable(s)' /\ fastCursor' <= s /\ s < fastBoundary
    <3> SUFFICES ASSUME fastMode' = "single"
                 PROVE  \E s \in Sectors : Schedulable(s)' /\ fastCursor' <= s /\ s < fastBoundary
      OBVIOUS
    <3>1. fastCursor' = next
      BY <1>3
    <3>2. PICK s \in next .. fastBoundary - 1 : Schedulable(s)
      BY <1>3
    <3>3. s \in Sectors /\ next <= s /\ s < fastBoundary
      BY <1>2, <3>2 DEF Schedulable
    <3> QED BY <1>1, <3>1, <3>2, <3>3 DEF Schedulable
  <2> QED BY <1>1, <1>2, <1>3, <2>1 DEF ModeFits
<1> QED BY <1>4, <1>5, <1>6, <1>7 DEF FastInv

LEMMA FastClusterFailure ==
  ASSUME FastInv, ResolveFastClusterFailure
  PROVE  FastInv'
<1>1. /\ fastActive # NoRequest /\ fastActive' = NoRequest /\ fastMode' = "single"
      /\ fastCursor' = fastActive.start /\ fastBoundary' = RequestEnd(fastActive)
      /\ UNCHANGED <<fastExtents, fastCheckpoint, fastRead>>
  BY DEF ResolveFastClusterFailure
<1>2. /\ fastActive.start \in Nat /\ RequestEnd(fastActive) \in Nat
      /\ fastActive.start \in Sectors /\ fastActive.start < RequestEnd(fastActive)
      /\ fastCursor <= fastActive.start /\ fastCursor \in Nat
      /\ fastExtents[fastActive.start].state = "unknown"
      /\ \A s \in Sectors : fastCursor <= s /\ s < fastActive.start =>
           fastExtents[s].state # "unknown"
      /\ ~fastCheckpoint /\ Sectors \subseteq Nat
  BY <1>1, AnsweredRange, RequestFacts DEF FastInv, FastTypeOK
<1>3. FastTypeOK'
  BY <1>1, <1>2 DEF FastInv, FastTypeOK, FastPassMode
<1>4. BehindCursor'
  <2>1. \A s \in fastRead : s < fastActive.start
    BY <1>2 DEF FastInv, FastTypeOK, BehindCursor
  <2>2. \A s \in Sectors : s < fastActive.start /\ fastExtents[s].state = "unknown" =>
          s < fastCursor
    <3>1. ASSUME NEW s \in Sectors, s < fastActive.start, ~(s < fastCursor)
          PROVE  fastExtents[s].state # "unknown"
      <4>1. s \in Nat /\ fastCursor <= s
        BY <1>2, <3>1
      <4> QED BY <1>2, <3>1, <4>1
    <3> QED BY <3>1
  <2> QED BY <1>1, <2>1, <2>2 DEF FastInv, BehindCursor
<1>5. ActiveIsNext'
  BY <1>1 DEF ActiveIsNext
<1>6. ModeFits'
  <2>1. PICK s \in Sectors : s = fastActive.start
    BY <1>2
  <2>2. Schedulable(s)' /\ fastCursor' <= s /\ s < fastBoundary'
    BY <1>1, <1>2, <2>1 DEF Schedulable
  <2> QED BY <1>1, <1>2, <2>2 DEF ModeFits
<1> QED BY <1>3, <1>4, <1>5, <1>6 DEF FastInv

(* A failed single sector and those skipped after it are marked. *)
LEMMA FastSingleFailure ==
  ASSUME FastInv, ResolveFastSingleFailure
  PROVE  FastInv'
<1>1. /\ fastActive # NoRequest /\ fastActive' = NoRequest
      /\ fastMode = "single" /\ fastMode' = "cluster"
      /\ UNCHANGED <<fastBoundary, fastCheckpoint, fastRead>>
  BY DEF ResolveFastSingleFailure
<1> DEFINE failed == fastActive.start
<1>2. PICK k \in 0 .. CapacitySectors :
        /\ SkipLength(failed + 1, k)
        /\ fastExtents' = ApplyFastPassFailure(failed, k)
        /\ fastCursor' = failed + 1 + k
  BY DEF ResolveFastSingleFailure
<1>3. /\ failed \in Nat /\ failed \in Sectors /\ k \in Nat
      /\ fastCursor <= failed /\ fastCursor \in Nat
      /\ \A s \in Sectors : fastCursor <= s /\ s < failed => fastExtents[s].state # "unknown"
      /\ ~fastCheckpoint /\ Sectors \subseteq Nat
      /\ fastExtents \in SectorMaps
  BY <1>1, <1>2, AnsweredRange, RequestFacts, CapacityAssumption DEF FastInv, FastTypeOK
<1>4. /\ fastExtents' \in SectorMaps
      /\ \A s \in Sectors : s < failed \/ failed + k < s => fastExtents'[s] = fastExtents[s]
      /\ \A s \in Sectors : failed <= s /\ s <= failed + k => fastExtents'[s].state # "unknown"
  <2>1. \A s \in Sectors : s \in Nat
    BY <1>3
  <2>2. ASSUME NEW s \in Sectors
        PROVE  /\ s \in failed .. failed + k =>
                    /\ fastExtents'[s].state \in {"io_error", "skipped"}
                    /\ fastExtents'[s].confidence = ConfidenceNone
                    /\ fastExtents'[s].attempts = fastExtents[s].attempts + 1
                    /\ fastExtents'[s] \in [state : {"io_error", "skipped"},
                                            confidence : {ConfidenceNone},
                                            attempts : {fastExtents[s].attempts + 1}]
               /\ s \notin failed .. failed + k => fastExtents'[s] = fastExtents[s]
    <3>1. CASE s = failed
      <4>1. fastExtents'[s] = [state |-> "io_error", confidence |-> ConfidenceNone,
                               attempts |-> fastExtents[s].attempts + 1]
        BY <1>2, <1>3, <3>1 DEF ApplyFastPassFailure, ReplaceRangeState
      <4> QED BY <1>3, <3>1, <4>1
    <3>2. CASE s \in failed + 1 .. failed + k
      <4>1. fastExtents'[s] = [state |-> "skipped", confidence |-> ConfidenceNone,
                               attempts |-> fastExtents[s].attempts + 1]
        BY <1>2, <1>3, <3>2 DEF ApplyFastPassFailure, ReplaceRangeState
      <4> QED BY <1>3, <3>2, <4>1
    <3>3. CASE s \notin failed .. failed + k
      BY <1>2, <1>3, <2>1, <3>3 DEF ApplyFastPassFailure, ReplaceRangeState
    <3> QED BY <1>3, <2>1, <3>1, <3>2, <3>3
  <2>3. \A s \in Sectors : fastExtents[s] \in Cell /\ fastExtents[s].attempts + 1 \in Nat
    BY <1>3 DEF SectorMaps, Cell
  <2>4. ASSUME NEW s \in Sectors
        PROVE  fastExtents'[s] \in Cell
    <3>1. {"io_error", "skipped"} \subseteq SectorState \cup {"absent"}
      BY DEF SectorState
    <3>2. ConfidenceNone \in Confidence
      BY DEF Confidence, ConfidenceNone, ConfidenceReconstructedChecksum
    <3> QED BY <2>2, <2>3, <3>1, <3>2 DEF Cell
  <2>5. fastExtents' = [s \in Sectors |-> fastExtents'[s]]
    BY <1>2 DEF ApplyFastPassFailure, ReplaceRangeState
  <2>6. fastExtents' \in SectorMaps
    BY <2>4, <2>5 DEF SectorMaps
  <2>7. ASSUME NEW s \in Sectors, s < failed \/ failed + k < s
        PROVE  fastExtents'[s] = fastExtents[s]
    BY <1>3, <2>1, <2>2, <2>7
  <2>8. ASSUME NEW s \in Sectors, failed <= s, s <= failed + k
        PROVE  fastExtents'[s].state # "unknown"
    <3>1. s \in failed .. failed + k
      BY <1>3, <2>1, <2>8
    <3> QED BY <2>2, <3>1
  <2> QED BY <2>6, <2>7, <2>8
<1>5. FastTypeOK'
  BY <1>1, <1>2, <1>3, <1>4 DEF FastInv, FastTypeOK, FastPassMode
<1>6. BehindCursor'
  <2>1. ASSUME NEW s \in fastRead
        PROVE  fastExtents'[s].state = "unknown" /\ s < fastCursor'
    <3>1. s \in Sectors /\ s \in Nat /\ s < fastCursor /\ fastExtents[s].state = "unknown"
      BY <1>3 DEF FastInv, FastTypeOK, BehindCursor
    <3>2. s < failed
      BY <1>3, <3>1
    <3> QED BY <1>2, <1>3, <1>4, <3>1, <3>2
  <2>2. ASSUME NEW s \in Sectors, s < fastCursor', fastExtents'[s].state = "unknown"
        PROVE  s \in fastRead
    <3>1. s \in Nat /\ s < failed
      BY <1>2, <1>3, <1>4, <2>2
    <3>2. fastExtents[s].state = "unknown" /\ s < fastCursor
      BY <1>3, <1>4, <2>2, <3>1
    <3> QED BY <3>2 DEF FastInv, BehindCursor
  <2> QED BY <1>1, <2>1, <2>2 DEF BehindCursor
<1>7. ActiveIsNext'
  BY <1>1 DEF ActiveIsNext
<1>8. ModeFits'
  BY <1>1, <1>3 DEF ModeFits
<1> QED BY <1>5, <1>6, <1>7, <1>8 DEF FastInv

LEMMA FastInvInit == FastPassInit => FastInv
<1> SUFFICES ASSUME NEW extents \in SectorMaps, StartFastPass(extents)
             PROVE  FastInv
  BY DEF FastPassInit
<1>1. \A s \in Sectors : ~(s < 0)
  BY RequestFacts
<1> QED BY <1>1 DEF StartFastPass, FastInv, FastTypeOK, FastPassMode, BehindCursor,
          ActiveIsNext, ModeFits

LEMMA FastInvStep == FastInv /\ [FastPassNext]_fastVars => FastInv'
<1> SUFFICES ASSUME FastInv, [FastPassNext]_fastVars PROVE FastInv'
  OBVIOUS
<1>1. CASE FastPassNext
  BY <1>1, FastDispatchRead, FastCheckpointSteps, FastSuccess, FastClusterFailure,
     FastSingleFailure DEF FastPassNext
<1>2. CASE UNCHANGED fastVars
  BY <1>2 DEF fastVars, FastInv, FastTypeOK, BehindCursor, ActiveIsNext, ModeFits,
     Schedulable, RequestEnd
<1> QED BY <1>1, <1>2

(* For every medium, map and policy: what the fast pass moved past was     *)
(* read or marked, and never both, and when it is done that is every       *)
(* sector (ResolveFastPass, applyFastPassFailure).                         *)
THEOREM FastPassLeavesNothing == FastPassSpec => []FastPassAccounts
<1>1. FastInv => FastPassAccounts
  <2> SUFFICES ASSUME FastInv PROVE FastPassAccounts
    OBVIOUS
  <2>1. fastActive # NoRequest =>
          (fastActive.start .. RequestEnd(fastActive) - 1) \cap fastRead = {}
    <3>1. \A s \in fastRead : s \in Nat /\ s < fastCursor
      BY RequestFacts DEF FastInv, FastTypeOK, BehindCursor
    <3> QED BY <3>1, AnsweredRange DEF FastInv, FastTypeOK
  <2>2. fastMode = "done" =>
          \A s \in Sectors : fastExtents[s].state = "unknown" => s \in fastRead
    <3>1. \A s \in Sectors : s \in Nat
      BY RequestFacts
    <3> QED BY <3>1 DEF FastInv, FastTypeOK, BehindCursor, ModeFits, Schedulable
  <2> QED BY <2>1, <2>2 DEF FastInv, BehindCursor, FastPassAccounts
<1> QED BY <1>1, FastInvInit, FastInvStep, PTL DEF FastPassSpec

----------------------------------------------------------------------------
(***************************************************************************)
(* The adaptive pass.  Its queue, the action under way and what is left to *)
(* the scrape pass stay a partition of the extents it was given, and a     *)
(* sector has been probed at most as often as its candidate was split.     *)
(***************************************************************************)
Candidate == [start : Nat, sectors : Nat \ {0}, attempts : Nat, depth : Nat]

AdaptiveTyped ==
    /\ adaptiveQueue \subseteq Candidate /\ adaptiveDeferred \subseteq Candidate
    /\ adaptiveActive \in {"none", "probe", "defer"}
    /\ adaptiveActive # "none" => adaptiveCandidate \in Candidate
    /\ \A s \in DOMAIN adaptiveProbes : adaptiveProbes[s] \in Nat

(* A partition of the sectors of the probes, which are counted.            *)
Partitions(parts, probes) ==
    /\ parts \subseteq Candidate
    /\ \A s \in DOMAIN probes : \E c \in parts : s \in SectorsOf(c)
    /\ \A c, d \in parts : c # d => SectorsOf(c) \cap SectorsOf(d) = {}
    /\ \A c \in parts :
         /\ c.depth <= MaxSplitDepth
         /\ \A s \in SectorsOf(c) : s \in DOMAIN probes => probes[s] <= c.depth

AdaptiveInv ==
    /\ AdaptiveTyped
    /\ Partitions(AdaptiveParts, adaptiveProbes)
    /\ adaptiveQueue \cap adaptiveDeferred = {}
    /\ adaptiveActive # "none" =>
         /\ adaptiveCandidate \notin adaptiveQueue \cup adaptiveDeferred
         /\ adaptiveMode = "probe"
    /\ adaptiveActive = "probe" =>
         adaptiveCandidate.sectors > 1 /\ adaptiveCandidate.depth < MaxSplitDepth
    /\ adaptiveMode = "done" => adaptiveQueue = {}

LEMMA CandidateSectors ==
  ASSUME NEW c \in Candidate
  PROVE  c.start \in SectorsOf(c)
  BY DEF Candidate, SectorsOf

(* The halves of a candidate are a partition of it. *)
LEMMA HalvesOf ==
  ASSUME NEW c \in Candidate, c.sectors > 1,
         NEW left, left = Tried(LeftHalf(c)), NEW right, right = Tried(RightHalf(c))
  PROVE  /\ left \in Candidate /\ right \in Candidate
         /\ left.depth = c.depth + 1 /\ right.depth = c.depth + 1
         /\ SectorsOf(left) \cup SectorsOf(right) = SectorsOf(c)
         /\ SectorsOf(left) \cap SectorsOf(right) = {}
<1> DEFINE h == c.sectors \div 2
<1>1. /\ c.start \in Nat /\ c.sectors \in Nat /\ c.attempts \in Nat /\ c.depth \in Nat
      /\ h \in Nat /\ h >= 1 /\ h < c.sectors
  BY DEF Candidate
<1> HIDE DEF h
<1>2. left = [start |-> c.start, sectors |-> h, attempts |-> c.attempts + 1,
              depth |-> c.depth + 1]
  BY DEF Candidate, Tried, LeftHalf, h
<1>3. right = [start |-> c.start + h, sectors |-> c.sectors - h,
               attempts |-> c.attempts + 1, depth |-> c.depth + 1]
  BY DEF Candidate, Tried, RightHalf, h
<1>4. /\ left.start = c.start /\ left.sectors = h /\ left.depth = c.depth + 1
      /\ right.start = c.start + h /\ right.sectors = c.sectors - h
      /\ right.depth = c.depth + 1
  BY <1>2, <1>3
<1>5. left \in Candidate /\ right \in Candidate
  BY <1>1, <1>2, <1>3 DEF Candidate
<1>6. /\ SectorsOf(left) = c.start .. c.start + h - 1
      /\ SectorsOf(right) = c.start + h .. c.start + h + (c.sectors - h) - 1
      /\ SectorsOf(c) = c.start .. c.start + c.sectors - 1
  BY <1>4 DEF SectorsOf
<1>7. SectorsOf(left) \cup SectorsOf(right) = SectorsOf(c)
  <2>1. ASSUME NEW s PROVE s \in SectorsOf(c) <=> s \in SectorsOf(left) \/ s \in SectorsOf(right)
    <3>1. CASE s \in Int
      <4>1. c.start + h + (c.sectors - h) - 1 = c.start + c.sectors - 1
        BY <1>1
      <4>2. /\ s \in SectorsOf(left) <=> c.start <= s /\ s <= c.start + h - 1
            /\ s \in SectorsOf(right) <=> c.start + h <= s /\ s <= c.start + c.sectors - 1
            /\ s \in SectorsOf(c) <=> c.start <= s /\ s <= c.start + c.sectors - 1
        BY <1>1, <1>6, <3>1, <4>1
      <4>3. /\ s <= c.start + h - 1 \/ c.start + h <= s
            /\ c.start + h - 1 <= c.start + c.sectors - 1
            /\ c.start <= c.start + h
        BY <1>1, <3>1
      <4> QED BY <1>1, <3>1, <4>2, <4>3
    <3>2. CASE s \notin Int
      BY <1>6, <3>2
    <3> QED BY <3>1, <3>2
  <2> QED BY <2>1
<1>8. SectorsOf(left) \cap SectorsOf(right) = {}
  BY <1>1, <1>6
<1> QED BY <1>4, <1>5, <1>7, <1>8

(* left and right are the halves of c, one split deeper. *)
Halves(c, left, right) ==
    /\ left \in Candidate /\ right \in Candidate
    /\ left.depth = c.depth + 1 /\ right.depth = c.depth + 1
    /\ SectorsOf(left) \cup SectorsOf(right) = SectorsOf(c)
    /\ SectorsOf(left) \cap SectorsOf(right) = {}

(* A probe inside c has been counted. *)
ProbeCounted(probes, probed, c) ==
    /\ DOMAIN probed = DOMAIN probes
    /\ \A s \in DOMAIN probes :
         /\ probes[s] \in Nat
         /\ probed[s] \in {probes[s], probes[s] + 1}
         /\ s \notin SectorsOf(c) => probed[s] = probes[s]

(* Splitting a candidate keeps a partition a partition. *)
LEMMA SplitPartitions ==
  ASSUME NEW parts, NEW probes, Partitions(parts, probes),
         NEW c \in parts, c.depth < MaxSplitDepth,
         NEW left, NEW right, Halves(c, left, right),
         NEW probed, ProbeCounted(probes, probed, c)
  PROVE  /\ Partitions((parts \ {c}) \cup {left, right}, probed)
         /\ left \notin parts \ {c} /\ right \notin parts \ {c}
<1> USE DEF Partitions, Halves, ProbeCounted
<1> DEFINE new == (parts \ {c}) \cup {left, right}
<1>1. c \in Candidate /\ c.depth \in Nat /\ MaxSplitDepth \in Nat
  BY AdaptivePassAssumption DEF Candidate
<1>2. \A d \in parts \ {c} : /\ SectorsOf(d) \cap SectorsOf(left) = {}
                             /\ SectorsOf(d) \cap SectorsOf(right) = {}
  OBVIOUS
<1>3. new \subseteq Candidate
  OBVIOUS
<1>4. \A s \in DOMAIN probed : \E d \in new : s \in SectorsOf(d)
  OBVIOUS
<1>5. \A d, e \in new : d # e => SectorsOf(d) \cap SectorsOf(e) = {}
  BY <1>2
<1>6. ASSUME NEW d \in new
      PROVE  /\ d.depth <= MaxSplitDepth
             /\ \A s \in SectorsOf(d) : s \in DOMAIN probed => probed[s] <= d.depth
  <2>1. CASE d \in parts \ {c}
    BY <2>1
  <2>2. CASE d \in {left, right}
    <3>1. d.depth = c.depth + 1 /\ d.depth <= MaxSplitDepth /\ SectorsOf(d) \subseteq SectorsOf(c)
      BY <1>1, <2>2
    <3>2. ASSUME NEW s \in SectorsOf(d), s \in DOMAIN probed PROVE probed[s] <= d.depth
      <4>1. probes[s] <= c.depth /\ probes[s] \in Nat
        BY <3>1, <3>2
      <4>2. probed[s] \in {probes[s], probes[s] + 1}
        BY <3>2
      <4> QED BY <1>1, <3>1, <4>1, <4>2
    <3> QED BY <3>1, <3>2
  <2> QED BY <2>1, <2>2
<1>7. left \notin parts \ {c} /\ right \notin parts \ {c}
  BY <1>2, CandidateSectors
<1> HIDE DEF new
<1>8. Partitions(new, probed)
  BY <1>3, <1>4, <1>5, <1>6
<1> QED BY <1>7, <1>8 DEF new

LEMMA AdaptiveInvStep ==
  ASSUME AdaptiveInv, [AdaptivePassNext]_adaptiveVars
  PROVE  AdaptiveInv'
<1> USE DEF AdaptiveInv, AdaptiveTyped
<1>1. ASSUME NEW c \in adaptiveQueue, adaptiveActive = "none", adaptiveMode = "probe",
             adaptiveQueue' = adaptiveQueue \ {c}, adaptiveCandidate' = c,
             adaptiveActive' \in {"probe", "defer"},
             adaptiveActive' = "probe" => c.sectors > 1 /\ c.depth < MaxSplitDepth,
             UNCHANGED <<adaptiveMode, adaptiveDeferred, adaptiveProbes>>
      PROVE  AdaptiveInv'
  <2>1. AdaptiveParts' = AdaptiveParts
    BY <1>1 DEF AdaptiveParts
  <2> QED BY <1>1, <2>1
<1>2. CASE DispatchAdaptiveDefer
  BY <1>1, <1>2 DEF DispatchAdaptiveDefer
<1>3. CASE DispatchAdaptiveProbe
  <2>1. PICK c \in adaptiveQueue :
          /\ ~TooSmallOrDeep(c) /\ c.sectors > 1
          /\ adaptiveQueue' = adaptiveQueue \ {c} /\ adaptiveCandidate' = c
    BY <1>3 DEF DispatchAdaptiveProbe
  <2>2. c.depth < MaxSplitDepth
    BY <2>1, AdaptivePassAssumption DEF TooSmallOrDeep, Candidate
  <2> QED BY <1>1, <1>3, <2>1, <2>2 DEF DispatchAdaptiveProbe
<1>4. CASE DispatchAdaptiveDone
  <2>1. AdaptiveParts' = AdaptiveParts
    BY <1>4 DEF DispatchAdaptiveDone, AdaptiveParts
  <2> QED BY <1>4, <2>1 DEF DispatchAdaptiveDone
<1>5. CASE ResolveAdaptiveDefer
  <2>1. AdaptiveParts' = AdaptiveParts
    BY <1>5 DEF ResolveAdaptiveDefer, AdaptiveParts
  <2> QED BY <1>5, <2>1 DEF ResolveAdaptiveDefer
<1>6. CASE ResolveAdaptiveProbe
  <2> DEFINE c == adaptiveCandidate
             left == Tried(LeftHalf(c))
             right == Tried(RightHalf(c))
  <2>1. /\ c \in Candidate /\ c.sectors > 1 /\ c.depth < MaxSplitDepth
        /\ c \notin adaptiveQueue \cup adaptiveDeferred /\ c \in AdaptiveParts
        /\ adaptiveMode = "probe" /\ adaptiveActive = "probe"
    BY <1>6 DEF ResolveAdaptiveProbe, AdaptiveParts
  <2>2. /\ left \in Candidate /\ right \in Candidate
        /\ left.depth = c.depth + 1 /\ right.depth = c.depth + 1
        /\ SectorsOf(left) \cup SectorsOf(right) = SectorsOf(c)
        /\ SectorsOf(left) \cap SectorsOf(right) = {}
    BY <2>1, HalvesOf
  <2>3. SectorsOf(ProbedHalf(c)) \subseteq SectorsOf(c)
    <3>1. /\ SectorsOf(LeftHalf(c)) = SectorsOf(left)
          /\ SectorsOf(RightHalf(c)) = SectorsOf(right)
      BY <2>1 DEF Candidate, LeftHalf, RightHalf, Tried, SectorsOf
    <3> QED BY <2>2, <3>1 DEF ProbedHalf
  <2>4. /\ adaptiveQueue' = adaptiveQueue \cup {left, right}
        /\ adaptiveActive' = "none" /\ adaptiveMode' = adaptiveMode
        /\ adaptiveDeferred' = adaptiveDeferred
    BY <1>6 DEF ResolveAdaptiveProbe
  <2>5. adaptiveProbes' = [s \in DOMAIN adaptiveProbes |->
          adaptiveProbes[s] + IF s \in SectorsOf(ProbedHalf(c)) THEN 1 ELSE 0]
    BY <1>6 DEF ResolveAdaptiveProbe
  <2> HIDE DEF c, left, right
  <2>6. /\ DOMAIN adaptiveProbes' = DOMAIN adaptiveProbes
        /\ \A s \in DOMAIN adaptiveProbes :
             /\ adaptiveProbes'[s] \in {adaptiveProbes[s], adaptiveProbes[s] + 1}
             /\ adaptiveProbes'[s] \in Nat
             /\ s \notin SectorsOf(c) => adaptiveProbes'[s] = adaptiveProbes[s]
    BY <2>3, <2>5
  <2>7. /\ Partitions((AdaptiveParts \ {c}) \cup {left, right}, adaptiveProbes')
        /\ left \notin AdaptiveParts \ {c} /\ right \notin AdaptiveParts \ {c}
    <3> DEFINE parts == AdaptiveParts
               probed == adaptiveProbes'
    <3>1. /\ Partitions(parts, adaptiveProbes) /\ c \in parts /\ c.depth < MaxSplitDepth
          /\ Halves(c, left, right)
      BY <2>1, <2>2 DEF Halves
    <3>2. ProbeCounted(adaptiveProbes, probed, c)
      BY <2>6 DEF ProbeCounted
    <3> HIDE DEF parts, probed
    <3>3. /\ Partitions((parts \ {c}) \cup {left, right}, probed)
          /\ left \notin parts \ {c} /\ right \notin parts \ {c}
      BY <3>1, <3>2, SplitPartitions
    <3> QED BY <3>3 DEF parts, probed
  <2>8. /\ AdaptiveParts' = (AdaptiveParts \ {c}) \cup {left, right}
        /\ AdaptiveParts \ {c} = adaptiveQueue \cup adaptiveDeferred
    BY <2>1, <2>4 DEF AdaptiveParts, c
  <2>9. AdaptiveTyped'
    BY <2>2, <2>4, <2>6
  <2> QED BY <2>1, <2>4, <2>7, <2>8, <2>9
<1>7. CASE UNCHANGED adaptiveVars
  BY <1>7 DEF adaptiveVars, AdaptiveParts
<1> QED BY <1>2, <1>3, <1>4, <1>5, <1>6, <1>7 DEF AdaptivePassNext

LEMMA AdaptiveInvInit == AdaptivePassInit => AdaptiveInv
<1> SUFFICES ASSUME NEW X \in AdaptiveExtentSets, NEW head \in Nat, StartAdaptivePass(X, head)
             PROVE  AdaptiveInv
  BY DEF AdaptivePassInit
<1> DEFINE cand(e) == [start |-> e.start, sectors |-> e.sectors,
                       attempts |-> e.attempts, depth |-> 0]
<1>1. /\ \A e \in X : e \in [start : Nat, sectors : Nat \ {0}, attempts : Nat]
      /\ \A e, f \in X : e # f => SectorsOf(e) \cap SectorsOf(f) = {}
  BY DEF AdaptiveExtentSets
<1>2. \A e \in X : /\ cand(e) \in Candidate /\ cand(e).depth = 0
                   /\ SectorsOf(cand(e)) = SectorsOf(e)
  BY <1>1 DEF Candidate, SectorsOf
<1>3. /\ adaptiveQueue = {cand(e) : e \in X}
      /\ adaptiveMode = "probe" /\ adaptiveActive = "none" /\ adaptiveDeferred = {}
      /\ adaptiveProbes = [s \in UNION {SectorsOf(e) : e \in X} |-> 0]
  BY DEF StartAdaptivePass
<1> HIDE DEF cand
<1>4. AdaptiveParts = {cand(e) : e \in X}
  BY <1>3 DEF AdaptiveParts
<1>5. MaxSplitDepth \in Nat
  BY AdaptivePassAssumption
<1>6. /\ \A s \in DOMAIN adaptiveProbes : adaptiveProbes[s] = 0
      /\ \A s \in DOMAIN adaptiveProbes : \E e \in X : s \in SectorsOf(e)
  BY <1>3
<1>7. Partitions(AdaptiveParts, adaptiveProbes)
  <2>1. \A s \in DOMAIN adaptiveProbes : \E c \in AdaptiveParts : s \in SectorsOf(c)
    BY <1>2, <1>4, <1>6
  <2>2. \A c, d \in AdaptiveParts : c # d => SectorsOf(c) \cap SectorsOf(d) = {}
    BY <1>1, <1>2, <1>4
  <2> QED BY <1>2, <1>4, <1>5, <1>6, <2>1, <2>2 DEF Partitions
<1> QED BY <1>2, <1>3, <1>6, <1>7 DEF AdaptiveInv, AdaptiveTyped

(* For extents of any size and number, every threshold and depth, and      *)
(* whatever the probes return: splitting, taking and putting back leave a  *)
(* partition of the sectors the adaptive pass was given, and no sector is  *)
(* probed more often than extents may be split.                            *)
THEOREM AdaptivePassLosesNothing == AdaptivePassSpec => []AdaptivePassPartitions
<1>1. AdaptiveInv => AdaptivePassPartitions
  <2> SUFFICES ASSUME AdaptiveInv PROVE AdaptivePassPartitions
    OBVIOUS
  <2>1. ASSUME NEW s \in DOMAIN adaptiveProbes
        PROVE  /\ \E c \in AdaptiveParts : s \in SectorsOf(c)
               /\ adaptiveProbes[s] <= MaxSplitDepth
    <3>1. PICK c \in AdaptiveParts : s \in SectorsOf(c)
      BY DEF AdaptiveInv, Partitions
    <3>2. adaptiveProbes[s] <= c.depth /\ c.depth <= MaxSplitDepth /\ c \in Candidate
          /\ adaptiveProbes[s] \in Nat
      BY <3>1 DEF AdaptiveInv, Partitions, AdaptiveTyped
    <3>3. c.depth \in Nat /\ MaxSplitDepth \in Nat
      BY <3>2, AdaptivePassAssumption DEF Candidate
    <3> QED BY <3>1, <3>2, <3>3
  <2> QED BY <2>1 DEF AdaptiveInv, Partitions, AdaptivePassPartitions
<1> QED BY <1>1, AdaptiveInvInit, AdaptiveInvStep, PTL DEF AdaptivePassSpec

----------------------------------------------------------------------------
(***************************************************************************)
(* The scrape pass.  Every sector is in one place, and how often one in    *)
(* the queue has failed is bounded, from both sides, by the group it has   *)
(* reached and its reads in that group.                                    *)
(***************************************************************************)
ScrapeSector == [lba : Nat,
                 group : {"immediate", "reverse", "lower_speed", "reopen", "reset"},
                 reads : Nat, pending : Prepared \cup {"none"}]

Members(seq) == {seq[i] : i \in 1 .. Len(seq)}

Distinct(seq) == \A i, j \in 1 .. Len(seq) : seq[i] = seq[j] => i = j

LBAs(q) == [i \in 1 .. Len(q) |-> q[i].lba]

(* Failed reads before a group: groups are only skipped above "reverse". *)
AtLeast(group) == CASE group = "immediate" -> 0
                    [] group = "reverse"   -> 2
                    [] OTHER               -> 4

AtMost(group) == CASE group = "immediate"   -> 0
                   [] group = "reverse"     -> 2
                   [] group = "lower_speed" -> 4
                   [] group = "reopen"      -> 6
                   [] OTHER                 -> 7

(* A queued sector that has failed n times. *)
OnLadder(sector, n) ==
    /\ sector.reads < ReadsPerGroup(sector.group)
    /\ AtLeast(sector.group) + sector.reads <= n
    /\ n <= AtMost(sector.group) + sector.reads

ScrapeTyped ==
    /\ scrapeQueue \in Seq(ScrapeSector)
    /\ recoveredSectors \in Seq(Nat) /\ failedSectors \in Seq(Nat)
    /\ DOMAIN scrapeFailures \subseteq Nat
    /\ scrapeFailures \in [DOMAIN scrapeFailures -> Nat]
    /\ scrapeActive # "none" => scrapeQueue # <<>>

(* The sectors s are those of three sequences, each of them once. *)
OnePlace(queued, recovered, failed, s) ==
    /\ Distinct(queued) /\ Distinct(recovered) /\ Distinct(failed)
    /\ Members(queued) \cap Members(recovered) = {}
    /\ Members(queued) \cap Members(failed) = {}
    /\ Members(recovered) \cap Members(failed) = {}
    /\ Members(queued) \cup Members(recovered) \cup Members(failed) = s

ScrapeInv ==
    /\ ScrapeTyped
    /\ OnePlace(LBAs(scrapeQueue), recoveredSectors, failedSectors, DOMAIN scrapeFailures)
    /\ \A i \in 1 .. Len(scrapeQueue) :
         OnLadder(scrapeQueue[i], scrapeFailures[scrapeQueue[i].lba])
    /\ \A s \in DOMAIN scrapeFailures : scrapeFailures[s] <= 8
    /\ \A s \in Members(failedSectors) : scrapeFailures[s] >= 4

LEMMA TailFacts ==
  ASSUME NEW S, NEW seq \in Seq(S), seq # <<>>
  PROVE  /\ Tail(seq) \in Seq(S) /\ Len(Tail(seq)) = Len(seq) - 1
         /\ Head(seq) = seq[1] /\ Head(seq) \in S /\ Len(seq) \in Nat /\ Len(seq) >= 1
         /\ \A i \in 1 .. Len(seq) - 1 : Tail(seq)[i] = seq[i + 1]
  OBVIOUS

LEMMA AppendFacts ==
  ASSUME NEW S, NEW seq \in Seq(S), NEW x \in S
  PROVE  /\ Append(seq, x) \in Seq(S) /\ Len(Append(seq, x)) = Len(seq) + 1
         /\ Len(seq) \in Nat
         /\ Append(seq, x)[Len(seq) + 1] = x
         /\ \A i \in 1 .. Len(seq) : Append(seq, x)[i] = seq[i]
  OBVIOUS

LEMMA TailMembers ==
  ASSUME NEW seq \in Seq(Nat), seq # <<>>, Distinct(seq)
  PROVE  /\ Distinct(Tail(seq))
         /\ Members(Tail(seq)) = Members(seq) \ {Head(seq)}
         /\ Head(seq) \in Members(seq)
<1>1. /\ Len(Tail(seq)) = Len(seq) - 1 /\ Head(seq) = seq[1]
      /\ Len(seq) \in Nat /\ Len(seq) >= 1
      /\ \A i \in 1 .. Len(seq) - 1 : Tail(seq)[i] = seq[i + 1]
  BY TailFacts
<1>2. Distinct(Tail(seq))
  BY <1>1 DEF Distinct
<1>3. ASSUME NEW x PROVE x \in Members(Tail(seq)) <=> x \in Members(seq) \ {Head(seq)}
  <2>1. ASSUME x \in Members(Tail(seq)) PROVE x \in Members(seq) \ {Head(seq)}
    <3>1. PICK i \in 1 .. Len(seq) - 1 : x = seq[i + 1]
      BY <1>1, <2>1 DEF Members
    <3>2. i + 1 \in 1 .. Len(seq) /\ 1 \in 1 .. Len(seq) /\ i + 1 # 1
      BY <1>1
    <3> QED BY <1>1, <3>1, <3>2 DEF Members, Distinct
  <2>2. ASSUME x \in Members(seq), x # Head(seq) PROVE x \in Members(Tail(seq))
    <3>1. PICK i \in 1 .. Len(seq) : x = seq[i]
      BY <2>2 DEF Members
    <3>2. i - 1 \in 1 .. Len(seq) - 1 /\ i = (i - 1) + 1
      BY <1>1, <2>2, <3>1
    <3>3. Tail(seq)[i - 1] = x
      BY <1>1, <3>1, <3>2
    <3> QED BY <1>1, <3>2, <3>3 DEF Members
  <2> QED BY <2>1, <2>2
<1>4. Head(seq) \in Members(seq)
  BY <1>1 DEF Members
<1> QED BY <1>2, <1>3, <1>4

LEMMA AppendMembers ==
  ASSUME NEW seq \in Seq(Nat), NEW x \in Nat, Distinct(seq), x \notin Members(seq)
  PROVE  /\ Distinct(Append(seq, x))
         /\ Members(Append(seq, x)) = Members(seq) \cup {x}
<1>1. /\ Len(Append(seq, x)) = Len(seq) + 1 /\ Len(seq) \in Nat
      /\ Append(seq, x)[Len(seq) + 1] = x
      /\ \A i \in 1 .. Len(seq) : Append(seq, x)[i] = seq[i]
  BY AppendFacts
<1>2. \A i \in 1 .. Len(seq) + 1 : i \in 1 .. Len(seq) \/ i = Len(seq) + 1
  BY <1>1
<1>3. Distinct(Append(seq, x))
  BY <1>1, <1>2 DEF Distinct, Members
<1>4. Members(Append(seq, x)) = Members(seq) \cup {x}
  <2>1. \A y : y \in Members(Append(seq, x))
               <=> \E i \in 1 .. Len(seq) + 1 : y = Append(seq, x)[i]
    BY <1>1 DEF Members
  <2>2. \A y : y \in Members(seq) <=> \E i \in 1 .. Len(seq) : y = seq[i]
    BY DEF Members
  <2>3. Len(seq) + 1 \in 1 .. Len(seq) + 1 /\ 1 .. Len(seq) \subseteq 1 .. Len(seq) + 1
    BY <1>1
  <2> QED BY <1>1, <1>2, <2>1, <2>2, <2>3
<1> QED BY <1>3, <1>4

LEMMA LBAsSeq ==
  ASSUME NEW q \in Seq(ScrapeSector)
  PROVE  /\ LBAs(q) \in Seq(Nat) /\ Len(LBAs(q)) = Len(q) /\ Len(q) \in Nat
         /\ \A i \in 1 .. Len(q) : LBAs(q)[i] = q[i].lba
<1>1. Len(q) \in Nat /\ \A i \in 1 .. Len(q) : q[i] \in ScrapeSector
  BY ElementOfSeq, LenProperties
<1>2. LBAs(q) \in [1 .. Len(q) -> Nat]
  BY <1>1 DEF LBAs, ScrapeSector
<1>3. LBAs(q) \in Seq(Nat)
  BY <1>1, <1>2, SeqDef
<1>4. Len(LBAs(q)) = Len(q)
  <2>1. DOMAIN LBAs(q) = 1 .. Len(q) /\ DOMAIN LBAs(q) = 1 .. Len(LBAs(q))
    BY <1>2, <1>3, LenProperties
  <2>2. Len(LBAs(q)) \in Nat
    BY <1>3, LenProperties
  <2> QED BY <1>1, <2>1, <2>2
<1> QED BY <1>1, <1>3, <1>4 DEF LBAs

LEMMA TailLBAs ==
  ASSUME NEW q \in Seq(ScrapeSector)
  PROVE  /\ LBAs(q) \in Seq(Nat) /\ Len(LBAs(q)) = Len(q)
         /\ q # <<>> =>
              /\ LBAs(q) # <<>> /\ Head(LBAs(q)) = Head(q).lba
              /\ LBAs(Tail(q)) = Tail(LBAs(q))
<1>1. LBAs(q) \in Seq(Nat) /\ Len(LBAs(q)) = Len(q) /\ Len(q) \in Nat
  BY LBAsSeq
<1>2. ASSUME q # <<>>
      PROVE  /\ LBAs(q) # <<>> /\ Head(LBAs(q)) = Head(q).lba
             /\ LBAs(Tail(q)) = Tail(LBAs(q))
  <2>1. /\ Tail(q) \in Seq(ScrapeSector) /\ Len(Tail(q)) = Len(q) - 1 /\ Len(q) >= 1
        /\ Head(q) = q[1] /\ \A i \in 1 .. Len(q) - 1 : Tail(q)[i] = q[i + 1]
    BY <1>2, TailFacts
  <2>2. LBAs(q) # <<>>
    BY <1>1, <2>1
  <2>3. /\ Tail(LBAs(q)) \in Seq(Nat) /\ Len(Tail(LBAs(q))) = Len(q) - 1
        /\ Head(LBAs(q)) = LBAs(q)[1]
        /\ \A i \in 1 .. Len(q) - 1 : Tail(LBAs(q))[i] = LBAs(q)[i + 1]
    BY <1>1, <2>2, TailFacts
  <2>4. \A i \in 1 .. Len(q) : LBAs(q)[i] = q[i].lba
    BY LBAsSeq
  <2>5. /\ LBAs(Tail(q)) \in Seq(Nat) /\ Len(LBAs(Tail(q))) = Len(q) - 1
        /\ \A i \in 1 .. Len(q) - 1 : LBAs(Tail(q))[i] = Tail(q)[i].lba
    BY <2>1, LBAsSeq
  <2>6. \A i \in 1 .. Len(q) - 1 : LBAs(Tail(q))[i] = Tail(LBAs(q))[i]
    BY <1>1, <2>1, <2>3, <2>4, <2>5
  <2>7. LBAs(Tail(q)) = Tail(LBAs(q))
    BY <2>3, <2>5, <2>6, SeqEqual
  <2> QED BY <1>1, <2>1, <2>2, <2>3, <2>4, <2>7
<1> QED BY <1>1, <1>2

LEMMA AppendLBAs ==
  ASSUME NEW q \in Seq(ScrapeSector), NEW x \in ScrapeSector
  PROVE  LBAs(Append(q, x)) = Append(LBAs(q), x.lba)
<1>1. LBAs(q) \in Seq(Nat) /\ Len(LBAs(q)) = Len(q) /\ Len(q) \in Nat /\ x.lba \in Nat
  BY LBAsSeq DEF ScrapeSector
<1>2. /\ Append(q, x) \in Seq(ScrapeSector) /\ Len(Append(q, x)) = Len(q) + 1
      /\ Append(q, x)[Len(q) + 1] = x
      /\ \A i \in 1 .. Len(q) : Append(q, x)[i] = q[i]
  BY AppendFacts
<1>3. /\ Append(LBAs(q), x.lba) \in Seq(Nat)
      /\ Len(Append(LBAs(q), x.lba)) = Len(q) + 1
      /\ Append(LBAs(q), x.lba)[Len(q) + 1] = x.lba
      /\ \A i \in 1 .. Len(q) : Append(LBAs(q), x.lba)[i] = LBAs(q)[i]
  BY <1>1, AppendFacts
<1>4. /\ LBAs(Append(q, x)) \in Seq(Nat) /\ Len(LBAs(Append(q, x))) = Len(q) + 1
      /\ \A i \in 1 .. Len(q) + 1 : LBAs(Append(q, x))[i] = Append(q, x)[i].lba
      /\ \A i \in 1 .. Len(q) : LBAs(q)[i] = q[i].lba
  BY <1>2, LBAsSeq
<1>5. \A i \in 1 .. Len(q) + 1 : LBAs(Append(q, x))[i] = Append(LBAs(q), x.lba)[i]
  <2>1. \A i \in 1 .. Len(q) + 1 : i \in 1 .. Len(q) \/ i = Len(q) + 1
    BY <1>1
  <2> QED BY <1>2, <1>3, <1>4, <2>1
<1> QED BY <1>1, <1>3, <1>4, <1>5

(* A sector goes to the end of the queue, or leaves it. *)
LEMMA RequeuedPlace ==
  ASSUME NEW q \in Seq(ScrapeSector), q # <<>>,
         NEW x \in ScrapeSector, x.lba = Head(q).lba,
         NEW r, NEW f, NEW s, OnePlace(LBAs(q), r, f, s)
  PROVE  OnePlace(LBAs(Append(Tail(q), x)), r, f, s)
<1>1. /\ LBAs(q) \in Seq(Nat) /\ LBAs(q) # <<>> /\ Head(LBAs(q)) = x.lba
      /\ Tail(q) \in Seq(ScrapeSector) /\ LBAs(Tail(q)) = Tail(LBAs(q))
      /\ x.lba \in Nat
  BY TailLBAs, TailFacts DEF ScrapeSector
<1>2. /\ Distinct(Tail(LBAs(q)))
      /\ Members(Tail(LBAs(q))) = Members(LBAs(q)) \ {x.lba} /\ x.lba \in Members(LBAs(q))
  BY <1>1, TailMembers DEF OnePlace
<1>3. LBAs(Append(Tail(q), x)) = Append(Tail(LBAs(q)), x.lba)
  BY <1>1, AppendLBAs
<1>4. /\ Distinct(Append(Tail(LBAs(q)), x.lba))
      /\ Members(Append(Tail(LBAs(q)), x.lba)) = Members(LBAs(q))
  <2>1. Tail(LBAs(q)) \in Seq(Nat) /\ x.lba \notin Members(Tail(LBAs(q)))
    BY <1>1, <1>2, TailFacts
  <2>2. /\ Distinct(Append(Tail(LBAs(q)), x.lba))
        /\ Members(Append(Tail(LBAs(q)), x.lba)) = Members(Tail(LBAs(q))) \cup {x.lba}
    BY <1>1, <1>2, <2>1, AppendMembers
  <2> QED BY <1>2, <2>2
<1> QED BY <1>3, <1>4 DEF OnePlace

LEMMA LeavingPlace ==
  ASSUME NEW q \in Seq(ScrapeSector), q # <<>>,
         NEW r \in Seq(Nat), NEW f \in Seq(Nat), NEW s, OnePlace(LBAs(q), r, f, s)
  PROVE  /\ OnePlace(LBAs(Tail(q)), Append(r, Head(q).lba), f, s)
         /\ OnePlace(LBAs(Tail(q)), r, Append(f, Head(q).lba), s)
         /\ Members(Append(f, Head(q).lba)) = Members(f) \cup {Head(q).lba}
         /\ Head(q).lba \in s
<1> DEFINE l == Head(q).lba
<1>1. /\ LBAs(q) \in Seq(Nat) /\ LBAs(q) # <<>> /\ Head(LBAs(q)) = l
      /\ LBAs(Tail(q)) = Tail(LBAs(q)) /\ l \in Nat
  BY TailLBAs, TailFacts DEF ScrapeSector
<1> HIDE DEF l
<1>2. /\ Distinct(Tail(LBAs(q)))
      /\ Members(Tail(LBAs(q))) = Members(LBAs(q)) \ {l} /\ l \in Members(LBAs(q))
  BY <1>1, TailMembers DEF OnePlace
<1>3. l \notin Members(r) /\ l \notin Members(f)
  BY <1>2 DEF OnePlace
<1>4. /\ Distinct(Append(r, l)) /\ Members(Append(r, l)) = Members(r) \cup {l}
      /\ Distinct(Append(f, l)) /\ Members(Append(f, l)) = Members(f) \cup {l}
  BY <1>1, <1>3, AppendMembers DEF OnePlace
<1>5. OnePlace(LBAs(Tail(q)), Append(r, l), f, s)
  BY <1>1, <1>2, <1>4 DEF OnePlace
<1>6. OnePlace(LBAs(Tail(q)), r, Append(f, l), s)
  BY <1>1, <1>2, <1>4 DEF OnePlace
<1>7. l \in s
  BY <1>2 DEF OnePlace
<1> QED BY <1>4, <1>5, <1>6, <1>7 DEF l

(* The group after the last read of one; "reverse" is never skipped. *)
LEMMA NextGroupFacts ==
  ASSUME NEW sector \in ScrapeSector
  PROVE  /\ \A next \in NextGroup(sector) :
              /\ next \in ScrapeSector /\ next.lba = sector.lba /\ next.reads = 0
              /\ AtLeast(next.group) <= AtLeast(sector.group) + ReadsPerGroup(sector.group)
              /\ AtMost(sector.group) + ReadsPerGroup(sector.group) <= AtMost(next.group)
         /\ NextGroup(sector) = {} => sector.group # "immediate"
<1>1. /\ Len(Groups) = 5
      /\ Groups[1] = "immediate" /\ Groups[2] = "reverse" /\ Groups[3] = "lower_speed"
      /\ Groups[4] = "reopen" /\ Groups[5] = "reset"
  BY DEF Groups
<1>2. /\ DOMAIN Preparation = {"lower_speed", "reopen", "reset"}
      /\ Preparation["lower_speed"] = "set_speed" /\ Preparation["reopen"] = "reopen"
      /\ Preparation["reset"] = "reset"
  BY DEF Preparation
<1>3. Affordable(2)
  BY <1>1, <1>2 DEF Affordable
<1>4. ASSUME NEW next \in NextGroup(sector)
      PROVE  /\ next \in ScrapeSector /\ next.lba = sector.lba /\ next.reads = 0
             /\ AtLeast(next.group) <= AtLeast(sector.group) + ReadsPerGroup(sector.group)
             /\ AtMost(sector.group) + ReadsPerGroup(sector.group) <= AtMost(next.group)
  <2>1. PICK i \in 1 .. 5, j \in 1 .. 5 :
          /\ i < j /\ Groups[i] = sector.group
          /\ \A k \in i + 1 .. j - 1 : ~Affordable(k)
          /\ next = [sector EXCEPT !.group = Groups[j], !.reads = 0,
                       !.pending = IF Groups[j] \in DOMAIN Preparation
                                   THEN Preparation[Groups[j]] ELSE "none"]
    <3>1. PICK j \in {j \in 1 .. 5 : \E i \in 1 .. j - 1 :
                        /\ Groups[i] = sector.group
                        /\ Affordable(j)
                        /\ \A k \in i + 1 .. j - 1 : ~Affordable(k)} :
            next = [sector EXCEPT !.group = Groups[j], !.reads = 0,
                      !.pending = IF Groups[j] \in DOMAIN Preparation
                                  THEN Preparation[Groups[j]] ELSE "none"]
      BY <1>1, <1>4 DEF NextGroup
    <3>2. PICK i \in 1 .. j - 1 : /\ Groups[i] = sector.group
                                  /\ \A k \in i + 1 .. j - 1 : ~Affordable(k)
      BY <3>1
    <3>3. j \in 1 .. 5 /\ i \in 1 .. 5 /\ i < j
      BY <3>1, <3>2
    <3> QED BY <3>1, <3>2, <3>3
  <2>2. /\ next.lba = sector.lba /\ next.reads = 0 /\ next.group = Groups[j]
    BY <2>1 DEF ScrapeSector
  <2>3. next \in ScrapeSector
    <3>1. /\ Groups[j] \in {"immediate", "reverse", "lower_speed", "reopen", "reset"}
          /\ Groups[j] \in DOMAIN Preparation => Preparation[Groups[j]] \in Prepared
      BY <1>1, <1>2 DEF Prepared
    <3> QED BY <2>1, <3>1 DEF ScrapeSector
  <2>4. i = 1 => j = 2
    BY <1>3, <2>1
  <2>5. i \in 1 .. 4 /\ j \in 2 .. 5 /\ i < j
    BY <2>1
  <2>6. /\ AtLeast(Groups[j]) <= AtLeast(Groups[i]) + ReadsPerGroup(Groups[i])
        /\ AtMost(Groups[i]) + ReadsPerGroup(Groups[i]) <= AtMost(Groups[j])
    <3>1. CASE i = 1 BY <1>1, <2>4, <2>5, <3>1 DEF AtLeast, AtMost, ReadsPerGroup
    <3>2. CASE i = 2 BY <1>1, <2>5, <3>2 DEF AtLeast, AtMost, ReadsPerGroup
    <3>3. CASE i = 3 BY <1>1, <2>5, <3>3 DEF AtLeast, AtMost, ReadsPerGroup
    <3>4. CASE i = 4 BY <1>1, <2>5, <3>4 DEF AtLeast, AtMost, ReadsPerGroup
    <3> QED BY <2>5, <3>1, <3>2, <3>3, <3>4
  <2> QED BY <2>1, <2>2, <2>3, <2>6
<1>5. ASSUME sector.group = "immediate" PROVE NextGroup(sector) # {}
  <2>1. 2 \in {j \in 1 .. Len(Groups) : \E i \in 1 .. j - 1 :
                 /\ Groups[i] = sector.group
                 /\ Affordable(j)
                 /\ \A k \in i + 1 .. j - 1 : ~Affordable(k)}
    <3>1. 1 \in 1 .. 2 - 1 /\ 1 + 1 .. 2 - 1 = {}
      OBVIOUS
    <3> QED BY <1>1, <1>3, <1>5, <3>1
  <2> QED BY <2>1 DEF NextGroup
<1> QED BY <1>4, <1>5

LEMMA ScrapeInvInit == ScrapePassInit => ScrapeInv
<1> SUFFICES ASSUME NEW lbas \in ScrapeOrders, NEW budget \in [Prepared -> Nat],
                    StartScrapePass(lbas, budget)
             PROVE  ScrapeInv
  BY DEF ScrapePassInit
<1> DEFINE q == [i \in 1 .. Len(lbas) |-> [lba |-> lbas[i], group |-> "immediate",
                                           reads |-> 0, pending |-> "none"]]
<1>1. lbas \in Seq(Nat) /\ Len(lbas) \in Nat /\ \A i \in 1 .. Len(lbas) : lbas[i] \in Nat
  BY LenProperties, ElementOfSeq DEF ScrapeOrders
<1>2. /\ scrapeQueue = q /\ scrapeActive = "none"
      /\ recoveredSectors = <<>> /\ failedSectors = <<>>
      /\ scrapeFailures = [s \in {lbas[i] : i \in 1 .. Len(lbas)} |-> 0]
  BY DEF StartScrapePass
<1>3. /\ q \in [1 .. Len(lbas) -> ScrapeSector]
      /\ \A i \in 1 .. Len(lbas) : /\ q[i].lba = lbas[i] /\ q[i].reads = 0
                                   /\ q[i].group = "immediate"
  BY <1>1 DEF ScrapeSector
<1> HIDE DEF q
<1>4. q \in Seq(ScrapeSector)
  <2>1. q \in UNION {[1 .. k -> ScrapeSector] : k \in Nat}
    BY <1>1, <1>3
  <2> QED BY <2>1, SeqDef
<1>5. Len(q) = Len(lbas)
  <2>1. DOMAIN q = 1 .. Len(lbas) /\ DOMAIN q = 1 .. Len(q) /\ Len(q) \in Nat
    BY <1>3, <1>4, LenProperties
  <2> QED BY <1>1, <2>1
<1>6. LBAs(q) = lbas
  <2>1. /\ LBAs(q) \in Seq(Nat) /\ Len(LBAs(q)) = Len(lbas)
        /\ \A i \in 1 .. Len(LBAs(q)) : LBAs(q)[i] = lbas[i]
    BY <1>3, <1>4, <1>5, LBAsSeq
  <2> QED BY <1>1, <2>1, SeqEqual
<1>7. <<>> \in Seq(Nat) /\ Members(<<>>) = {} /\ Distinct(<<>>)
  BY DEF Members, Distinct
<1>8. /\ DOMAIN scrapeFailures = Members(lbas)
      /\ \A s \in DOMAIN scrapeFailures : scrapeFailures[s] = 0
      /\ scrapeFailures \in [DOMAIN scrapeFailures -> Nat]
  BY <1>2 DEF Members
<1>9. ScrapeTyped
  <2>1. DOMAIN scrapeFailures \subseteq Nat
    BY <1>1, <1>8 DEF Members
  <2> QED BY <1>2, <1>4, <1>7, <1>8, <2>1 DEF ScrapeTyped
<1>10. OnePlace(LBAs(scrapeQueue), recoveredSectors, failedSectors, DOMAIN scrapeFailures)
  <2>1. Distinct(lbas)
    BY DEF ScrapeOrders, Distinct
  <2> QED BY <1>2, <1>6, <1>7, <1>8, <2>1 DEF OnePlace
<1>11. \A i \in 1 .. Len(scrapeQueue) :
         OnLadder(scrapeQueue[i], scrapeFailures[scrapeQueue[i].lba])
  <2>1. ASSUME NEW i \in 1 .. Len(q) PROVE OnLadder(q[i], scrapeFailures[q[i].lba])
    <3>1. q[i].lba \in Members(lbas)
      BY <1>3, <1>5 DEF Members
    <3>2. scrapeFailures[q[i].lba] = 0 /\ q[i].reads = 0 /\ q[i].group = "immediate"
      BY <1>3, <1>5, <1>8, <3>1
    <3> QED BY <3>2 DEF OnLadder, AtLeast, AtMost, ReadsPerGroup
  <2> QED BY <1>2, <2>1
<1>12. /\ \A s \in DOMAIN scrapeFailures : scrapeFailures[s] <= 8
       /\ \A s \in Members(failedSectors) : scrapeFailures[s] >= 4
  BY <1>2, <1>7, <1>8
<1> QED BY <1>9, <1>10, <1>11, <1>12 DEF ScrapeInv

(* A rotated queue holds the sectors it held, but for the one moved. *)
LEMMA RotatedSectors ==
  ASSUME NEW q \in Seq(ScrapeSector), q # <<>>, NEW x \in ScrapeSector,
         NEW i \in 1 .. Len(Append(Tail(q), x))
  PROVE  \/ Append(Tail(q), x)[i] = x
         \/ \E k \in 2 .. Len(q) : Append(Tail(q), x)[i] = q[k]
<1>1. /\ Tail(q) \in Seq(ScrapeSector) /\ Len(Tail(q)) = Len(q) - 1
      /\ Len(q) \in Nat /\ Len(q) >= 1
      /\ \A k \in 1 .. Len(q) - 1 : Tail(q)[k] = q[k + 1]
  BY TailFacts
<1>2. /\ Len(Append(Tail(q), x)) = Len(q) /\ Append(Tail(q), x)[Len(q)] = x
      /\ \A k \in 1 .. Len(q) - 1 : Append(Tail(q), x)[k] = Tail(q)[k]
  <2>1. /\ Len(Append(Tail(q), x)) = Len(Tail(q)) + 1
        /\ Append(Tail(q), x)[Len(Tail(q)) + 1] = x
        /\ \A k \in 1 .. Len(Tail(q)) : Append(Tail(q), x)[k] = Tail(q)[k]
    BY <1>1, AppendFacts
  <2>2. Len(Tail(q)) + 1 = Len(q)
    BY <1>1
  <2> QED BY <1>1, <2>1, <2>2
<1>3. CASE i = Len(q)
  BY <1>2, <1>3
<1>4. CASE i # Len(q)
  <2>1. i \in 1 .. Len(q) - 1 /\ i + 1 \in 2 .. Len(q)
    <3>1. i \in 1 .. Len(q)
      BY <1>2
    <3>2. \A n \in Nat : i \in 1 .. n /\ i # n => i \in 1 .. n - 1 /\ i + 1 \in 2 .. n
      OBVIOUS
    <3> QED BY ONLY <1>1, <1>4, <3>1, <3>2
  <2> QED BY <1>1, <1>2, <2>1
<1> QED BY <1>3, <1>4

(* Another sector of the queue is not the one at its head. *)
LEMMA OthersDiffer ==
  ASSUME NEW q \in Seq(ScrapeSector), q # <<>>, Distinct(LBAs(q)),
         NEW k \in 2 .. Len(q)
  PROVE  q[k].lba # Head(q).lba /\ k \in 1 .. Len(q)
<1>1. Head(q) = q[1] /\ Len(q) \in Nat /\ Len(q) >= 1
  BY TailFacts
<1>2. k \in 1 .. Len(q) /\ 1 \in 1 .. Len(q) /\ k # 1
  BY <1>1
<1>3. Len(LBAs(q)) = Len(q) /\ LBAs(q)[k] = q[k].lba /\ LBAs(q)[1] = q[1].lba
  BY <1>2, LBAsSeq
<1>4. LBAs(q)[k] = LBAs(q)[1] => k = 1
  BY <1>2, <1>3 DEF Distinct
<1> QED BY <1>1, <1>2, <1>3, <1>4

LEMMA DispatchScrapeStep ==
  ASSUME ScrapeInv, DispatchScrapePass
  PROVE  ScrapeInv'
<1>1. /\ scrapeQueue' = scrapeQueue /\ recoveredSectors' = recoveredSectors
      /\ failedSectors' = failedSectors /\ scrapeFailures' = scrapeFailures
      /\ scrapeQueue # <<>>
  BY DEF DispatchScrapePass
<1> QED BY <1>1 DEF ScrapeInv, ScrapeTyped

LEMMA ScrapePreparationStep ==
  ASSUME ScrapeInv, ResolveScrapePreparation
  PROVE  ScrapeInv'
<1> DEFINE q == scrapeQueue
           x == [Head(q) EXCEPT !.pending = "none"]
<1>1. /\ q \in Seq(ScrapeSector) /\ q # <<>>
      /\ OnePlace(LBAs(q), recoveredSectors, failedSectors, DOMAIN scrapeFailures)
      /\ \A i \in 1 .. Len(q) : OnLadder(q[i], scrapeFailures[q[i].lba])
  BY DEF ScrapeInv, ScrapeTyped, ResolveScrapePreparation, Prepared
<1>2. /\ Tail(q) \in Seq(ScrapeSector) /\ Head(q) \in ScrapeSector /\ Head(q) = q[1]
      /\ Len(q) \in Nat /\ Len(q) >= 1
  BY <1>1, TailFacts
<1>3. /\ x \in ScrapeSector /\ x.lba = Head(q).lba
      /\ x.group = Head(q).group /\ x.reads = Head(q).reads
  BY <1>2 DEF ScrapeSector
<1>4. /\ scrapeQueue' = Append(Tail(q), x) /\ scrapeActive' = "none"
      /\ recoveredSectors' = recoveredSectors /\ failedSectors' = failedSectors
      /\ scrapeFailures' = scrapeFailures
  BY DEF ResolveScrapePreparation
<1> HIDE DEF q, x
<1>5. OnePlace(LBAs(Append(Tail(q), x)), recoveredSectors, failedSectors,
               DOMAIN scrapeFailures)
  BY <1>1, <1>3, RequeuedPlace
<1>6. ASSUME NEW i \in 1 .. Len(Append(Tail(q), x))
      PROVE  OnLadder(Append(Tail(q), x)[i], scrapeFailures[Append(Tail(q), x)[i].lba])
  <2>1. OnLadder(x, scrapeFailures[x.lba])
    <3>1. OnLadder(Head(q), scrapeFailures[Head(q).lba])
      BY <1>1, <1>2
    <3> QED BY <1>3, <3>1 DEF OnLadder
  <2>2. \/ Append(Tail(q), x)[i] = x
        \/ \E k \in 2 .. Len(q) : Append(Tail(q), x)[i] = q[k]
    BY <1>1, <1>3, RotatedSectors
  <2>3. \A k \in 2 .. Len(q) : k \in 1 .. Len(q)
    BY <1>2
  <2> QED BY <1>1, <2>1, <2>2, <2>3
<1>7. Append(Tail(q), x) \in Seq(ScrapeSector)
  BY <1>2, <1>3, AppendFacts
<1> QED BY <1>4, <1>5, <1>6, <1>7 DEF ScrapeInv, ScrapeTyped

LEMMA ScrapeSuccessStep ==
  ASSUME ScrapeInv, ResolveScrapeSuccess
  PROVE  ScrapeInv'
<1> DEFINE q == scrapeQueue
           l == Head(q).lba
<1>1. /\ q \in Seq(ScrapeSector) /\ q # <<>>
      /\ recoveredSectors \in Seq(Nat) /\ failedSectors \in Seq(Nat)
      /\ OnePlace(LBAs(q), recoveredSectors, failedSectors, DOMAIN scrapeFailures)
      /\ \A i \in 1 .. Len(q) : OnLadder(q[i], scrapeFailures[q[i].lba])
  BY DEF ScrapeInv, ScrapeTyped, ResolveScrapeSuccess
<1>2. /\ Tail(q) \in Seq(ScrapeSector) /\ Len(Tail(q)) = Len(q) - 1 /\ l \in Nat
      /\ Len(q) \in Nat /\ \A i \in 1 .. Len(q) - 1 : Tail(q)[i] = q[i + 1]
  <2> HIDE DEF q
  <2>1. /\ Tail(q) \in Seq(ScrapeSector) /\ Len(Tail(q)) = Len(q) - 1
        /\ Len(q) \in Nat /\ \A i \in 1 .. Len(q) - 1 : Tail(q)[i] = q[i + 1]
        /\ Head(q) \in ScrapeSector
    BY <1>1, TailFacts
  <2> QED BY <2>1 DEF ScrapeSector
<1>3. /\ scrapeQueue' = Tail(q) /\ scrapeActive' = "none"
      /\ recoveredSectors' = Append(recoveredSectors, l)
      /\ failedSectors' = failedSectors /\ scrapeFailures' = scrapeFailures
  BY DEF ResolveScrapeSuccess
<1>4. OnePlace(LBAs(Tail(q)), Append(recoveredSectors, l), failedSectors,
               DOMAIN scrapeFailures)
  BY <1>1, LeavingPlace
<1> HIDE DEF q, l
<1>5. \A i \in 1 .. Len(Tail(q)) : OnLadder(Tail(q)[i], scrapeFailures[Tail(q)[i].lba])
  <2>1. \A i \in 1 .. Len(q) - 1 : i + 1 \in 1 .. Len(q)
    BY <1>2
  <2> QED BY <1>1, <1>2, <2>1
<1>6. Append(recoveredSectors, l) \in Seq(Nat)
  BY <1>1, <1>2, AppendFacts
<1> QED BY <1>2, <1>3, <1>4, <1>5, <1>6 DEF ScrapeInv, ScrapeTyped

LEMMA ScrapeFailureStep ==
  ASSUME ScrapeInv, ResolveScrapeFailure
  PROVE  ScrapeInv'
<1> DEFINE q == scrapeQueue
           sector == Head(q)
           l == sector.lba
           n == scrapeFailures[l]
           last == sector.reads + 1 >= ReadsPerGroup(sector.group)
           later == IF last THEN NextGroup(sector) ELSE {RetryInGroup(sector)}
<1>1. /\ q \in Seq(ScrapeSector) /\ q # <<>>
      /\ recoveredSectors \in Seq(Nat) /\ failedSectors \in Seq(Nat)
      /\ DOMAIN scrapeFailures \subseteq Nat
      /\ scrapeFailures \in [DOMAIN scrapeFailures -> Nat]
      /\ OnePlace(LBAs(q), recoveredSectors, failedSectors, DOMAIN scrapeFailures)
      /\ \A i \in 1 .. Len(q) : OnLadder(q[i], scrapeFailures[q[i].lba])
      /\ \A s \in DOMAIN scrapeFailures : scrapeFailures[s] <= 8
      /\ \A s \in Members(failedSectors) : scrapeFailures[s] >= 4
  BY DEF ScrapeInv, ScrapeTyped, ResolveScrapeFailure
<1>2. /\ Tail(q) \in Seq(ScrapeSector) /\ Len(Tail(q)) = Len(q) - 1
      /\ sector \in ScrapeSector /\ sector = q[1] /\ l \in Nat
      /\ sector.reads \in Nat
      /\ Len(q) \in Nat /\ Len(q) >= 1
      /\ \A i \in 1 .. Len(q) - 1 : Tail(q)[i] = q[i + 1]
  <2> HIDE DEF q
  <2>1. /\ Tail(q) \in Seq(ScrapeSector) /\ Len(Tail(q)) = Len(q) - 1
        /\ Len(q) \in Nat /\ Len(q) >= 1
        /\ \A i \in 1 .. Len(q) - 1 : Tail(q)[i] = q[i + 1]
        /\ Head(q) \in ScrapeSector /\ Head(q) = q[1]
    BY <1>1, TailFacts
  <2> QED BY <2>1 DEF ScrapeSector
<1>3. /\ scrapeActive' = "none" /\ recoveredSectors' = recoveredSectors
      /\ scrapeFailures' = [scrapeFailures EXCEPT ![l] = @ + 1]
      /\ \/ (later = {} /\ scrapeQueue' = Tail(q) /\ failedSectors' = Append(failedSectors, l))
         \/ \E next \in later : /\ scrapeQueue' = Append(Tail(q), next)
                                /\ failedSectors' = failedSectors
  BY DEF ResolveScrapeFailure
<1>4. /\ OnePlace(LBAs(Tail(q)), recoveredSectors, Append(failedSectors, l),
                  DOMAIN scrapeFailures)
      /\ Members(Append(failedSectors, l)) = Members(failedSectors) \cup {l}
      /\ l \in DOMAIN scrapeFailures
  BY <1>1, LeavingPlace
<1> HIDE DEF q
<1>5. /\ DOMAIN scrapeFailures' = DOMAIN scrapeFailures
      /\ scrapeFailures'[l] = n + 1 /\ n \in Nat
      /\ \A s \in DOMAIN scrapeFailures : s # l => scrapeFailures'[s] = scrapeFailures[s]
      /\ scrapeFailures' \in [DOMAIN scrapeFailures' -> Nat]
  BY <1>1, <1>3, <1>4
<1>6. OnLadder(sector, n)
  <2>1. 1 \in 1 .. Len(q)
    BY <1>2
  <2>2. OnLadder(q[1], scrapeFailures[q[1].lba])
    BY <1>1, <2>1
  <2>3. sector = q[1]
    BY <1>2
  <2> QED BY <2>2, <2>3
<1>7. /\ ReadsPerGroup(sector.group) \in 1 .. 2
      /\ AtLeast(sector.group) \in Nat /\ AtMost(sector.group) \in Nat
      /\ AtMost(sector.group) + ReadsPerGroup(sector.group) <= 8
      /\ sector.group # "immediate" =>
           AtLeast(sector.group) + ReadsPerGroup(sector.group) >= 4
           \/ sector.group \in {"lower_speed", "reopen", "reset"}
      /\ sector.group \in {"lower_speed", "reopen", "reset"} => AtLeast(sector.group) = 4
  BY <1>2 DEF ScrapeSector, ReadsPerGroup, AtLeast, AtMost
<1>8. n + 1 <= 8
  BY <1>2, <1>5, <1>6, <1>7 DEF OnLadder
<1>9. last => sector.reads + 1 = ReadsPerGroup(sector.group)
  BY <1>2, <1>6, <1>7 DEF OnLadder
<1>10. last /\ sector.group # "immediate" => n + 1 >= 4
  <2> HIDE DEF sector, n, last
  <2> SUFFICES ASSUME last, sector.group # "immediate" PROVE n + 1 >= 4
    OBVIOUS
  <2>1. /\ AtLeast(sector.group) + sector.reads <= n
        /\ sector.reads + 1 = ReadsPerGroup(sector.group)
    BY <1>6, <1>9 DEF OnLadder
  <2>2. AtLeast(sector.group) + ReadsPerGroup(sector.group) >= 4 \/ AtLeast(sector.group) = 4
    BY <1>7
  <2> QED BY <1>2, <1>5, <1>7, <2>1, <2>2
<1>11. ASSUME NEW next \in later
       PROVE  /\ next \in ScrapeSector /\ next.lba = l
              /\ OnLadder(next, n + 1)
  <2> HIDE DEF sector, n, l
  <2>1. CASE last
    <3>1. next \in NextGroup(sector)
      BY <1>11, <2>1
    <3>2. /\ next \in ScrapeSector /\ next.lba = sector.lba /\ next.reads = 0
          /\ AtLeast(next.group) <= AtLeast(sector.group) + ReadsPerGroup(sector.group)
          /\ AtMost(sector.group) + ReadsPerGroup(sector.group) <= AtMost(next.group)
      BY <1>2, <3>1, NextGroupFacts
    <3>3. /\ ReadsPerGroup(next.group) > 0 /\ AtLeast(next.group) \in Nat
          /\ AtMost(next.group) \in Nat
      BY <3>2 DEF ScrapeSector, ReadsPerGroup, AtLeast, AtMost
    <3>4. /\ AtLeast(sector.group) + sector.reads <= n
          /\ n <= AtMost(sector.group) + sector.reads
          /\ sector.reads + 1 = ReadsPerGroup(sector.group)
      BY <1>6, <1>9, <2>1 DEF OnLadder
    <3>5. AtLeast(next.group) + 0 <= n + 1 /\ n + 1 <= AtMost(next.group) + 0
      <4> DEFINE a == AtLeast(sector.group)
                 b == AtMost(sector.group)
                 k == ReadsPerGroup(sector.group)
                 c == AtLeast(next.group)
                 d == AtMost(next.group)
                 m == sector.reads
      <4>1. a \in Nat /\ b \in Nat /\ k \in Nat /\ c \in Nat /\ d \in Nat /\ m \in Nat /\ n \in Nat
        BY <1>2, <1>5, <1>7, <3>3
      <4>2. a + m <= n /\ n <= b + m /\ m + 1 = k /\ c <= a + k /\ b + k <= d
        BY <3>2, <3>4
      <4> HIDE DEF a, b, k, c, d, m
      <4>3. c + 0 <= n + 1 /\ n + 1 <= d + 0
        BY <4>1, <4>2
      <4> QED BY <4>3 DEF c, d
    <3>6. AtLeast(next.group) + next.reads <= n + 1 /\ n + 1 <= AtMost(next.group) + next.reads
      BY <3>2, <3>5
    <3>7. next.reads < ReadsPerGroup(next.group)
      BY <3>2, <3>3
    <3> QED BY <3>2, <3>6, <3>7 DEF OnLadder, l
  <2>2. CASE ~last
    <3>1. next = RetryInGroup(sector)
      BY <1>11, <2>2
    <3>2. /\ next \in ScrapeSector /\ next.lba = l /\ next.group = sector.group
          /\ next.reads = sector.reads + 1
      <4>1. \E p \in Prepared \cup {"none"} :
              next = [sector EXCEPT !.reads = @ + 1, !.pending = p]
        BY <3>1 DEF RetryInGroup, Prepared
      <4>2. PICK p \in Prepared \cup {"none"} :
              next = [sector EXCEPT !.reads = @ + 1, !.pending = p]
        BY <4>1
      <4>3. /\ next.lba = sector.lba /\ next.group = sector.group
            /\ next.reads = sector.reads + 1 /\ next \in ScrapeSector
        <5>1. /\ sector.lba \in Nat /\ sector.reads + 1 \in Nat
              /\ sector.group \in {"immediate", "reverse", "lower_speed", "reopen", "reset"}
          BY <1>2 DEF ScrapeSector
        <5>2. next = [lba |-> sector.lba, group |-> sector.group,
                      reads |-> sector.reads + 1, pending |-> p]
          BY <1>2, <4>2 DEF ScrapeSector
        <5> QED BY <5>1, <5>2 DEF ScrapeSector
      <4> QED BY <4>3 DEF l
    <3>3. sector.reads + 1 < ReadsPerGroup(sector.group)
      BY <1>2, <1>7, <2>2
    <3> HIDE DEF last, later
    <3>4. /\ AtLeast(next.group) + next.reads <= n + 1
          /\ n + 1 <= AtMost(next.group) + next.reads
      <4>1. /\ AtLeast(sector.group) + sector.reads <= n
            /\ n <= AtMost(sector.group) + sector.reads
        BY <1>6 DEF OnLadder
      <4>2. /\ sector.reads \in Nat /\ n \in Nat
            /\ AtLeast(sector.group) \in Nat /\ AtMost(sector.group) \in Nat
        BY <1>2, <1>5, <1>7
      <4>3. /\ AtLeast(sector.group) + (sector.reads + 1) <= n + 1
            /\ n + 1 <= AtMost(sector.group) + (sector.reads + 1)
        BY <4>1, <4>2
      <4> QED BY <3>2, <4>3
    <3> QED BY <3>2, <3>3, <3>4 DEF OnLadder
  <2> QED BY <2>1, <2>2
<1>12. \A s \in DOMAIN scrapeFailures' : scrapeFailures'[s] <= 8
  BY <1>1, <1>5, <1>8
<1>13. l \notin Members(failedSectors)
  <2>1. LBAs(q) # <<>> /\ LBAs(q) \in Seq(Nat) /\ Head(LBAs(q)) = l
    BY <1>1, TailLBAs
  <2>2. l \in Members(LBAs(q))
    BY <1>1, <2>1, TailMembers DEF OnePlace
  <2> QED BY <1>1, <2>2 DEF OnePlace
<1>14. \A s \in Members(failedSectors) : s \in DOMAIN scrapeFailures
  BY <1>1 DEF OnePlace
<1>15. Distinct(LBAs(q))
  BY <1>1 DEF OnePlace
<1>16. \A k \in 2 .. Len(q) : OnLadder(q[k], scrapeFailures'[q[k].lba])
  <2>1. ASSUME NEW k \in 2 .. Len(q) PROVE OnLadder(q[k], scrapeFailures'[q[k].lba])
    <3>1. q[k].lba # l /\ k \in 1 .. Len(q)
      BY <1>1, <1>15, OthersDiffer
    <3>2. LBAs(q)[k] = q[k].lba /\ Len(LBAs(q)) = Len(q)
      BY <1>1, <3>1, LBAsSeq
    <3>3. q[k].lba \in DOMAIN scrapeFailures
      BY <1>1, <3>1, <3>2 DEF OnePlace, Members
    <3> QED BY <1>1, <1>5, <3>1, <3>3
  <2> QED BY <2>1
<1> HIDE DEF sector, l, n, last
<1>17. CASE /\ later = {} /\ scrapeQueue' = Tail(q)
            /\ failedSectors' = Append(failedSectors, l)
  <2>1. n + 1 >= 4
    <3>1. last /\ NextGroup(sector) = {}
      BY <1>17
    <3> QED BY <1>2, <1>10, <3>1, NextGroupFacts
  <2>2. \A s \in Members(failedSectors') : scrapeFailures'[s] >= 4
    BY <1>1, <1>4, <1>5, <1>13, <1>14, <1>17, <2>1
  <2>3. \A i \in 1 .. Len(Tail(q)) : OnLadder(Tail(q)[i], scrapeFailures'[Tail(q)[i].lba])
    <3>1. \A i \in 1 .. Len(q) - 1 : i + 1 \in 2 .. Len(q)
      BY <1>2
    <3> QED BY <1>2, <1>16, <3>1
  <2>4. Append(failedSectors, l) \in Seq(Nat)
    BY <1>1, <1>2, AppendFacts
  <2> QED BY <1>1, <1>2, <1>3, <1>4, <1>5, <1>12, <1>17, <2>2, <2>3, <2>4
          DEF ScrapeInv, ScrapeTyped
<1>18. ASSUME NEW next \in later, scrapeQueue' = Append(Tail(q), next),
              failedSectors' = failedSectors
       PROVE  ScrapeInv'
  <2>1. next \in ScrapeSector /\ next.lba = l /\ OnLadder(next, n + 1)
    BY <1>11
  <2>2. OnePlace(LBAs(Append(Tail(q), next)), recoveredSectors, failedSectors,
                 DOMAIN scrapeFailures)
    BY <1>1, <2>1, RequeuedPlace DEF l, sector
  <2>3. ASSUME NEW i \in 1 .. Len(Append(Tail(q), next))
        PROVE  OnLadder(Append(Tail(q), next)[i], scrapeFailures'[Append(Tail(q), next)[i].lba])
    <3>1. \/ Append(Tail(q), next)[i] = next
          \/ \E k \in 2 .. Len(q) : Append(Tail(q), next)[i] = q[k]
      BY <1>1, <2>1, RotatedSectors
    <3> QED BY <1>5, <1>16, <2>1, <3>1
  <2>4. \A s \in Members(failedSectors) : scrapeFailures'[s] >= 4
    BY <1>1, <1>5, <1>13, <1>14
  <2>5. Append(Tail(q), next) \in Seq(ScrapeSector)
    BY <1>2, <2>1, AppendFacts
  <2> QED BY <1>1, <1>3, <1>5, <1>12, <1>18, <2>2, <2>3, <2>4, <2>5
          DEF ScrapeInv, ScrapeTyped
<1> QED BY <1>3, <1>17, <1>18

LEMMA ScrapeInvStep ==
  ASSUME ScrapeInv, [ScrapePassNext]_scrapeVars
  PROVE  ScrapeInv'
<1>1. CASE UNCHANGED scrapeVars
  BY <1>1 DEF scrapeVars, ScrapeInv, ScrapeTyped
<1> QED BY <1>1, DispatchScrapeStep, ScrapePreparationStep, ScrapeSuccessStep,
           ScrapeFailureStep DEF ScrapePassNext

(* A sequence without repetition holds a sector at one place, or nowhere. *)
LEMMA PlaceOf ==
  ASSUME NEW seq, Distinct(seq), NEW s
  PROVE  /\ s \in Members(seq) => \E p \in Times(seq, s) : Times(seq, s) = {p}
         /\ s \in Members(seq) <=> Times(seq, s) # {}
  BY DEF Distinct, Members, Times

(* For any sectors in any order and budgets of any size: however they take *)
(* turns, each sector waits, is recovered or is given up, in one place;    *)
(* none fails more than eight times, and none is given up before its two   *)
(* immediate and two reverse reads.                                        *)
THEOREM ScrapePassLosesNothing == ScrapePassSpec => []ScrapePassAccounts
<1>1. ASSUME ScrapeInv PROVE ScrapePassAccounts
  <2>1. QueuedLBAs = LBAs(scrapeQueue)
    BY DEF QueuedLBAs, LBAs
  <2>2. ASSUME NEW s \in DOMAIN scrapeFailures
        PROVE  \E i \in 1 .. 3 :
                 LET places == <<Times(QueuedLBAs, s), Times(recoveredSectors, s),
                                 Times(failedSectors, s)>>
                 IN /\ \E p \in places[i] : places[i] = {p}
                    /\ \A j \in 1 .. 3 \ {i} : places[j] = {}
    <3> DEFINE places == <<Times(QueuedLBAs, s), Times(recoveredSectors, s),
                           Times(failedSectors, s)>>
    <3>1. /\ places[1] = Times(QueuedLBAs, s) /\ places[2] = Times(recoveredSectors, s)
          /\ places[3] = Times(failedSectors, s)
      OBVIOUS
    <3>2. /\ s \in Members(QueuedLBAs) => \E p \in places[1] : places[1] = {p}
          /\ s \in Members(recoveredSectors) => \E p \in places[2] : places[2] = {p}
          /\ s \in Members(failedSectors) => \E p \in places[3] : places[3] = {p}
          /\ s \in Members(QueuedLBAs) <=> places[1] # {}
          /\ s \in Members(recoveredSectors) <=> places[2] # {}
          /\ s \in Members(failedSectors) <=> places[3] # {}
      BY <1>1, <2>1, <3>1, PlaceOf DEF ScrapeInv, OnePlace
    <3> HIDE DEF places
    <3>3. /\ s \in Members(QueuedLBAs) \/ s \in Members(recoveredSectors)
               \/ s \in Members(failedSectors)
          /\ ~(s \in Members(QueuedLBAs) /\ s \in Members(recoveredSectors))
          /\ ~(s \in Members(QueuedLBAs) /\ s \in Members(failedSectors))
          /\ ~(s \in Members(recoveredSectors) /\ s \in Members(failedSectors))
      BY <1>1, <2>1 DEF ScrapeInv, OnePlace
    <3>4. 1 .. 3 = {1, 2, 3}
      OBVIOUS
    <3>5. \E i \in {1, 2, 3} : /\ \E p \in places[i] : places[i] = {p}
                               /\ \A j \in {1, 2, 3} \ {i} : places[j] = {}
      <4>1. CASE s \in Members(QueuedLBAs)   BY <3>2, <3>3, <4>1
      <4>2. CASE s \in Members(recoveredSectors) BY <3>2, <3>3, <4>2
      <4>3. CASE s \in Members(failedSectors) BY <3>2, <3>3, <4>3
      <4> QED BY <3>3, <4>1, <4>2, <4>3
    <3> QED BY <3>4, <3>5 DEF places
  <2>3. ASSUME NEW s, Times(failedSectors, s) # {} PROVE s \in Members(failedSectors)
    BY <2>3 DEF Times, Members
  <2> QED BY <1>1, <2>2, <2>3 DEF ScrapeInv, ScrapePassAccounts
<1> QED BY <1>1, ScrapeInvInit, ScrapeInvStep, PTL DEF ScrapePassSpec

----------------------------------------------------------------------------
(***************************************************************************)
(* The stop controller.  A finalization is under way from its claim until  *)
(* one of its steps ends it, and is claimed once.                          *)
(***************************************************************************)
Finalizing == {"checkpoint", "checkpointed", "release", "released"}

StopTyped ==
    /\ life \in LifecycleType
    /\ fin \in Finalizing \cup {"idle", "over"}
    /\ reads \in Nat

(* While the session is finalized it can only fail or be asked to stop     *)
(* again; what the hooks have done is on record; and a session that has    *)
(* come to its checkpoint reads no more.                                   *)
StopInv ==
    /\ StopTyped
    /\ ~finalized => fin = "idle"
    /\ life.state \in {"checkpointing", "releasing_device", "stopped"} => ~life.activeRead
    /\ fin \in Finalizing =>
         ~life.activeRead /\ life.state \in {"checkpointing", "releasing_device", "failed"}
    /\ fin \in {"checkpointed", "release", "released"} => checkpointed
    /\ fin = "released" => released
    /\ life.state = "stopped" => fin = "over" /\ checkpointed /\ released

(* What the methods of Lifecycle make of a session. *)
LEMMA BeginReadRuns ==
  ASSUME NEW l \in LifecycleType, NEW id \in Nat, BeginReadAllowed(l, id)
  PROVE  BeginRead(l, id) \in LifecycleType /\ BeginRead(l, id).state = "running"
  BY DEF BeginReadAllowed, BeginRead, LifecycleType, JobState

LEMMA RequestStopMoves ==
  ASSUME NEW l \in LifecycleType, NEW intent \in StopIntent, RequestStopAllowed(l)
  PROVE  /\ RequestStop(l, intent) \in LifecycleType
         /\ RequestStop(l, intent).activeRead = l.activeRead
         /\ \/ RequestStop(l, intent) = l
            \/ l.activeRead /\ RequestStop(l, intent).state = "canceling_read"
            \/ ~l.activeRead /\ RequestStop(l, intent).state = "checkpointing"
  BY DEF RequestStopAllowed, RequestStop, LifecycleType, JobState

LEMMA LifecycleMethods ==
  ASSUME NEW l \in LifecycleType
  PROVE  /\ \A id : CompleteReadAllowed(l, id) =>
              /\ CompleteRead(l, id) \in LifecycleType
              /\ ~CompleteRead(l, id).activeRead
              /\ CompleteRead(l, id).state \in {l.state, "checkpointing"}
         /\ /\ GraceExpired(l) \in LifecycleType
            /\ GraceExpired(l).activeRead = l.activeRead
            /\ GraceExpired(l) = l \/ GraceExpired(l).state = "awaiting_force_stop"
            /\ l.state # "canceling_read" => GraceExpired(l) = l
         /\ ForceStopAllowed(l) =>
              /\ l.state = "awaiting_force_stop"
              /\ ForceStop(l) \in LifecycleType /\ ForceStop(l).state = "force_stopping"
         /\ /\ LifecycleFail(l) \in LifecycleType /\ LifecycleFail(l).state = "failed"
            /\ LifecycleFail(l).activeRead = l.activeRead
         /\ CheckpointedAllowed(l) =>
              /\ Checkpointed(l) \in LifecycleType
              /\ Checkpointed(l).state = "releasing_device"
              /\ Checkpointed(l).activeRead = l.activeRead
         /\ /\ Released(l, FALSE) \in LifecycleType
            /\ Released(l, FALSE).activeRead = l.activeRead
            /\ \/ Released(l, FALSE) = l
               \/ l.state = "releasing_device" /\ Released(l, FALSE).state = "stopped"
<1> USE DEF LifecycleType, JobState
<1>1. \A id : CompleteReadAllowed(l, id) =>
              /\ CompleteRead(l, id) \in LifecycleType
              /\ ~CompleteRead(l, id).activeRead
              /\ CompleteRead(l, id).state \in {l.state, "checkpointing"}
  BY DEF CompleteReadAllowed, CompleteRead
<1>2. /\ GraceExpired(l) \in LifecycleType
      /\ GraceExpired(l).activeRead = l.activeRead
      /\ GraceExpired(l) = l \/ GraceExpired(l).state = "awaiting_force_stop"
      /\ l.state # "canceling_read" => GraceExpired(l) = l
  BY DEF GraceExpired
<1>3. ForceStopAllowed(l) =>
        /\ l.state = "awaiting_force_stop"
        /\ ForceStop(l) \in LifecycleType /\ ForceStop(l).state = "force_stopping"
  BY DEF ForceStopAllowed, ForceStop
<1>4. /\ LifecycleFail(l) \in LifecycleType /\ LifecycleFail(l).state = "failed"
      /\ LifecycleFail(l).activeRead = l.activeRead
  BY DEF LifecycleFail
<1>5. CheckpointedAllowed(l) =>
        /\ Checkpointed(l) \in LifecycleType
        /\ Checkpointed(l).state = "releasing_device"
        /\ Checkpointed(l).activeRead = l.activeRead
  BY DEF CheckpointedAllowed, Checkpointed
<1>6. /\ Released(l, FALSE) \in LifecycleType
      /\ Released(l, FALSE).activeRead = l.activeRead
      /\ \/ Released(l, FALSE) = l
         \/ l.state = "releasing_device" /\ Released(l, FALSE).state = "stopped"
  BY DEF ReleasedAllowed, Released
<1> QED BY <1>1, <1>2, <1>3, <1>4, <1>5, <1>6

LEMMA StopInvStep ==
  ASSUME StopInv, [StopNext]_stopVars
  PROVE  StopInv'
<1> USE DEF StopInv, StopTyped, Finalizing
<1>1. life \in LifecycleType
  OBVIOUS
<1>2. CASE BeginReadCall
  <2>1. /\ BeginReadAllowed(life, reads + 1) /\ life.state = "running"
        /\ reads' = reads + 1 /\ reads + 1 \in Nat
    BY <1>2 DEF BeginReadCall, BeginReadAllowed
  <2>2. life' \in LifecycleType /\ life'.state = "running"
    BY <1>2, <2>1, BeginReadRuns DEF BeginReadCall
  <2> QED BY <1>2, <2>1, <2>2 DEF BeginReadCall
<1>3. ASSUME NEW intent \in StopIntent, RequestStopCall(intent) PROVE StopInv'
  <2>1. /\ life' \in LifecycleType /\ life'.activeRead = life.activeRead
        /\ \/ life' = life
           \/ life.activeRead /\ life'.state = "canceling_read"
           \/ ~life.activeRead /\ life'.state = "checkpointing"
    <3>1. RequestStopAllowed(life) /\ life' = RequestStop(life, intent)
      BY <1>3 DEF RequestStopCall
    <3> HIDE DEF StopInv, StopTyped
    <3> QED BY <1>1, <3>1, RequestStopMoves
  <2>2. life.state # "stopped" /\ life.state # "failed"
    BY <1>3 DEF RequestStopCall, RequestStopAllowed, Terminal
  <2> QED BY <1>3, <2>1, <2>2 DEF RequestStopCall
<1>4. CASE ExpireGrace
  <2>1. /\ life' \in LifecycleType /\ life'.activeRead = life.activeRead
        /\ life' = life \/ life'.state = "awaiting_force_stop"
        /\ life.state # "canceling_read" => life' = life
    BY <1>4, LifecycleMethods DEF ExpireGrace
  <2> QED BY <1>4, <2>1 DEF ExpireGrace
<1>5. CASE ReadFinished
  <2>1. /\ life' \in LifecycleType /\ ~life'.activeRead
        /\ life'.state \in {life.state, "checkpointing"}
    BY <1>5, LifecycleMethods DEF ReadFinished
  <2>2. life.activeRead
    BY <1>5 DEF ReadFinished, CompleteReadAllowed
  <2> QED BY <1>5, <2>1, <2>2 DEF ReadFinished
<1>6. CASE ForceStopCall
  <2>1. /\ life' \in LifecycleType /\ life'.state = "force_stopping"
        /\ life.state = "awaiting_force_stop"
    BY <1>6, LifecycleMethods DEF ForceStopCall
  <2> QED BY <1>6, <2>1 DEF ForceStopCall
<1>7. ASSUME NEW ok \in BOOLEAN, ForceStopHook(ok) PROVE StopInv'
  <2>1. life' = life \/ life' = LifecycleFail(life)
    BY <1>7 DEF ForceStopHook
  <2>2. /\ life' \in LifecycleType /\ life'.activeRead = life.activeRead
        /\ life'.state \in {life.state, "failed"}
    <3>1. /\ LifecycleFail(life) \in LifecycleType /\ LifecycleFail(life).state = "failed"
          /\ LifecycleFail(life).activeRead = life.activeRead
      BY LifecycleMethods
    <3> QED BY <2>1, <3>1
  <2> QED BY <1>7, <2>2 DEF ForceStopHook
<1>8. CASE ClaimFinalization
  BY <1>8 DEF ClaimFinalization
<1>9. ASSUME NEW ok \in BOOLEAN, CheckpointHook(ok) PROVE StopInv'
  <2>1. /\ LifecycleFail(life) \in LifecycleType /\ LifecycleFail(life).state = "failed"
        /\ LifecycleFail(life).activeRead = life.activeRead
    BY LifecycleMethods
  <2> QED BY <1>9, <2>1 DEF CheckpointHook
<1>10. CASE MarkCheckpointed
  <2>1. /\ LifecycleFail(life) \in LifecycleType /\ LifecycleFail(life).state = "failed"
        /\ LifecycleFail(life).activeRead = life.activeRead
    BY LifecycleMethods
  <2>2. CheckpointedAllowed(life) =>
          /\ Checkpointed(life) \in LifecycleType
          /\ Checkpointed(life).state = "releasing_device"
          /\ Checkpointed(life).activeRead = life.activeRead
    BY LifecycleMethods
  <2> QED BY <1>10, <2>1, <2>2 DEF MarkCheckpointed
<1>11. ASSUME NEW ok \in BOOLEAN, ReleaseHook(ok) PROVE StopInv'
  <2>1. /\ LifecycleFail(life) \in LifecycleType /\ LifecycleFail(life).state = "failed"
        /\ LifecycleFail(life).activeRead = life.activeRead
    BY LifecycleMethods
  <2> QED BY <1>11, <2>1 DEF ReleaseHook
<1>12. CASE MarkReleased
  <2>1. /\ life' \in LifecycleType /\ life'.activeRead = life.activeRead
        /\ life' = life \/ (life.state = "releasing_device" /\ life'.state = "stopped")
    BY <1>12, LifecycleMethods DEF MarkReleased
  <2> QED BY <1>12, <2>1 DEF MarkReleased
<1>13. CASE UNCHANGED stopVars
  BY <1>13 DEF stopVars
<1> QED
  BY <1>2, <1>3, <1>4, <1>5, <1>6, <1>7, <1>8, <1>9, <1>10, <1>11, <1>12, <1>13
  DEF StopNext, FinalizerStep

(* Whatever stop requests, force stops, read completions and timers fall   *)
(* between the hooks of the goroutine that finalizes a session: no read is *)
(* active while it does, and the session is stopped only after both hooks  *)
(* have succeeded.                                                         *)
THEOREM FinalizationIsOrdered == StopSpec => []FinalizedInOrder
<1>1. StopInit => StopInv
  <2>1. Start(NewLifecycle) \in LifecycleType /\ Start(NewLifecycle).state = "running"
        /\ Start(NewLifecycle).activeRead = FALSE
    BY DEF Start, NewLifecycle, LifecycleType, JobState
  <2> QED BY <2>1 DEF StopInit, StopInv, StopTyped, Finalizing
<1>2. StopInv /\ [StopNext]_stopVars => StopInv'
  BY StopInvStep
<1>3. StopInv => FinalizedInOrder
  BY DEF StopInv, FinalizedInOrder, Finalizing
<1> QED BY <1>1, <1>2, <1>3, PTL DEF StopSpec

----------------------------------------------------------------------------
(* The merge of captures. *)

(* What BuildPlan accepts. *)
Accepted ==
    /\ captures \in Seq(Captures)
    /\ \A i \in DOMAIN captures : SameContents(captures[i]) /\ ValidExtents(captures[i].extents)

MergeInv ==
    /\ captures \in Seq(Captures)
    /\ merging = "planned" => Accepted /\ plan = MergedExtents

LEMMA MergeInvInit == MergeInit => MergeInv
BY DEF MergeInit, StartMerge, MergeInv

LEMMA MergeInvStep == MergeInv /\ [MergeNext]_mergeVars => MergeInv'
<1> SUFFICES ASSUME MergeInv, [MergeNext]_mergeVars
             PROVE  MergeInv'
  OBVIOUS
<1>1. captures' = captures
  BY DEF MergeNext, BuildPlan, RefusePlan, mergeVars
<1>2. Accepted' <=> Accepted
  BY <1>1 DEF Accepted
<1>3. MergedExtents' = MergedExtents
  BY <1>1 DEF MergedExtents, Segments, Boundaries, ResolveSegment, Candidates
<1>4. CASE BuildPlan
  BY <1>1, <1>2, <1>3, <1>4 DEF BuildPlan, MergeInv, Accepted
<1>5. CASE RefusePlan
  BY <1>1, <1>5 DEF RefusePlan, MergeInv
<1>6. CASE UNCHANGED mergeVars
  BY <1>1, <1>2, <1>3, <1>6 DEF mergeVars, MergeInv
<1> QED BY <1>4, <1>5, <1>6 DEF MergeNext

(* Sets of numbers. *)
LEMMA GreatestUpTo ==
  ASSUME NEW n \in Nat, NEW T \in SUBSET (0 .. n), T # {}
  PROVE  \E m \in T : \A k \in T : k <= m
<1> DEFINE Mirror == {x \in Nat : \E k \in T : x = n - k}
<1>1. PICK k0 \in T : TRUE
  OBVIOUS
<1>2. n - k0 \in Mirror
  BY <1>1
<1>3. Mirror # {} /\ Mirror \in SUBSET Nat
  BY <1>2
<1>4. PICK x \in Mirror : \A y \in Mirror : x <= y
  <2> HIDE DEF Mirror
  <2> QED BY <1>3, LeastNumber
<1>5. PICK m \in T : x = n - m
  BY <1>4
<1>6. ASSUME NEW k \in T PROVE k <= m
  <2>1. n - k \in Mirror
    BY <1>6
  <2>2. x <= n - k
    BY <1>4, <2>1
  <2> QED BY <1>5, <1>6, <2>2
<1> QED BY <1>6

LEMMA MinIsLeast ==
  ASSUME NEW T \in SUBSET Nat, NEW m \in T, \A k \in T : m <= k
  PROVE  Min(T) = m
<1>1. \A x \in T : (\A y \in T : x <= y) => x = m
  OBVIOUS
<1> QED BY <1>1 DEF Min

LEMMA MaxIsBounded ==
  ASSUME NEW n \in Nat, NEW T \in SUBSET (0 .. n), T # {}, NEW b \in Nat, \A k \in T : k <= b
  PROVE  Max(T) \in Nat /\ Max(T) <= b
<1>1. PICK m \in T : \A k \in T : k <= m
  BY GreatestUpTo
<1>2. \A k \in T : m >= k
  BY <1>1
<1>3. Max(T) \in T
  BY <1>1, <1>2 DEF Max
<1>4. \A k \in T : k \in Nat /\ k <= b
  OBVIOUS
<1> QED BY <1>3, <1>4

(* Finite sets. *)
LEMMA ImageFinite ==
  ASSUME NEW f, IsFiniteSet(DOMAIN f)
  PROVE  IsFiniteSet({f[x] : x \in DOMAIN f})
<1> DEFINE T == {f[x] : x \in DOMAIN f}
           g == [x \in DOMAIN f |-> f[x]]
<1>1. g \in Surjection(DOMAIN f, T)
  BY DEF Surjection
<1> QED BY <1>1, FS_Surjection

LEMMA OneOrMore ==
  ASSUME NEW S, IsFiniteSet(S), S # {}
  PROVE  /\ Cardinality(S) \in Nat
         /\ Cardinality(S) = 1 <=> \A x, y \in S : x = y
         /\ Cardinality(S) > 1 <=> \E x, y \in S : x # y
<1>1. Cardinality(S) \in Nat /\ Cardinality(S) # 0
  BY FS_CardinalityType, FS_EmptySet
<1>2. Cardinality(S) = 1 <=> \E x : S = {x}
  BY FS_Singleton
<1>3. (\E x : S = {x}) <=> \A x, y \in S : x = y
  <2>1. PICK x \in S : TRUE
    OBVIOUS
  <2>2. (\A u, v \in S : u = v) => S = {x}
    BY <2>1
  <2> QED BY <2>1, <2>2
<1> QED BY <1>1, <1>2, <1>3

(* The candidates of a sector, and the evidence they are. *)
CandidateOf(s, i, e) ==
    i \in DOMAIN captures /\ e \in captures[i].extents /\ s \in Covered(e)

LEMMA CandidateShape ==
  ASSUME NEW s, NEW x \in Candidates(s)
  PROVE  /\ x = [place |-> x.place, id |-> captures[x.place].id, extent |-> x.extent]
         /\ CandidateOf(s, x.place, x.extent)
BY DEF Candidates, ExtentsAt, CandidateOf

LEMMA CandidateExists ==
  ASSUME NEW s, NEW i, NEW e, CandidateOf(s, i, e)
  PROVE  [place |-> i, id |-> captures[i].id, extent |-> e] \in Candidates(s)
BY DEF Candidates, ExtentsAt, CandidateOf

LEMMA CaptureFacts ==
  ASSUME Accepted
  PROVE  /\ Len(captures) \in Nat /\ DOMAIN captures = 1 .. Len(captures)
         /\ \A i \in DOMAIN captures :
              /\ captures[i] \in Captures
              /\ IsFiniteSet(captures[i].extents)
              /\ \A e \in captures[i].extents :
                   /\ e \in CaptureExtents /\ WithinCapacity(e)
                   /\ ValidateStateConfidence(e.state, e.confidence)
<1>1. captures \in Seq(Captures)
  BY DEF Accepted
<1>2. Len(captures) \in Nat /\ DOMAIN captures = 1 .. Len(captures)
  BY <1>1
<1>3. \A i \in DOMAIN captures : captures[i] \in Captures
  BY <1>1
<1> QED BY <1>2, <1>3 DEF Captures, Accepted, ValidExtents

LEMMA CandidatesFinite ==
  ASSUME Accepted, NEW s
  PROVE  IsFiniteSet(Candidates(s))
<1> DEFINE At(i) == {[place |-> i, id |-> captures[i].id, extent |-> e] :
                       e \in ExtentsAt(captures[i], s)}
           at == [i \in DOMAIN captures |-> At(i)]
<1>1. ASSUME NEW i \in DOMAIN captures PROVE IsFiniteSet(At(i))
  <2> DEFINE f == [e \in ExtentsAt(captures[i], s) |->
                     [place |-> i, id |-> captures[i].id, extent |-> e]]
  <2>1. IsFiniteSet(ExtentsAt(captures[i], s))
    <3>1. ExtentsAt(captures[i], s) \subseteq captures[i].extents
      BY DEF ExtentsAt
    <3> QED BY <1>1, <3>1, CaptureFacts, FS_Subset
  <2>2. DOMAIN f = ExtentsAt(captures[i], s)
    OBVIOUS
  <2>3. {f[e] : e \in DOMAIN f} = At(i)
    OBVIOUS
  <2> HIDE DEF f, At
  <2> QED BY <2>1, <2>2, <2>3, ImageFinite
<1>2. IsFiniteSet(DOMAIN captures)
  <2>1. 1 \in Int /\ Len(captures) \in Int
    BY CaptureFacts
  <2>2. IsFiniteSet(1 .. Len(captures))
    BY <2>1, FS_Interval, Zenon
  <2> QED BY <2>2, CaptureFacts
<1>3. IsFiniteSet({at[i] : i \in DOMAIN at})
  <2>1. DOMAIN at = DOMAIN captures
    OBVIOUS
  <2> HIDE DEF at
  <2> QED BY <1>2, <2>1, ImageFinite
<1>4. Candidates(s) = UNION {at[i] : i \in DOMAIN at}
  BY DEF Candidates
<1>5. \A T \in {at[i] : i \in DOMAIN at} : IsFiniteSet(T)
  <2> HIDE DEF At
  <2> QED BY <1>1
<1> HIDE DEF at, At
<1> QED BY <1>3, <1>4, <1>5, FS_UNION

(* Some of the candidates of a sector, and what they are evidence of.      *)
ExtentsOf(D) == {x.extent : x \in D}

LEMMA FirstIsOne ==
  ASSUME Accepted, NEW s, NEW D \in SUBSET Candidates(s), D # {}
  PROVE  First(D) \in D
<1> DEFINE places == {x.place : x \in D}
<1>1. \A x \in D : x.place \in Nat
  <2>1. \A x \in D : x.place \in DOMAIN captures
    BY CandidateShape DEF CandidateOf
  <2> QED BY <2>1, CaptureFacts
<1>2. PICK p \in places : \A q \in places : p <= q
  <2>1. places \in SUBSET Nat /\ places # {}
    BY <1>1
  <2> HIDE DEF places
  <2> QED BY <2>1, LeastNumber
<1>3. \E x \in D : \A y \in D : x.place <= y.place
  BY <1>2
<1> QED BY <1>3 DEF First

LEMMA EvidenceFinite ==
  ASSUME Accepted, NEW s, NEW D \in SUBSET Candidates(s), D # {}
  PROVE  /\ IsFiniteSet(D)
         /\ IsFiniteSet({e.hash : e \in ExtentsOf(D)}) /\ {e.hash : e \in ExtentsOf(D)} # {}
<1>1. IsFiniteSet(D)
  BY CandidatesFinite, FS_Subset
<1> DEFINE f == [x \in D |-> x.extent.hash]
<1>2. DOMAIN f = D /\ {f[x] : x \in DOMAIN f} = {e.hash : e \in ExtentsOf(D)}
  BY DEF ExtentsOf
<1> HIDE DEF f
<1>3. IsFiniteSet({e.hash : e \in ExtentsOf(D)})
  BY <1>1, <1>2, ImageFinite
<1>4. {e.hash : e \in ExtentsOf(D)} # {}
  BY DEF ExtentsOf
<1> QED BY <1>1, <1>3, <1>4

LEMMA SameHashes ==
  ASSUME Accepted, NEW s, NEW D \in SUBSET Candidates(s), D # {}
  PROVE  AllSameHash(D) <=> ~(Cardinality({e.hash : e \in ExtentsOf(D)}) > 1)
<1> DEFINE H == {e.hash : e \in ExtentsOf(D)}
<1>1. AllSameHash(D) <=> ~\E g, h \in H : g # h
  BY DEF AllSameHash, ExtentsOf
<1>2. IsFiniteSet(H) /\ H # {}
  BY EvidenceFinite
<1> HIDE DEF H
<1>3. Cardinality(H) > 1 <=> \E g, h \in H : g # h
  BY <1>2, OneOrMore
<1> QED BY <1>1, <1>3 DEF H

(* A candidate is taken from a capture that has the evidence. *)
LEMMA TakenFromEvidence ==
  ASSUME Accepted, NEW s, NEW D \in SUBSET Candidates(s), NEW x \in D
  PROVE  \E i \in DOMAIN captures :
           captures[i].id = x.id /\ ExtentsAt(captures[i], s) \cap ExtentsOf(D) # {}
<1>1. x = [place |-> x.place, id |-> captures[x.place].id, extent |-> x.extent]
      /\ CandidateOf(s, x.place, x.extent)
  BY CandidateShape
<1>2. x.id = captures[x.place].id
  BY <1>1
<1>3. x.extent \in ExtentsAt(captures[x.place], s) /\ x.extent \in ExtentsOf(D)
      /\ x.place \in DOMAIN captures
  BY <1>1 DEF CandidateOf, ExtentsAt, ExtentsOf
<1> QED BY <1>2, <1>3

LEMMA ConfidenceBound ==
  ASSUME Accepted, NEW s, NEW D \in SUBSET Candidates(s), D # {}, NEW b \in Nat,
         \A x \in D : x.extent.confidence <= b
  PROVE  b >= Max({e.confidence : e \in ExtentsOf(D)})
<1> DEFINE T == {e.confidence : e \in ExtentsOf(D)}
<1>1. \A x \in D : x.extent.confidence \in 0 .. 5
  <2>1. \A x \in D : x.extent \in CaptureExtents
    BY CandidateShape, CaptureFacts DEF CandidateOf
  <2> QED BY <2>1 DEF CaptureExtents, Confidence, ConfidenceNone, ConfidenceReconstructedChecksum
<1>2. T \in SUBSET (0 .. 5) /\ T # {} /\ \A k \in T : k <= b
  BY <1>1 DEF ExtentsOf
<1> HIDE DEF T
<1>3. 5 \in Nat
  OBVIOUS
<1>4. Max(T) \in Nat /\ Max(T) <= b
  BY <1>2, <1>3, MaxIsBounded
<1> QED BY <1>4 DEF T

TrustedAt(s) == {x \in Candidates(s) : Trusted(x)}

ReconstructedAt(s) == {x \in Candidates(s) : Reconstructed(x)}

VerifiedAt(s) == {x \in Candidates(s) : Verified(x)}

UnverifiedAt(s) == {x \in Candidates(s) : Unverified(x)}

LEMMA EvidenceIs ==
  ASSUME NEW s
  PROVE  Evidence(s) = <<ExtentsOf(TrustedAt(s)), ExtentsOf(ReconstructedAt(s)),
                         ExtentsOf(VerifiedAt(s)), ExtentsOf(UnverifiedAt(s))>>
<1> DEFINE claims == UNION {ExtentsAt(captures[i], s) : i \in DOMAIN captures}
<1>1. \A x \in Candidates(s) : x.extent \in claims
  BY CandidateShape DEF CandidateOf, ExtentsAt
<1>2. ASSUME NEW e \in claims PROVE \E x \in Candidates(s) : x.extent = e
  <2>1. PICK i \in DOMAIN captures : CandidateOf(s, i, e)
    BY <1>2 DEF CandidateOf, ExtentsAt
  <2> DEFINE x == [place |-> i, id |-> captures[i].id, extent |-> e]
  <2>2. x \in Candidates(s)
    BY <2>1, CandidateExists
  <2>3. x.extent = e
    OBVIOUS
  <2> QED BY <2>2, <2>3
<1> HIDE DEF claims
<1>3. {e \in claims : e.state = "verified" /\ e.confidence = ConfidenceTrustedChecksum}
        = ExtentsOf(TrustedAt(s))
  BY <1>1, <1>2 DEF ExtentsOf, TrustedAt, Trusted
<1>4. {e \in claims : e.state = "reconstructed"} = ExtentsOf(ReconstructedAt(s))
  BY <1>1, <1>2 DEF ExtentsOf, ReconstructedAt, Reconstructed
<1>5. {e \in claims : e.state = "verified"} = ExtentsOf(VerifiedAt(s))
  BY <1>1, <1>2 DEF ExtentsOf, VerifiedAt, Verified
<1>6. {e \in claims : e.state = "read_unverified"} = ExtentsOf(UnverifiedAt(s))
  BY <1>1, <1>2 DEF ExtentsOf, UnverifiedAt, Unverified
<1> QED BY <1>3, <1>4, <1>5, <1>6 DEF Evidence, claims

(* What ToldBy asks of a selection when the k-th strength decides.         *)
Word(x, s, k, best) ==
    /\ x.state # "missing"
    /\ Cardinality({e.hash : e \in best}) > 1 => x.state = "conflicting"
    /\ x.state = "conflicting" =>
         \/ Cardinality({e.hash : e \in best}) > 1
         \/ /\ k = 4
            /\ \A e \in best : Cardinality(Readers(s, e.hash)) = 1
    /\ x.state # "conflicting" =>
         /\ \E i \in DOMAIN captures :
              captures[i].id = x.capture /\ ExtentsAt(captures[i], s) \cap best # {}
         /\ x.confidence >= Max({e.confidence : e \in best})
         /\ (x.state # "read_unverified" /\ k = 4) =>
              \E e \in best : Cardinality(Readers(s, e.hash)) > 1

LEMMA StrongestTells ==
  ASSUME NEW s, NEW x, NEW k \in 1 .. 4, Evidence(s)[k] # {},
         \A j \in 1 .. k - 1 : Evidence(s)[j] = {}, Word(x, s, k, Evidence(s)[k])
  PROVE  ToldBy(x, s)
<1> DEFINE told == {j \in 1 .. 4 : Evidence(s)[j] # {}}
<1>1. told \in SUBSET Nat /\ k \in told /\ \A j \in told : k <= j
  OBVIOUS
<1> HIDE DEF told
<1>2. Min(told) = k /\ told # {}
  BY <1>1, MinIsLeast
<1> DEFINE best == Evidence(s)[Min(told)]
<1>3. best = Evidence(s)[k]
  BY <1>2
<1> HIDE DEF best
<1>4. /\ x.state = "missing" <=> told = {}
      /\ told # {} =>
           /\ Cardinality({e.hash : e \in best}) > 1 => x.state = "conflicting"
           /\ x.state = "conflicting" =>
                \/ Cardinality({e.hash : e \in best}) > 1
                \/ /\ Min(told) = 4
                   /\ \A e \in best : Cardinality(Readers(s, e.hash)) = 1
           /\ x.state # "conflicting" =>
                /\ \E i \in DOMAIN captures :
                     captures[i].id = x.capture /\ ExtentsAt(captures[i], s) \cap best # {}
                /\ x.confidence >= Max({e.confidence : e \in best})
                /\ (x.state # "read_unverified" /\ Min(told) = 4) =>
                     \E e \in best : Cardinality(Readers(s, e.hash)) > 1
  BY <1>2, <1>3 DEF Word
<1> QED BY <1>4 DEF ToldBy, told, best

LEMMA ConflictTells ==
  ASSUME Accepted, NEW s, NEW k, NEW D \in SUBSET Candidates(s), D # {}, ~AllSameHash(D)
  PROVE  Word(Conflict, s, k, ExtentsOf(D))
<1>1. Cardinality({e.hash : e \in ExtentsOf(D)}) > 1
  BY SameHashes
<1>2. Conflict.state = "conflicting"
  BY DEF Conflict, Unselected
<1> QED BY <1>1, <1>2 DEF Word

(* A selection that is no conflict. *)
LEMMA SelectionTells ==
  ASSUME Accepted, NEW s, NEW k, NEW D \in SUBSET Candidates(s), D # {}, AllSameHash(D),
         NEW rule, NEW state, state \notin {"missing", "conflicting"},
         NEW confidence \in Nat, \A x \in D : x.extent.confidence <= confidence,
         k = 4 => state = "read_unverified"
                    \/ \E e \in ExtentsOf(D) : Cardinality(Readers(s, e.hash)) > 1
  PROVE  Word(Selected(D, rule, state, confidence), s, k, ExtentsOf(D))
<1> DEFINE x == Selected(D, rule, state, confidence)
<1>1. x.state = state /\ x.confidence = confidence /\ x.capture = First(D).id
  BY DEF Selected
<1>2. \E i \in DOMAIN captures :
        captures[i].id = First(D).id /\ ExtentsAt(captures[i], s) \cap ExtentsOf(D) # {}
  BY FirstIsOne, TakenFromEvidence
<1>3. confidence >= Max({e.confidence : e \in ExtentsOf(D)})
  BY ConfidenceBound
<1>4. ~(Cardinality({e.hash : e \in ExtentsOf(D)}) > 1)
  BY SameHashes
<1> HIDE DEF x
<1> QED BY <1>1, <1>2, <1>3, <1>4 DEF Word, x

LEMMA CandidateConfidence ==
  ASSUME Accepted, NEW s, NEW x \in Candidates(s)
  PROVE  /\ x.extent.confidence \in 0 .. 5
         /\ Trusted(x) => x.extent.confidence = 4
         /\ Reconstructed(x) => x.extent.confidence = 5
         /\ Verified(x) /\ ~Trusted(x) => x.extent.confidence <= 3
         /\ Unverified(x) => x.extent.confidence = 1
<1>1. x.extent \in CaptureExtents /\ ValidateStateConfidence(x.extent.state, x.extent.confidence)
  BY CandidateShape, CaptureFacts DEF CandidateOf
<1>2. x.extent.confidence \in 0 .. 5
  BY <1>1 DEF CaptureExtents, Confidence, ConfidenceNone, ConfidenceReconstructedChecksum
<1> QED BY <1>1, <1>2 DEF ValidateStateConfidence, Trusted, Reconstructed, Verified, Unverified,
             ConfidenceSingleRead, ConfidenceRepeatedSingleCapture, ConfidenceTrustedChecksum,
             ConfidenceReconstructedChecksum

LEMMA VerifiedTells ==
  ASSUME Accepted, NEW s, VerifiedAt(s) # {}, TrustedAt(s) = {}
  PROVE  Word(ResolveVerified(VerifiedAt(s)), s, 3, ExtentsOf(VerifiedAt(s)))
<1> DEFINE V == VerifiedAt(s)
<1>1. V \in SUBSET Candidates(s) /\ V # {}
  BY DEF VerifiedAt
<1>2. \A x \in V : x.extent.confidence \in 0 .. 5 /\ x.extent.confidence <= 3
  BY CandidateConfidence DEF VerifiedAt, TrustedAt
<1>3. First(V) \in V /\ IsFiniteSet(V)
  BY <1>1, FirstIsOne, EvidenceFinite
<1> HIDE DEF V
<1>4. /\ Cardinality(V) \in Nat
      /\ Cardinality(V) = 1 <=> \A x, y \in V : x = y
      /\ Cardinality(V) > 1 <=> \E x, y \in V : x # y
  BY <1>1, <1>3, OneOrMore
<1>5. CASE Cardinality(V) = 1
  <2>1. AllSameHash(V) /\ \A x \in V : x.extent.confidence <= First(V).extent.confidence
    BY <1>2, <1>3, <1>4, <1>5 DEF AllSameHash
  <2>2. First(V).extent.confidence \in Nat
    BY <1>2, <1>3
  <2>3. ResolveVerified(V) = Selected(V, "single_verified_candidate", "verified",
                                      First(V).extent.confidence)
    BY <1>5 DEF ResolveVerified
  <2>4. "verified" \notin {"missing", "conflicting"} /\ 3 # 4
    OBVIOUS
  <2>5. Word(ResolveVerified(V), s, 3, ExtentsOf(V))
    BY <1>1, <2>1, <2>2, <2>3, <2>4, SelectionTells
  <2> QED BY <2>5 DEF V
<1>6. CASE Cardinality(V) > 1 /\ AllSameHash(V)
  <2>1. ResolveVerified(V) = Selected(V, "identical_verified_candidates", "verified", 3)
    BY <1>6, <1>4 DEF ResolveVerified, ConfidenceRepeatedIndependentCapture
  <2>2. "verified" \notin {"missing", "conflicting"} /\ 3 # 4 /\ 3 \in Nat
    OBVIOUS
  <2>3. \A x \in V : x.extent.confidence <= 3
    BY <1>2
  <2>4. Word(ResolveVerified(V), s, 3, ExtentsOf(V))
    BY <1>1, <1>6, <2>1, <2>2, <2>3, SelectionTells
  <2> QED BY <2>4 DEF V
<1>7. CASE ~AllSameHash(V)
  <2>1. Cardinality(V) > 1
    BY <1>4, <1>7 DEF AllSameHash
  <2>2. ResolveVerified(V) = Conflict
    BY <1>4, <1>7, <2>1 DEF ResolveVerified
  <2>3. Word(ResolveVerified(V), s, 3, ExtentsOf(V))
    BY <1>1, <1>7, <2>2, ConflictTells
  <2> QED BY <2>3 DEF V
<1>8. Cardinality(V) = 1 \/ Cardinality(V) > 1
  BY <1>4
<1> QED BY <1>5, <1>6, <1>7, <1>8

(* Who reads a hash, where there is nothing but single reads.              *)
LEMMA ReadersAre ==
  ASSUME Accepted, NEW s, NEW hash
  PROVE  /\ \A x \in UnverifiedAt(s) : x.extent.hash = hash => x.id \in Readers(s, hash)
         /\ IsFiniteSet(Readers(s, hash))
         /\ (TrustedAt(s) = {} /\ ReconstructedAt(s) = {} /\ VerifiedAt(s) = {}) =>
              \A r \in Readers(s, hash) : \E x \in UnverifiedAt(s) : r = x.id
<1>1. ASSUME NEW x \in UnverifiedAt(s), x.extent.hash = hash PROVE x.id \in Readers(s, hash)
  <2>1. x \in Candidates(s) /\ ClaimsData(x.extent)
    BY DEF UnverifiedAt, Unverified, ClaimsData
  <2>2. /\ x = [place |-> x.place, id |-> captures[x.place].id, extent |-> x.extent]
        /\ CandidateOf(s, x.place, x.extent)
    BY <2>1, CandidateShape
  <2>3. x.id = captures[x.place].id
    BY <2>2
  <2>4. x.place \in DOMAIN captures /\ x.extent \in ExtentsAt(captures[x.place], s)
    BY <2>2 DEF CandidateOf, ExtentsAt
  <2> QED BY <1>1, <2>1, <2>3, <2>4 DEF Readers
<1>2. IsFiniteSet(Readers(s, hash))
  <2> DEFINE who == [i \in DOMAIN captures |-> captures[i].id]
  <2>1. IsFiniteSet(DOMAIN captures)
    <3>1. 1 \in Int /\ Len(captures) \in Int
      BY CaptureFacts
    <3>2. IsFiniteSet(1 .. Len(captures))
      BY <3>1, FS_Interval, Zenon
    <3> QED BY <3>2, CaptureFacts
  <2>2. DOMAIN who = DOMAIN captures
    OBVIOUS
  <2>3. Readers(s, hash) \subseteq {who[i] : i \in DOMAIN who}
    BY DEF Readers
  <2> HIDE DEF who
  <2>4. IsFiniteSet({who[i] : i \in DOMAIN who})
    BY <2>1, <2>2, ImageFinite
  <2> QED BY <2>3, <2>4, FS_Subset
<1>3. ASSUME TrustedAt(s) = {}, ReconstructedAt(s) = {}, VerifiedAt(s) = {},
             NEW r \in Readers(s, hash)
      PROVE  \E x \in UnverifiedAt(s) : r = x.id
  <2>1. PICK j \in DOMAIN captures : \E e \in ExtentsAt(captures[j], s) :
          r = captures[j].id /\ ClaimsData(e)
    BY <1>3 DEF Readers
  <2>5. PICK e \in ExtentsAt(captures[j], s) : r = captures[j].id /\ ClaimsData(e)
    BY <2>1
  <2> DEFINE x == [place |-> j, id |-> captures[j].id, extent |-> e]
  <2>2. x \in Candidates(s)
    BY <2>5, CandidateExists DEF CandidateOf, ExtentsAt
  <2>3. x.id = r /\ x.extent = e
    BY <2>5
  <2> HIDE DEF x
  <2>4. x \in UnverifiedAt(s)
    BY <1>3, <2>5, <2>2, <2>3 DEF ClaimsData, UnverifiedAt, Unverified, ReconstructedAt,
       Reconstructed, VerifiedAt, Verified
  <2> QED BY <2>3, <2>4
<1> QED BY <1>1, <1>2, <1>3

LEMMA UnverifiedTells ==
  ASSUME Accepted, NEW s, UnverifiedAt(s) # {},
         TrustedAt(s) = {}, ReconstructedAt(s) = {}, VerifiedAt(s) = {}
  PROVE  Word(ResolveUnverified(UnverifiedAt(s)), s, 4, ExtentsOf(UnverifiedAt(s)))
<1> DEFINE U == UnverifiedAt(s)
           ids == {x.id : x \in U}
<1>1. U \in SUBSET Candidates(s) /\ U # {}
  BY DEF UnverifiedAt
<1>2. \A x \in U : x.extent.confidence = 1
  BY CandidateConfidence DEF UnverifiedAt
<1>3. First(U) \in U /\ IsFiniteSet(U)
  BY <1>1, FirstIsOne, EvidenceFinite
<1>4. /\ \A h : \A x \in U : x.extent.hash = h => x.id \in Readers(s, h)
      /\ \A h : IsFiniteSet(Readers(s, h)) /\ \A r \in Readers(s, h) : r \in ids
  BY ReadersAre
<1>5. \A e \in ExtentsOf(U) : \E x \in U : x.extent = e
  BY DEF ExtentsOf
<1>6. IsFiniteSet(ids) /\ ids # {}
  <2> DEFINE f == [x \in U |-> x.id]
  <2>1. DOMAIN f = U /\ {f[x] : x \in DOMAIN f} = ids
    OBVIOUS
  <2> HIDE DEF f, U, ids
  <2>2. IsFiniteSet(ids)
    BY <1>3, <2>1, ImageFinite
  <2> QED BY <1>1, <2>2 DEF ids
<1> HIDE DEF U
<1>7. /\ Cardinality(U) \in Nat
      /\ Cardinality(U) = 1 <=> \A x, y \in U : x = y
      /\ Cardinality(U) > 1 <=> \E x, y \in U : x # y
  BY <1>1, <1>3, OneOrMore
<1>8. /\ Cardinality(ids) \in Nat
      /\ Cardinality(ids) = 1 <=> \A r, q \in ids : r = q
      /\ Cardinality(ids) > 1 <=> \E r, q \in ids : r # q
  <2> HIDE DEF ids
  <2> QED BY <1>6, OneOrMore
<1>9. AllSameHash(U) => \A e \in ExtentsOf(U) : ids \subseteq Readers(s, e.hash)
  BY <1>4, <1>5 DEF AllSameHash
<1>10. CASE Cardinality(U) = 1
  <2>1. AllSameHash(U) /\ \A x \in U : x.extent.confidence <= 1
    BY <1>2, <1>7, <1>10 DEF AllSameHash
  <2>2. ResolveUnverified(U) = Selected(U, "single_unverified_candidate",
                                        "read_unverified", 1)
    BY <1>10 DEF ResolveUnverified, ConfidenceSingleRead
  <2>3. "read_unverified" \notin {"missing", "conflicting"} /\ 1 \in Nat
    OBVIOUS
  <2>4. Word(ResolveUnverified(U), s, 4, ExtentsOf(U))
    BY <1>1, <2>1, <2>2, <2>3, SelectionTells
  <2> QED BY <2>4 DEF U
<1>11. CASE Cardinality(U) > 1 /\ AllSameHash(U) /\ Cardinality(ids) > 1
  <2>1. ResolveUnverified(U) = Selected(U, "identical_unverified_candidates", "verified", 3)
    BY <1>7, <1>11 DEF ResolveUnverified, ConfidenceRepeatedIndependentCapture, ids
  <2>2. "verified" \notin {"missing", "conflicting"} /\ 3 \in Nat
    OBVIOUS
  <2>3. \A x \in U : x.extent.confidence <= 3
    BY <1>2
  <2>4. \E e \in ExtentsOf(U) : Cardinality(Readers(s, e.hash)) > 1
    <3>1. PICK e \in ExtentsOf(U) : TRUE
      BY <1>1 DEF ExtentsOf
    <3>2. ids \subseteq Readers(s, e.hash) /\ IsFiniteSet(Readers(s, e.hash))
      BY <1>4, <1>9, <1>11
    <3> HIDE DEF ids
    <3>3. Cardinality(ids) <= Cardinality(Readers(s, e.hash))
          /\ Cardinality(Readers(s, e.hash)) \in Nat
      BY <3>2, FS_Subset, FS_CardinalityType
    <3>4. Cardinality(Readers(s, e.hash)) > 1
      BY <1>8, <1>11, <3>3
    <3> QED BY <3>4
  <2>5. Word(ResolveUnverified(U), s, 4, ExtentsOf(U))
    BY <1>1, <1>11, <2>1, <2>2, <2>3, <2>4, SelectionTells
  <2> QED BY <2>5 DEF U
<1>12. CASE Cardinality(U) > 1 /\ ~(AllSameHash(U) /\ Cardinality(ids) > 1)
  <2>1. ResolveUnverified(U) = Conflict
    BY <1>7, <1>12 DEF ResolveUnverified, ids
  <2>2. CASE ~AllSameHash(U)
    <3>1. Word(ResolveUnverified(U), s, 4, ExtentsOf(U))
      BY <1>1, <2>1, <2>2, ConflictTells
    <3> QED BY <3>1 DEF U
  <2>3. CASE AllSameHash(U) /\ ~(Cardinality(ids) > 1)
    <3>1. \A e \in ExtentsOf(U) : Cardinality(Readers(s, e.hash)) = 1
      <4> SUFFICES ASSUME NEW e \in ExtentsOf(U)
                   PROVE  Cardinality(Readers(s, e.hash)) = 1
        OBVIOUS
      <4>1. ids \subseteq Readers(s, e.hash) /\ Readers(s, e.hash) \subseteq ids
            /\ IsFiniteSet(Readers(s, e.hash))
        BY <1>4, <1>9, <2>3
      <4>2. \A r, q \in ids : r = q
        BY <1>8, <2>3
      <4> HIDE DEF ids
      <4>3. Readers(s, e.hash) # {} /\ \A r, q \in Readers(s, e.hash) : r = q
        BY <1>6, <4>1, <4>2
      <4> QED BY <4>1, <4>3, OneOrMore
    <3>2. ~(Cardinality({e.hash : e \in ExtentsOf(U)}) > 1)
      BY <1>1, <2>3, SameHashes
    <3>3. Conflict.state = "conflicting"
      BY DEF Conflict, Unselected
    <3>4. Word(Conflict, s, 4, ExtentsOf(U))
      BY <3>1, <3>2, <3>3 DEF Word
    <3> QED BY <2>1, <3>4 DEF U
  <2> QED BY <1>12, <2>2, <2>3
<1>13. Cardinality(U) = 1 \/ Cardinality(U) > 1
  BY <1>7
<1> QED BY <1>10, <1>11, <1>12, <1>13

(* What is decided about a sector is what the strongest evidence says.     *)
LEMMA ResolutionTells ==
  ASSUME Accepted, NEW s
  PROVE  ToldBy(ResolveSegment(s), s)
<1> DEFINE T == TrustedAt(s)
           R == ReconstructedAt(s)
           V == VerifiedAt(s)
           U == UnverifiedAt(s)
           E == Evidence(s)
<1>1. /\ E[1] = ExtentsOf(T) /\ E[2] = ExtentsOf(R)
      /\ E[3] = ExtentsOf(V) /\ E[4] = ExtentsOf(U)
  BY EvidenceIs
<1>2. \A D : ExtentsOf(D) = {} <=> D = {}
  BY DEF ExtentsOf
<1>3. /\ T \in SUBSET Candidates(s) /\ R \in SUBSET Candidates(s)
      /\ \A x \in T : x.extent.confidence <= 4
      /\ \A x \in R : x.extent.confidence <= 5
  BY CandidateConfidence DEF TrustedAt, ReconstructedAt
<1>4. ResolveSegment(s) =
        CASE T # {} /\ AllSameHash(T) ->
               Selected(T, "trusted_checksum_match", "verified", 4)
          [] T # {} /\ ~AllSameHash(T) -> Conflict
          [] T = {} /\ R # {} /\ AllSameHash(R) ->
               Selected(R, "reconstructed_trusted_checksum", "reconstructed", 5)
          [] T = {} /\ R # {} /\ ~AllSameHash(R) -> Conflict
          [] T = {} /\ R = {} /\ V # {} -> ResolveVerified(V)
          [] T = {} /\ R = {} /\ V = {} /\ U # {} -> ResolveUnverified(U)
          [] OTHER -> Unselected("missing", "missing")
  BY DEF ResolveSegment, TrustedAt, ReconstructedAt, VerifiedAt, UnverifiedAt,
     ConfidenceTrustedChecksum, ConfidenceReconstructedChecksum
<1> HIDE DEF T, R, V, U, E
<1>5. CASE T # {}
  <2>1. Word(ResolveSegment(s), s, 1, ExtentsOf(T))
    <3>1. CASE AllSameHash(T)
      <4>1. ResolveSegment(s) = Selected(T, "trusted_checksum_match", "verified", 4)
        BY <1>4, <1>5, <3>1
      <4>2. "verified" \notin {"missing", "conflicting"} /\ 4 \in Nat /\ 1 # 4
        OBVIOUS
      <4> QED BY <1>3, <1>5, <3>1, <4>1, <4>2, SelectionTells
    <3>2. CASE ~AllSameHash(T)
      <4>1. ResolveSegment(s) = Conflict
        BY <1>4, <1>5, <3>2
      <4> QED BY <1>3, <1>5, <3>2, <4>1, ConflictTells
    <3> QED BY <3>1, <3>2
  <2>2. E[1] # {} /\ 1 \in 1 .. 4 /\ \A j \in 1 .. 1 - 1 : E[j] = {}
    BY <1>1, <1>2, <1>5
  <2> QED BY <1>1, <2>1, <2>2, StrongestTells DEF E
<1>6. CASE T = {} /\ R # {}
  <2>1. Word(ResolveSegment(s), s, 2, ExtentsOf(R))
    <3>1. CASE AllSameHash(R)
      <4>1. ResolveSegment(s) = Selected(R, "reconstructed_trusted_checksum", "reconstructed", 5)
        BY <1>4, <1>6, <3>1
      <4>2. "reconstructed" \notin {"missing", "conflicting"} /\ 5 \in Nat /\ 2 # 4
        OBVIOUS
      <4> QED BY <1>3, <1>6, <3>1, <4>1, <4>2, SelectionTells
    <3>2. CASE ~AllSameHash(R)
      <4>1. ResolveSegment(s) = Conflict
        BY <1>4, <1>6, <3>2
      <4> QED BY <1>3, <1>6, <3>2, <4>1, ConflictTells
    <3> QED BY <3>1, <3>2
  <2>2. E[2] # {} /\ 2 \in 1 .. 4 /\ \A j \in 1 .. 2 - 1 : E[j] = {}
    BY <1>1, <1>2, <1>6
  <2> QED BY <1>1, <2>1, <2>2, StrongestTells DEF E
<1>7. CASE T = {} /\ R = {} /\ V # {}
  <2>1. Word(ResolveSegment(s), s, 3, ExtentsOf(V))
    <3>1. ResolveSegment(s) = ResolveVerified(V)
      BY <1>4, <1>7
    <3> QED BY <1>7, <3>1, VerifiedTells DEF V, T
  <2>2. E[3] # {} /\ 3 \in 1 .. 4 /\ \A j \in 1 .. 3 - 1 : E[j] = {}
    BY <1>1, <1>2, <1>7
  <2> QED BY <1>1, <2>1, <2>2, StrongestTells DEF E
<1>8. CASE T = {} /\ R = {} /\ V = {} /\ U # {}
  <2>1. Word(ResolveSegment(s), s, 4, ExtentsOf(U))
    <3>1. ResolveSegment(s) = ResolveUnverified(U)
      BY <1>4, <1>8
    <3> QED BY <1>8, <3>1, UnverifiedTells DEF T, R, V, U
  <2>2. E[4] # {} /\ 4 \in 1 .. 4 /\ \A j \in 1 .. 4 - 1 : E[j] = {}
    BY <1>1, <1>2, <1>8
  <2> QED BY <1>1, <2>1, <2>2, StrongestTells DEF E
<1>9. CASE T = {} /\ R = {} /\ V = {} /\ U = {}
  <2>1. ResolveSegment(s) = Unselected("missing", "missing")
    BY <1>4, <1>9
  <2>2. ResolveSegment(s).state = "missing"
    BY <2>1 DEF Unselected
  <2>3. \A j \in 1 .. 4 : E[j] = {}
    BY <1>1, <1>2, <1>9
  <2>4. {k \in 1 .. 4 : Evidence(s)[k] # {}} = {}
    BY <2>3 DEF E
  <2> QED BY <2>2, <2>4 DEF ToldBy
<1> QED BY <1>5, <1>6, <1>7, <1>8, <1>9

(* The boundaries, and the segments between them.                          *)
LEMMA BoundaryFacts ==
  ASSUME Accepted
  PROVE  /\ Boundaries \subseteq 0 .. CapacitySectors
         /\ 0 \in Boundaries /\ CapacitySectors \in Boundaries
         /\ \A i \in DOMAIN captures : \A e \in captures[i].extents :
              /\ e.start \in Boundaries /\ e.start + e.sectors \in Boundaries
<1>1. \A i \in DOMAIN captures : \A e \in captures[i].extents :
        /\ e.start \in Nat /\ e.sectors \in Nat \ {0}
        /\ e.start + e.sectors <= CapacitySectors
  BY CaptureFacts DEF CaptureExtents, WithinCapacity
<1>2. \A i \in DOMAIN captures : \A e \in captures[i].extents :
        e.start \in 0 .. CapacitySectors /\ e.start + e.sectors \in 0 .. CapacitySectors
  BY <1>1, CapacityAssumption
<1>3. \A b \in Boundaries :
        \/ b \in {0, CapacitySectors}
        \/ \E i \in DOMAIN captures : \E e \in captures[i].extents :
             b \in {e.start, e.start + e.sectors}
  BY DEF Boundaries
<1>4. \A i \in DOMAIN captures : \A e \in captures[i].extents :
        \A b \in {e.start, e.start + e.sectors} : b \in Boundaries
  BY DEF Boundaries
<1>5. 0 \in Boundaries /\ CapacitySectors \in Boundaries
  BY DEF Boundaries
<1>6. 0 \in 0 .. CapacitySectors /\ CapacitySectors \in 0 .. CapacitySectors
  BY CapacityAssumption
<1>7. ASSUME NEW b \in Boundaries PROVE b \in 0 .. CapacitySectors
  BY <1>2, <1>3, <1>6, <1>7
<1> QED BY <1>4, <1>5, <1>7

(* Whatever lies between two boundaries has the same candidates.           *)
LEMMA SegmentIsUniform ==
  ASSUME Accepted, NEW s \in Sectors, NEW b \in Boundaries, b <= s,
         \A c \in Boundaries : c <= s => c <= b
  PROVE  Candidates(b) = Candidates(s)
<1>1. s \in Nat /\ b \in Nat /\ b \in Sectors
  BY BoundaryFacts, CapacityAssumption DEF Sectors
<1>2. ASSUME NEW i \in DOMAIN captures, NEW e \in captures[i].extents
      PROVE  b \in Covered(e) <=> s \in Covered(e)
  <2>1. e.start \in Nat /\ e.start + e.sectors \in Nat
    BY <1>2, CaptureFacts DEF CaptureExtents
  <2>2. e.start \in Boundaries /\ e.start + e.sectors \in Boundaries
    BY <1>2, BoundaryFacts
  <2>3. e.start <= b <=> e.start <= s
    BY <1>1, <2>1, <2>2
  <2>4. b < e.start + e.sectors <=> s < e.start + e.sectors
    BY <1>1, <2>1, <2>2
  <2> QED BY <1>1, <2>3, <2>4 DEF Covered
<1>3. \A i \in DOMAIN captures : ExtentsAt(captures[i], b) = ExtentsAt(captures[i], s)
  BY <1>2 DEF ExtentsAt
<1> QED BY <1>3 DEF Candidates

SegmentOf(b) ==
    [start |-> b, hashes |-> UniqueHashes(Candidates(b)), selection |-> ResolveSegment(b)]

LEMMA SegmentFacts ==
  ASSUME Accepted
  PROVE  /\ \A x \in Segments : x = SegmentOf(x.start) /\ x.start \in Boundaries
                                /\ x.start \in Nat /\ x.start < CapacitySectors
         /\ \A b \in Boundaries : b # CapacitySectors =>
              SegmentOf(b) \in Segments /\ SegmentOf(b).start = b
<1>1. \A b : SegmentOf(b).start = b
  BY DEF SegmentOf
<1>2. Segments = {SegmentOf(b) : b \in Boundaries \ {CapacitySectors}}
  BY DEF Segments, SegmentOf
<1>3. \A b \in Boundaries \ {CapacitySectors} : b \in Nat /\ b < CapacitySectors
  BY BoundaryFacts, CapacityAssumption
<1> QED BY <1>1, <1>2, <1>3

(* Extents that say the same.                                              *)
SameWord(x, z) ==
    /\ x.hashes = z.hashes
    /\ x.selection.state = z.selection.state
    /\ x.selection.confidence = z.selection.confidence
    /\ x.selection.capture = z.selection.capture

LEMMA SameWordTells ==
  ASSUME NEW x, NEW z, NEW s, SameWord(x, z),
         ToldBy(z.selection, s), BackedHashes(z.hashes, s)
  PROVE  ToldBy(x.selection, s) /\ BackedHashes(x.hashes, s)
BY DEF SameWord, ToldBy

(* Up to the next one that starts an extent, all segments say the same.    *)
LEMMA JoinedSaySame ==
  ASSUME Accepted, NEW s \in Nat, NEW x \in FirstSegments(Segments),
         \A z \in FirstSegments(Segments) : z.start <= s => z.start <= x.start
  PROVE  \A z \in Segments : x.start <= z.start /\ z.start <= s => SameWord(x, z)
<1> DEFINE Fails(z) == z \in Segments /\ x.start <= z.start /\ z.start <= s /\ ~SameWord(x, z)
           T == {n \in Nat : \E z \in Segments : z.start = n /\ Fails(z)}
<1> SUFFICES ASSUME T # {} PROVE FALSE
  BY SegmentFacts
<1>1. PICK n \in T : \A k \in T : n <= k
  <2> HIDE DEF T
  <2>1. T \in SUBSET Nat
    BY DEF T
  <2> QED BY <2>1, LeastNumber
<1>2. PICK z \in Segments : z.start = n /\ Fails(z)
  BY <1>1
<1>3. x \in Segments /\ x.start \in Nat /\ z.start \in Nat
  BY SegmentFacts DEF FirstSegments
<1>4. x.start # z.start
  <2>1. SameWord(x, x)
    BY DEF SameWord
  <2> QED BY <1>2, <1>3, <2>1, SegmentFacts
<1>5. z \notin FirstSegments(Segments)
  BY <1>2, <1>3, <1>4
<1>6. PICK y \in SegmentBefore(z, Segments) : CanMergeMergedExtent(y, z)
  BY <1>5 DEF FirstSegments
<1>7. /\ y \in Segments /\ y.start < z.start /\ y.start \in Nat
      /\ x.start <= y.start
  <2>1. /\ y \in Segments /\ y.start < z.start
        /\ x.start <= y.start \/ z.start <= x.start
    BY <1>3 DEF SegmentBefore
  <2>2. y.start \in Nat
    BY <2>1, SegmentFacts
  <2> QED BY <1>2, <1>3, <1>4, <2>1, <2>2
<1>8. SameWord(x, y)
  <2>1. y.start \notin T
    BY <1>1, <1>2, <1>3, <1>7
  <2>2. y.start <= s
    BY <1>2, <1>3, <1>7
  <2> QED BY <1>7, <2>1, <2>2
<1>9. SameWord(x, z)
  BY <1>6, <1>8 DEF SameWord, CanMergeMergedExtent
<1> QED BY <1>2, <1>9

PlanExtent(x) ==
    [start |-> x.start,
     end |-> Min({y.start : y \in {z \in FirstSegments(Segments) : z.start > x.start}}
                   \cup {CapacitySectors}),
     hashes |-> x.hashes, selection |-> x.selection]

LEMMA ExtentEnds ==
  ASSUME Accepted, NEW x \in FirstSegments(Segments)
  PROVE  /\ PlanExtent(x).end \in Nat /\ PlanExtent(x).end <= CapacitySectors
         /\ \A z \in FirstSegments(Segments) : z.start > x.start => PlanExtent(x).end <= z.start
         /\ \/ PlanExtent(x).end = CapacitySectors
            \/ \E z \in FirstSegments(Segments) : z.start > x.start /\ z.start = PlanExtent(x).end
<1> DEFINE N == {y.start : y \in {z \in FirstSegments(Segments) : z.start > x.start}}
                  \cup {CapacitySectors}
<1>1. N \in SUBSET Nat /\ CapacitySectors \in N
  BY SegmentFacts, CapacityAssumption DEF FirstSegments
<1>2. PlanExtent(x).end = Min(N)
  BY DEF PlanExtent
<1>3. \A z \in FirstSegments(Segments) : z.start > x.start => z.start \in N
  OBVIOUS
<1>4. \A n \in N : n = CapacitySectors
                   \/ \E z \in FirstSegments(Segments) : z.start > x.start /\ z.start = n
  OBVIOUS
<1> HIDE DEF N
<1>5. PICK m \in N : \A n \in N : m <= n
  BY <1>1, LeastNumber
<1>6. Min(N) = m
  BY <1>1, <1>5, MinIsLeast
<1> QED BY <1>1, <1>2, <1>3, <1>4, <1>5, <1>6

(* Every sector is in one extent of the plan, that of the last segment     *)
(* before it that starts one.                                              *)
LEMMA EverySectorOnce ==
  ASSUME Accepted, NEW s \in Sectors
  PROVE  \E x \in FirstSegments(Segments) :
           /\ {y \in MergedExtents : y.start <= s /\ s < y.end} = {PlanExtent(x)}
           /\ x.start <= s
           /\ \A z \in FirstSegments(Segments) : z.start <= s => z.start <= x.start
<1> DEFINE first == FirstSegments(Segments)
           T == {n \in 0 .. s : \E x \in first : x.start = n}
<1>1. s \in Nat /\ s < CapacitySectors /\ CapacitySectors \in Nat
  BY CapacityAssumption DEF Sectors
<1>2. MergedExtents = {PlanExtent(x) : x \in first}
  BY DEF MergedExtents, PlanExtent
<1>3. \A x \in first : /\ x \in Segments /\ x.start \in Nat /\ x = SegmentOf(x.start)
                       /\ PlanExtent(x).start = x.start
  BY SegmentFacts DEF FirstSegments, PlanExtent
<1>4. SegmentOf(0) \in first /\ SegmentOf(0).start = 0
  <2>1. SegmentOf(0) \in Segments /\ SegmentOf(0).start = 0
    BY <1>1, BoundaryFacts, SegmentFacts
  <2>2. SegmentBefore(SegmentOf(0), Segments) = {}
    <3>1. \A y \in Segments : ~(y.start < 0)
      BY SegmentFacts
    <3> QED BY <2>1, <3>1 DEF SegmentBefore
  <2> QED BY <2>1, <2>2 DEF FirstSegments
<1> HIDE DEF first
<1>5. PICK m \in T : \A k \in T : k <= m
  <2>1. 0 \in T
    BY <1>1, <1>4
  <2> HIDE DEF T
  <2>2. T \in SUBSET (0 .. s) /\ T # {}
    BY <2>1 DEF T
  <2> QED BY <1>1, <2>2, GreatestUpTo
<1>6. PICK x \in first : x.start = m
  BY <1>5
<1>7. x.start <= s /\ \A z \in first : z.start <= s => z.start <= x.start
  BY <1>1, <1>3, <1>5, <1>6
<1>8. \A y \in first : y.start = x.start => y = x
  BY <1>3
<1>9. \A y \in first :
        /\ PlanExtent(y).end \in Nat
        /\ \A z \in first : z.start > y.start => PlanExtent(y).end <= z.start
        /\ \/ PlanExtent(y).end = CapacitySectors
           \/ \E z \in first : z.start > y.start /\ z.start = PlanExtent(y).end
  BY ExtentEnds DEF first
<1>10. s < PlanExtent(x).end
  BY <1>1, <1>3, <1>7, <1>9
<1>11. ASSUME NEW y \in first, y.start <= s, s < PlanExtent(y).end PROVE y = x
  <2>1. y.start <= x.start /\ y.start \in Nat /\ x.start \in Nat
    BY <1>3, <1>7, <1>11
  <2>2. ~(x.start > y.start)
    BY <1>1, <1>7, <1>9, <1>11, <2>1
  <2> QED BY <1>8, <2>1, <2>2
<1>12. {y \in MergedExtents : y.start <= s /\ s < y.end} = {PlanExtent(x)}
  BY <1>2, <1>3, <1>7, <1>10, <1>11
<1> QED BY <1>7, <1>12 DEF first

(* For any number of captures, with any extents that are legal, of a       *)
(* medium of any size: the plan is made from captures of the same contents *)
(* only, every sector is in one extent of it, and that says what the       *)
(* strongest evidence says (BuildPlan, resolveSegment,                     *)
(* appendMergedExtent).                                                    *)
THEOREM MergesAreConservative == MergeSpec => []MergeIsConservative
<1>1. ASSUME Accepted, NEW s \in Sectors
      PROVE  LET here == {x \in MergedExtents : x.start <= s /\ s < x.end}
             IN  /\ Cardinality(here) = 1
                 /\ \A x \in here : ToldBy(x.selection, s) /\ BackedHashes(x.hashes, s)
  <2>1. PICK x \in FirstSegments(Segments) :
          /\ {y \in MergedExtents : y.start <= s /\ s < y.end} = {PlanExtent(x)}
          /\ x.start <= s
          /\ \A z \in FirstSegments(Segments) : z.start <= s => z.start <= x.start
    BY <1>1, EverySectorOnce
  <2>2. s \in Nat /\ s < CapacitySectors /\ CapacitySectors \in Nat
    BY CapacityAssumption DEF Sectors
  <2>3. PICK b \in Boundaries : b <= s /\ \A c \in Boundaries : c <= s => c <= b
    <3> DEFINE T == {c \in Boundaries : c <= s}
    <3>1. T \in SUBSET (0 .. s) /\ T # {}
      BY <1>1, <2>2, BoundaryFacts
    <3> HIDE DEF T
    <3>2. PICK b \in T : \A c \in T : c <= b
      BY <2>2, <3>1, GreatestUpTo
    <3> QED BY <3>2 DEF T
  <2>4. Candidates(b) = Candidates(s)
    BY <1>1, <2>3, SegmentIsUniform
  <2>5. ToldBy(ResolveSegment(b), s)
    <3>1. ResolveSegment(b) = ResolveSegment(s)
      BY <2>4 DEF ResolveSegment
    <3> QED BY <1>1, <3>1, ResolutionTells
  <2>6. BackedHashes(UniqueHashes(Candidates(b)), s)
    <3>1. \A y \in Candidates(s) : ClaimsData(y.extent) => Readers(s, y.extent.hash) # {}
      BY CandidateShape DEF CandidateOf, Readers, ExtentsAt
    <3> QED BY <2>4, <3>1 DEF BackedHashes, UniqueHashes
  <2>7. SegmentOf(b) \in Segments /\ SegmentOf(b).start = b /\ b \in Nat
    BY <1>1, <2>2, <2>3, BoundaryFacts, SegmentFacts
  <2>8. x.start <= b
    <3>1. x.start \in Boundaries
      BY <1>1, SegmentFacts DEF FirstSegments
    <3> QED BY <2>1, <2>3, <3>1
  <2>9. SameWord(x, SegmentOf(b))
    BY <1>1, <2>1, <2>2, <2>3, <2>7, <2>8, JoinedSaySame
  <2>10. ToldBy(x.selection, s) /\ BackedHashes(x.hashes, s)
    <3>1. SegmentOf(b).selection = ResolveSegment(b)
          /\ SegmentOf(b).hashes = UniqueHashes(Candidates(b))
      BY DEF SegmentOf
    <3> QED BY <2>5, <2>6, <2>9, <3>1, SameWordTells
  <2>11. PlanExtent(x).selection = x.selection /\ PlanExtent(x).hashes = x.hashes
    BY DEF PlanExtent
  <2>12. Cardinality({PlanExtent(x)}) = 1
    BY FS_Singleton
  <2> QED BY <2>1, <2>10, <2>11, <2>12
<1>2. MergeInv => MergeIsConservative
  <2> SUFFICES ASSUME MergeInv, merging = "planned" PROVE MergeIsConservative
    BY DEF MergeIsConservative
  <2>1. Accepted /\ plan = MergedExtents
    BY DEF MergeInv
  <2> QED BY <1>1, <2>1 DEF MergeIsConservative, Accepted
<1> QED BY <1>2, MergeInvInit, MergeInvStep, PTL DEF MergeSpec

==============================================================================
