---------------------------- MODULE AdaptivePass ----------------------------
(***************************************************************************)
(* The adaptive pass scheduler (recovery/adaptive_pass.go): probe one half *)
(* of the largest unresolved extent, queue both halves again, and hand     *)
(* over to the scrape pass what has become too small or too deep.          *)
(*                                                                         *)
(* The queue is sorted again whenever a candidate is taken, so it is a set *)
(* here and AdaptiveHead picks from it.                                    *)
(***************************************************************************)
EXTENDS Integers

CONSTANTS Threshold,          \* smaller extents are left to the scrape pass
          MaxSplitDepth       \* and so are extents split this often

ASSUME AdaptivePassAssumption == /\ Threshold \in Nat \ {0}
                                 /\ MaxSplitDepth \in Nat \ {0}

VARIABLES adaptiveQueue,      \* Queue: candidates [start, sectors, attempts, depth]
          adaptiveHead,       \* HeadPosition
          adaptiveMode,       \* Mode
          adaptiveDirection,  \* NextDirection; while a probe is active, its own
          adaptiveActive,     \* "none", "probe" (ActiveRequest) or "defer" (ActiveDeferred)
          adaptiveCandidate,  \* ActiveCandidate, when adaptiveActive # "none"
          adaptiveDeferred,   \* DeferredToScrape
          adaptiveProbes      \* history: probes per sector

adaptiveVars == <<adaptiveQueue, adaptiveHead, adaptiveMode, adaptiveDirection,
                  adaptiveActive, adaptiveCandidate, adaptiveDeferred,
                  adaptiveProbes>>

SectorsOf(c) == c.start .. c.start + c.sectors - 1

HeadDistance(c) ==
    CASE adaptiveHead < c.start              -> c.start - adaptiveHead
      [] adaptiveHead >= c.start + c.sectors -> adaptiveHead - (c.start + c.sectors) + 1
      [] OTHER                               -> 0

(* sortAdaptiveQueue: large first, then least tried, then near the head.   *)
Precedes(c, d) ==
    \/ c.sectors > d.sectors
    \/ c.sectors = d.sectors /\ c.attempts < d.attempts
    \/ c.sectors = d.sectors /\ c.attempts = d.attempts
         /\ HeadDistance(c) < HeadDistance(d)
    \/ c.sectors = d.sectors /\ c.attempts = d.attempts
         /\ HeadDistance(c) = HeadDistance(d) /\ c.start <= d.start

AdaptiveHead(c) ==
    /\ c \in adaptiveQueue
    /\ \A d \in adaptiveQueue : Precedes(c, d)

(* Mutant: only the depth decides. *)
TooDeep(c) == c.depth >= MaxSplitDepth

TooSmallOrDeep(c) == c.sectors < Threshold \/ c.depth >= MaxSplitDepth

LeftHalf(c) == [c EXCEPT !.sectors = c.sectors \div 2, !.depth = @ + 1]

(* Mutant: both halves are rounded down. *)
RightHalfShort(c) == [c EXCEPT !.start = @ + c.sectors \div 2,
                               !.sectors = c.sectors \div 2,
                               !.depth = @ + 1]

RightHalf(c) == [c EXCEPT !.start = @ + c.sectors \div 2,
                          !.sectors = c.sectors - c.sectors \div 2,
                          !.depth = @ + 1]

ProbedHalf(c) == IF adaptiveDirection = "right_first" THEN RightHalf(c)
                                                      ELSE LeftHalf(c)

Tried(c) == [c EXCEPT !.attempts = @ + 1]

----------------------------------------------------------------------------

(* Every unresolved extent becomes a candidate. *)
StartAdaptivePass(extents, head) ==
    /\ adaptiveQueue = {[start |-> e.start, sectors |-> e.sectors,
                         attempts |-> e.attempts, depth |-> 0] : e \in extents}
    /\ adaptiveHead = head
    /\ adaptiveMode = "probe"
    /\ adaptiveDirection = "left_first"
    /\ adaptiveActive = "none"
    /\ adaptiveCandidate = [start |-> 0, sectors |-> 0, attempts |-> 0, depth |-> 0]
    /\ adaptiveDeferred = {}
    /\ adaptiveProbes = [s \in UNION {SectorsOf(e) : e \in extents} |-> 0]

DispatchAdaptiveDefer ==
    /\ adaptiveActive = "none" /\ adaptiveMode = "probe"
    /\ \E c \in adaptiveQueue :
         /\ AdaptiveHead(c)
         /\ TooSmallOrDeep(c)
         /\ adaptiveQueue' = adaptiveQueue \ {c}
         /\ adaptiveCandidate' = c
    /\ adaptiveActive' = "defer"
    /\ UNCHANGED <<adaptiveHead, adaptiveMode, adaptiveDirection,
                   adaptiveDeferred, adaptiveProbes>>

(* A candidate of one sector cannot be split: the dispatch fails, and the  *)
(* same candidate is the head of the queue the next time.                  *)
DispatchAdaptiveProbe ==
    /\ adaptiveActive = "none" /\ adaptiveMode = "probe"
    /\ \E c \in adaptiveQueue :
         /\ AdaptiveHead(c)
         /\ ~TooSmallOrDeep(c)
         /\ c.sectors > 1
         /\ adaptiveQueue' = adaptiveQueue \ {c}
         /\ adaptiveCandidate' = c
    /\ adaptiveActive' = "probe"
    /\ UNCHANGED <<adaptiveHead, adaptiveMode, adaptiveDirection,
                   adaptiveDeferred, adaptiveProbes>>

DispatchAdaptiveDone ==
    /\ adaptiveActive = "none" /\ adaptiveMode = "probe"
    /\ adaptiveQueue = {}
    /\ adaptiveMode' = "done"
    /\ UNCHANGED <<adaptiveQueue, adaptiveHead, adaptiveDirection,
                   adaptiveActive, adaptiveCandidate, adaptiveDeferred,
                   adaptiveProbes>>

ResolveAdaptiveDefer ==
    /\ adaptiveActive = "defer"
    /\ adaptiveActive' = "none"
    /\ adaptiveDeferred' = adaptiveDeferred \cup {adaptiveCandidate}
    /\ adaptiveMode' = IF adaptiveQueue = {} THEN "done" ELSE "probe"
    /\ UNCHANGED <<adaptiveQueue, adaptiveHead, adaptiveDirection,
                   adaptiveCandidate, adaptiveProbes>>

(* Whether the probe succeeded or not, both halves are queued again.       *)
ResolveAdaptiveProbe ==
    /\ adaptiveActive = "probe"
    /\ adaptiveActive' = "none"
    /\ LET c == adaptiveCandidate
       IN /\ adaptiveQueue' = adaptiveQueue \cup
                                {Tried(LeftHalf(c)), Tried(RightHalf(c))}
          /\ adaptiveHead' = ProbedHalf(c).start
          /\ adaptiveProbes' = [s \in DOMAIN adaptiveProbes |->
               adaptiveProbes[s] + IF s \in SectorsOf(ProbedHalf(c)) THEN 1 ELSE 0]
    /\ adaptiveDirection' = IF adaptiveDirection = "right_first"
                            THEN "left_first" ELSE "right_first"
    /\ UNCHANGED <<adaptiveMode, adaptiveCandidate, adaptiveDeferred>>

AdaptivePassNext ==
    \/ DispatchAdaptiveDefer
    \/ DispatchAdaptiveProbe
    \/ DispatchAdaptiveDone
    \/ ResolveAdaptiveDefer
    \/ ResolveAdaptiveProbe

(* ValidateExtentSet: extents of at least one sector that do not overlap.  *)
AdaptiveExtentSets ==
    {X \in SUBSET [start : Nat, sectors : Nat \ {0}, attempts : Nat] :
        \A e, f \in X : e # f => SectorsOf(e) \cap SectorsOf(f) = {}}

AdaptivePassInit ==
    \E extents \in AdaptiveExtentSets, head \in Nat : StartAdaptivePass(extents, head)

AdaptivePassSpec == AdaptivePassInit /\ [][AdaptivePassNext]_adaptiveVars

----------------------------------------------------------------------------

AdaptiveParts == adaptiveQueue \cup adaptiveDeferred \cup
                 (IF adaptiveActive = "none" THEN {} ELSE {adaptiveCandidate})

(* No sector is lost between the queue, the action under way and the       *)
(* scrape pass, and none is in two of them: splitting, taking and putting  *)
(* back always leave a partition of what the pass was given; and no sector *)
(* is probed more often than extents may be split.                         *)
AdaptivePassPartitions ==
    /\ \A s \in DOMAIN adaptiveProbes :
         /\ \E c \in AdaptiveParts : s \in SectorsOf(c)
         /\ adaptiveProbes[s] <= MaxSplitDepth
    /\ \A c, d \in AdaptiveParts :
         c # d => SectorsOf(c) \cap SectorsOf(d) = {}
    /\ adaptiveActive # "none" => adaptiveCandidate \notin adaptiveQueue \cup adaptiveDeferred
    /\ adaptiveMode = "done" => adaptiveQueue = {}
=============================================================================
