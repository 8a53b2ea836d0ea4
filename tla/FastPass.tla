------------------------------ MODULE FastPass ------------------------------
(***************************************************************************)
(* The fast pass scheduler (recovery/fast_pass.go): read the unknown       *)
(* sectors in clusters; after a failed cluster read its sectors one by     *)
(* one; after a failed single sector mark it and skip ahead; end with a    *)
(* checkpoint.                                                             *)
(*                                                                         *)
(* The scheduler is a pure state machine: a caller dispatches the next     *)
(* action, carries it out, and resolves it with its outcome.  A successful *)
(* read leaves Extents alone (recording it is the caller's business), so   *)
(* fastRead remembers the sectors that were read.                          *)
(***************************************************************************)
EXTENDS SectorMap

CONSTANTS ClusterSize,        \* sectors of a cluster read
          SkipAfterFailure    \* sectors skipped after a failed single read

ASSUME FastPassAssumption == /\ ClusterSize \in Nat \ {0}
                             /\ SkipAfterFailure \in Nat \ {0}

VARIABLES fastExtents,        \* Extents, sector by sector
          fastCursor,         \* CursorLBA
          fastMode,           \* Mode
          fastBoundary,       \* ClusterBoundary
          fastActive,         \* ActiveRequest
          fastCheckpoint,     \* CheckpointActive
          fastRead            \* history: sectors read successfully

fastVars == <<fastExtents, fastCursor, fastMode, fastBoundary, fastActive,
              fastCheckpoint, fastRead>>

FastPassMode == {"cluster", "single", "checkpoint", "done"}

Request == [start : Sectors, sectors : 1 .. CapacitySectors]

NoRequest == [start |-> 0, sectors |-> 0]

RequestEnd(r) == r.start + r.sectors

Schedulable(s) == s \in Sectors /\ fastExtents[s].state = "unknown"

(* The first schedulable sector at or after the cursor. *)
FirstSchedulable(s) ==
    /\ Schedulable(s)
    /\ fastCursor <= s
    /\ \A t \in fastCursor .. s - 1 : ~Schedulable(t)

(* n sectors from s lie in one extent. *)
OneExtent(s, n) ==
    /\ s + n <= CapacitySectors
    /\ \A t \in s .. s + n - 1 : fastExtents[t] = fastExtents[s]

(* The rest of the extent, at most a cluster of it. *)
NextClusterRange(r) ==
    /\ FirstSchedulable(r.start)
    /\ OneExtent(r.start, r.sectors)
    /\ r.sectors <= ClusterSize
    /\ r.sectors = ClusterSize \/ ~OneExtent(r.start, r.sectors + 1)

NextSingleSector(r) ==
    /\ FirstSchedulable(r.start)
    /\ r.start < fastBoundary
    /\ r.sectors = 1

NextFastPassRequest ==
    {r \in Request : \/ fastMode = "cluster" /\ NextClusterRange(r)
                     \/ fastMode = "single" /\ NextSingleSector(r)}

(* k schedulable sectors follow s without a gap, as many as the limit lets. *)
SkipLength(s, k) ==
    /\ \A t \in s .. s + k - 1 : Schedulable(t)
    /\ k <= SkipAfterFailure
    /\ k = SkipAfterFailure \/ ~Schedulable(s + k)

ReplaceRangeState(range, state) ==
    [s \in Sectors |-> IF s \in range
                       THEN [state |-> state, confidence |-> ConfidenceNone,
                             attempts |-> fastExtents[s].attempts + 1]
                       ELSE fastExtents[s]]

ApplyFastPassFailure(failed, k) ==
    [ReplaceRangeState(failed + 1 .. failed + k, "skipped")
        EXCEPT ![failed] = ReplaceRangeState({failed}, "io_error")[failed]]

----------------------------------------------------------------------------

StartFastPass(extents) ==
    /\ fastExtents = extents
    /\ fastCursor = 0
    /\ fastMode = "cluster"
    /\ fastBoundary = 0
    /\ fastActive = NoRequest
    /\ fastCheckpoint = FALSE
    /\ fastRead = {}

(* Writer back-pressure leaves the state alone: the read waits. *)
DispatchFastRead ==
    /\ fastActive = NoRequest /\ ~fastCheckpoint
    /\ \E r \in NextFastPassRequest : fastActive' = r
    /\ UNCHANGED <<fastExtents, fastCursor, fastMode, fastBoundary,
                   fastCheckpoint, fastRead>>

DispatchFastCheckpoint ==
    /\ fastActive = NoRequest /\ ~fastCheckpoint
    /\ fastMode # "done"
    /\ NextFastPassRequest = {}
    /\ fastMode' = "checkpoint"
    /\ fastCheckpoint' = TRUE
    /\ UNCHANGED <<fastExtents, fastCursor, fastBoundary, fastActive, fastRead>>

ResolveFastCheckpoint ==
    /\ fastCheckpoint
    /\ fastCheckpoint' = FALSE
    /\ fastMode' = "done"
    /\ UNCHANGED <<fastExtents, fastCursor, fastBoundary, fastActive, fastRead>>

(* After the last single sector of a cluster the pass moves past it. *)
ResolveFastSuccess ==
    /\ fastActive # NoRequest
    /\ fastActive' = NoRequest
    /\ fastRead' = fastRead \cup (fastActive.start .. RequestEnd(fastActive) - 1)
    /\ LET next == RequestEnd(fastActive)
           more == \E s \in next .. fastBoundary - 1 : Schedulable(s)
       IN IF fastMode = "single" /\ ~more
          THEN /\ fastMode' = "cluster"
               /\ fastCursor' = IF next < fastBoundary THEN fastBoundary ELSE next
          ELSE /\ fastCursor' = next
               /\ UNCHANGED fastMode
    /\ UNCHANGED <<fastExtents, fastBoundary, fastCheckpoint>>

ResolveFastClusterFailure ==
    /\ fastActive # NoRequest
    /\ fastMode = "cluster"
    /\ fastActive' = NoRequest
    /\ fastMode' = "single"
    /\ fastCursor' = fastActive.start
    /\ fastBoundary' = RequestEnd(fastActive)
    /\ UNCHANGED <<fastExtents, fastCheckpoint, fastRead>>

(* Mutant: the cursor skips as far as the policy says, over whatever follows. *)
ResolveFastSingleFailureBlind ==
    /\ fastActive # NoRequest
    /\ fastMode = "single"
    /\ fastActive' = NoRequest
    /\ fastMode' = "cluster"
    /\ \E k \in 0 .. CapacitySectors :
         /\ SkipLength(fastActive.start + 1, k)
         /\ fastExtents' = ApplyFastPassFailure(fastActive.start, k)
    /\ fastCursor' = fastActive.start + 1 + SkipAfterFailure
    /\ UNCHANGED <<fastBoundary, fastCheckpoint, fastRead>>

ResolveFastSingleFailure ==
    /\ fastActive # NoRequest
    /\ fastMode = "single"
    /\ fastActive' = NoRequest
    /\ fastMode' = "cluster"
    /\ \E k \in 0 .. CapacitySectors :
         /\ SkipLength(fastActive.start + 1, k)
         /\ fastExtents' = ApplyFastPassFailure(fastActive.start, k)
         /\ fastCursor' = fastActive.start + 1 + k
    /\ UNCHANGED <<fastBoundary, fastCheckpoint, fastRead>>

FastPassNext ==
    \/ DispatchFastRead
    \/ DispatchFastCheckpoint
    \/ ResolveFastCheckpoint
    \/ ResolveFastSuccess
    \/ ResolveFastClusterFailure
    \/ ResolveFastSingleFailure

FastPassInit == \E extents \in SectorMaps : StartFastPass(extents)

FastPassSpec == FastPassInit /\ [][FastPassNext]_fastVars

----------------------------------------------------------------------------

(* Every sector the fast pass moved past was either read, or marked as     *)
(* failed or skipped, and never both: no jump of the cursor (after a       *)
(* cluster, after the single sectors of a failed one, over a skipped       *)
(* range) leaves a sector out, and no failure is recorded over a sector    *)
(* that was read.  When the pass is done that is every sector.             *)
FastPassAccounts ==
    /\ \A s \in fastRead : fastExtents[s].state = "unknown"
    /\ \A s \in Sectors :
         s < fastCursor /\ fastExtents[s].state = "unknown" => s \in fastRead
    /\ fastActive # NoRequest =>
         (fastActive.start .. RequestEnd(fastActive) - 1) \cap fastRead = {}
    /\ fastMode = "done" =>
         \A s \in Sectors : fastExtents[s].state = "unknown" => s \in fastRead
=============================================================================
