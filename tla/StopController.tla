--------------------------- MODULE StopController ---------------------------
(***************************************************************************)
(* recovery.StopController: stopping a session through caller-supplied     *)
(* hooks.  The controller's mutex is released while a hook runs, so stop   *)
(* requests, force stops, read completions and the grace timer all fall    *)
(* between the steps of the goroutine that finalizes the session.          *)
(***************************************************************************)
EXTENDS Lifecycle

CONSTANTS
    MaxReads,   \* bound: reads begun
    MaxStops    \* bound: calls of RequestStop

ASSUME StopControllerAssumption == MaxReads \in Nat /\ MaxStops \in Nat

VARIABLES
    life,         \* the controller's Lifecycle
    claimers,     \* callers on their way into finishIfCheckpointing
    finalized,    \* StopController.finalized
    fin,          \* the goroutine in finishIfCheckpointing, past its claim
    timers,       \* grace timers still running
    forcing,      \* is a ForceStop hook under way?
    reads,        \* id of the last read begun
    stops,        \* calls of RequestStop so far
    checkpointed, \* has the Checkpoint hook succeeded?
    released      \* has the ReleaseDevice hook succeeded?

stopVars == <<life, claimers, finalized, fin, timers, forcing, reads, stops,
          checkpointed, released>>

StopInit ==
    /\ life = Start(NewLifecycle)
    /\ claimers = 0 /\ finalized = FALSE /\ fin = "idle"
    /\ timers = 0 /\ forcing = FALSE /\ reads = 0 /\ stops = 0
    /\ checkpointed = FALSE /\ released = FALSE

----------------------------------------------------------------------------
BeginReadCall ==
    /\ reads < MaxReads
    /\ BeginReadAllowed(life, reads + 1)
    /\ life' = BeginRead(life, reads + 1)
    /\ reads' = reads + 1
    /\ UNCHANGED <<claimers, finalized, fin, timers, forcing, stops, checkpointed, released>>

(* With a read active the CancelRead hook is called, and that is all. *)
RequestStopCall(intent) ==
    /\ stops < MaxStops
    /\ RequestStopAllowed(life)
    /\ life' = RequestStop(life, intent)
    /\ stops' = stops + 1
    /\ IF life'.state = "canceling_read"
       THEN timers' = timers + 1 /\ UNCHANGED claimers
       ELSE claimers' = claimers + 1 /\ UNCHANGED timers
    /\ UNCHANGED <<finalized, fin, forcing, reads, checkpointed, released>>

ExpireGrace ==
    /\ timers > 0
    /\ timers' = timers - 1
    /\ life' = GraceExpired(life)
    /\ UNCHANGED <<claimers, finalized, fin, forcing, reads, stops, checkpointed, released>>

(* The read ends and the latest timer is stopped, if it has not fired. *)
ReadFinished ==
    /\ CompleteReadAllowed(life, reads)
    /\ life' = CompleteRead(life, reads)
    /\ timers' = IF timers > 0 THEN timers - 1 ELSE 0
    /\ claimers' = claimers + 1
    /\ UNCHANGED <<finalized, fin, forcing, reads, stops, checkpointed, released>>

ForceStopCall ==
    /\ ForceStopAllowed(life)
    /\ life' = ForceStop(life)
    /\ forcing' = TRUE
    /\ UNCHANGED <<claimers, finalized, fin, timers, reads, stops, checkpointed, released>>

ForceStopHook(ok) ==
    /\ forcing
    /\ forcing' = FALSE
    /\ life' = IF ok THEN life ELSE LifecycleFail(life)
    /\ UNCHANGED <<claimers, finalized, fin, timers, reads, stops, checkpointed, released>>

----------------------------------------------------------------------------
(* finishIfCheckpointing, a step per critical section. *)

(* Mutant: a stop is finalized whatever the session is doing. *)
ClaimFinalizationAnyState ==
    /\ claimers > 0
    /\ claimers' = claimers - 1
    /\ IF finalized
       THEN UNCHANGED <<finalized, fin>>
       ELSE finalized' = TRUE /\ fin' = "checkpoint"
    /\ UNCHANGED <<life, timers, forcing, reads, stops, checkpointed, released>>

(* The first caller to find the session checkpointing finalizes it. *)
ClaimFinalization ==
    /\ claimers > 0
    /\ claimers' = claimers - 1
    /\ IF finalized \/ life.state # "checkpointing"
       THEN UNCHANGED <<finalized, fin>>
       ELSE finalized' = TRUE /\ fin' = "checkpoint"
    /\ UNCHANGED <<life, timers, forcing, reads, stops, checkpointed, released>>

CheckpointHook(ok) ==
    /\ fin = "checkpoint"
    /\ checkpointed' = ok
    /\ IF ok THEN fin' = "checkpointed" /\ UNCHANGED life
             ELSE fin' = "over" /\ life' = LifecycleFail(life)
    /\ UNCHANGED <<claimers, finalized, timers, forcing, reads, stops, released>>

MarkCheckpointed ==
    /\ fin = "checkpointed"
    /\ IF CheckpointedAllowed(life)
       THEN fin' = "release" /\ life' = Checkpointed(life)
       ELSE fin' = "over" /\ life' = LifecycleFail(life)
    /\ UNCHANGED <<claimers, finalized, timers, forcing, reads, stops, checkpointed, released>>

ReleaseHook(ok) ==
    /\ fin = "release"
    /\ released' = ok
    /\ IF ok THEN fin' = "released" /\ UNCHANGED life
             ELSE fin' = "over" /\ life' = LifecycleFail(life)
    /\ UNCHANGED <<claimers, finalized, timers, forcing, reads, stops, checkpointed>>

MarkReleased ==
    /\ fin = "released"
    /\ fin' = "over"
    /\ life' = Released(life, FALSE)
    /\ UNCHANGED <<claimers, finalized, timers, forcing, reads, stops, checkpointed, released>>

----------------------------------------------------------------------------
FinalizerStep ==
    \/ ClaimFinalization
    \/ \E ok \in BOOLEAN : CheckpointHook(ok) \/ ReleaseHook(ok)
    \/ MarkCheckpointed \/ MarkReleased

StopNext ==
    \/ BeginReadCall
    \/ \E intent \in StopIntent : RequestStopCall(intent)
    \/ ExpireGrace \/ ReadFinished \/ ForceStopCall
    \/ \E ok \in BOOLEAN : ForceStopHook(ok)
    \/ FinalizerStep

StopSpec == StopInit /\ [][StopNext]_stopVars

----------------------------------------------------------------------------
(* Whatever stops, forced stops, completions and timers fall between the   *)
(* steps of the finalization: the session is checkpointed and its device   *)
(* released only when no read is active and none can become active, and it *)
(* is reported as stopped only after both hooks have succeeded.            *)
FinalizedInOrder ==
    /\ fin \in {"checkpoint", "checkpointed", "release", "released"} =>
           ~life.activeRead /\ life.state # "running"
    /\ life.state = "stopped" => checkpointed /\ released
=============================================================================
