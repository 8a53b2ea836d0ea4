---------------------------- MODULE RecoveryJob ----------------------------
(***************************************************************************)
(* One recovery job of a platform adapter (recovery_job_*.go and           *)
(* recovery_run_*.go): the worker goroutine that reads the device through  *)
(* the lifecycle's scheduling gate, the user's RequestStop and ForceStop,  *)
(* the grace timer and the snapshot the user interface polls.              *)
(*                                                                         *)
(* The job's mutex and the lifecycle's are different locks: the worker     *)
(* begins and completes reads under the second one only, so it can move    *)
(* between the lifecycle call of RequestStop and the rest of it.  What a   *)
(* read recovers and how it is saved is the business of RecoveryStore;     *)
(* here a read has one of four outcomes and a save works or fails.         *)
(***************************************************************************)
EXTENDS Lifecycle, FiniteSets

CONSTANTS
    Platforms,  \* adapters: "linux", or "native" for darwin and windows
    MaxReads,   \* bound: reads the passes make
    MaxStops    \* bound: calls of RequestStop

ASSUME RecoveryJobAssumption ==
    /\ Platforms \subseteq {"linux", "native"}
    /\ MaxReads \in Nat
    /\ MaxStops \in Nat

VARIABLES
    platform,  \* the adapter the program was built with
    life,      \* the job's Lifecycle
    jobMu,     \* holder of job.mu between two steps: "free" or "stop"
    intentArg, \* argument of the RequestStop that holds it
    snapshot,  \* RecoverySnapshot, as far as stopping is concerned
    timers,    \* grace timers still running
    calls,     \* cancel() and Interrupt() that callers are about to make
    ctx,       \* the run's context
    source,    \* the opened device
    pc,        \* the worker
    outcome,   \* what the last read returned
    runErr,    \* error the pass loop returned
    reads,     \* reads begun, the source of request ids
    stops,     \* calls of RequestStop so far
    saved      \* did closing the map succeed?

vars == <<platform, life, jobMu, intentArg, snapshot, timers, calls, ctx, source, pc,
          outcome, runErr, reads, stops, saved>>
uiVars == <<jobMu, intentArg, timers, calls, stops>>

Snapshots == [state : JobState, stopIntent : StopIntent \cup {"none"},
              canForce : BOOLEAN, done : BOOLEAN, canceled : BOOLEAN,
              err : BOOLEAN]

Locations == {"open", "output", "gate", "begin", "reading", "got", "unwind",
              "sync", "finish", "release", "exited"}

(* Type invariant. *)
TypeOK ==
    /\ platform \in Platforms
    /\ life \in LifecycleType
    /\ jobMu \in {"free", "stop"}
    /\ intentArg \in StopIntent
    /\ snapshot \in Snapshots
    /\ timers \in 0 .. MaxStops
    /\ calls \subseteq {"cancel", "interrupt"}
    /\ ctx \in {"live", "canceled"}
    /\ source \in {"none", "open", "interrupted", "closed"}
    /\ pc \in Locations
    /\ outcome \in {"none", "ok", "failed", "canceled", "fatal"}
    /\ runErr \in {"none", "canceled", "error"}
    /\ reads \in 0 .. MaxReads
    /\ stops \in 0 .. MaxStops
    /\ saved \in BOOLEAN

(* StartImageRecovery returns the job with its lifecycle started. *)
Init ==
    /\ platform \in Platforms
    /\ life = Start(NewLifecycle)
    /\ jobMu = "free" /\ intentArg = "stop"
    /\ snapshot = [state |-> "running", stopIntent |-> "none", canForce |-> FALSE,
                   done |-> FALSE, canceled |-> FALSE, err |-> FALSE]
    /\ timers = 0 /\ calls = {} /\ ctx = "live"
    /\ source = "none" /\ pc = "open" /\ outcome = "none" /\ runErr = "none"
    /\ reads = 0 /\ stops = 0 /\ saved = FALSE

----------------------------------------------------------------------------
(* The user interface and the grace timer. *)

RequestStopJob(intent) ==
    /\ jobMu = "free"
    /\ stops < MaxStops
    /\ RequestStopAllowed(life)
    /\ life' = RequestStop(life, intent)
    /\ jobMu' = "stop" /\ intentArg' = intent
    /\ stops' = stops + 1
    /\ UNCHANGED <<platform, snapshot, timers, calls, ctx, source, pc,
                   outcome, runErr, reads, saved>>

(* Mutant: the stop is not given a grace timer. *)
RequestStopReturnsUntimed ==
    /\ jobMu = "stop"
    /\ snapshot' = [snapshot EXCEPT !.state = life.state, !.stopIntent = intentArg,
                                    !.canForce = life.canForce]
    /\ jobMu' = "free"
    /\ calls' = calls \cup {"cancel"}
    /\ UNCHANGED <<platform, life, intentArg, timers, ctx, source, pc,
                   outcome, runErr, reads, stops, saved>>

(* Mutant: a return that does not unlock the job. *)
RequestStopReturnsLocked ==
    /\ jobMu = "stop"
    /\ "cancel" \notin calls
    /\ timers' = timers + (IF life.state = "canceling_read" THEN 1 ELSE 0)
    /\ snapshot' = [snapshot EXCEPT !.state = life.state, !.stopIntent = intentArg,
                                    !.canForce = life.canForce]
    /\ calls' = calls \cup {"cancel"}
    /\ UNCHANGED <<platform, life, jobMu, intentArg, ctx, source, pc,
                   outcome, runErr, reads, stops, saved>>

(* The rest of the critical section: a request for a read that is still    *)
(* active gets a timer, each call its own.                                 *)
RequestStopReturns ==
    /\ jobMu = "stop"
    /\ timers' = timers + (IF life.state = "canceling_read" THEN 1 ELSE 0)
    /\ snapshot' = [snapshot EXCEPT !.state = life.state, !.stopIntent = intentArg,
                                    !.canForce = life.canForce]
    /\ jobMu' = "free"
    /\ calls' = calls \cup {"cancel"}
    /\ UNCHANGED <<platform, life, intentArg, ctx, source, pc, outcome,
                   runErr, reads, stops, saved>>

ForceStopJob ==
    /\ jobMu = "free"
    /\ ForceStopAllowed(life)
    /\ life' = ForceStop(life)
    /\ snapshot' = [snapshot EXCEPT !.state = "force_stopping", !.canForce = FALSE]
    /\ calls' = calls \cup {"cancel", "interrupt"}
    /\ UNCHANGED <<platform, jobMu, intentArg, timers, ctx, source, pc,
                   outcome, runErr, reads, stops, saved>>

CancelContext ==
    /\ "cancel" \in calls
    /\ ctx' = "canceled"
    /\ calls' = calls \ {"cancel"}
    /\ UNCHANGED <<platform, life, jobMu, intentArg, snapshot, timers,
                   source, pc, outcome, runErr, reads, stops, saved>>

(* ForceStop cancels first, then closes the device under the active read. *)
InterruptSource ==
    /\ "interrupt" \in calls /\ "cancel" \notin calls
    /\ source' = IF source = "open" THEN "interrupted" ELSE source
    /\ calls' = calls \ {"interrupt"}
    /\ UNCHANGED <<platform, life, jobMu, intentArg, snapshot, timers,
                   ctx, pc, outcome, runErr, reads, stops, saved>>

GraceTimer ==
    /\ jobMu = "free"
    /\ timers > 0
    /\ timers' = timers - 1
    /\ life' = GraceExpired(life)
    /\ snapshot' = [snapshot EXCEPT !.state = GraceExpired(life).state,
                                    !.canForce = GraceExpired(life).canForce]
    /\ UNCHANGED <<platform, jobMu, intentArg, calls, ctx, source, pc,
                   outcome, runErr, reads, stops, saved>>

----------------------------------------------------------------------------
(* The worker goroutine. *)

OpenSource(ok) ==
    /\ pc = "open"
    /\ jobMu = "free"          \* j.source is set under the job's mutex
    /\ IF ok
       THEN source' = "open" /\ pc' = "output" /\ UNCHANGED runErr
       ELSE pc' = "finish" /\ runErr' = "error" /\ UNCHANGED source
    /\ UNCHANGED <<platform, life, uiVars, snapshot, ctx, outcome, reads,
                   saved>>

OpenOutput(ok) ==
    /\ pc = "output"
    /\ IF ok
       THEN pc' = "gate" /\ UNCHANGED runErr
       ELSE pc' = "finish" /\ runErr' = "error"
    /\ UNCHANGED <<platform, life, uiVars, snapshot, ctx, source, outcome,
                   reads, saved>>

(* Before a read the pass loop looks at its context.  It is done when no   *)
(* pass has a sector left to read.                                         *)
PassLoop ==
    /\ pc = "gate"
    /\ \/ ctx = "canceled" /\ pc' = "unwind" /\ runErr' = "canceled"
       \/ ctx = "live" /\ reads < MaxReads /\ pc' = "begin" /\ UNCHANGED runErr
       \/ ctx = "live" /\ pc' = "unwind" /\ UNCHANGED runErr
    /\ UNCHANGED <<platform, life, uiVars, snapshot, ctx, source, outcome,
                   reads, saved>>

(* Mutant: the read is made whatever the gate says. *)
BeginReadUngated ==
    /\ pc = "begin"
    /\ reads' = reads + 1
    /\ life' = [life EXCEPT !.activeRead = TRUE, !.lastRequest = reads + 1]
    /\ pc' = "reading"
    /\ UNCHANGED <<platform, uiVars, snapshot, ctx, source, outcome,
                   runErr, saved>>

(* LifecycleReaderAt: the gate refuses with ErrStopRequested, which        *)
(* fatalRecoveryReadError turns into a cancellation.                       *)
BeginReadStep ==
    /\ pc = "begin"
    /\ reads' = reads + 1
    /\ life' = BeginRead(life, reads + 1)
    /\ IF BeginReadAllowed(life, reads + 1)
       THEN pc' = "reading" /\ UNCHANGED runErr
       ELSE pc' = "unwind" /\ runErr' = "canceled"
    /\ UNCHANGED <<platform, uiVars, snapshot, ctx, source, outcome,
                   saved>>

(* The source returns and the read is completed in the lifecycle.  Data    *)
(* that arrived is returned even after a cancellation; a read that is cut  *)
(* short by one has closed the device and joined its request; a deadline   *)
(* or an I/O error is an ordinary failure, and after a deadline the device *)
(* has been closed and, unless that failed, opened again.                  *)
ReadReturns(result) ==
    /\ pc = "reading"
    /\ result = "canceled" => ctx = "canceled"
    /\ result = "ok" => source # "closed"
    /\ life' = CompleteRead(life, reads)
    /\ outcome' = result
    /\ pc' = "got"
    /\ source' \in CASE result = "ok" -> {source}
                     [] result = "canceled" -> {"closed"}
                     [] OTHER -> {source, "open", "closed"}
    /\ UNCHANGED <<platform, uiVars, snapshot, ctx, runErr, reads, saved>>

(* Mutant: the read's own deadline is taken for the run's cancellation. *)
AfterReadDeadlineCancels(persisted) ==
    /\ pc = "got"
    /\ CASE outcome \in {"failed", "canceled"} ->
                pc' = "unwind" /\ runErr' = "canceled"
         [] outcome = "fatal" ->
                pc' = "unwind" /\ runErr' = "error"
         [] OTHER ->
                IF persisted THEN pc' = "gate" /\ UNCHANGED runErr
                             ELSE pc' = "unwind" /\ runErr' = "error"
    /\ outcome' = "none"
    /\ UNCHANGED <<platform, life, uiVars, snapshot, ctx, source, reads,
                   saved>>

(* What a pass does with a read: recovered data is persisted whatever the  *)
(* context says; a failure is a cancellation if the context is canceled,   *)
(* else fatal or recorded in the map.                                      *)
AfterRead(persisted) ==
    /\ pc = "got"
    /\ CASE outcome # "ok" /\ ctx = "canceled" ->
                pc' = "unwind" /\ runErr' = "canceled"
         [] outcome = "fatal" /\ ctx = "live" ->
                pc' = "unwind" /\ runErr' = "error"
         [] OTHER ->
                IF persisted THEN pc' = "gate" /\ UNCHANGED runErr
                             ELSE pc' = "unwind" /\ runErr' = "error"
    /\ outcome' = "none"
    /\ UNCHANGED <<platform, life, uiVars, snapshot, ctx, source, reads,
                   saved>>

(* The deferred flush.  Its error is joined to the run's, and a joined     *)
(* error that holds a cancellation is still a cancellation.                *)
DeferredFlush(ok) ==
    /\ pc = "unwind"
    /\ runErr' = IF ok \/ runErr # "none" THEN runErr ELSE "error"
    /\ pc' = "sync"
    /\ UNCHANGED <<platform, life, uiVars, snapshot, ctx, source, outcome,
                   reads, saved>>

(* A run without error syncs the image. *)
SyncOutput(ok) ==
    /\ pc = "sync"
    /\ runErr' = IF ok \/ runErr # "none" THEN runErr ELSE "error"
    /\ pc' = "finish"
    /\ UNCHANGED <<platform, life, uiVars, snapshot, ctx, source, outcome,
                   reads, saved>>

(* Mutant: a failed run is released like a stopped one. *)
FinishLifecycleReleased(l) ==
    CASE runErr \in {"error", "canceled"} -> Released(Checkpointed(l), FALSE)
      [] runErr = "none" /\ platform = "linux" -> Released(Checkpointed(l), TRUE)
      [] OTHER -> Released(Checkpointed(Complete(l)), TRUE)

(* What finish does to the lifecycle: errors of its methods are dropped. *)
FinishLifecycle(l) ==
    CASE runErr = "error" -> LifecycleFail(l)
      [] runErr = "canceled" -> Released(Checkpointed(l), FALSE)
      [] runErr = "none" /\ platform = "linux" -> Released(Checkpointed(l), TRUE)
      [] OTHER -> Released(Checkpointed(Complete(l)), TRUE)

(* finish, under the job's mutex: the map is closed, the last grace timer  *)
(* stopped unless it is already running, the lifecycle and the snapshot    *)
(* brought to their end.                                                   *)
Finish(closed) ==
    /\ pc = "finish"
    /\ jobMu = "free"
    /\ pc' = "release"
    /\ saved' = closed
    /\ \/ timers > 0 /\ timers' = timers - 1
       \/ UNCHANGED timers
    /\ life' = FinishLifecycle(life)
    /\ snapshot' = [snapshot EXCEPT !.done = TRUE, !.canceled = runErr = "canceled",
                                    !.err = runErr = "error" \/ ~closed,
                                    !.state = FinishLifecycle(life).state,
                                    !.canForce = FinishLifecycle(life).canForce]
    /\ UNCHANGED <<platform, jobMu, intentArg, calls, stops, ctx, source,
                   outcome, runErr, reads>>

(* The deferred Close of output and source. *)
ReleaseDevice ==
    /\ pc = "release"
    /\ pc' = "exited"
    /\ source' = IF source = "none" THEN "none" ELSE "closed"
    /\ UNCHANGED <<platform, life, uiVars, snapshot, ctx, outcome, runErr,
                   reads, saved>>

(* The job is over and nobody has a call under way. *)
Exited ==
    /\ pc = "exited" /\ calls = {} /\ jobMu = "free" /\ timers = 0
    /\ UNCHANGED vars

----------------------------------------------------------------------------
DeviceReturns == \E result \in {"ok", "failed", "canceled", "fatal"} : ReadReturns(result)

WorkerStep ==
    \/ \E ok \in BOOLEAN : OpenSource(ok) \/ OpenOutput(ok)
    \/ PassLoop \/ BeginReadStep
    \/ \E ok \in BOOLEAN : AfterRead(ok) \/ DeferredFlush(ok) \/ SyncOutput(ok) \/ Finish(ok)
    \/ ReleaseDevice

CallerStep == RequestStopReturns \/ CancelContext \/ InterruptSource

Next ==
    \/ \E intent \in StopIntent : RequestStopJob(intent)
    \/ ForceStopJob
    \/ CallerStep \/ GraceTimer
    \/ WorkerStep \/ DeviceReturns
    \/ Exited

Spec == Init /\ [][Next]_vars

(* Goroutines that can run do, and the timer fires: nothing here waits for *)
(* anything but the mutex.  Nobody has to press a key, and the device need *)
(* not answer.                                                             *)
FairSpec == Spec /\ WF_vars(WorkerStep) /\ WF_vars(CallerStep) /\ WF_vars(GraceTimer)

----------------------------------------------------------------------------
(***************************************************************************)
(* Properties.                                                             *)
(***************************************************************************)

(* ADR 0006: no new optical read starts after pause or stop is requested.  *)
(* The request takes effect with the lifecycle call inside RequestStop,    *)
(* long before the context is canceled; the worker may be anywhere between *)
(* its look at the context and BeginRead.                                  *)
NoReadAfterStop == [][stops > 0 /\ ~life.activeRead => ~life'.activeRead]_vars

(* JobState is monotonic: neither a second stop request, a timer that      *)
(* fires late, nor a read that completes late takes a session back, and a  *)
(* terminal state is final.                                                *)
LifecycleMonotonic ==
    [][/\ Rank(life.state) <= Rank(life'.state)
       /\ life.state \in Terminal => life'.state = life.state]_vars

(* Only a user stops a session: a read deadline, which also ends a         *)
(* context, an interrupted descriptor or an I/O error is never reported as *)
(* a canceled run.                                                         *)
CanceledByUser == runErr = "canceled" \/ snapshot.canceled => stops > 0

(* What a finished job shows is the lifecycle as finish left it or a late  *)
(* call moved it, and that fits how the run ended: failed if and only if   *)
(* the pass loop returned an error, stopped only after a cancellation,     *)
(* completed only after a whole run.  Two ends are not terminal: a read    *)
(* that came back after its grace time leaves the escalation, which finish *)
(* cannot end and a late force stop still enters (CompleteRead, ForceStop);*)
(* and the linux adapter never calls Complete, so an undisturbed run ends  *)
(* as "running", and a late stop request takes it to "checkpointing".      *)
EndMatchesRun ==
    snapshot.done /\ jobMu = "free" =>
        /\ snapshot.state = life.state /\ snapshot.canForce = life.canForce
        /\ life.state = "failed" <=> runErr = "error"
        /\ life.state = "stopped" => runErr = "canceled"
        /\ life.state = "completed" => runErr = "none"
        /\ life.state \notin Terminal =>
              \/ life.state \in {"awaiting_force_stop", "force_stopping"} /\ stops > 0
              \/ /\ platform = "linux" /\ runErr = "none"
                 /\ life.state \in {"running", "checkpointing"}

(* A read that ignores the stop becomes visible: while it is active the    *)
(* interface is eventually offered the force stop.  No fairness of the     *)
(* device is used.                                                         *)
BlockedReadEscalates ==
    life.state = "canceling_read" ~> (snapshot.canForce \/ ~life.activeRead)

(* A stopped session ends, and its device is released, if a request that   *)
(* is sent to the device comes back in the end, if only because its        *)
(* deadline closes the device.                                             *)
StopEnds ==
    WF_vars(DeviceReturns) =>
        (stops > 0 ~> (snapshot.done /\ source \in {"none", "closed"}))
=============================================================================
