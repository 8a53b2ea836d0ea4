-------------------------- MODULE RecoveryJobProofs --------------------------
(***************************************************************************)
(* Proofs about RecoveryJob, for any number of reads and of stop requests  *)
(* and for every adapter: no read begins after a stop, a session only goes *)
(* forward, only a user's stop makes it a canceled one, and a finished job *)
(* shows the end of its run.                                               *)
(***************************************************************************)
EXTENDS RecoveryJob, TLAPS

(* Each stop request sets off one timer at most, and the pass loop counts  *)
(* its reads.                                                              *)
Bounds ==
    /\ timers <= stops
    /\ jobMu = "stop" => timers < stops
    /\ pc = "begin" => reads < MaxReads

(* A read is active in the lifecycle only while the worker is in it, the   *)
(* states passed through within one call are never left standing, and a    *)
(* session is over only when its worker has finished.                      *)
LifeFollowsWorker ==
    /\ life.activeRead =>
         /\ pc = "reading" /\ life.lastRequest = reads
         /\ life.state \in {"running", "canceling_read", "awaiting_force_stop",
                            "force_stopping"}
    /\ life.state \notin {"starting", "stop_requested", "releasing_device"}
    /\ life.state \in Terminal => pc \in {"release", "exited"}

(* Before the first stop request nothing is stopping or canceled. *)
NothingStopsUnasked ==
    stops = 0 =>
        /\ life.state \in {"running"} \cup Terminal
        /\ ctx = "live" /\ calls = {} /\ jobMu = "free"
        /\ runErr # "canceled" /\ ~snapshot.canceled

(* After it, the gate is closed. *)
GateClosed == stops > 0 => life.state # "running"

(* How the lifecycle of a finished job fits the error of its run. *)
EndFits ==
    /\ life.state = "failed" <=> runErr = "error"
    /\ life.state = "stopped" => runErr = "canceled"
    /\ life.state = "completed" => runErr = "none"
    /\ life.state \notin Terminal =>
          \/ life.state \in {"awaiting_force_stop", "force_stopping"} /\ stops > 0
          \/ /\ platform = "linux" /\ runErr = "none"
             /\ life.state \in {"running", "checkpointing"}

(* A job is done once its worker is past finish, a read is being canceled  *)
(* only while it is active, and a call that holds the job's mutex brings   *)
(* the snapshot up to the lifecycle before it lets it go.                  *)
EndIsSettled ==
    /\ snapshot.done <=> pc \in {"release", "exited"}
    /\ life.state = "canceling_read" => life.activeRead
    /\ snapshot.done => EndFits
    /\ snapshot.done /\ jobMu = "free" =>
          snapshot.state = life.state /\ snapshot.canForce = life.canForce

IInv == /\ TypeOK /\ Bounds /\ LifeFollowsWorker /\ NothingStopsUnasked /\ GateClosed
        /\ EndIsSettled

NoNewRead == stops > 0 /\ ~life.activeRead => ~life'.activeRead

Forward == /\ Rank(life.state) <= Rank(life'.state)
           /\ life.state \in Terminal => life'.state = life.state

(* What each step is shown to do. *)
GoodStep == IInv' /\ NoNewRead /\ Forward

LEMMA Ranks ==
  /\ Rank("starting") = 0 /\ Rank("running") = 1 /\ Rank("stop_requested") = 2
  /\ Rank("canceling_read") = 3 /\ Rank("awaiting_force_stop") = 4
  /\ Rank("force_stopping") = 5 /\ Rank("checkpointing") = 6
  /\ Rank("releasing_device") = 7
  /\ Rank("stopped") = 8 /\ Rank("completed") = 8 /\ Rank("failed") = 8
BY DEF Rank, Terminal

(* A step that leaves the lifecycle alone. *)
LEMMA LifeStays ==
  ASSUME IInv, life' = life
  PROVE  NoNewRead /\ Forward
<1>1. life.state \in JobState
  BY DEF IInv, TypeOK, LifecycleType
<1>2. Rank(life.state) \in Nat
  BY <1>1, Ranks DEF JobState
<1> QED BY <1>2 DEF NoNewRead, Forward

LEMMA RequestStopStep ==
  ASSUME IInv, NEW intent \in StopIntent, RequestStopJob(intent)
  PROVE  GoodStep
<1>1. /\ life' = RequestStop(life, intent) /\ life.state \notin Terminal
      /\ stops' = stops + 1 /\ stops < MaxStops /\ stops \in Nat
      /\ life \in LifecycleType
      /\ jobMu = "free" /\ jobMu' = "stop" /\ intentArg' \in StopIntent
      /\ UNCHANGED <<platform, snapshot, timers, calls, ctx, source, pc,
                     outcome, runErr, reads, saved>>
  BY DEF RequestStopJob, RequestStopAllowed, IInv, TypeOK
<1>2. /\ life' \in LifecycleType
      /\ life'.activeRead = life.activeRead /\ life'.lastRequest = life.lastRequest
      /\ life'.state \in {"canceling_read", "awaiting_force_stop", "force_stopping",
                          "checkpointing"}
      /\ life.activeRead => life'.state # "checkpointing"
      /\ life.state \in {"running", "checkpointing"} \/ life'.state = life.state
  BY <1>1 DEF IInv, LifeFollowsWorker, RequestStop, RequestStopAllowed,
     LifecycleType, JobState, Terminal
<1>3. life.state = "checkpointing" => life'.state = "checkpointing"
  BY <1>1 DEF IInv, LifeFollowsWorker, RequestStop, RequestStopAllowed,
     LifecycleType, Terminal
<1>4. Rank(life.state) <= Rank(life'.state)
  BY <1>2, <1>3, Ranks
<1>5. TypeOK' /\ Bounds'
  BY <1>1, <1>2, RecoveryJobAssumption DEF IInv, TypeOK, Bounds, Snapshots
<1>6. LifeFollowsWorker'
  BY <1>1, <1>2 DEF IInv, LifeFollowsWorker, Terminal
<1>7. NothingStopsUnasked' /\ GateClosed'
  BY <1>1, <1>2 DEF NothingStopsUnasked, GateClosed
<1>8. EndIsSettled'
  <2>1. life.activeRead => pc = "reading"
    BY DEF IInv, LifeFollowsWorker
  <2>2. life'.state = "canceling_read" => life'.activeRead
    BY <1>1 DEF IInv, EndIsSettled, RequestStop, RequestStopAllowed, LifecycleType
  <2>3. ASSUME snapshot'.done PROVE EndFits'
    <3>1. snapshot.done /\ EndFits /\ ~life.activeRead
      BY <1>1, <2>1, <2>3 DEF IInv, EndIsSettled
    <3>2. \/ life'.state = life.state
          \/ life.state \in {"running", "checkpointing"} /\ life'.state = "checkpointing"
      BY <1>1, <3>1 DEF IInv, LifeFollowsWorker, RequestStop, RequestStopAllowed,
         LifecycleType, JobState, Terminal
    <3> QED BY <1>1, <3>1, <3>2 DEF EndFits, Terminal
  <2> QED BY <1>1, <2>2, <2>3 DEF IInv, EndIsSettled
<1> QED BY <1>1, <1>2, <1>5, <1>6, <1>7, <1>8, <1>4 DEF GoodStep, IInv, NoNewRead, Forward

(* The steps of the callers, which leave the lifecycle alone. *)
LEMMA CallerSteps ==
  ASSUME IInv, CallerStep
  PROVE  GoodStep
<1>1. /\ UNCHANGED <<platform, life, intentArg, pc, outcome, runErr, reads, stops, saved>>
      /\ calls' \subseteq {"cancel", "interrupt"}
      /\ stops \in Nat /\ timers \in Nat
  BY DEF CallerStep, RequestStopReturns, CancelContext, InterruptSource, IInv, TypeOK
<1>2. snapshot' \in Snapshots /\ snapshot'.canceled = snapshot.canceled
  BY <1>1 DEF CallerStep, RequestStopReturns, CancelContext, InterruptSource, IInv, TypeOK,
     Snapshots, LifecycleType, StopIntent
<1>3. /\ timers' \in Nat /\ jobMu' \in {"free", "stop"}
      /\ timers' <= stops /\ (jobMu' = "stop" => timers' < stops)
  BY <1>1 DEF CallerStep, RequestStopReturns, CancelContext, InterruptSource, IInv, TypeOK,
     Bounds
<1>4. TypeOK' /\ Bounds'
  <2>1. source' \in {"none", "open", "interrupted", "closed"} /\ ctx' \in {"live", "canceled"}
    BY DEF CallerStep, RequestStopReturns, CancelContext, InterruptSource, IInv, TypeOK
  <2>2. Bounds' /\ timers' \in 0 .. MaxStops
    BY <1>1, <1>3, RecoveryJobAssumption DEF IInv, TypeOK, Bounds
  <2>3. TypeOK'
    BY <1>1, <1>2, <1>3, <2>1, <2>2 DEF IInv, TypeOK
  <2> QED BY <2>2, <2>3
<1>5. LifeFollowsWorker' /\ GateClosed'
  BY <1>1 DEF IInv, LifeFollowsWorker, GateClosed
<1>6. NothingStopsUnasked'
  <2>1. stops = 0 => FALSE
    BY DEF CallerStep, RequestStopReturns, CancelContext, InterruptSource, IInv,
       NothingStopsUnasked
  <2> QED BY <1>1, <2>1 DEF NothingStopsUnasked
<1>7. EndIsSettled'
  <2>1. snapshot'.done = snapshot.done
    BY DEF CallerStep, RequestStopReturns, CancelContext, InterruptSource, IInv, TypeOK,
       Snapshots
  <2>2. \/ snapshot' = snapshot /\ jobMu' = jobMu
        \/ snapshot'.state = life.state /\ snapshot'.canForce = life.canForce
    BY DEF CallerStep, RequestStopReturns, CancelContext, InterruptSource, IInv, TypeOK,
       Snapshots
  <2>3. EndFits => EndFits'
    BY <1>1 DEF EndFits
  <2> QED BY <1>1, <2>1, <2>2, <2>3 DEF IInv, EndIsSettled
<1> QED BY <1>1, <1>4, <1>5, <1>6, <1>7, LifeStays DEF GoodStep, IInv

(* A force stop and a grace timer go one state on. *)
LEMMA EscalationSteps ==
  ASSUME IInv, ForceStopJob \/ GraceTimer
  PROVE  GoodStep
<1>1. /\ UNCHANGED <<platform, jobMu, intentArg, ctx, source, pc, outcome, runErr,
                     reads, stops, saved>>
      /\ jobMu = "free" /\ stops \in Nat /\ timers \in Nat /\ life \in LifecycleType
  BY DEF ForceStopJob, GraceTimer, IInv, TypeOK
<1>2. /\ life' \in LifecycleType /\ life'.activeRead = life.activeRead
      /\ life'.lastRequest = life.lastRequest
      /\ \/ life' = life /\ ~ForceStopJob
         \/ /\ life.state \in {"canceling_read", "awaiting_force_stop"}
            /\ life'.state \in {"awaiting_force_stop", "force_stopping"}
            /\ life'.state = "awaiting_force_stop" => life.state = "canceling_read"
  <2>1. CASE GraceTimer
    BY <1>1, <2>1 DEF GraceTimer, ForceStopJob, ForceStop, ForceStopAllowed,
       GraceExpired, LifecycleType, JobState
  <2>2. CASE ForceStopJob
    BY <1>1, <2>2 DEF ForceStopJob, ForceStop, ForceStopAllowed, LifecycleType, JobState
  <2> QED BY <2>1, <2>2
<1>3. snapshot' \in Snapshots /\ snapshot'.canceled = snapshot.canceled
  <2>1. snapshot \in Snapshots
    BY DEF IInv, TypeOK
  <2>2. CASE ForceStopJob
    BY <2>1, <2>2 DEF ForceStopJob, Snapshots, JobState
  <2>3. CASE GraceTimer
    <3>1. /\ GraceExpired(life).state \in JobState
          /\ GraceExpired(life).canForce \in BOOLEAN
      BY <1>1 DEF GraceExpired, LifecycleType, JobState
    <3> QED BY <2>1, <2>3, <3>1 DEF GraceTimer, Snapshots
  <2> QED BY <2>2, <2>3
<1>4. /\ timers' \in Nat /\ timers' <= timers
      /\ calls' \subseteq {"cancel", "interrupt"}
      /\ ~ForceStopJob => calls' = calls
  BY <1>1 DEF ForceStopJob, GraceTimer, IInv, TypeOK
<1>5. TypeOK' /\ Bounds'
  <2>1. Bounds'
    BY <1>1, <1>4 DEF IInv, TypeOK, Bounds
  <2>2. TypeOK'
    BY <1>1, <1>2, <1>3, <1>4, RecoveryJobAssumption DEF IInv, TypeOK
  <2> QED BY <2>1, <2>2
<1>6. LifeFollowsWorker' /\ GateClosed'
  BY <1>1, <1>2 DEF IInv, LifeFollowsWorker, GateClosed, Terminal
<1>7. NothingStopsUnasked'
  BY <1>1, <1>2, <1>3, <1>4 DEF IInv, NothingStopsUnasked, Terminal
<1>8. NoNewRead /\ Forward
  BY <1>2, LifeStays, Ranks DEF NoNewRead, Forward, Terminal
<1>9. EndIsSettled'
  <2>1. /\ snapshot'.done = snapshot.done
        /\ snapshot'.state = life'.state /\ snapshot'.canForce = life'.canForce
    <3>1. CASE ForceStopJob
      BY <1>1, <3>1 DEF ForceStopJob, ForceStop, IInv, TypeOK, Snapshots, LifecycleType
    <3>2. CASE GraceTimer
      BY <1>1, <3>2 DEF GraceTimer, IInv, TypeOK, Snapshots
    <3> QED BY <3>1, <3>2
  <2>2. life'.state = "canceling_read" => life'.activeRead
    BY <1>2 DEF IInv, EndIsSettled
  <2>3. ASSUME snapshot'.done PROVE EndFits'
    <3>1. snapshot.done /\ EndFits /\ life.state # "canceling_read"
      BY <2>1, <2>3 DEF IInv, EndIsSettled, LifeFollowsWorker
    <3>2. \/ life'.state = life.state
          \/ life.state = "awaiting_force_stop" /\ life'.state = "force_stopping"
      BY <1>2, <3>1
    <3> QED BY <1>1, <3>1, <3>2 DEF EndFits, Terminal
  <2> QED BY <1>1, <2>1, <2>2, <2>3 DEF IInv, EndIsSettled
<1> QED BY <1>5, <1>6, <1>7, <1>8, <1>9 DEF GoodStep, IInv

(* Steps of the worker that neither touch the lifecycle nor the snapshot:  *)
(* opening, the pass loop, the evaluation of a read and the way out.       *)
LEMMA QuietWorkerStep ==
  ASSUME IInv,
         UNCHANGED <<platform, life, uiVars, snapshot, ctx, reads, saved>>,
         pc' \in Locations, pc # "reading", pc' # "reading",
         outcome' \in {"none", "ok", "failed", "canceled", "fatal"},
         source' \in {"none", "open", "interrupted", "closed"},
         runErr' \in {"none", "canceled", "error"},
         stops = 0 => runErr' # "canceled",
         pc' = "begin" => reads < MaxReads,
         pc \in {"release", "exited"} <=> pc' \in {"release", "exited"},
         pc \in {"release", "exited"} => runErr' = runErr
  PROVE  GoodStep
<1>1. TypeOK' /\ Bounds'
  BY DEF IInv, TypeOK, Bounds, uiVars
<1>2. LifeFollowsWorker' /\ GateClosed'
  BY DEF IInv, LifeFollowsWorker, GateClosed, uiVars
<1>3. NothingStopsUnasked'
  BY DEF IInv, NothingStopsUnasked, uiVars
<1>4. EndIsSettled'
  BY DEF IInv, EndIsSettled, EndFits, uiVars
<1> QED BY <1>1, <1>2, <1>3, <1>4, LifeStays DEF GoodStep, IInv

LEMMA QuietWorkerSteps ==
  ASSUME IInv,
         \/ \E ok \in BOOLEAN : OpenSource(ok) \/ OpenOutput(ok) \/ AfterRead(ok)
                                \/ DeferredFlush(ok) \/ SyncOutput(ok)
         \/ PassLoop \/ ReleaseDevice
  PROVE  GoodStep
<1>1. stops = 0 => ctx # "canceled" /\ runErr # "canceled"
  BY DEF IInv, NothingStopsUnasked
<1>2. /\ runErr \in {"none", "canceled", "error"}
      /\ outcome \in {"none", "ok", "failed", "canceled", "fatal"}
      /\ source \in {"none", "open", "interrupted", "closed"}
  BY DEF IInv, TypeOK
<1>3. CASE \E ok \in BOOLEAN : OpenSource(ok) \/ OpenOutput(ok)
  BY <1>1, <1>2, <1>3, QuietWorkerStep DEF OpenSource, OpenOutput, Locations, uiVars
<1>4. CASE \E ok \in BOOLEAN : AfterRead(ok)
  BY <1>1, <1>2, <1>4, QuietWorkerStep DEF AfterRead, Locations, uiVars
<1>5. CASE \E ok \in BOOLEAN : DeferredFlush(ok) \/ SyncOutput(ok)
  BY <1>1, <1>2, <1>5, QuietWorkerStep DEF DeferredFlush, SyncOutput, Locations, uiVars
<1>6. CASE PassLoop
  BY <1>1, <1>2, <1>6, QuietWorkerStep DEF PassLoop, Locations, uiVars
<1>7. CASE ReleaseDevice
  BY <1>1, <1>2, <1>7, QuietWorkerStep DEF ReleaseDevice, Locations, uiVars
<1> QED BY <1>3, <1>4, <1>5, <1>6, <1>7

(* The gate: BeginRead is refused once the lifecycle has left "running".   *)
LEMMA BeginReadStepGood ==
  ASSUME IInv, BeginReadStep
  PROVE  GoodStep
<1>1. /\ pc = "begin" /\ reads < MaxReads /\ reads' = reads + 1
      /\ life' = BeginRead(life, reads + 1)
      /\ UNCHANGED <<platform, jobMu, intentArg, timers, calls, stops, snapshot, ctx,
                     source, outcome, saved>>
      /\ life \in LifecycleType /\ ~life.activeRead /\ life.state \notin Terminal
      /\ reads \in Nat
  BY DEF BeginReadStep, uiVars, IInv, TypeOK, Bounds, LifeFollowsWorker
<1>2. CASE BeginReadAllowed(life, reads + 1)
  <2>1. /\ life.state = "running" /\ pc' = "reading" /\ runErr' = runErr
        /\ life' = [life EXCEPT !.activeRead = TRUE, !.lastRequest = reads + 1]
    BY <1>1, <1>2 DEF BeginReadStep, BeginRead, BeginReadAllowed
  <2>2. ~(stops > 0)
    BY <2>1 DEF IInv, GateClosed
  <2>3. /\ life' \in LifecycleType /\ life'.state = "running" /\ life'.activeRead
        /\ life'.lastRequest = reads'
    <3>1. reads + 1 \in Nat
      BY <1>1
    <3>2. life \in LifecycleType
      BY <1>1
    <3>3. life' \in LifecycleType
      BY <2>1, <3>1, <3>2 DEF LifecycleType
    <3>4. life'.state = life.state /\ life'.activeRead /\ life'.lastRequest = reads + 1
      BY <2>1, <3>2 DEF LifecycleType
    <3> QED BY <1>1, <2>1, <3>3, <3>4
  <2>4. TypeOK'
    BY <1>1, <2>1, <2>3, RecoveryJobAssumption DEF IInv, TypeOK, Locations
  <2>5. Bounds' /\ LifeFollowsWorker' /\ NothingStopsUnasked' /\ GateClosed'
    BY <1>1, <2>1, <2>2, <2>3 DEF IInv, Bounds, LifeFollowsWorker, NothingStopsUnasked,
       GateClosed, Terminal
  <2>6. NoNewRead /\ Forward
    BY <2>1, <2>2, <2>3, Ranks DEF NoNewRead, Forward, Terminal
  <2>7. EndIsSettled'
    BY <1>1, <2>1, <2>3 DEF IInv, EndIsSettled
  <2> QED BY <2>4, <2>5, <2>6, <2>7 DEF GoodStep, IInv
<1>3. CASE ~BeginReadAllowed(life, reads + 1)
  <2>1. life' = life /\ pc' = "unwind" /\ runErr' = "canceled"
    BY <1>1, <1>3 DEF BeginReadStep, BeginRead
  <2>2. life.state # "running"
    BY <1>1, <1>3 DEF BeginReadAllowed
  <2>3. stops # 0
    BY <1>1, <2>2 DEF IInv, NothingStopsUnasked
  <2>4. TypeOK'
    BY <1>1, <2>1, RecoveryJobAssumption DEF IInv, TypeOK, Locations
  <2>5. Bounds' /\ LifeFollowsWorker' /\ NothingStopsUnasked' /\ GateClosed'
    BY <1>1, <2>1, <2>3 DEF IInv, Bounds, LifeFollowsWorker, NothingStopsUnasked,
       GateClosed
  <2>6. EndIsSettled'
    BY <1>1, <2>1 DEF IInv, EndIsSettled
  <2> QED BY <2>1, <2>4, <2>5, <2>6, LifeStays DEF GoodStep, IInv
<1> QED BY <1>2, <1>3

LEMMA ReadReturnsStep ==
  ASSUME IInv, NEW result \in {"ok", "failed", "canceled", "fatal"}, ReadReturns(result)
  PROVE  GoodStep
<1>1. /\ pc = "reading" /\ pc' = "got" /\ outcome' = result
      /\ life' = CompleteRead(life, reads)
      /\ UNCHANGED <<platform, jobMu, intentArg, timers, calls, stops, snapshot, ctx,
                     runErr, reads, saved>>
      /\ life \in LifecycleType /\ life.state \notin Terminal
  BY DEF ReadReturns, uiVars, IInv, TypeOK, LifeFollowsWorker
<1>2. source' \in {"none", "open", "interrupted", "closed"}
  BY DEF ReadReturns, IInv, TypeOK
<1>3. /\ life' \in LifecycleType
      /\ life'.state = life.state \/ /\ life.state \in {"canceling_read", "force_stopping"}
                                     /\ life'.state = "checkpointing"
      /\ ~life'.activeRead
  BY <1>1 DEF CompleteRead, CompleteReadAllowed, LifecycleType, JobState, IInv,
     LifeFollowsWorker
<1>4. TypeOK'
  BY <1>1, <1>2, <1>3 DEF IInv, TypeOK, Locations
<1>5. Bounds' /\ LifeFollowsWorker' /\ NothingStopsUnasked' /\ GateClosed'
  BY <1>1, <1>3 DEF IInv, Bounds, LifeFollowsWorker, NothingStopsUnasked, GateClosed,
     Terminal
<1>6. NoNewRead /\ Forward
  <2>1. life.state \in JobState
    BY <1>1 DEF LifecycleType
  <2>2. Rank(life.state) <= Rank(life'.state)
    BY <1>3, <2>1, Ranks DEF JobState
  <2> QED BY <1>1, <1>3, <2>2 DEF NoNewRead, Forward
<1>7. EndIsSettled'
  <2>1. life'.state # "canceling_read"
    BY <1>1 DEF CompleteRead, CompleteReadAllowed, LifecycleType, IInv, LifeFollowsWorker,
       EndIsSettled
  <2>2. ~snapshot'.done /\ pc' \notin {"release", "exited"}
    BY <1>1 DEF IInv, EndIsSettled
  <2> QED BY <2>1, <2>2 DEF EndIsSettled
<1> QED BY <1>4, <1>5, <1>6, <1>7 DEF GoodStep, IInv

(* The end of the worker, on every adapter. *)
LEMMA FinishStep ==
  ASSUME IInv, NEW closed \in BOOLEAN, Finish(closed)
  PROVE  GoodStep
<1>1. /\ pc = "finish" /\ pc' = "release" /\ saved' = closed
      /\ life' = FinishLifecycle(life)
      /\ timers' \in Nat /\ timers' <= timers
      /\ UNCHANGED <<platform, jobMu, intentArg, calls, stops, ctx, source,
                     outcome, runErr, reads>>
      /\ life \in LifecycleType /\ life.state \notin Terminal /\ ~life.activeRead
      /\ runErr \in {"none", "canceled", "error"}
  BY DEF Finish, IInv, TypeOK, LifeFollowsWorker
<1>2. /\ life' \in LifecycleType /\ ~life'.activeRead
      /\ \/ life'.state = life.state
         \/ /\ life.state \in {"running", "checkpointing", "force_stopping"}
            /\ runErr # "error" /\ life'.state \in {"stopped", "completed"}
         \/ runErr = "error" /\ life'.state = "failed"
      /\ runErr = "canceled" /\ life.state = "running" => life'.state = "running"
  <2>1. CASE runErr = "error"
    BY <1>1, <2>1 DEF FinishLifecycle, LifecycleFail, LifecycleType, JobState
  <2>2. CASE runErr = "canceled"
    BY <1>1, <2>2 DEF FinishLifecycle, Released, ReleasedAllowed, Checkpointed,
       CheckpointedAllowed, LifecycleType, JobState, IInv, LifeFollowsWorker
  <2>3. CASE runErr = "none" /\ platform = "linux"
    BY <1>1, <2>3 DEF FinishLifecycle, Released, ReleasedAllowed, Checkpointed,
       CheckpointedAllowed, LifecycleType, JobState, IInv, LifeFollowsWorker
  <2>4. CASE runErr = "none" /\ platform # "linux"
    BY <1>1, <2>4 DEF FinishLifecycle, Released, ReleasedAllowed, Checkpointed,
       CheckpointedAllowed, Complete, LifecycleType, JobState, IInv, LifeFollowsWorker
  <2> QED BY <1>1, <2>1, <2>2, <2>3, <2>4
<1>3. /\ snapshot' \in Snapshots
      /\ snapshot'.canceled = (runErr = "canceled")
  BY <1>1, <1>2 DEF Finish, IInv, TypeOK, Snapshots, LifecycleType
<1>4. TypeOK'
  BY <1>1, <1>2, <1>3, RecoveryJobAssumption DEF IInv, TypeOK, Locations
<1>5. Bounds' /\ LifeFollowsWorker' /\ GateClosed'
  BY <1>1, <1>2 DEF IInv, TypeOK, Bounds, LifeFollowsWorker, GateClosed, Terminal
<1>6. NothingStopsUnasked'
  BY <1>1, <1>2, <1>3 DEF IInv, NothingStopsUnasked, Terminal
<1>7. NoNewRead /\ Forward
  <2>1. life.state \in JobState
    BY <1>1 DEF LifecycleType
  <2>2. Rank(life.state) <= Rank(life'.state)
    BY <1>2, <2>1, Ranks DEF JobState
  <2> QED BY <1>1, <1>2, <2>2 DEF NoNewRead, Forward
<1>8. EndIsSettled'
  <2>1. /\ snapshot'.done /\ snapshot'.state = life'.state
        /\ snapshot'.canForce = life'.canForce
    BY <1>1 DEF Finish, IInv, TypeOK, Snapshots
  <2>2. /\ life.state \in {"running", "awaiting_force_stop", "force_stopping",
                           "checkpointing"}
        /\ life.state # "running" => stops > 0
        /\ runErr = "canceled" => life.state # "running"
    BY <1>1 DEF IInv, TypeOK, LifeFollowsWorker, EndIsSettled, NothingStopsUnasked, GateClosed,
       LifecycleType, JobState, Terminal
  <2>3. EndFits'
    <3>1. CASE runErr = "error"
      <4>1. life'.state = "failed"
        BY <1>1, <3>1 DEF FinishLifecycle, LifecycleFail, LifecycleType
      <4> QED BY <1>1, <3>1, <4>1 DEF EndFits, Terminal
    <3>2. CASE runErr = "canceled"
      <4>1. life' = Released(Checkpointed(life), FALSE)
        BY <1>1, <3>2 DEF FinishLifecycle
      <4>2. \/ life'.state = "stopped"
            \/ life'.state = "awaiting_force_stop" /\ life.state = "awaiting_force_stop"
        BY <1>1, <2>2, <3>2, <4>1 DEF Released, ReleasedAllowed, Checkpointed,
           CheckpointedAllowed, LifecycleType
      <4> QED BY <1>1, <2>2, <3>2, <4>2 DEF EndFits, Terminal
    <3>3. CASE runErr = "none"
      <4>1. \/ life'.state = "completed"
            \/ life'.state = "awaiting_force_stop" /\ life.state = "awaiting_force_stop"
            \/ life'.state = "running" /\ platform = "linux"
        <5>1. CASE platform = "linux"
          BY <1>1, <2>2, <3>3, <5>1 DEF FinishLifecycle, Released, ReleasedAllowed,
             Checkpointed, CheckpointedAllowed, LifecycleType
        <5>2. CASE platform # "linux"
          BY <1>1, <2>2, <3>3, <5>2 DEF FinishLifecycle, Released, ReleasedAllowed,
             Checkpointed, CheckpointedAllowed, Complete, LifecycleType
        <5> QED BY <5>1, <5>2
      <4> QED BY <1>1, <2>2, <3>3, <4>1 DEF EndFits, Terminal
    <3> QED BY <1>1, <3>1, <3>2, <3>3
  <2>4. life'.state = "canceling_read" => life'.activeRead
    BY <1>1, <1>2, <2>2
  <2> QED BY <1>1, <2>1, <2>3, <2>4 DEF EndIsSettled
<1> QED BY <1>4, <1>5, <1>6, <1>7, <1>8 DEF GoodStep, IInv

LEMMA IInvInit == Init => IInv
<1> SUFFICES ASSUME Init PROVE IInv
  OBVIOUS
<1>1. life = [state |-> "running", stopIntent |-> "none", activeRead |-> FALSE,
              canForce |-> FALSE, lastRequest |-> 0]
  BY DEF Init, Start, NewLifecycle
<1>2. TypeOK
  <2>1. life \in LifecycleType /\ snapshot \in Snapshots /\ intentArg \in StopIntent
    BY <1>1 DEF Init, LifecycleType, JobState, Snapshots, StopIntent
  <2>2. timers \in 0 .. MaxStops /\ reads \in 0 .. MaxReads /\ stops \in 0 .. MaxStops
    BY RecoveryJobAssumption DEF Init
  <2>3. pc \in Locations /\ runErr \in {"none", "canceled", "error"}
    BY DEF Init, Locations
  <2> QED BY <2>1, <2>2, <2>3 DEF Init, TypeOK
<1>3. EndIsSettled
  BY <1>1 DEF Init, EndIsSettled
<1> QED BY <1>1, <1>2, <1>3 DEF Init, IInv, Bounds, LifeFollowsWorker, NothingStopsUnasked,
          GateClosed, Terminal

LEMMA IInvStep == IInv /\ [Next]_vars => GoodStep
<1> SUFFICES ASSUME IInv, [Next]_vars PROVE GoodStep
  OBVIOUS
<1>1. CASE \E intent \in StopIntent : RequestStopJob(intent)
  BY <1>1, RequestStopStep
<1>2. CASE CallerStep \/ ForceStopJob \/ GraceTimer
  BY <1>2, CallerSteps, EscalationSteps
<1>3. CASE WorkerStep
  BY <1>3, QuietWorkerSteps, BeginReadStepGood, FinishStep DEF WorkerStep
<1>4. CASE DeviceReturns
  BY <1>4, ReadReturnsStep DEF DeviceReturns
<1>5. CASE Exited \/ UNCHANGED vars
  <2>1. UNCHANGED vars
    BY <1>5 DEF Exited
  <2> QED BY <2>1, LifeStays DEF vars, GoodStep, IInv, TypeOK, Bounds, LifeFollowsWorker,
            NothingStopsUnasked, GateClosed, EndIsSettled, EndFits
<1> QED BY <1>1, <1>2, <1>3, <1>4, <1>5 DEF Next

(* The variables of a job have their types on every adapter. *)
THEOREM JobTypeCorrect == Spec => []TypeOK
<1>1. IInv => TypeOK
  BY DEF IInv
<1>2. IInv /\ [Next]_vars => IInv'
  BY IInvStep DEF GoodStep
<1> QED BY <1>1, <1>2, IInvInit, PTL DEF Spec

(* No read begins after the first stop request, wherever the worker is     *)
(* between its look at the context and BeginRead (LifecycleReaderAt).      *)
THEOREM StoppedJobsReadNoMore == Spec => NoReadAfterStop
<1>1. IInv /\ [Next]_vars => IInv' /\ [stops > 0 /\ ~life.activeRead => ~life'.activeRead]_vars
  BY IInvStep DEF GoodStep, NoNewRead
<1> QED BY <1>1, IInvInit, PTL DEF Spec, NoReadAfterStop

(* A session only goes forward, and its end is final: second stop          *)
(* requests, late timers and late answers included (Lifecycle).            *)
THEOREM SessionsGoForward == Spec => LifecycleMonotonic
<1>1. IInv /\ [Next]_vars =>
        IInv' /\ [/\ Rank(life.state) <= Rank(life'.state)
                  /\ life.state \in Terminal => life'.state = life.state]_vars
  BY IInvStep DEF GoodStep, Forward
<1> QED BY <1>1, IInvInit, PTL DEF Spec, LifecycleMonotonic

(* Without a stop request no run ends as canceled, whatever the device,    *)
(* its deadlines and the files do (readRecoveryRange).                     *)
THEOREM OnlyUsersCancel == Spec => []CanceledByUser
<1>1. IInv => CanceledByUser
  BY DEF IInv, TypeOK, NothingStopsUnasked, CanceledByUser
<1>2. IInv /\ [Next]_vars => IInv'
  BY IInvStep DEF GoodStep
<1> QED BY <1>1, <1>2, IInvInit, PTL DEF Spec

(* A finished job shows an end that fits its run on every adapter, however *)
(* late its timers, stop requests and force stops come (finish, RequestStop,*)
(* ForceStop, CompleteRead).                                               *)
THEOREM EndsMatchRuns == Spec => []EndMatchesRun
<1>1. IInv => EndMatchesRun
  BY DEF IInv, EndIsSettled, EndFits, EndMatchesRun
<1>2. IInv /\ [Next]_vars => IInv'
  BY IInvStep DEF GoodStep
<1> QED BY <1>1, <1>2, IInvInit, PTL DEF Spec
=============================================================================
