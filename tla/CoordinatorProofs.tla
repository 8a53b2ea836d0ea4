------------------------- MODULE CoordinatorProofs -------------------------
(***************************************************************************)
(* Proofs about Coordinator for any set of job ids and any bounds.         *)
(***************************************************************************)
EXTENDS Coordinator, TLAPS

(* The inductive invariant of a single job. *)
JobInv == TypeOK /\ JobValid /\ PendingMatchesState /\ PausedIsCheckpointed

LEMMA IdleTyped == IdleJob \in Job
  BY DEF IdleJob, Job, JobState, None

(* The jobs the transitions are put together from. *)
LEMMA ClearPendingJob ==
  ASSUME NEW j \in Job
  PROVE  /\ ClearPending(j) \in Job
         /\ ClearPending(j).id = j.id /\ ClearPending(j).state = j.state
         /\ ClearPending(j).resume = j.resume /\ ClearPending(j).kind = None
         /\ ClearPending(j).token = 0 /\ ClearPending(j).next = j.next
  BY DEF ClearPending, Job

LEMMA MovedJob ==
  ASSUME NEW j \in Job, NEW state \in JobState, NEW resume \in Phase \cup {None}
  PROVE  /\ Moved(j, state, resume) \in Job
         /\ Moved(j, state, resume).id = j.id
         /\ Moved(j, state, resume).state = state
         /\ Moved(j, state, resume).resume = resume
         /\ Moved(j, state, resume).kind = j.kind
         /\ Moved(j, state, resume).token = j.token
         /\ Moved(j, state, resume).next = j.next
  BY DEF Moved, Job

LEMMA IssueEffectJob ==
  ASSUME NEW j \in Job, NEW kind \in EffectKind
  PROVE  /\ IssueEffect(j, kind) \in Job
         /\ IssueEffect(j, kind).id = j.id
         /\ IssueEffect(j, kind).state = j.state
         /\ IssueEffect(j, kind).resume = j.resume
         /\ IssueEffect(j, kind).kind = kind
         /\ IssueEffect(j, kind).token = j.next
         /\ IssueEffect(j, kind).next = j.next + 1
  BY DEF IssueEffect, Job

LEMMA CommitTyped ==
  ASSUME NEW j \in Job, NEW r \in Nat, TypeOK, Commit(j, r),
         j.token # 0 => j.kind # None /\ j.id # None
  PROVE  job' = j /\ job' \in Job /\ issued' \subseteq Effect
<1>1. j.token # 0 => PendingEffect(j, r) \in Effect
  BY DEF PendingEffect, Effect, Job
<1> QED BY <1>1 DEF Commit, TypeOK

(* What every step but StartJob has in common. *)
LEMMA StepInv ==
  ASSUME JobInv, NEW j \in Job, Commit(j, run), run' = run, used' = used,
         accepted' \in Effect \cup {NoEffect}, stopToken' \in Nat, saved' \in Nat,
         j.state # "idle", j.id # None,
         (j.resume # None) <=> (j.state \in {"pausing", "paused", "stopping"}),
         (j.kind # None) <=> (j.token # 0), j.token < j.next,
         j.state \in {"pausing", "stopping"} => j.kind = "checkpoint" /\ j.token >= stopToken',
         j.state \in {"paused"} \cup Finished => j.kind = None,
         j.state \in Phase => j.kind \in {"dispatch_recovery", "checkpoint"},
         j.state = "paused" => saved' >= stopToken'
  PROVE  JobInv'
<1>1. job' = j /\ issued' \subseteq Effect
  BY CommitTyped DEF JobInv, TypeOK
<1>2. TypeOK'
  BY <1>1 DEF JobInv, TypeOK
<1>3. JobValid'
  BY <1>1 DEF JobValid
<1>4. PendingMatchesState' /\ PausedIsCheckpointed'
  BY <1>1 DEF PendingMatchesState, PausedIsCheckpointed
<1> QED BY <1>2, <1>3, <1>4 DEF JobInv

LEMMA States ==
  /\ Phase \subseteq JobState /\ Finished \subseteq JobState /\ Active \subseteq JobState
  /\ {"identifying", "preparing", "pausing", "paused", "stopping"} \subseteq JobState
  /\ \A s \in Phase : s \notin {"idle", "identifying", "preparing", "pausing", "paused",
                                "stopping", "none"} \cup Finished
  /\ \A s \in Finished : s \notin {"idle", "pausing", "paused", "stopping"} \cup Phase
  /\ {"probe_media", "bootstrap_recovery", "dispatch_recovery", "checkpoint"} = EffectKind
  /\ None \notin EffectKind /\ None \notin Phase
  BY DEF Phase, Finished, Active, JobState, EffectKind, None

(* A job that is not idle has an id, and its next token is at least 1. *)
LEMMA NotIdle ==
  ASSUME JobInv, job.state # "idle"
  PROVE  job \in Job /\ job.id # None /\ job.next \in Nat \ {0} /\ job.token < job.next
  BY DEF JobInv, TypeOK, JobValid, Job

(* The two ways a transition ends: with effect kind pending, or with none. *)
LEMMA IssuedJob ==
  ASSUME JobInv, job.state # "idle", NEW s \in JobState, NEW r \in Phase \cup {None},
         NEW kind \in EffectKind, NEW j,
         j = IssueEffect(Moved(ClearPending(job), s, r), kind)
  PROVE  /\ j \in Job /\ j.id # None /\ j.state = s /\ j.resume = r /\ j.kind = kind
         /\ j.token = job.next /\ j.next = job.next + 1 /\ j.token # 0 /\ j.token < j.next
         /\ j.kind # None /\ job.next \in Nat
<1> DEFINE m == Moved(ClearPending(job), s, r)
<1>1. job \in Job /\ job.id # None /\ job.next \in Nat \ {0}
  BY NotIdle
<1>2. m \in Job /\ m.id = job.id /\ m.state = s /\ m.resume = r /\ m.next = job.next
  BY <1>1, ClearPendingJob, MovedJob
<1> HIDE DEF m
<1>3. /\ j \in Job /\ j.id = m.id /\ j.state = m.state /\ j.resume = m.resume
      /\ j.kind = kind /\ j.token = m.next /\ j.next = m.next + 1
  BY <1>2, IssueEffectJob DEF m
<1> QED BY <1>1, <1>2, <1>3, States

LEMMA SettledJob ==
  ASSUME JobInv, job.state # "idle", NEW s \in JobState, NEW r \in Phase \cup {None},
         NEW j, j = Moved(ClearPending(job), s, r)
  PROVE  /\ j \in Job /\ j.id # None /\ j.state = s /\ j.resume = r /\ j.kind = None
         /\ j.token = 0 /\ j.token < j.next /\ j.next = job.next
<1>1. job \in Job /\ job.id # None /\ job.next \in Nat \ {0}
  BY NotIdle
<1> QED BY <1>1, ClearPendingJob, MovedJob

(* A job that fails keeps the invariant, whatever its state was. *)
LEMMA FailedInv ==
  ASSUME JobInv, job.state # "idle", Commit(FailedJob(job), run),
         run' = run, used' = used, accepted' \in Effect \cup {NoEffect},
         stopToken' = stopToken, saved' = saved
  PROVE  JobInv'
<1> DEFINE j == FailedJob(job)
<1>1. j \in Job /\ j.id # None /\ j.state = "failed" /\ j.resume = None /\ j.kind = None
      /\ j.token = 0 /\ j.token < j.next
  BY SettledJob DEF FailedJob, JobState, Finished
<1> HIDE DEF j
<1>2. stopToken' \in Nat /\ saved' \in Nat /\ Commit(j, run)
  BY DEF JobInv, TypeOK, j
<1>3. j.state \in Finished /\ j.state \notin Phase
  BY <1>1 DEF Finished, Phase
<1> QED BY <1>1, <1>2, <1>3, StepInv

LEMMA JobInvStep == JobInv /\ [Next]_vars => JobInv'
<1> SUFFICES ASSUME JobInv, [Next]_vars PROVE JobInv'
  OBVIOUS
<1>a. TypeOK
  BY DEF JobInv
<1>b. ASSUME NEW e \in issued PROVE e \in Effect \cup {NoEffect}
  BY <1>a DEF TypeOK
<1>1. ASSUME NEW id \in JobIds, StartJob(id) PROVE JobInv'
  <2> DEFINE j0 == [IdleJob EXCEPT !.id = id, !.state = "identifying", !.next = 1]
             j == IssueEffect(j0, "probe_media")
  <2>1. j0 \in Job /\ j0.id = id /\ j0.state = "identifying" /\ j0.resume = None /\ j0.next = 1
    BY DEF IdleJob, Job, JobState, None
  <2> HIDE DEF j0
  <2>2. j \in Job /\ j.id = id /\ j.state = "identifying" /\ j.resume = None
        /\ j.kind = "probe_media" /\ j.token = 1 /\ j.next = 2
    BY <2>1, IssueEffectJob, States
  <2>3. Commit(j, run + 1) /\ run' = run + 1 /\ used' = used \cup {id} /\ accepted' = accepted
        /\ stopToken' = 0 /\ saved' = 0
    BY <1>1 DEF StartJob, j0
  <2> HIDE DEF j
  <2>4. id # None
    BY CoordinatorAssumption DEF None
  <2>5. job' = j /\ issued' \subseteq Effect
    BY <1>a, <2>2, <2>3, <2>4, CommitTyped, States DEF TypeOK
  <2>6. TypeOK'
    BY <1>a, <2>2, <2>3, <2>5 DEF TypeOK
  <2>7. JobValid'
    BY <2>2, <2>4, <2>5, States DEF JobValid
  <2>8. PendingMatchesState' /\ PausedIsCheckpointed'
    BY <2>2, <2>5 DEF PendingMatchesState, PausedIsCheckpointed, Phase, Finished
  <2> QED BY <2>6, <2>7, <2>8 DEF JobInv
<1>2. CASE PauseJob
  <2> DEFINE j == IssueEffect(Moved(ClearPending(job), "pausing", job.state), "checkpoint")
  <2>1. /\ job.state \in Phase /\ stopToken' = job.next /\ Commit(j, run)
        /\ run' = run /\ used' = used /\ accepted' = accepted /\ saved' = saved
    BY <1>2 DEF PauseJob
  <2>2. job.state # "idle"
    BY <2>1, States
  <2>3. /\ j \in Job /\ j.id # None /\ j.state = "pausing" /\ j.resume = job.state
        /\ j.kind = "checkpoint" /\ j.token = job.next /\ j.token # 0 /\ j.token < j.next
        /\ j.kind # None /\ job.next \in Nat
    BY <2>1, <2>2, IssuedJob, States
  <2> HIDE DEF j
  <2> QED BY <1>a, <2>1, <2>2, <2>3, StepInv, States DEF TypeOK
<1>3. CASE ResumeJob
  <2> DEFINE j == IssueEffect(Moved(ClearPending(job), job.resume, None), "dispatch_recovery")
  <2>1. /\ job.state = "paused" /\ Commit(j, run) /\ run' = run /\ used' = used
        /\ accepted' = accepted /\ saved' = saved /\ stopToken' = stopToken
    BY <1>3 DEF ResumeJob, IssueEffect, Moved, ClearPending
  <2>2. job.resume \in Phase
    BY <2>1 DEF JobInv, TypeOK, JobValid, Job
  <2>3. /\ j \in Job /\ j.id # None /\ j.state = job.resume /\ j.resume = None
        /\ j.kind = "dispatch_recovery" /\ j.token # 0 /\ j.token < j.next /\ j.kind # None
    BY <2>1, <2>2, IssuedJob, States
  <2> HIDE DEF j
  <2> QED BY <1>a, <2>1, <2>2, <2>3, StepInv, States DEF TypeOK
<1>4. CASE CancelJob
  <2>0. run' = run /\ used' = used /\ accepted' = accepted /\ saved' = saved
    BY <1>4 DEF CancelJob
  <2>1. ASSUME job.state = "paused", UNCHANGED stopToken,
               Commit(Moved(ClearPending(job), "incomplete", None), run)
        PROVE  JobInv'
    <3> DEFINE j == Moved(ClearPending(job), "incomplete", None)
    <3>1. /\ j \in Job /\ j.id # None /\ j.state = "incomplete" /\ j.resume = None
          /\ j.kind = None /\ j.token = 0 /\ j.token < j.next /\ Commit(j, run)
      BY <2>1, SettledJob DEF JobState, Finished
    <3>2. j.state \in Finished /\ j.state \notin Phase
      BY <3>1 DEF Finished, Phase
    <3> HIDE DEF j
    <3> QED BY <1>a, <2>0, <2>1, <3>1, <3>2, StepInv DEF TypeOK
  <2>2. ASSUME job.state = "pausing", UNCHANGED stopToken,
               Commit(Moved(job, "stopping", job.resume), run)
        PROVE  JobInv'
    <3> DEFINE j == Moved(job, "stopping", job.resume)
    <3>1. /\ job \in Job /\ job.id # None /\ job.next \in Nat \ {0} /\ job.token < job.next
          /\ job.resume \in Phase /\ job.resume # None
      BY <2>2, NotIdle DEF JobInv, TypeOK, JobValid, Job
    <3>2. job.kind = "checkpoint" /\ job.token >= stopToken /\ job.kind # None /\ job.token # 0
      BY <2>2, States DEF JobInv, JobValid, PendingMatchesState
    <3>3. /\ j \in Job /\ j.id # None /\ j.state = "stopping" /\ j.resume = job.resume
          /\ j.kind = job.kind /\ j.token = job.token /\ j.next = job.next
      BY <3>1, MovedJob DEF JobState
    <3>4. Commit(j, run)
      BY <2>2
    <3> HIDE DEF j
    <3> QED BY <1>a, <2>0, <2>2, <3>1, <3>2, <3>3, <3>4, StepInv, States DEF TypeOK
  <2>3. ASSUME job.state \in Phase, stopToken' = job.next,
               Commit(IssueEffect(Moved(ClearPending(job), "stopping", job.state),
                                  "checkpoint"), run)
        PROVE  JobInv'
    <3> DEFINE j == IssueEffect(Moved(ClearPending(job), "stopping", job.state), "checkpoint")
    <3>1. job.state # "idle" /\ Commit(j, run)
      BY <2>3, States
    <3>2. /\ j \in Job /\ j.id # None /\ j.state = "stopping" /\ j.resume = job.state
          /\ j.kind = "checkpoint" /\ j.token = job.next /\ j.token # 0 /\ j.token < j.next
          /\ j.kind # None /\ job.next \in Nat
      BY <2>3, <3>1, IssuedJob, States
    <3> HIDE DEF j
    <3> QED BY <1>a, <2>0, <2>3, <3>1, <3>2, StepInv, States DEF TypeOK
  <2> QED BY <1>4, <2>1, <2>2, <2>3 DEF CancelJob
<1>5. ASSUME NEW e \in issued, NEW err \in BOOLEAN, ProbeCompleted(e, err) PROVE JobInv'
  <2>1. /\ job.state = "identifying" /\ run' = run /\ used' = used /\ accepted' = e
        /\ saved' = saved /\ stopToken' = stopToken /\ accepted' \in Effect \cup {NoEffect}
    BY <1>5, <1>b DEF ProbeCompleted, AcceptPending
  <2>2. CASE err
    BY <1>5, <2>1, <2>2, FailedInv DEF ProbeCompleted
  <2>3. CASE ~err
    <3> DEFINE j == IssueEffect(Moved(ClearPending(job), "preparing", None),
                                "bootstrap_recovery")
    <3>1. Commit(j, run)
      BY <1>5, <2>3 DEF ProbeCompleted
    <3>2. /\ j \in Job /\ j.id # None /\ j.state = "preparing" /\ j.resume = None
          /\ j.token # 0 /\ j.token < j.next /\ j.kind # None
      BY <2>1, IssuedJob, States
    <3> HIDE DEF j
    <3> QED BY <1>a, <2>1, <3>1, <3>2, StepInv DEF TypeOK, Phase, Finished
  <2> QED BY <2>2, <2>3
<1>6. ASSUME NEW e \in issued, NEW err \in BOOLEAN, WriteResultReceived(e, err) PROVE JobInv'
  <2>1. /\ job.state = "preparing" /\ run' = run /\ used' = used /\ accepted' = e
        /\ saved' = saved /\ stopToken' = stopToken /\ accepted' \in Effect \cup {NoEffect}
    BY <1>6, <1>b DEF WriteResultReceived, AcceptPending
  <2>2. CASE err
    BY <1>6, <2>1, <2>2, FailedInv DEF WriteResultReceived
  <2>3. CASE ~err
    <3> DEFINE j == IssueEffect(Moved(ClearPending(job), "fast_pass", None),
                                "dispatch_recovery")
    <3>1. Commit(j, run)
      BY <1>6, <2>3 DEF WriteResultReceived
    <3>2. /\ j \in Job /\ j.id # None /\ j.state = "fast_pass" /\ j.resume = None
          /\ j.kind = "dispatch_recovery" /\ j.token # 0 /\ j.token < j.next /\ j.kind # None
      BY <2>1, IssuedJob, States DEF Phase
    <3> HIDE DEF j
    <3> QED BY <1>a, <2>1, <3>1, <3>2, StepInv, States DEF TypeOK, Finished
  <2> QED BY <2>2, <2>3
<1>7. ASSUME NEW e \in issued, NEW err \in BOOLEAN, NEW next \in JobState,
             WorkerResultReceived(e, err, next)
      PROVE  JobInv'
  <2>1. /\ job.state \in Phase /\ run' = run /\ used' = used /\ accepted' = e
        /\ saved' = saved /\ stopToken' = stopToken /\ accepted' \in Effect \cup {NoEffect}
    BY <1>7, <1>b DEF WorkerResultReceived, AcceptPending
  <2>a. job.state # "idle"
    BY <2>1, States
  <2>2. CASE Commit(FailedJob(job), run)
    BY <2>1, <2>a, <2>2, FailedInv
  <2>3. ASSUME next \in {"completed", "incomplete"},
               Commit(Moved(ClearPending(job), next, None), run)
        PROVE  JobInv'
    <3> DEFINE j == Moved(ClearPending(job), next, None)
    <3>1. /\ j \in Job /\ j.id # None /\ j.state = next /\ j.resume = None
          /\ j.kind = None /\ j.token = 0 /\ j.token < j.next /\ Commit(j, run)
      BY <2>3, <2>a, SettledJob
    <3>2. j.state \in Finished
      BY <2>3, <3>1 DEF Finished
    <3> HIDE DEF j
    <3> QED BY <1>a, <2>1, <3>1, <3>2, StepInv, States DEF TypeOK
  <2>4. ASSUME next \in Phase,
               Commit(IssueEffect(Moved(ClearPending(job), next, None),
                                  "dispatch_recovery"), run)
        PROVE  JobInv'
    <3> DEFINE j == IssueEffect(Moved(ClearPending(job), next, None), "dispatch_recovery")
    <3>1. /\ j \in Job /\ j.id # None /\ j.state = next /\ j.resume = None /\ Commit(j, run)
          /\ j.kind = "dispatch_recovery" /\ j.token # 0 /\ j.token < j.next /\ j.kind # None
      BY <2>4, <2>a, IssuedJob, States
    <3> HIDE DEF j
    <3> QED BY <1>a, <2>1, <2>4, <3>1, StepInv, States DEF TypeOK
  <2> QED BY <1>7, <2>1, <2>2, <2>3, <2>4 DEF WorkerResultReceived, TransitionAllowed
<1>8. ASSUME NEW e \in issued, JobCheckpointed(e) PROVE JobInv'
  <2>1. /\ job.state \in {"pausing", "stopping"} /\ run' = run /\ used' = used
        /\ accepted' \in Effect \cup {NoEffect} /\ stopToken' = stopToken
        /\ saved' = job.token /\ saved' >= stopToken' /\ saved' \in Nat /\ stopToken' \in Nat
    BY <1>8, <1>b DEF JobCheckpointed, AcceptPending, JobInv, PendingMatchesState, TypeOK, Job
  <2>2. CASE job.state = "pausing"
    <3> DEFINE j == Moved(ClearPending(job), "paused", job.resume)
    <3>1. job.resume \in Phase
      BY <2>2 DEF JobInv, TypeOK, JobValid, Job
    <3>2. /\ j \in Job /\ j.id # None /\ j.state = "paused" /\ j.resume = job.resume
          /\ j.kind = None /\ j.token = 0 /\ j.token < j.next /\ Commit(j, run)
      BY <1>8, <2>2, <3>1, SettledJob, States DEF JobCheckpointed
    <3> HIDE DEF j
    <3> QED BY <2>1, <3>1, <3>2, StepInv, States
  <2>3. CASE job.state = "stopping"
    <3> DEFINE j == Moved(ClearPending(job), "incomplete", None)
    <3>1. /\ j \in Job /\ j.id # None /\ j.state = "incomplete" /\ j.resume = None
          /\ j.kind = None /\ j.token = 0 /\ j.token < j.next /\ Commit(j, run)
      BY <1>8, <2>3, SettledJob DEF JobCheckpointed, JobState, Finished
    <3>2. j.state \in Finished
      BY <3>1 DEF Finished
    <3> HIDE DEF j
    <3> QED BY <2>1, <3>1, <3>2, StepInv, States
  <2> QED BY <2>1, <2>2, <2>3
<1>9. ASSUME NEW e \in issued, JobFailed(e) PROVE JobInv'
  BY <1>9, <1>b, FailedInv DEF JobFailed, AcceptAnyPending, Active
<1>10. ASSUME NEW e \in issued, WorkerUnresponsiveDetected(e) PROVE JobInv'
  <2> DEFINE j == IssueEffect(Moved(ClearPending(job), job.state, job.resume), "checkpoint")
  <2>1. /\ job.state \in Active /\ job.kind = "dispatch_recovery" /\ Commit(j, run)
        /\ run' = run /\ used' = used /\ accepted' \in Effect \cup {NoEffect}
        /\ saved' = saved /\ stopToken' = stopToken
    BY <1>10, <1>b DEF WorkerUnresponsiveDetected, AcceptPending, IssueEffect, Moved, ClearPending
  <2>2. job.state # "idle" /\ job.state \notin {"pausing", "stopping", "paused"} \cup Finished
    BY <2>1, States DEF Active, JobInv, PendingMatchesState
  <2>3. job.state \in JobState /\ job.resume = None
    BY <2>2 DEF JobInv, TypeOK, JobValid, Job
  <2>4. /\ j \in Job /\ j.id # None /\ j.state = job.state /\ j.resume = None
        /\ j.kind = "checkpoint" /\ j.token # 0 /\ j.token < j.next /\ j.kind # None
    BY <2>2, <2>3, IssuedJob, States
  <2> HIDE DEF j
  <2> QED BY <1>a, <2>1, <2>2, <2>4, StepInv DEF TypeOK
<1>11. CASE UNCHANGED vars
  BY <1>11 DEF vars, JobInv, TypeOK, JobValid, PendingMatchesState, PausedIsCheckpointed
<1> QED
  BY <1>1, <1>2, <1>3, <1>4, <1>5, <1>6, <1>7, <1>8, <1>9, <1>10, <1>11 DEF Next, Answer

LEMMA JobInvInit == Init => JobInv
  BY CoordinatorAssumption, IdleTyped
  DEF Init, JobInv, TypeOK, JobValid, PendingMatchesState, PausedIsCheckpointed, IdleJob,
      Phase, Finished, NoEffect, None

(* The whole invariant holds for any job ids and any bounds, also when a   *)
(* job id is used again.                                                   *)
THEOREM JobInvariant == Spec => []JobInv
<1> QED BY JobInvInit, JobInvStep, PTL DEF Spec

(* Job.Validate never turns away a transition that Handle calculated, so   *)
(* an accepted event is always carried out.                                *)
THEOREM EveryJobValid == Spec => []JobValid
<1>1. JobInv => JobValid
  BY DEF JobInv
<1> QED BY <1>1, JobInvariant, PTL

(* A stopping job has its checkpoint pending; no other state waits for one *)
(* it does not need.                                                       *)
THEOREM StopHasCheckpoint == Spec => []PendingMatchesState
<1>1. JobInv => PendingMatchesState
  BY DEF JobInv
<1> QED BY <1>1, JobInvariant, PTL

(* JobPaused is reached only through a checkpoint issued for this pause. *)
THEOREM PauseIsDurable == Spec => []PausedIsCheckpointed
<1>1. JobInv => PausedIsCheckpointed
  BY DEF JobInv
<1> QED BY <1>1, JobInvariant, PTL

----------------------------------------------------------------------------
(* The answers that can still arrive.  An effect of the current job is of  *)
(* the current run and older than the next token, and the one that bears   *)
(* the pending token is the pending one.  This needs ids that are not used *)
(* again.                                                                  *)
IssuedInv ==
    /\ job.id # None => job.id \in used
    /\ \A e \in issued :
          /\ e.id \in used
          /\ e.id = job.id =>
               /\ e.run = run
               /\ e.token # 0 /\ e.token < job.next
               /\ e.token = job.token => e.kind = job.kind

(* How a step that is not StartJob moves the tokens. *)
TokensMove(j) ==
    /\ j.id = job.id
    /\ \/ j.token = 0 /\ j.next = job.next
       \/ j.token = job.next /\ j.next = job.next + 1
       \/ j.token = job.token /\ j.kind = job.kind /\ j.next = job.next

LEMMA TokensMoveInv ==
  ASSUME JobInv, IssuedInv, job.state # "idle", NEW j, TokensMove(j), Commit(j, run),
         run' = run, used' = used
  PROVE  IssuedInv'
<1>1. job' = j /\ job.id # None /\ job.next \in Nat /\ job.token \in Nat /\ job.next # 0
      /\ job.token < job.next /\ job.id \in used
  BY NotIdle DEF Commit, Job, IssuedInv
<1>2. ASSUME NEW e \in issued'
      PROVE  /\ e.id \in used
             /\ e.id = j.id =>
                  /\ e.run = run
                  /\ e.token # 0 /\ e.token < j.next
                  /\ e.token = j.token => e.kind = j.kind
  <2>1. CASE e \in issued
    <3>1. e \in Effect
      BY <2>1 DEF JobInv, TypeOK
    <3>2. e.token \in Nat
      BY <3>1 DEF Effect
    <3> QED BY <1>1, <2>1, <3>2 DEF IssuedInv, TokensMove
  <2>2. CASE e = PendingEffect(j, run) /\ j.token # 0
    BY <1>1, <2>2 DEF PendingEffect, TokensMove
  <2> QED BY <2>1, <2>2 DEF Commit
<1> QED BY <1>1, <1>2 DEF IssuedInv, TokensMove

LEMMA Settles ==
  ASSUME NEW s, NEW r
  PROVE  TokensMove(Moved(ClearPending(job), s, r))
  BY DEF TokensMove, Moved, ClearPending

LEMMA Issues ==
  ASSUME NEW s, NEW r, NEW kind
  PROVE  /\ TokensMove(IssueEffect(Moved(ClearPending(job), s, r), kind))
         /\ TokensMove(IssueEffect(Moved(job, s, r), kind))
         /\ TokensMove(IssueEffect(ClearPending(job), kind))
  BY DEF TokensMove, Moved, ClearPending, IssueEffect

LEMMA Keeps ==
  ASSUME NEW s, NEW r
  PROVE  TokensMove(Moved(job, s, r))
  BY DEF TokensMove, Moved

(* Every step but StartJob commits a job that TokensMove describes. *)
LEMMA StepMoves ==
  ASSUME JobInv, Next, ~ \E id \in JobIds : StartJob(id)
  PROVE  /\ job.state # "idle" /\ run' = run /\ used' = used
         /\ \E j : TokensMove(j) /\ Commit(j, run)
<1>1. CASE PauseJob
  BY <1>1, Issues, States DEF PauseJob
<1>2. CASE ResumeJob
  BY <1>2, Issues DEF ResumeJob
<1>3. CASE CancelJob
  BY <1>3, Issues, Keeps, Settles, States DEF CancelJob
<1>4. ASSUME NEW e \in issued, NEW err \in BOOLEAN, ProbeCompleted(e, err)
      PROVE  /\ job.state # "idle" /\ run' = run /\ used' = used
             /\ \E j : TokensMove(j) /\ Commit(j, run)
  BY <1>4, Issues, Settles DEF ProbeCompleted, AcceptPending, FailedJob
<1>5. ASSUME NEW e \in issued, NEW err \in BOOLEAN, WriteResultReceived(e, err)
      PROVE  /\ job.state # "idle" /\ run' = run /\ used' = used
             /\ \E j : TokensMove(j) /\ Commit(j, run)
  BY <1>5, Issues, Settles DEF WriteResultReceived, AcceptPending, FailedJob
<1>6. ASSUME NEW e \in issued, NEW err \in BOOLEAN, NEW next \in JobState,
             WorkerResultReceived(e, err, next)
      PROVE  /\ job.state # "idle" /\ run' = run /\ used' = used
             /\ \E j : TokensMove(j) /\ Commit(j, run)
  BY <1>6, Issues, Settles, States DEF WorkerResultReceived, AcceptPending, FailedJob
<1>7. ASSUME NEW e \in issued, JobCheckpointed(e)
      PROVE  /\ job.state # "idle" /\ run' = run /\ used' = used
             /\ \E j : TokensMove(j) /\ Commit(j, run)
  BY <1>7, Settles DEF JobCheckpointed, AcceptPending
<1>8. ASSUME NEW e \in issued, JobFailed(e)
      PROVE  /\ job.state # "idle" /\ run' = run /\ used' = used
             /\ \E j : TokensMove(j) /\ Commit(j, run)
  BY <1>8, Settles DEF JobFailed, AcceptAnyPending, FailedJob, Active
<1>9. ASSUME NEW e \in issued, WorkerUnresponsiveDetected(e)
      PROVE  /\ job.state # "idle" /\ run' = run /\ used' = used
             /\ \E j : TokensMove(j) /\ Commit(j, run)
  BY <1>9, Issues DEF WorkerUnresponsiveDetected, AcceptPending, Active
<1> QED BY <1>1, <1>2, <1>3, <1>4, <1>5, <1>6, <1>7, <1>8, <1>9 DEF Next, Answer

LEMMA IssuedInvStep ==
  ASSUME ReuseIds = FALSE, JobInv, IssuedInv, [Next]_vars
  PROVE  IssuedInv'
<1>1. ASSUME NEW id \in JobIds, StartJob(id) PROVE IssuedInv'
  <2>1. /\ job'.id = id /\ job'.next = 2 /\ job'.token = 1 /\ job'.kind = "probe_media"
        /\ issued' = issued \cup {[run |-> run + 1, id |-> id, kind |-> "probe_media",
                                   token |-> 1]}
        /\ run' = run + 1 /\ used' = used \cup {id} /\ id \notin used
    BY <1>1 DEF StartJob, Commit, IssueEffect, IdleJob, PendingEffect
  <2>2. \A e \in issued : e.id # id /\ e.id \in used'
    BY <2>1 DEF IssuedInv
  <2>3. ASSUME NEW e \in issued'
        PROVE  /\ e.id \in used'
               /\ e.id = job'.id =>
                    /\ e.run = run'
                    /\ e.token # 0 /\ e.token < job'.next
                    /\ e.token = job'.token => e.kind = job'.kind
    BY <2>1, <2>2
  <2> QED BY <2>1, <2>3 DEF IssuedInv
<1>2. CASE Next /\ ~ \E id \in JobIds : StartJob(id)
  BY <1>2, StepMoves, TokensMoveInv
<1>3. CASE UNCHANGED vars
  BY <1>3 DEF vars, IssuedInv
<1> QED BY <1>1, <1>2, <1>3

(* The effect an accepted answer belongs to. *)
LEMMA AcceptedIsPending ==
  ASSUME JobInv, IssuedInv, [Next]_vars, accepted' # accepted
  PROVE  accepted' = PendingEffect(job, run)
<1>1. PICK e \in issued : /\ accepted' = e /\ job.id = e.id /\ job.token = e.token
                         /\ job.kind # None
  BY States DEF Next, Answer, vars, StartJob, PauseJob, ResumeJob, CancelJob, ProbeCompleted,
     WriteResultReceived, WorkerResultReceived, JobCheckpointed, JobFailed,
     WorkerUnresponsiveDetected, AcceptPending, AcceptAnyPending
<1>2. e.run = run /\ e.kind = job.kind
  BY <1>1 DEF IssuedInv
<1>3. e \in Effect
  BY DEF JobInv, TypeOK
<1>4. e = [run |-> e.run, id |-> e.id, kind |-> e.kind, token |-> e.token]
  BY <1>3 DEF Effect
<1> QED BY <1>1, <1>2, <1>4 DEF PendingEffect

(* acceptPending and acceptAnyPending compare the job id and the token     *)
(* only.  As long as no id is used again that is enough: whatever order    *)
(* answers arrive in, and however often, the one that is accepted answers  *)
(* the effect that is pending.                                             *)
THEOREM StaleAnswersAreIgnored ==
  ASSUME ReuseIds = FALSE
  PROVE  Spec => StaleAnswersIgnored
<1>1. Init => IssuedInv
  BY DEF Init, IssuedInv, IdleJob
<1>2. JobInv /\ IssuedInv /\ [Next]_vars => IssuedInv'
  BY IssuedInvStep
<1>3. JobInv /\ IssuedInv /\ [Next]_vars
        => [accepted' # accepted => accepted' = PendingEffect(job, run)]_vars
  BY AcceptedIsPending
<1> QED BY <1>1, <1>2, <1>3, JobInvariant, PTL DEF Spec, StaleAnswersIgnored

----------------------------------------------------------------------------
(***************************************************************************)
(* The order of the passes.  A transition is built from the operators      *)
(* below; what they make of the state and of the phase to resume:          *)
(***************************************************************************)
LEMMA PhaseFields ==
  /\ \A j, s, r : Moved(j, s, r).state = s /\ Moved(j, s, r).resume = r
  /\ \A j, kind : /\ IssueEffect(j, kind).state = j.state
                  /\ IssueEffect(j, kind).resume = j.resume
  /\ \A j : ClearPending(j).state = j.state /\ ClearPending(j).resume = j.resume
  /\ \A j : FailedJob(j).state = "failed" /\ FailedJob(j).resume = None
  BY DEF Moved, IssueEffect, ClearPending, FailedJob

(* In a phase nothing waits to be resumed; otherwise the resume phase, if  *)
(* there is one, is the current one.                                       *)
LEMMA CurrentPhases ==
  ASSUME JobInv
  PROVE  /\ job.state \in Phase => job.resume = None /\ CurrentPhase = job.state
         /\ job.state \in {"pausing", "paused", "stopping"} =>
              job.resume \in Phase /\ CurrentPhase = job.resume
         /\ job.state \in {"identifying", "preparing"} =>
              job.resume = None /\ CurrentPhase = job.state
<1>1. job.resume \in Phase \cup {None}
  BY DEF JobInv, TypeOK, Job
<1>2. job.state # "idle" =>
        ((job.resume # None) <=> (job.state \in {"pausing", "paused", "stopping"}))
  BY DEF JobInv, JobValid
<1>3. job.state \in Phase \cup {"identifying", "preparing"} =>
        job.state \notin {"idle", "pausing", "paused", "stopping"}
  BY DEF Phase
<1> QED BY <1>1, <1>2, <1>3 DEF CurrentPhase

LEMMA PhaseStep ==
  ASSUME JobInv, [Next]_vars, run' = run, CurrentPhase \in Phase, CurrentPhase' \in Phase
  PROVE  PhaseRank(CurrentPhase) <= PhaseRank(CurrentPhase')
<1> DEFINE Goal == PhaseRank(CurrentPhase) <= PhaseRank(CurrentPhase')
<1>a. \A s : PhaseRank(s) <= PhaseRank(s)
  BY DEF PhaseRank
<1>b. ASSUME NEW j, NEW r, Commit(j, r)
      PROVE  CurrentPhase' = IF j.resume # None THEN j.resume ELSE j.state
  BY <1>b DEF Commit, CurrentPhase
<1>c. \A s \in {"identifying", "preparing", "failed", "incomplete", "completed"} : s \notin Phase
  BY DEF Phase
<1>1. ASSUME NEW id \in JobIds, StartJob(id) PROVE Goal
  <2>1. run' = run + 1 /\ run \in Nat
    BY <1>1 DEF StartJob, JobInv, TypeOK
  <2> QED BY <2>1
<1>2. CASE PauseJob
  <2>1. CurrentPhase' = job.state
    BY <1>2, <1>b, PhaseFields, States DEF PauseJob
  <2>2. CurrentPhase = job.state
    BY <1>2, CurrentPhases DEF PauseJob
  <2> QED BY <1>a, <2>1, <2>2
<1>3. CASE ResumeJob
  <2>1. job.resume \in Phase /\ CurrentPhase = job.resume
    BY <1>3, CurrentPhases DEF ResumeJob
  <2>2. CurrentPhase' = job.resume
    BY <1>3, <1>b, PhaseFields DEF ResumeJob
  <2> QED BY <1>a, <2>1, <2>2
<1>4. CASE CancelJob
  <2>1. CASE job.state = "paused" /\ Commit(Moved(ClearPending(job), "incomplete", None), run)
    <3>1. CurrentPhase' = "incomplete"
      BY <2>1, <1>b, PhaseFields
    <3> QED BY <1>c, <3>1
  <2>2. CASE job.state = "pausing" /\ Commit(Moved(job, "stopping", job.resume), run)
    <3>1. job.resume \in Phase /\ job.resume # None /\ CurrentPhase = job.resume
      BY <2>2, CurrentPhases, States
    <3>2. CurrentPhase' = job.resume
      BY <2>2, <3>1, <1>b, PhaseFields
    <3> QED BY <1>a, <3>1, <3>2
  <2>3. CASE /\ job.state \in Phase
             /\ Commit(IssueEffect(Moved(ClearPending(job), "stopping", job.state),
                                   "checkpoint"), run)
    <3>1. CurrentPhase' = job.state
      BY <2>3, <1>b, PhaseFields, States
    <3>2. CurrentPhase = job.state
      BY <2>3, CurrentPhases
    <3> QED BY <1>a, <3>1, <3>2
  <2> QED BY <1>4, <2>1, <2>2, <2>3 DEF CancelJob
<1>5. ASSUME Commit(FailedJob(job), run) PROVE Goal
  <2>1. CurrentPhase' = "failed"
    BY <1>5, <1>b, PhaseFields
  <2> QED BY <1>c, <2>1
<1>6. ASSUME NEW e, NEW err,
             ProbeCompleted(e, err) \/ WriteResultReceived(e, err) PROVE Goal
  <2>1. job.state \in {"identifying", "preparing"}
    BY <1>6 DEF ProbeCompleted, WriteResultReceived, AcceptPending
  <2>2. CurrentPhase = job.state
    BY <2>1, CurrentPhases
  <2> QED BY <1>c, <2>1, <2>2
<1>7. ASSUME NEW e, NEW err, NEW next \in JobState, WorkerResultReceived(e, err, next)
      PROVE  Goal
  <2>1. job.state \in Phase /\ CurrentPhase = job.state
    BY <1>7, CurrentPhases DEF WorkerResultReceived, AcceptPending
  <2>2. CASE Commit(FailedJob(job), run)
    BY <1>5, <2>2
  <2>3. CASE /\ TransitionAllowed(job.state, next)
             /\ \/ Commit(Moved(ClearPending(job), next, None), run)
                \/ Commit(IssueEffect(Moved(ClearPending(job), next, None),
                                      "dispatch_recovery"), run)
    <3>1. CurrentPhase' = next
      BY <2>3, <1>b, PhaseFields
    <3>2. next \in Phase
      BY <3>1
    <3>3. next \notin {"completed", "incomplete"}
      BY <1>c, <3>2
    <3>4. PhaseRank(job.state) <= PhaseRank(next)
      BY <2>3, <3>3 DEF TransitionAllowed
    <3> QED BY <2>1, <3>1, <3>4
  <2> QED BY <1>7, <2>2, <2>3 DEF WorkerResultReceived
<1>8. ASSUME NEW e, JobCheckpointed(e) PROVE Goal
  <2>1. job.state \in {"pausing", "stopping"}
    BY <1>8 DEF JobCheckpointed, AcceptPending
  <2>2. job.resume \in Phase /\ job.resume # None /\ CurrentPhase = job.resume
    BY <2>1, CurrentPhases, States
  <2>3. CASE Commit(Moved(ClearPending(job), "paused", job.resume), run)
    <3>1. CurrentPhase' = job.resume
      BY <2>2, <2>3, <1>b, PhaseFields
    <3> QED BY <1>a, <2>2, <3>1
  <2>4. CASE Commit(Moved(ClearPending(job), "incomplete", None), run)
    <3>1. CurrentPhase' = "incomplete"
      BY <2>4, <1>b, PhaseFields
    <3> QED BY <1>c, <3>1
  <2> QED BY <1>8, <2>3, <2>4 DEF JobCheckpointed
<1>9. ASSUME NEW e, JobFailed(e) PROVE Goal
  BY <1>5, <1>9 DEF JobFailed
<1>10. ASSUME NEW e, WorkerUnresponsiveDetected(e) PROVE Goal
  <2>1. CurrentPhase' = CurrentPhase
    BY <1>10, <1>b, PhaseFields DEF WorkerUnresponsiveDetected, CurrentPhase
  <2> QED BY <1>a, <2>1
<1>11. CASE UNCHANGED vars
  <2>1. CurrentPhase' = CurrentPhase
    BY <1>11 DEF vars, CurrentPhase
  <2> QED BY <1>a, <2>1
<1> QED
  BY <1>1, <1>2, <1>3, <1>4, <1>6, <1>7, <1>8, <1>9, <1>10, <1>11 DEF Next, Answer

(* Whatever answers arrive, late ones of an earlier run included, and over *)
(* any number of pauses, cancels and resumes, a run of a job never goes    *)
(* back to an earlier pass.                                                *)
THEOREM PassesNeverGoBack == Spec => PassesAdvance
<1>1. JobInv /\ [Next]_vars
        => [run' = run /\ CurrentPhase \in Phase /\ CurrentPhase' \in Phase
              => PhaseRank(CurrentPhase) <= PhaseRank(CurrentPhase')]_vars
  BY PhaseStep
<1> QED BY <1>1, JobInvariant, PTL DEF Spec, PassesAdvance
============================================================================
