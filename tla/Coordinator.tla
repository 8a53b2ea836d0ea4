---------------------------- MODULE Coordinator ----------------------------
(***************************************************************************)
(* package coordinator: the event-driven state machine of a recovery job.  *)
(* Handle takes an event to a new snapshot and a list of effects.  An      *)
(* asynchronous effect carries a token, and its answer is an event with    *)
(* that token; whoever executes effects may answer late, more than once,   *)
(* in any order, or after the job was started anew.                        *)
(*                                                                         *)
(* An event the code rejects with an error, or recognises as stale,        *)
(* changes nothing and is a stuttering step here.  Handle also refuses a   *)
(* calculated transition whose job does not pass Job.Validate.  The model  *)
(* has no such guard: JobValid shows that it never applies.                *)
(***************************************************************************)
EXTENDS Integers

CONSTANTS
    JobIds,      \* ids StartJob is called with
    ReuseIds,    \* may a job be started again under an id used before?
    MaxTokens,   \* bound: tokens issued in a run
    MaxRuns      \* bound: calls of StartJob

ASSUME CoordinatorAssumption ==
    /\ "none" \notin JobIds
    /\ ReuseIds \in BOOLEAN
    /\ MaxTokens \in Nat /\ MaxRuns \in Nat

VARIABLES
    job,       \* Snapshot.Job
    run,       \* number of the current run, which the code does not know
    used,      \* ids StartJob has been called with
    issued,    \* asynchronous effects published so far
    accepted,  \* the effect whose answer was accepted last
    stopToken, \* first token a checkpoint for the last pause or cancel can have
    saved      \* token of the last checkpoint that was accepted

vars == <<job, run, used, issued, accepted, stopToken, saved>>

Phase == {"fast_pass", "trim_pass", "adaptive_pass", "scrape_pass", "verifying"}

Finished == {"completed", "incomplete", "failed"}

JobState == {"idle", "identifying", "preparing", "pausing", "paused", "stopping"}
                \cup Phase \cup Finished

(* activeJobState *)
Active == JobState \ ({"idle"} \cup Finished)

EffectKind == {"probe_media", "bootstrap_recovery", "dispatch_recovery", "checkpoint"}

None == "none"    \* the empty id, state and kind

Job == [id : JobIds \cup {None}, state : JobState, resume : Phase \cup {None},
        kind : EffectKind \cup {None}, token : Nat, next : Nat]

Effect == [run : Nat, id : JobIds, kind : EffectKind, token : Nat]

NoEffect == [run |-> 0, id |-> None, kind |-> None, token |-> 0]

(* Type invariant. *)
TypeOK ==
    /\ job \in Job
    /\ run \in Nat
    /\ used \subseteq JobIds
    /\ issued \subseteq Effect
    /\ accepted \in Effect \cup {NoEffect}
    /\ stopToken \in Nat /\ saved \in Nat

IdleJob == [id |-> None, state |-> "idle", resume |-> None, kind |-> None,
            token |-> 0, next |-> 0]

Init ==
    /\ job = IdleJob
    /\ run = 0 /\ used = {} /\ issued = {} /\ accepted = NoEffect
    /\ stopToken = 0 /\ saved = 0

----------------------------------------------------------------------------
(* Tokens and pending effects. *)

ClearPending(j) ==
    [id |-> j.id, state |-> j.state, resume |-> j.resume, kind |-> None,
     token |-> 0, next |-> j.next]

(* The job with effect kind pending; NextToken is at least 1 outside idle. *)
IssueEffect(j, kind) ==
    [id |-> j.id, state |-> j.state, resume |-> j.resume, kind |-> kind,
     token |-> j.next, next |-> j.next + 1]

Moved(j, state, resume) ==
    [id |-> j.id, state |-> state, resume |-> resume, kind |-> j.kind,
     token |-> j.token, next |-> j.next]

PendingEffect(j, r) == [run |-> r, id |-> j.id, kind |-> j.kind, token |-> j.token]

(* Mutant: an answer is matched by its kind alone. *)
AcceptPendingKind(e, kind, states) ==
    /\ job.id = e.id
    /\ job.state \in states
    /\ e.kind = kind /\ job.kind = kind

AcceptPending(e, kind, states) ==
    /\ job.id = e.id
    /\ job.state \in states
    /\ e.kind = kind /\ job.kind = kind /\ job.token = e.token

AcceptAnyPending(e, states) ==
    /\ job.id = e.id
    /\ job.state \in states
    /\ job.kind # None /\ job.token = e.token

(* Commit job j, publishing its pending effect if it has a new one. *)
Commit(j, r) ==
    /\ job' = j
    /\ issued' = IF j.token = 0 THEN issued ELSE issued \cup {PendingEffect(j, r)}

(* The job after a failure. *)
FailedJob(j) == Moved(ClearPending(j), "failed", None)

----------------------------------------------------------------------------
(* User events. *)

StartJob(id) ==
    /\ job.state \in {"idle"} \cup Finished
    /\ id \in JobIds
    /\ ReuseIds \/ id \notin used
    /\ run < MaxRuns
    /\ Commit(IssueEffect([IdleJob EXCEPT !.id = id, !.state = "identifying",
                                          !.next = 1], "probe_media"), run + 1)
    /\ run' = run + 1
    /\ used' = used \cup {id}
    /\ stopToken' = 0 /\ saved' = 0
    /\ UNCHANGED accepted

(* Mutant: a checkpoint that is already under way will do for the pause. *)
PauseJobWithAnyCheckpoint ==
    /\ job.state \in Phase
    /\ job.next <= MaxTokens
    /\ stopToken' = job.next
    /\ IF job.kind = "checkpoint"
       THEN Commit(Moved(job, "pausing", job.state), run)
       ELSE Commit(IssueEffect(Moved(ClearPending(job), "pausing", job.state),
                               "checkpoint"), run)
    /\ UNCHANGED <<run, used, accepted, saved>>

PauseJob ==
    /\ job.state \in Phase
    /\ job.next <= MaxTokens
    /\ stopToken' = job.next
    /\ Commit(IssueEffect(Moved(ClearPending(job), "pausing", job.state), "checkpoint"),
              run)
    /\ UNCHANGED <<run, used, accepted, saved>>

(* Mutant: resuming starts the passes over. *)
ResumeJobFromStart ==
    /\ job.state = "paused"
    /\ job.next <= MaxTokens
    /\ Commit(IssueEffect(Moved(job, "fast_pass", None), "dispatch_recovery"), run)
    /\ UNCHANGED <<run, used, accepted, stopToken, saved>>

ResumeJob ==
    /\ job.state = "paused"
    /\ job.next <= MaxTokens
    /\ Commit(IssueEffect(Moved(job, job.resume, None), "dispatch_recovery"), run)
    /\ UNCHANGED <<run, used, accepted, stopToken, saved>>

(* Mutant: canceling a job that is pausing drops its checkpoint. *)
CancelJobDropsCheckpoint ==
    /\ \/ /\ job.state = "paused"
          /\ Commit(Moved(ClearPending(job), "incomplete", None), run)
          /\ UNCHANGED stopToken
       \/ /\ job.state = "pausing"
          /\ Commit(Moved(ClearPending(job), "stopping", job.resume), run)
          /\ UNCHANGED stopToken
       \/ /\ job.state \in Phase
          /\ job.next <= MaxTokens
          /\ stopToken' = job.next
          /\ Commit(IssueEffect(Moved(ClearPending(job), "stopping", job.state),
                                "checkpoint"), run)
    /\ UNCHANGED <<run, used, accepted, saved>>

(* A paused job is already saved; a pausing job keeps its checkpoint.      *)
CancelJob ==
    /\ \/ /\ job.state = "paused"
          /\ Commit(Moved(ClearPending(job), "incomplete", None), run)
          /\ UNCHANGED stopToken
       \/ /\ job.state = "pausing"
          /\ Commit(Moved(job, "stopping", job.resume), run)
          /\ UNCHANGED stopToken
       \/ /\ job.state \in Phase
          /\ job.next <= MaxTokens
          /\ stopToken' = job.next
          /\ Commit(IssueEffect(Moved(ClearPending(job), "stopping", job.state),
                                "checkpoint"), run)
    /\ UNCHANGED <<run, used, accepted, saved>>

----------------------------------------------------------------------------
(* Answers to effect e. *)

ProbeCompleted(e, err) ==
    /\ AcceptPending(e, "probe_media", {"identifying"})
    /\ accepted' = e
    /\ IF err THEN Commit(FailedJob(job), run)
       ELSE /\ job.next <= MaxTokens
            /\ Commit(IssueEffect(Moved(ClearPending(job), "preparing", None),
                                  "bootstrap_recovery"), run)
    /\ UNCHANGED <<run, used, stopToken, saved>>

WriteResultReceived(e, err) ==
    /\ AcceptPending(e, "bootstrap_recovery", {"preparing"})
    /\ accepted' = e
    /\ IF err THEN Commit(FailedJob(job), run)
       ELSE /\ job.next <= MaxTokens
            /\ Commit(IssueEffect(Moved(ClearPending(job), "fast_pass", None),
                                  "dispatch_recovery"), run)
    /\ UNCHANGED <<run, used, stopToken, saved>>

PhaseRank(state) ==
    CASE state = "fast_pass" -> 1
      [] state = "trim_pass" -> 2
      [] state = "adaptive_pass" -> 3
      [] state = "scrape_pass" -> 4
      [] OTHER -> 5

(* A pass may repeat or hand over to any later one; verification ends. *)
TransitionAllowed(state, next) ==
    IF state = "verifying"
    THEN next \in {"completed", "incomplete"}
    ELSE next \in Phase /\ PhaseRank(state) <= PhaseRank(next)

WorkerResultReceived(e, err, next) ==
    /\ AcceptPending(e, "dispatch_recovery", Phase)
    /\ accepted' = e
    /\ \/ err /\ Commit(FailedJob(job), run)
       \/ /\ ~err
          /\ TransitionAllowed(job.state, next)
          /\ IF next \in {"completed", "incomplete"}
             THEN Commit(Moved(ClearPending(job), next, None), run)
             ELSE /\ job.next <= MaxTokens
                  /\ Commit(IssueEffect(Moved(ClearPending(job), next, None),
                                        "dispatch_recovery"), run)
    /\ UNCHANGED <<run, used, stopToken, saved>>

JobCheckpointed(e) ==
    /\ AcceptPending(e, "checkpoint", {"pausing", "stopping"})
    /\ accepted' = e
    /\ saved' = e.token
    /\ IF job.state = "pausing"
       THEN Commit(Moved(ClearPending(job), "paused", job.resume), run)
       ELSE Commit(Moved(ClearPending(job), "incomplete", None), run)
    /\ UNCHANGED <<run, used, stopToken>>

(* Any pending effect may fail the job. *)
JobFailed(e) ==
    /\ AcceptAnyPending(e, Active)
    /\ accepted' = e
    /\ Commit(FailedJob(job), run)
    /\ UNCHANGED <<run, used, stopToken, saved>>

(* The supervisor gives up on a dispatched worker: what it has done so far *)
(* is checkpointed, and the job stays in its phase.                        *)
WorkerUnresponsiveDetected(e) ==
    /\ AcceptPending(e, "dispatch_recovery", Active)
    /\ job.next <= MaxTokens
    /\ accepted' = e
    /\ Commit(IssueEffect(ClearPending(job), "checkpoint"), run)
    /\ UNCHANGED <<run, used, stopToken, saved>>

----------------------------------------------------------------------------
Answer(e) ==
    \/ \E err \in BOOLEAN : ProbeCompleted(e, err) \/ WriteResultReceived(e, err)
    \/ \E err \in BOOLEAN, next \in JobState : WorkerResultReceived(e, err, next)
    \/ JobCheckpointed(e)

Next ==
    \/ \E id \in JobIds : StartJob(id)
    \/ PauseJob \/ ResumeJob \/ CancelJob
    \/ \E e \in issued : Answer(e) \/ JobFailed(e) \/ WorkerUnresponsiveDetected(e)

Spec == Init /\ [][Next]_vars

(* An effect that is pending is answered in the end. *)
FairSpec == Spec /\ WF_vars(\E e \in issued : e = PendingEffect(job, run) /\ Answer(e))

----------------------------------------------------------------------------
(***************************************************************************)
(* Properties.                                                             *)
(***************************************************************************)

(* Job.Validate accepts every job a calculated transition produces, so     *)
(* Handle never turns a legal event away half way: the resume phase is     *)
(* there exactly while the job can resume, a token exactly while an effect *)
(* is pending, and no token is given out twice.                            *)
JobValid ==
    IF job.state = "idle"
    THEN job = IdleJob
    ELSE /\ job.id # None
         /\ (job.resume # None) <=> (job.state \in {"pausing", "paused", "stopping"})
         /\ (job.kind # None) <=> (job.token # 0)
         /\ job.token < job.next

(* A job that is stopping has its checkpoint pending, from the request on  *)
(* until it is answered, also when a cancel overtakes a pause; one that is *)
(* paused or finished waits for nothing.                                   *)
PendingMatchesState ==
    /\ job.state \in {"pausing", "stopping"} =>
         job.kind = "checkpoint" /\ job.token >= stopToken
    /\ job.state \in {"paused"} \cup Finished => job.kind = None
    /\ job.state \in Phase => job.kind \in {"dispatch_recovery", "checkpoint"}

(* An answer moves the job only if it answers the effect that is pending   *)
(* now: a late or repeated answer to an effect of before the pause, or of  *)
(* an earlier run, leaves the snapshot unchanged.                          *)
StaleAnswersIgnored ==
    [][accepted' # accepted => accepted' = PendingEffect(job, run)]_vars

(* A job is paused only after a checkpoint that was issued for this pause  *)
(* or later: a checkpoint of an unresponsive worker that was under way     *)
(* when the user paused does not count.                                    *)
PausedIsCheckpointed == job.state = "paused" => saved >= stopToken

(* The phase the job is in or would resume. *)
CurrentPhase == IF job.resume # None THEN job.resume ELSE job.state

(* Within a run the passes never go back, over any number of pauses. *)
PassesAdvance ==
    [][run' = run /\ CurrentPhase \in Phase /\ CurrentPhase' \in Phase
           => PhaseRank(CurrentPhase) <= PhaseRank(CurrentPhase')]_vars

(* A pause or a cancel comes to an end when its checkpoint is answered. *)
StopRequestEnds ==
    job.state \in {"pausing", "stopping"} ~> job.state \notin {"pausing", "stopping"}
============================================================================
