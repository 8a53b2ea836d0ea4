---------------------------- MODULE AppRecovery ----------------------------
(***************************************************************************)
(* The user interface around a running recovery: the pages the keys move   *)
(* between, the commands they give rise to, and the job those commands     *)
(* start, poll, pause and stop.                                            *)
(*                                                                         *)
(* Update handles one message at a time, but every command it returns runs *)
(* in a goroutine of its own.  Commands share programState (activeRecovery *)
(* and pendingPause) without a lock, finish in any order, and send their   *)
(* answers in any order.  A poll of the job is such a command: it fires    *)
(* 100 ms after a message that was handled while a job was active, and its *)
(* answer leads to the next one, so polls form chains.                     *)
(*                                                                         *)
(* The pages that set a recovery up, to its review, are one page, "Setup": *)
(* what matters here is that a recovery can be started there, that answers *)
(* to requests made there may come when the user is elsewhere, and that    *)
(* Back returns to the page last remembered.  The job is external: it      *)
(* runs, may need to be forced once it was asked to stop, and ends         *)
(* (RecoveryJob is its model).                                             *)
(***************************************************************************)
EXTENDS Naturals, FiniteSets, Bags, BagsExt

CONSTANTS
    MaxJobs,        \* bound: jobs started in a behaviour
    MaxInFlight     \* bound: commands and answers under way when a key is pressed

ASSUME BoundsAssumption == MaxJobs \in Nat \ {0} /\ MaxInFlight \in Nat

VARIABLES
    page,           \* Model.Page
    previousPage,   \* Model.PreviousPage; its zero value is a setup page
    forceAvailable, \* Model.Recovery.ForceStopAvailable
    active,         \* programState.activeRecovery, 0 for nil
    pendingPause,   \* programState.pendingPause
    jobs,           \* what each job is doing
    flight,         \* bag of commands that run and of answers not yet handled
    program         \* the process: "up", or ended by "quit" or a "panic"

uiVars == <<page, previousPage, forceAvailable>>
vars == <<uiVars, active, pendingPause, jobs, flight, program>>

----------------------------------------------------------------------------
Page == {"Setup", "Recovering", "Pausing", "Paused", "StopConfirm",
         "Summary", "Details"}

Job == 1 .. MaxJobs

(* A job that is "stopping" was asked to; an "escalated" one has not       *)
(* returned from its read within the grace period and may be "forced".  If *)
(* its read returns after all, nothing takes the offer back: the job is    *)
(* done, and still says that it can be forced ("lingering").               *)
JobStatus == {"none", "running", "stopping", "escalated", "forced", "ended", "lingering"}

Ended(j) == jobs[j] \in {"ended", "lingering"}

CanForceStop(j) == jobs[j] \in {"escalated", "lingering"}

(* Commands, with the point they have reached where they are more than one *)
(* step, and the messages they answer with.                                *)
Command ==
    [kind : {"start", "resume", "pause", "pauseCall", "stop", "stopCall", "stopNow", "poll"}]
        \cup [kind : {"polling", "forceCheck", "forceCall"}, job : Job]

Message ==
    [kind : {"JobStarted", "JobStartFailed", "Status"}]
        \cup [kind : {"JobPaused", "JobStopped"}, job : Job]
        \cup [kind : {"Progress"}, forceAvailable : BOOLEAN]

Cmd(kind) == [kind |-> kind]

(* Type invariant; in particular a tick never polls a nil recovery. *)
TypeOK ==
    /\ page \in Page /\ previousPage \in Page
    /\ forceAvailable \in BOOLEAN
    /\ active \in 0 .. MaxJobs /\ pendingPause \in BOOLEAN
    /\ jobs \in [Job -> JobStatus]
    /\ IsABag(flight) /\ DOMAIN flight \subseteq Command \cup Message
    /\ program \in {"up", "quit", "panic"}

Init ==
    /\ page = "Setup" /\ previousPage = "Setup"
    /\ forceAvailable = FALSE
    /\ active = 0 /\ pendingPause = FALSE
    /\ jobs = [j \in Job |-> "none"]
    /\ flight = EmptyBag
    /\ program = "up"

(* The end of the process is the end of its goroutines and jobs. *)
Ends(how) ==
    /\ program' = how
    /\ flight' = EmptyBag
    /\ page' = "Setup" /\ previousPage' = "Setup" /\ forceAvailable' = FALSE
    /\ active' = 0 /\ pendingPause' = FALSE
    /\ UNCHANGED jobs

----------------------------------------------------------------------------
(* Keys.  A key changes the page and may issue one command. *)

Issue(kind) ==
    /\ BagCardinality(flight) < MaxInFlight
    /\ flight' = BagAdd(flight, Cmd(kind))

Shared == <<active, pendingPause, jobs>>

GoTo(p) == page' = p

Remember == previousPage' = page

Key == program = "up" /\ UNCHANGED <<Shared, program>>

(* The setup pages: on to another of them, with or without a request, or   *)
(* back to the remembered page.                                            *)
SetupKey ==
    /\ Key /\ page = "Setup"
    /\ previousPage' = "Setup"
    /\ page' \in {page, previousPage}
    /\ UNCHANGED <<forceAvailable, flight>>

(* Any number of setup requests may be unanswered: an answer moves to a    *)
(* setup page from whatever page is shown when it comes.                   *)
SetupAnswer ==
    /\ program = "up"
    /\ GoTo("Setup")
    /\ UNCHANGED <<previousPage, forceAvailable, Shared, flight, program>>

(* Start, on the review page, which is left only when the job has started. *)
ReviewSelect ==
    /\ Key /\ page = "Setup"
    /\ Issue("start")
    /\ UNCHANGED uiVars

PauseKey ==
    /\ Key /\ page = "Recovering"
    /\ GoTo("Pausing")
    /\ Issue("pause")
    /\ UNCHANGED <<previousPage, forceAvailable>>

(* The pause key, or Enter when the page does not wait for a pause.        *)
ResumeKey ==
    /\ Key /\ page = "Paused"
    /\ GoTo("Recovering")
    /\ Issue("resume")
    /\ UNCHANGED <<previousPage, forceAvailable>>

(* The quit key, the force key of two of the pages, the stop of a third.   *)
AskStop ==
    /\ Key /\ page \in {"Recovering", "Pausing", "Paused"}
    /\ Remember /\ GoTo("StopConfirm")
    /\ UNCHANGED <<forceAvailable, flight>>

ConfirmStop ==
    /\ Key /\ page = "StopConfirm"
    /\ \/ /\ GoTo("Pausing")
          /\ forceAvailable' = FALSE
       \/ UNCHANGED <<page, forceAvailable>>    \* the force key
    /\ Issue("stop")
    /\ UNCHANGED previousPage

DeclineStop ==
    /\ Key /\ page = "StopConfirm"
    /\ GoTo(IF previousPage \in {"Paused", "Pausing"} THEN previousPage ELSE "Recovering")
    /\ UNCHANGED <<previousPage, forceAvailable, flight>>

ForceKey ==
    /\ Key /\ page = "Pausing" /\ forceAvailable
    /\ Issue("stopNow")
    /\ UNCHANGED uiVars

(* Details are there for the recovery pages, and for an error notice on    *)
(* the confirmation; those of a setup page belong to "Setup".              *)
DetailsKey ==
    /\ Key /\ page \notin {"Setup", "Details"}
    /\ Remember /\ GoTo("Details")
    /\ UNCHANGED <<forceAvailable, flight>>

DetailsBack ==
    /\ Key /\ page = "Details"
    /\ GoTo(previousPage) /\ previousPage' = "Setup"
    /\ UNCHANGED <<forceAvailable, flight>>

SummaryRetry ==
    /\ Key /\ page = "Summary"
    /\ Issue("start")
    /\ UNCHANGED uiVars

SummaryLeave ==
    /\ Key /\ page = "Summary"
    /\ GoTo("Setup")
    /\ UNCHANGED <<previousPage, forceAvailable, flight>>

(* The pages of a recovery ask first; the others, its details too, do not. *)
QuitKey ==
    /\ program = "up" /\ page \notin {"Recovering", "Pausing", "Paused"}
    /\ Ends("quit")

KeyStep ==
    \/ SetupKey \/ ReviewSelect \/ PauseKey \/ ResumeKey
    \/ AskStop \/ ConfirmStop \/ DeclineStop \/ ForceKey
    \/ DetailsKey \/ DetailsBack \/ SummaryRetry \/ SummaryLeave \/ QuitKey

----------------------------------------------------------------------------
(* Commands, each in its goroutine. *)

Done(c) == flight' = BagRemove(flight, c)

Turns(c, d) == flight' = BagAdd(BagRemove(flight, c), d)

Runs(c) == program = "up" /\ BagIn(c, flight) /\ UNCHANGED uiVars

(* startRecoveryJob: the job runs from here on, and replaces the one that  *)
(* was active.                                                             *)
StartImageRecovery(c) ==
    /\ \E j \in Job :
        /\ \A i \in Job : jobs[i] = "none" <=> i >= j
        /\ jobs' = [jobs EXCEPT ![j] = "running"]
        /\ active' = j
        /\ pendingPause' = FALSE
    /\ Turns(c, Cmd("JobStarted"))
    /\ UNCHANGED program

StartFails(c) ==
    /\ Turns(c, Cmd("JobStartFailed"))
    /\ UNCHANGED <<Shared, program>>

(* EffectStartJob does not look at the active recovery. *)
RunStart ==
    /\ Runs(Cmd("start"))
    /\ StartImageRecovery(Cmd("start")) \/ StartFails(Cmd("start"))

(* EffectResumeJob does, before it starts. *)
RunResume ==
    /\ Runs(Cmd("resume"))
    /\ IF active # 0
       THEN Turns(Cmd("resume"), Cmd("Status"))
       ELSE Turns(Cmd("resume"), Cmd("start"))
    /\ UNCHANGED <<Shared, program>>

(* EffectPauseJob and EffectStopJob look at the active recovery, note      *)
(* whether the end will be a pause, and then ask the recovery that is      *)
(* active by then: if there is none any more, that is a nil pointer.       *)
RunStopCheck(kind, call, pause) ==
    /\ Runs(Cmd(kind))
    /\ IF active = 0
       THEN Turns(Cmd(kind), Cmd("Status")) /\ UNCHANGED pendingPause
       ELSE Turns(Cmd(kind), Cmd(call)) /\ pendingPause' = pause
    /\ UNCHANGED <<active, jobs, program>>

RunStopCall(call) ==
    /\ program = "up" /\ BagIn(Cmd(call), flight)
    /\ IF active = 0
       THEN Ends("panic")
       ELSE /\ Turns(Cmd(call), Cmd("Status"))
            /\ jobs' = [jobs EXCEPT ![active] = IF @ = "running" THEN "stopping" ELSE @]
            /\ UNCHANGED <<uiVars, active, pendingPause, program>>

RunPause == RunStopCheck("pause", "pauseCall", TRUE) \/ RunStopCall("pauseCall")

RunStop == RunStopCheck("stop", "stopCall", FALSE) \/ RunStopCall("stopCall")

JobCmd(kind, j) == [kind |-> kind, job |-> j]

(* EffectStopNow takes the active recovery, asks that job whether it can   *)
(* be forced, and only then forces it; by then it may be over, and another *)
(* one active.  A job that is over only drops its offer.                   *)
RunStopNow ==
    /\ Runs(Cmd("stopNow"))
    /\ Turns(Cmd("stopNow"), IF active = 0 THEN Cmd("Status") ELSE JobCmd("forceCheck", active))
    /\ UNCHANGED <<Shared, program>>

RunForceCheck(j) ==
    /\ Runs(JobCmd("forceCheck", j))
    /\ Turns(JobCmd("forceCheck", j),
             IF CanForceStop(j) THEN JobCmd("forceCall", j) ELSE Cmd("Status"))
    /\ UNCHANGED <<Shared, program>>

RunForceStop(j) ==
    /\ Runs(JobCmd("forceCall", j))
    /\ pendingPause' = FALSE
    /\ jobs' = [jobs EXCEPT ![j] = CASE @ = "escalated" -> "forced"
                                     [] @ = "lingering" -> "ended"
                                     [] OTHER           -> @]
    /\ Turns(JobCmd("forceCall", j), Cmd("Status"))
    /\ UNCHANGED <<active, program>>

(* Mutant: a job that is over needs no more polls. *)
PollTickRunning ==
    /\ Runs(Cmd("poll"))
    /\ IF active = 0 \/ (active # 0 /\ Ended(active))
       THEN Done(Cmd("poll"))
       ELSE Turns(Cmd("poll"), JobCmd("polling", active))
    /\ UNCHANGED <<Shared, program>>

(* The tick of followUp: a chain ends when there is nothing to poll. *)
PollTick ==
    /\ Runs(Cmd("poll"))
    /\ IF active = 0
       THEN Done(Cmd("poll"))
       ELSE Turns(Cmd("poll"), JobCmd("polling", active))
    /\ UNCHANGED <<Shared, program>>

(* Nobody can take the offer of a job that the program has forgotten, but  *)
(* a force stop that is about to ask; otherwise it is of no account.       *)
Forget(j) ==
    jobs' = [jobs EXCEPT ![j] = IF BagIn(JobCmd("forceCheck", j), flight) THEN @ ELSE "ended"]

(* Mutant: a job that was asked to stop is taken for one that has. *)
PollReportEarly(j) ==
    LET poll == JobCmd("polling", j) IN
    /\ Runs(poll)
    /\ IF jobs[j] # "running"
       THEN /\ active' = 0
            /\ pendingPause' = FALSE
            /\ Turns(poll, JobCmd(IF pendingPause THEN "JobPaused" ELSE "JobStopped", j))
       ELSE /\ Turns(poll, [kind |-> "Progress", forceAvailable |-> FALSE])
            /\ UNCHANGED <<active, pendingPause>>
    /\ UNCHANGED <<jobs, program>>

(* The snapshot of the job the poll looked up: a job that is done is       *)
(* forgotten, and reported as paused if a pause is pending, whatever its   *)
(* end was.                                                                *)
PollReport(j) ==
    LET poll == JobCmd("polling", j) IN
    /\ Runs(poll)
    /\ IF Ended(j)
       THEN /\ active' = 0
            /\ pendingPause' = FALSE
            /\ Turns(poll, JobCmd(IF pendingPause THEN "JobPaused" ELSE "JobStopped", j))
            /\ Forget(j)
       ELSE /\ Turns(poll, [kind |-> "Progress", forceAvailable |-> CanForceStop(j)])
            /\ UNCHANGED <<active, pendingPause, jobs>>
    /\ UNCHANGED program

CommandStep ==
    \/ RunStart \/ RunResume \/ RunPause \/ RunStop \/ RunStopNow
    \/ PollTick
    \/ \E j \in Job : RunForceCheck(j) \/ RunForceStop(j) \/ PollReport(j)

----------------------------------------------------------------------------
(* Messages, handled by Update one at a time. *)

(* Mutant: only progress leads to the next poll. *)
FollowUpProgress(m) ==
    IF active # 0 /\ m.kind = "Progress" THEN Turns(m, Cmd("poll")) ELSE Done(m)

(* followUp: another poll of the active job, if there is one. *)
FollowUp(m) ==
    IF active # 0 /\ m.kind \in {"JobStarted", "JobPaused", "Progress", "Status"}
    THEN Turns(m, Cmd("poll"))
    ELSE Done(m)

Handles(m) ==
    /\ program = "up" /\ BagIn(m, flight)
    /\ FollowUp(m)
    /\ UNCHANGED <<Shared, program>>

UpdateJobStarted(m) ==
    /\ m.kind = "JobStarted"
    /\ GoTo("Recovering") /\ forceAvailable' = FALSE
    /\ UNCHANGED previousPage

UpdateJobPaused(m) ==
    /\ m.kind = "JobPaused"
    /\ GoTo("Paused") /\ forceAvailable' = FALSE
    /\ UNCHANGED previousPage

UpdateJobStartFailed(m) ==
    /\ m.kind = "JobStartFailed"
    /\ GoTo("Setup")
    /\ UNCHANGED <<previousPage, forceAvailable>>

UpdateProgress(m) ==
    /\ m.kind = "Progress"
    /\ forceAvailable' = m.forceAvailable
    /\ UNCHANGED <<page, previousPage>>

UpdateStatus(m) ==
    /\ m.kind = "Status"
    /\ UNCHANGED uiVars

UpdateJobStopped(m) ==
    /\ m.kind = "JobStopped"
    /\ GoTo("Summary") /\ forceAvailable' = FALSE
    /\ UNCHANGED previousPage

Update(m) ==
    /\ Handles(m)
    /\ \/ UpdateJobStarted(m) \/ UpdateJobPaused(m) \/ UpdateJobStartFailed(m)
       \/ UpdateProgress(m) \/ UpdateStatus(m) \/ UpdateJobStopped(m)

(* RecoveryProgramModel.Update looks at activeRecovery and then takes its  *)
(* snapshot, while a poll may be about to forget the job.                  *)
SnapshotRace ==
    /\ program = "up" /\ active # 0
    /\ \E j \in Job : Ended(j) /\ BagIn(JobCmd("polling", j), flight)
    /\ Ends("panic")

----------------------------------------------------------------------------
(* The jobs, and the whole program. *)

JobEscalates(j) ==
    /\ program = "up" /\ jobs[j] = "stopping"
    /\ jobs' = [jobs EXCEPT ![j] = "escalated"]
    /\ UNCHANGED <<uiVars, active, pendingPause, flight, program>>

(* A job that ends with an error offers no force stop any more.            *)
JobEnds(j) ==
    /\ program = "up" /\ jobs[j] \in {"running", "stopping", "escalated", "forced"}
    /\ \E end \in {"ended"} \cup (IF jobs[j] = "escalated" THEN {"lingering"} ELSE {}) :
        jobs' = [jobs EXCEPT ![j] = end]
    /\ UNCHANGED <<uiVars, active, pendingPause, flight, program>>

JobStep == \E j \in Job : JobEscalates(j) \/ JobEnds(j)

Over == program # "up" /\ UNCHANGED vars

Next ==
    \/ KeyStep \/ SetupAnswer \/ CommandStep
    \/ \E m \in DOMAIN flight : Update(m)
    \/ SnapshotRace \/ JobStep \/ Over

Spec == Init /\ [][Next]_vars

(* Goroutines run, ticks fire, and no kind of message waits for ever, as   *)
(* senders to a channel are served in order.  Nobody has to press a key,   *)
(* and a job may run for ever.                                             *)
FairSpec ==
    /\ Spec
    /\ WF_vars(RunPause \/ RunStop) /\ WF_vars(PollTick)
    /\ WF_vars(\E j \in Job : PollReport(j))
    /\ WF_vars(\E m \in DOMAIN flight : m.kind \in {"JobStarted", "Progress", "Status"} /\ Update(m))
    /\ WF_vars(\E m \in DOMAIN flight : m.kind \in {"JobPaused", "JobStopped"} /\ Update(m))

----------------------------------------------------------------------------
(***************************************************************************)
(* Properties.                                                             *)
(***************************************************************************)

(* Whoever clears or replaces the active job, and in whatever order the    *)
(* polls of several chains and the answers of pause and stop commands      *)
(* come: a job that is active is never left without a poll, because some   *)
(* command or message is under way that polls it or leads to a poll.       *)
ActiveJobIsPolled ==
    program = "up" /\ active # 0 =>
        \E c \in DOMAIN flight :
            c.kind \in {"poll", "polling", "JobStarted", "Progress", "Status", "JobPaused",
                        "pauseCall", "stopCall"}

(* A job is reported as paused or stopped only when it is done: from then  *)
(* on the user may resume or retry it, on the same image and map.          *)
ReportsAreFinal ==
    \A m \in DOMAIN flight : m.kind \in {"JobPaused", "JobStopped"} => Ended(m.job)

(* The end of the active job reaches the user as the paused page or the    *)
(* summary, unless another job is started over it.                         *)
EndReachesUser ==
    active # 0 /\ Ended(active) ~>
        page \in {"Paused", "Summary"} \/ (active # 0 /\ ~Ended(active)) \/ program # "up"

(* The recovery and control operations of a drive are serialized: no two   *)
(* jobs read it, and write one image and map, at the same time.            *)
OneRecoveryAtATime ==
    LET Alive(j) == jobs[j] \in {"running", "stopping", "escalated", "forced"}
    IN  \A i, j \in Job : Alive(i) /\ Alive(j) => i = j
=============================================================================
