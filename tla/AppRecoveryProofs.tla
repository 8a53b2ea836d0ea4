-------------------------- MODULE AppRecoveryProofs --------------------------
(***************************************************************************)
(* Proofs about the user interface of a running recovery, for any number   *)
(* of jobs and of commands under way, whatever order they run in.          *)
(***************************************************************************)
EXTENDS AppRecovery, TLAPS

----------------------------------------------------------------------------
(* Bags: what is under way once an element is added or removed. *)

LEMMA BagAddFacts ==
  ASSUME NEW B, IsABag(B), NEW x
  PROVE  IsABag(BagAdd(B, x)) /\ DOMAIN BagAdd(B, x) = DOMAIN B \cup {x}
<1>1. B \in [DOMAIN B -> {n \in Nat : n > 0}]
  BY DEF IsABag
<1>2. CASE x \in DOMAIN B
  <2>1. BagAdd(B, x) = [e \in DOMAIN B |-> IF e = x THEN B[e] + 1 ELSE B[e]]
    BY <1>2 DEF BagAdd
  <2> QED BY <1>1, <1>2, <2>1 DEF IsABag
<1>3. CASE x \notin DOMAIN B
  <2>1. BagAdd(B, x) = [e \in DOMAIN B \cup {x} |-> IF e = x THEN 1 ELSE B[e]]
    BY <1>3 DEF BagAdd
  <2> QED BY <1>1, <1>3, <2>1 DEF IsABag
<1> QED BY <1>2, <1>3

LEMMA BagRemoveFacts ==
  ASSUME NEW B, IsABag(B), NEW x
  PROVE  /\ IsABag(BagRemove(B, x))
         /\ DOMAIN BagRemove(B, x) \subseteq DOMAIN B
         /\ \A y \in DOMAIN B : y # x => y \in DOMAIN BagRemove(B, x)
<1>1. B \in [DOMAIN B -> {n \in Nat : n > 0}]
  BY DEF IsABag
<1>2. CASE x \notin DOMAIN B
  BY <1>2 DEF BagRemove
<1>3. CASE x \in DOMAIN B /\ B[x] = 1
  <2>1. BagRemove(B, x) = [e \in DOMAIN B \ {x} |-> B[e]]
    BY <1>3 DEF BagRemove
  <2> QED BY <1>1, <2>1 DEF IsABag
<1>4. CASE x \in DOMAIN B /\ B[x] # 1
  <2>1. BagRemove(B, x) = [e \in DOMAIN B |-> IF e = x THEN B[e] - 1 ELSE B[e]]
    BY <1>4 DEF BagRemove
  <2>2. B[x] \in Nat /\ B[x] > 1
    BY <1>1, <1>4
  <2> QED BY <1>1, <2>1, <2>2 DEF IsABag
<1> QED BY <1>2, <1>3, <1>4

(* What is under way is a bag of commands and messages. *)
Flies(B) == IsABag(B) /\ DOMAIN B \subseteq Command \cup Message

LEMMA AddFlies ==
  ASSUME NEW B, Flies(B), NEW x \in Command \cup Message
  PROVE  Flies(BagAdd(B, x))
<1>1. IsABag(B) /\ DOMAIN B \subseteq Command \cup Message
  BY DEF Flies
<1>2. IsABag(BagAdd(B, x)) /\ DOMAIN BagAdd(B, x) = DOMAIN B \cup {x}
  BY <1>1, BagAddFacts
<1> QED BY <1>1, <1>2 DEF Flies

LEMMA RemoveFlies ==
  ASSUME NEW B, Flies(B), NEW x
  PROVE  Flies(BagRemove(B, x))
  BY BagRemoveFacts DEF Flies

LEMMA TurnsFacts ==
  ASSUME Flies(flight), NEW c, NEW d \in Command \cup Message, Turns(c, d)
  PROVE  /\ Flies(flight') /\ d \in DOMAIN flight'
         /\ DOMAIN flight' \subseteq DOMAIN flight \cup {d}
         /\ \A x \in DOMAIN flight : x # c => x \in DOMAIN flight'
<1>1. flight' = BagAdd(BagRemove(flight, c), d)
  BY DEF Turns
<1>2. Flies(BagRemove(flight, c))
  BY RemoveFlies
<1>3. DOMAIN flight' = DOMAIN BagRemove(flight, c) \cup {d}
  BY <1>1, <1>2, BagAddFacts DEF Flies
<1> QED BY <1>1, <1>2, <1>3, AddFlies, BagRemoveFacts DEF Flies

LEMMA DoneFacts ==
  ASSUME Flies(flight), NEW c, Done(c)
  PROVE  /\ Flies(flight')
         /\ DOMAIN flight' \subseteq DOMAIN flight
         /\ \A x \in DOMAIN flight : x # c => x \in DOMAIN flight'
  BY RemoveFlies, BagRemoveFacts DEF Done, Flies

LEMMA IssueFacts ==
  ASSUME Flies(flight), NEW kind, Cmd(kind) \in Command, Issue(kind)
  PROVE  /\ Flies(flight')
         /\ DOMAIN flight' = DOMAIN flight \cup {Cmd(kind)}
  BY AddFlies, BagAddFacts DEF Issue, Flies

LEMMA CmdKinds ==
  /\ \A kind \in {"start", "resume", "pause", "pauseCall", "stop", "stopCall", "stopNow", "poll"} :
       Cmd(kind) \in Command /\ Cmd(kind).kind = kind
  /\ \A kind \in {"JobStarted", "JobStartFailed", "Status"} :
       Cmd(kind) \in Message /\ Cmd(kind).kind = kind
  /\ \A j \in Job : \A kind \in {"polling", "forceCheck", "forceCall"} :
       JobCmd(kind, j) \in Command /\ JobCmd(kind, j).kind = kind
  /\ \A j \in Job : \A kind \in {"JobPaused", "JobStopped"} :
       JobCmd(kind, j) \in Message /\ JobCmd(kind, j).kind = kind /\ JobCmd(kind, j).job = j
  /\ \A b \in BOOLEAN : [kind |-> "Progress", forceAvailable |-> b] \in Message
  BY DEF Cmd, JobCmd, Command, Message

----------------------------------------------------------------------------
(***************************************************************************)
(* The effect of a step on what the invariants speak of.  A step moves the *)
(* flight in one of a few ways, and jobs go through their states in one    *)
(* direction.                                                              *)
(***************************************************************************)
Carrier == {"poll", "polling", "JobStarted", "Progress", "Status", "JobPaused",
            "pauseCall", "stopCall"}

Report == {"JobPaused", "JobStopped"}

AppInv == TypeOK /\ ActiveJobIsPolled /\ ReportsAreFinal

(* A job that has ended has ended for good. *)
JobsAdvance ==
    /\ jobs' \in [Job -> JobStatus]
    /\ \A j \in Job : Ended(j) => Ended(j)'

(* Reports only appear about jobs that are over. *)
ReportsJustified ==
    \A m \in DOMAIN flight' : m.kind \in Report => m \in DOMAIN flight \/ Ended(m.job)

(* A carrier is left for an active job that had one, or has been started. *)
CarrierLeft ==
    program' = "up" /\ active' # 0 =>
        \E c \in DOMAIN flight' : c.kind \in Carrier

UITyped ==
    /\ page' \in Page /\ previousPage' \in Page /\ forceAvailable' \in BOOLEAN
    /\ active' \in 0 .. MaxJobs /\ pendingPause' \in BOOLEAN
    /\ program' \in {"up", "quit", "panic"}

Good == UITyped /\ Flies(flight') /\ JobsAdvance /\ ReportsJustified /\ CarrierLeft

LEMMA GoodSuffices == ASSUME AppInv, Good PROVE AppInv'
<1>1. TypeOK'
  BY DEF Good, UITyped, Flies, JobsAdvance, TypeOK
<1>2. ActiveJobIsPolled'
  BY DEF Good, CarrierLeft, Carrier, ActiveJobIsPolled
<1>3. ReportsAreFinal'
  <2> SUFFICES ASSUME NEW m \in DOMAIN flight', m.kind \in Report PROVE Ended(m.job)'
    BY DEF ReportsAreFinal, Report
  <2>1. m \in Command \cup Message /\ m.job \in Job
    BY DEF Good, Flies, Command, Message, Report
  <2>2. Ended(m.job)
    BY DEF Good, ReportsJustified, AppInv, ReportsAreFinal, Report
  <2> QED BY <2>1, <2>2 DEF Good, JobsAdvance
<1> QED BY <1>1, <1>2, <1>3 DEF AppInv

LEMMA JobNumbers ==
  /\ MaxJobs \in Nat /\ 0 \in 0 .. MaxJobs /\ Job \subseteq 0 .. MaxJobs
  /\ \A j \in Job : j # 0
  /\ \A j \in 0 .. MaxJobs : j = 0 \/ j \in Job
<1>1. MaxJobs \in Nat
  BY BoundsAssumption
<1> QED BY <1>1 DEF Job

(* The end of the process. *)
LEMMA EndsIsGood ==
  ASSUME AppInv, NEW how \in {"quit", "panic"}, Ends(how)
  PROVE  Good
<1>1. Flies(flight') /\ DOMAIN flight' = {}
  BY DEF Ends, EmptyBag, SetToBag, Flies, IsABag
<1>2. UITyped /\ JobsAdvance
  <2>1. UITyped
    BY JobNumbers DEF Ends, UITyped, Page
  <2>2. JobsAdvance
    BY DEF Ends, JobsAdvance, AppInv, TypeOK, Ended
  <2> QED BY <2>1, <2>2
<1> QED BY <1>1, <1>2 DEF Good, ReportsJustified, CarrierLeft, Ends

(* Keys: at most one more command. *)
LEMMA KeyIsGood ==
  ASSUME AppInv, KeyStep
  PROVE  Good
<1>1. Flies(flight)
  BY DEF AppInv, TypeOK, Flies
<1>2. CASE QuitKey
  BY <1>2, EndsIsGood DEF QuitKey
<1>3. ASSUME Key, page' \in Page, previousPage' \in Page, forceAvailable' \in BOOLEAN,
             \/ flight' = flight
             \/ \E kind \in {"start", "resume", "pause", "stop", "stopNow"} : Issue(kind)
      PROVE  Good
  <2>1. /\ Flies(flight') /\ DOMAIN flight \subseteq DOMAIN flight'
        /\ \A x \in DOMAIN flight' : x \in DOMAIN flight \/ x.kind \notin Report
    <3>1. CASE flight' = flight
      BY <1>1, <3>1
    <3>2. ASSUME NEW kind \in {"start", "resume", "pause", "stop", "stopNow"}, Issue(kind)
          PROVE  /\ Flies(flight') /\ DOMAIN flight \subseteq DOMAIN flight'
                 /\ \A x \in DOMAIN flight' : x \in DOMAIN flight \/ x.kind \notin Report
      <4>1. Cmd(kind) \in Command /\ Cmd(kind).kind = kind
        BY CmdKinds
      <4>2. Flies(flight') /\ DOMAIN flight' = DOMAIN flight \cup {Cmd(kind)}
        BY <1>1, <3>2, <4>1, IssueFacts
      <4> QED BY <4>1, <4>2 DEF Report
    <3> QED BY <1>3, <3>1, <3>2
  <2>2. UITyped /\ JobsAdvance
    BY <1>3 DEF Key, Shared, UITyped, JobsAdvance, AppInv, TypeOK, Ended
  <2>3. ReportsJustified
    BY <2>1 DEF ReportsJustified
  <2>4. CarrierLeft
    BY <1>3, <2>1 DEF CarrierLeft, AppInv, ActiveJobIsPolled, Carrier, Key, Shared
  <2> QED BY <2>1, <2>2, <2>3, <2>4 DEF Good
<1>4. page \in Page /\ previousPage \in Page /\ forceAvailable \in BOOLEAN
  BY DEF AppInv, TypeOK
<1>5. CASE SetupKey \/ ReviewSelect \/ SummaryRetry
  BY <1>3, <1>4, <1>5 DEF SetupKey, ReviewSelect, SummaryRetry, uiVars, Page
<1>6. CASE PauseKey \/ ResumeKey \/ ForceKey
  BY <1>3, <1>4, <1>6 DEF PauseKey, ResumeKey, ForceKey, uiVars, Page, GoTo
<1>7. CASE AskStop \/ ConfirmStop \/ DeclineStop
  BY <1>3, <1>4, <1>7 DEF AskStop, ConfirmStop, DeclineStop, uiVars, Page, GoTo, Remember
<1>8. CASE DetailsKey \/ DetailsBack \/ SummaryLeave
  BY <1>3, <1>4, <1>8 DEF DetailsKey, DetailsBack, SummaryLeave, uiVars, Page, GoTo, Remember
<1> QED BY <1>2, <1>5, <1>6, <1>7, <1>8 DEF KeyStep

(* A command or message c turns into d, which carries on what c carried. *)
LEMMA TurningIsGood ==
  ASSUME AppInv, NEW c, NEW d \in Command \cup Message, Turns(c, d),
         UITyped, JobsAdvance,
         d.kind \in Report => Ended(d.job),
         \/ active' = 0 \/ d.kind \in Carrier
         \/ (active' = active /\ program' = program /\ c.kind \notin Carrier)
  PROVE  Good
<1>1. /\ Flies(flight') /\ d \in DOMAIN flight'
      /\ DOMAIN flight' \subseteq DOMAIN flight \cup {d}
      /\ \A x \in DOMAIN flight : x # c => x \in DOMAIN flight'
  BY TurnsFacts DEF AppInv, TypeOK, Flies
<1>2. ReportsJustified
  BY <1>1 DEF ReportsJustified
<1>3. CarrierLeft
  BY <1>1 DEF CarrierLeft, AppInv, ActiveJobIsPolled, Carrier
<1> QED BY <1>1, <1>2, <1>3 DEF Good

(* It is done, and the job it may have carried is not active any more. *)
LEMMA DoneIsGood ==
  ASSUME AppInv, NEW c, Done(c), UITyped, JobsAdvance,
         \/ active' = 0
         \/ (active' = active /\ program' = program /\ c.kind \notin Carrier)
  PROVE  Good
<1>1. /\ Flies(flight') /\ DOMAIN flight' \subseteq DOMAIN flight
      /\ \A x \in DOMAIN flight : x # c => x \in DOMAIN flight'
  BY DoneFacts DEF AppInv, TypeOK, Flies
<1>2. ReportsJustified
  BY <1>1 DEF ReportsJustified
<1>3. CarrierLeft
  BY <1>1 DEF CarrierLeft, AppInv, ActiveJobIsPolled, Carrier
<1> QED BY <1>1, <1>2, <1>3 DEF Good

LEMMA UnchangedJobs == ASSUME AppInv, jobs' = jobs PROVE JobsAdvance
  BY DEF AppInv, TypeOK, JobsAdvance, Ended

LEMMA StartIsGood ==
  ASSUME AppInv, RunStart
  PROVE  Good
<1>1. Cmd("start") \in Command /\ Cmd("start").kind = "start"
  BY CmdKinds
<1>2. CASE StartImageRecovery(Cmd("start"))
  <2>1. PICK j \in Job :
          /\ \A i \in Job : jobs[i] = "none" <=> i >= j
          /\ jobs' = [jobs EXCEPT ![j] = "running"]
          /\ active' = j /\ pendingPause' = FALSE
    BY <1>2 DEF StartImageRecovery
  <2>2. UITyped
    BY <2>1, JobNumbers, <1>2
       DEF UITyped, RunStart, Runs, StartImageRecovery, uiVars, AppInv, TypeOK
  <2>3. jobs[j] = "none"
    BY <2>1, BoundsAssumption DEF Job
  <2>4. JobsAdvance
    BY <2>1, <2>3 DEF JobsAdvance, AppInv, TypeOK, Ended, JobStatus
  <2>5. Turns(Cmd("start"), Cmd("JobStarted")) /\ Cmd("JobStarted") \in Message
        /\ Cmd("JobStarted").kind = "JobStarted"
    BY <1>2, CmdKinds DEF StartImageRecovery
  <2> QED BY <2>2, <2>4, <2>5, TurningIsGood DEF Carrier, Report
<1>3. CASE StartFails(Cmd("start"))
  <2>1. Turns(Cmd("start"), Cmd("JobStartFailed")) /\ Cmd("JobStartFailed") \in Message
        /\ Cmd("JobStartFailed").kind = "JobStartFailed"
    BY <1>3, CmdKinds DEF StartFails
  <2>2. UITyped /\ JobsAdvance /\ active' = active /\ program' = program
    BY <1>3, UnchangedJobs
       DEF UITyped, RunStart, Runs, StartFails, uiVars, Shared, AppInv, TypeOK
  <2> QED BY <1>1, <2>1, <2>2, TurningIsGood DEF Carrier, Report
<1> QED BY <1>2, <1>3 DEF RunStart

LEMMA ResumeIsGood ==
  ASSUME AppInv, RunResume
  PROVE  Good
<1>1. /\ Cmd("resume").kind = "resume" /\ Cmd("Status") \in Message
      /\ Cmd("Status").kind = "Status" /\ Cmd("start") \in Command
      /\ Cmd("start").kind = "start"
  BY CmdKinds
<1>2. UITyped /\ JobsAdvance /\ active' = active /\ program' = program
  BY UnchangedJobs DEF UITyped, RunResume, Runs, uiVars, Shared, AppInv, TypeOK
<1>3. CASE active # 0
  BY <1>1, <1>2, <1>3, TurningIsGood DEF RunResume, Carrier, Report
<1>4. CASE active = 0
  BY <1>1, <1>2, <1>4, TurningIsGood DEF RunResume, Carrier, Report
<1> QED BY <1>3, <1>4

LEMMA StopCheckIsGood ==
  ASSUME AppInv, NEW kind \in {"pause", "stop"}, NEW call \in {"pauseCall", "stopCall"},
         NEW pause \in BOOLEAN, RunStopCheck(kind, call, pause)
  PROVE  Good
<1>1. /\ Cmd("Status") \in Message /\ Cmd("Status").kind = "Status"
      /\ Cmd(call) \in Command /\ Cmd(call).kind = call
  BY CmdKinds
<1>2. UITyped /\ JobsAdvance
  BY UnchangedJobs DEF UITyped, RunStopCheck, Runs, uiVars, AppInv, TypeOK
<1>3. CASE active = 0
  BY <1>1, <1>2, <1>3, TurningIsGood DEF RunStopCheck, Carrier, Report
<1>4. CASE active # 0
  BY <1>1, <1>2, <1>4, TurningIsGood DEF RunStopCheck, Carrier, Report
<1> QED BY <1>3, <1>4

LEMMA StopCallIsGood ==
  ASSUME AppInv, NEW call \in {"pauseCall", "stopCall"}, RunStopCall(call)
  PROVE  Good
<1>1. CASE active = 0
  BY <1>1, EndsIsGood DEF RunStopCall
<1>2. CASE active # 0
  <2>1. /\ Turns(Cmd(call), Cmd("Status"))
        /\ jobs' = [jobs EXCEPT ![active] = IF @ = "running" THEN "stopping" ELSE @]
        /\ UNCHANGED <<uiVars, active, pendingPause, program>>
    BY <1>2 DEF RunStopCall
  <2>2. UITyped
    BY <2>1 DEF UITyped, uiVars, AppInv, TypeOK
  <2>3. JobsAdvance
    BY <2>1 DEF JobsAdvance, AppInv, TypeOK, Ended, JobStatus
  <2>4. Cmd("Status") \in Message /\ Cmd("Status").kind = "Status"
    BY CmdKinds
  <2> QED BY <2>1, <2>2, <2>3, <2>4, TurningIsGood DEF Carrier, Report
<1> QED BY <1>1, <1>2

LEMMA StopNowIsGood ==
  ASSUME AppInv, RunStopNow
  PROVE  Good
<1>1. UITyped /\ JobsAdvance /\ active' = active /\ program' = program
  BY UnchangedJobs DEF RunStopNow, Runs, UITyped, uiVars, Shared, AppInv, TypeOK
<1>2. Cmd("stopNow").kind = "stopNow"
  BY CmdKinds
<1>3. PICK d \in Command \cup Message :
        Turns(Cmd("stopNow"), d) /\ d.kind \in {"Status", "forceCheck"}
  <2>1. active = 0 \/ active \in Job
    BY JobNumbers DEF AppInv, TypeOK
  <2> QED BY <2>1, CmdKinds DEF RunStopNow
<1> QED BY <1>1, <1>2, <1>3, TurningIsGood DEF Carrier, Report

LEMMA ForceCheckIsGood ==
  ASSUME AppInv, NEW j \in Job, RunForceCheck(j)
  PROVE  Good
<1>1. UITyped /\ JobsAdvance /\ active' = active /\ program' = program
  BY UnchangedJobs DEF RunForceCheck, Runs, UITyped, uiVars, Shared, AppInv, TypeOK
<1>2. JobCmd("forceCheck", j).kind = "forceCheck"
  BY CmdKinds
<1>3. PICK d \in Command \cup Message :
        Turns(JobCmd("forceCheck", j), d) /\ d.kind \in {"Status", "forceCall"}
  BY CmdKinds DEF RunForceCheck
<1> QED BY <1>1, <1>2, <1>3, TurningIsGood DEF Carrier, Report

LEMMA ForceStopIsGood ==
  ASSUME AppInv, NEW j \in Job, RunForceStop(j)
  PROVE  Good
<1>1. UITyped
  BY DEF RunForceStop, Runs, UITyped, uiVars, AppInv, TypeOK
<1>2. JobsAdvance
  BY DEF RunForceStop, JobsAdvance, AppInv, TypeOK, Ended, JobStatus
<1>3. Turns(JobCmd("forceCall", j), Cmd("Status")) /\ Cmd("Status") \in Message
      /\ Cmd("Status").kind = "Status"
  BY CmdKinds DEF RunForceStop
<1> QED BY <1>1, <1>2, <1>3, TurningIsGood DEF Carrier, Report

LEMMA PollTickIsGood ==
  ASSUME AppInv, PollTick
  PROVE  Good
<1>1. UITyped /\ JobsAdvance /\ active' = active
  BY UnchangedJobs DEF PollTick, Runs, UITyped, uiVars, Shared, AppInv, TypeOK
<1>2. CASE active = 0
  BY <1>1, <1>2, DoneIsGood DEF PollTick
<1>3. CASE active # 0
  <2>1. active \in Job
    BY <1>3, JobNumbers DEF AppInv, TypeOK
  <2>2. JobCmd("polling", active) \in Command /\ JobCmd("polling", active).kind = "polling"
    BY <2>1, CmdKinds
  <2> QED BY <1>1, <1>3, <2>2, TurningIsGood DEF PollTick, Carrier, Report
<1> QED BY <1>2, <1>3

LEMMA PollReportIsGood ==
  ASSUME AppInv, NEW j \in Job, PollReport(j)
  PROVE  Good
<1> DEFINE poll == JobCmd("polling", j)
<1>1. UITyped /\ JobsAdvance
  <2>1. JobsAdvance
    <3>1. CASE UNCHANGED jobs
      BY <3>1, UnchangedJobs
    <3>2. CASE Ended(j) /\ Forget(j)
      BY <3>2 DEF Forget, JobsAdvance, JobStatus, Ended, AppInv, TypeOK
    <3> QED BY <3>1, <3>2 DEF PollReport
  <2>2. active' \in {0, active} /\ pendingPause' \in {FALSE, pendingPause}
    BY DEF PollReport
  <2>3. UNCHANGED <<uiVars, program>>
    BY DEF PollReport, Runs
  <2> QED BY <2>1, <2>2, <2>3, JobNumbers DEF UITyped, uiVars, AppInv, TypeOK
<1>2. CASE Ended(j)
  <2>1. PICK kind \in {"JobPaused", "JobStopped"} :
          Turns(poll, JobCmd(kind, j)) /\ active' = 0
    BY <1>2 DEF PollReport
  <2>2. JobCmd(kind, j) \in Message /\ JobCmd(kind, j).job = j
    BY CmdKinds
  <2> QED BY <1>1, <1>2, <2>1, <2>2, TurningIsGood
<1>3. CASE ~Ended(j)
  <2>1. PICK b \in BOOLEAN : Turns(poll, [kind |-> "Progress", forceAvailable |-> b])
    <3>1. CanForceStop(j) \in BOOLEAN
      BY DEF CanForceStop
    <3> QED BY <1>3, <3>1 DEF PollReport
  <2>2. [kind |-> "Progress", forceAvailable |-> b] \in Message
    BY CmdKinds
  <2> QED BY <1>1, <2>1, <2>2, TurningIsGood DEF Carrier, Report
<1> QED BY <1>2, <1>3

LEMMA UpdateIsGood ==
  ASSUME AppInv, NEW m \in Message, Update(m)
  PROVE  Good
<1>1. /\ UNCHANGED <<Shared, program>> /\ FollowUp(m) /\ m.kind \in
           {"JobStarted", "JobPaused", "JobStartFailed", "Progress", "Status", "JobStopped"}
  BY DEF Update, Handles, UpdateJobStarted, UpdateJobPaused, UpdateJobStartFailed,
         UpdateProgress, UpdateStatus, UpdateJobStopped
<1>2. UITyped
  <2>1. m.kind = "Progress" => m.forceAvailable \in BOOLEAN
    BY DEF Message
  <2>2. page' \in Page /\ previousPage' \in Page /\ forceAvailable' \in BOOLEAN
    BY <2>1 DEF Update, UpdateJobStarted, UpdateJobPaused, UpdateJobStartFailed,
         UpdateProgress, UpdateStatus, UpdateJobStopped, GoTo, Page, uiVars, AppInv, TypeOK
  <2> QED BY <1>1, <2>2 DEF UITyped, Shared, AppInv, TypeOK
<1>3. JobsAdvance
  BY <1>1, UnchangedJobs DEF Shared
<1>4. CASE active # 0 /\ m.kind \in {"JobStarted", "JobPaused", "Progress", "Status"}
  <2>1. Turns(m, Cmd("poll")) /\ Cmd("poll") \in Command /\ Cmd("poll").kind = "poll"
    BY <1>1, <1>4, CmdKinds DEF FollowUp
  <2> QED BY <1>2, <1>3, <2>1, TurningIsGood DEF Carrier, Report
<1>5. CASE ~(active # 0 /\ m.kind \in {"JobStarted", "JobPaused", "Progress", "Status"})
  <2>1. Done(m)
    BY <1>1, <1>5 DEF FollowUp
  <2>2. active' = 0 \/ (active' = active /\ program' = program /\ m.kind \notin Carrier)
    BY <1>1, <1>5 DEF Shared, Carrier
  <2> QED BY <1>2, <1>3, <2>1, <2>2, DoneIsGood
<1> QED BY <1>4, <1>5

(* Steps that leave the flight alone. *)
LEMMA QuietIsGood ==
  ASSUME AppInv, UITyped, JobsAdvance, UNCHANGED <<flight, active, program>>
  PROVE  Good
<1>1. Flies(flight')
  BY DEF Flies, AppInv, TypeOK
<1>2. ReportsJustified
  BY DEF ReportsJustified
<1>3. CarrierLeft
  BY DEF CarrierLeft, AppInv, ActiveJobIsPolled, Carrier
<1> QED BY <1>1, <1>2, <1>3 DEF Good

LEMMA JobStepIsGood ==
  ASSUME AppInv, JobStep
  PROVE  Good
<1>1. UITyped /\ UNCHANGED <<flight, active, program>>
  BY DEF JobStep, JobEscalates, JobEnds, UITyped, uiVars, AppInv, TypeOK
<1>2. JobsAdvance
  BY BoundsAssumption
     DEF JobStep, JobEscalates, JobEnds, JobsAdvance, AppInv, TypeOK, Ended, JobStatus
<1> QED BY <1>1, <1>2, QuietIsGood

LEMMA StepIsGood ==
  ASSUME AppInv, [Next]_vars
  PROVE  Good
<1>1. CASE SetupAnswer
  <2>1. UITyped /\ JobsAdvance /\ UNCHANGED <<flight, active, program>>
    BY <1>1, UnchangedJobs DEF SetupAnswer, GoTo, Page, Shared, UITyped, AppInv, TypeOK
  <2> QED BY <2>1, QuietIsGood
<1>2. CASE UNCHANGED vars
  <2>1. UITyped /\ JobsAdvance /\ UNCHANGED <<flight, active, program>>
    BY <1>2, UnchangedJobs DEF vars, uiVars, UITyped, AppInv, TypeOK
  <2> QED BY <2>1, QuietIsGood
<1>3. CASE SnapshotRace
  BY <1>3, EndsIsGood DEF SnapshotRace
<1>4. CASE CommandStep
  BY <1>4, StartIsGood, ResumeIsGood, StopCheckIsGood, StopCallIsGood, StopNowIsGood,
     ForceCheckIsGood, ForceStopIsGood, PollTickIsGood, PollReportIsGood DEF CommandStep, RunPause, RunStop
<1>5. ASSUME NEW m \in DOMAIN flight, Update(m) PROVE Good
  <2>1. m \in Message
    BY <1>5 DEF Update, UpdateJobStarted, UpdateJobPaused, UpdateJobStartFailed,
         UpdateProgress, UpdateStatus, UpdateJobStopped, AppInv, TypeOK, Command
  <2> QED BY <1>5, <2>1, UpdateIsGood
<1> QED BY <1>1, <1>2, <1>3, <1>4, <1>5, KeyIsGood, JobStepIsGood DEF Next, Over

----------------------------------------------------------------------------

LEMMA AppInvInit == Init => AppInv
<1> SUFFICES ASSUME Init PROVE AppInv
  OBVIOUS
<1>1. IsABag(flight) /\ DOMAIN flight = {}
  BY DEF Init, EmptyBag, SetToBag, IsABag
<1>2. TypeOK
  BY <1>1, JobNumbers DEF Init, TypeOK, Page, JobStatus
<1>3. ActiveJobIsPolled /\ ReportsAreFinal
  BY <1>1 DEF Init, ActiveJobIsPolled, ReportsAreFinal
<1> QED BY <1>2, <1>3 DEF AppInv

(* The inductive invariant of the user interface of a recovery. *)
THEOREM AppInvariant == Spec => []AppInv
<1>1. AppInv /\ [Next]_vars => AppInv'
  BY StepIsGood, GoodSuffices
<1> QED BY <1>1, AppInvInit, PTL DEF Spec

(* A tick never polls a nil recovery, and what is under way is a bag of    *)
(* commands and messages.                                                  *)
THEOREM AppTypeCorrect == Spec => []TypeOK
<1>1. AppInv => TypeOK
  BY DEF AppInv
<1> QED BY <1>1, AppInvariant, PTL

(* Any number of jobs started over each other, of chains of polls, and of  *)
(* pauses and stops whose answers come in any order: while a job is        *)
(* active, something is under way that leads to a poll of it.              *)
THEOREM ActiveJobsArePolled == Spec => []ActiveJobIsPolled
<1>1. AppInv => ActiveJobIsPolled
  BY DEF AppInv
<1> QED BY <1>1, AppInvariant, PTL

(* No answer of a poll tells the user that a job is paused or stopped      *)
(* while it still reads the drive and writes the image.                    *)
THEOREM ReportedJobsAreOver == Spec => []ReportsAreFinal
<1>1. AppInv => ReportsAreFinal
  BY DEF AppInv
<1> QED BY <1>1, AppInvariant, PTL
=============================================================================
