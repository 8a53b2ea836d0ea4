------------------------------ MODULE AppSetup ------------------------------
(***************************************************************************)
(* The pages that set a recovery up: finding drives, choosing one,         *)
(* inspecting its disc, looking for earlier work on it, checking an output *)
(* target, and ejecting.                                                   *)
(*                                                                         *)
(* Every request runs in a goroutine of its own and its answer comes at    *)
(* any later time, on any page.  A request carries an id, and its answer   *)
(* is looked at only if that is the id last given to a request of its      *)
(* kind; an eject and a start carry none.                                  *)
(*                                                                         *)
(* A drive is known by its path (toDeviceSummaries sets no other id and no *)
(* media token).  The geometry of the inspected disc is abstracted to the  *)
(* drive and the request it was read with; a target or a saved recovery,   *)
(* to the geometry it was checked against; the output path, to whether it  *)
(* is being edited.  A disc that cannot be recovered only disables two     *)
(* rows; that is left open.  The pages of a running recovery are one page. *)
(***************************************************************************)
EXTENDS Naturals, Sequences, FiniteSets

CONSTANTS Drives,
          MaxRequests,     \* bound: request ids given out
          MaxEffects,      \* bound: ejects and starts requested
          MaxSaved         \* bound: saved recoveries a search finds

VARIABLES
    setupPage,             \* Page
    previousSetupPage,     \* PreviousPage; "Discover" is its zero value
    cursor,                \* Cursor
    devices,               \* Devices
    selected,              \* SelectedDrive
    media,                 \* media data: drive and id of the inspection
    savedJobs,             \* ResumeJobs: how many, and checked against what
    resume,                \* Setup.ResumeReady: what its map was checked against
    editing,               \* Setup.OutputEditing
    preserved,             \* EjectedDrive, while PreserveEjectedDrive
    current,               \* Active...Request, by kind
    lastRequest,           \* NextRequestID - 1
    asked,                 \* requests under way
    effects                \* ejects and starts requested so far

setupVars == <<setupPage, previousSetupPage, cursor, devices, selected, media,
               savedJobs, resume, editing, preserved, current,
               lastRequest, asked, effects>>

SetupPage == {"Discover", "NoDrives", "DiscoveryError", "ChooseDrive",
              "InspectingMedia", "PriorProcessing", "ChooseAction",
              "ChooseOutput", "Review", "ResumeJobs", "History",
              "EjectConfirm", "Details", "Recovery", "Quit"}

Kind == {"discovery", "media", "lookup", "target", "resume", "history"}

NoDrive == "none"

ASSUME SetupAssumption == NoDrive \notin Drives    \* a drive's path is not empty

NoMedia == [drive |-> NoDrive, id |-> 0]

NoJobs == [n |-> 0, basis |-> NoMedia]

(* The lists a discovery may return. *)
DeviceLists ==
    {s \in UNION {[1 .. n -> Drives] : n \in 0 .. Cardinality(Drives)} :
        \A i, j \in DOMAIN s : s[i] = s[j] => i = j}

----------------------------------------------------------------------------

SetupInit ==
    /\ setupPage = "Discover" /\ previousSetupPage = "Discover"
    /\ cursor = 0
    /\ devices = <<>>
    /\ selected = NoDrive /\ media = NoMedia
    /\ savedJobs = NoJobs /\ resume = NoMedia
    /\ editing = FALSE
    /\ preserved = NoDrive
    /\ lastRequest = 1
    /\ current = [k \in Kind |-> IF k = "discovery" THEN 1 ELSE 0]
    /\ asked = {[kind |-> "discovery", id |-> 1, basis |-> NoMedia]}
    /\ effects = 0

(* The next request of a kind, made with the given geometry, in place of   *)
(* the requests in drop; current as it is except for that.                 *)
Ask(kind, basis, unanswered) ==
    /\ lastRequest < MaxRequests
    /\ lastRequest' = lastRequest + 1
    /\ asked' = unanswered \cup {[kind |-> kind, id |-> lastRequest + 1, basis |-> basis]}
    /\ current' = [current EXCEPT ![kind] = lastRequest + 1]

Goto(p, c) == setupPage' = p /\ cursor' = c

requestVars == <<current, lastRequest, asked, effects>>
mediaVars == <<selected, media>>
setupDataVars == <<savedJobs, resume, editing>>

(* Mutant: the new request is not noted as the current one. *)
BeginDiscoveryUnnoted(unanswered) ==
    /\ setupPage' = "Discover"
    /\ lastRequest < MaxRequests
    /\ lastRequest' = lastRequest + 1
    /\ asked' = unanswered \cup
                  {[kind |-> "discovery", id |-> lastRequest + 1, basis |-> NoMedia]}
    /\ current' = [current EXCEPT !["media"] = 0]

BeginDiscovery(unanswered) ==
    /\ setupPage' = "Discover"
    /\ lastRequest < MaxRequests
    /\ lastRequest' = lastRequest + 1
    /\ asked' = unanswered \cup
                  {[kind |-> "discovery", id |-> lastRequest + 1, basis |-> NoMedia]}
    /\ current' = [current EXCEPT !["discovery"] = lastRequest + 1, !["media"] = 0]

----------------------------------------------------------------------------
(* Keys: choosing a drive, refreshing, ejecting. *)

RefreshKey ==
    /\ setupPage \in {"Discover", "NoDrives", "DiscoveryError", "ChooseDrive"}
    /\ BeginDiscovery(asked)
    /\ UNCHANGED <<previousSetupPage, cursor, devices, mediaVars, setupDataVars,
                   preserved, effects>>

(* Other keys go to the list of drives, and the cursor follows the row     *)
(* that is highlighted there, which the pages do not reset with it.        *)
ListKey ==
    /\ setupPage = "ChooseDrive"
    /\ cursor' \in {i - 1 : i \in DOMAIN devices} \cup {0}
    /\ UNCHANGED <<setupPage, previousSetupPage, devices, mediaVars, setupDataVars,
                   preserved, requestVars>>

LastRow == CASE setupPage \in {"ChooseAction", "Review"} -> 3
             [] setupPage = "EjectConfirm"               -> 1
             [] setupPage = "ResumeJobs"                 -> savedJobs.n
             [] OTHER                                    -> 2

(* While a text is edited the output page keeps most keys to itself; the   *)
(* other pages do not look at that.                                        *)
Typing == setupPage = "ChooseOutput" /\ editing

(* The other pages with rows. *)
CursorKey ==
    /\ setupPage \in {"ChooseAction", "PriorProcessing", "Review", "ResumeJobs",
                      "ChooseOutput", "EjectConfirm"}
    /\ ~Typing
    /\ cursor' \in 0 .. LastRow
    /\ UNCHANGED <<setupPage, previousSetupPage, devices, mediaVars, setupDataVars,
                   preserved, requestVars>>

(* The drive chosen is the one at the cursor; a cursor behind the list     *)
(* would end the program.                                                  *)
SelectDrive ==
    /\ setupPage = "ChooseDrive" /\ cursor + 1 \in DOMAIN devices
    /\ selected' = devices[cursor + 1]
    /\ setupPage' = "InspectingMedia"
    /\ Ask("media", [drive |-> selected', id |-> lastRequest + 1], asked)
    /\ UNCHANGED <<previousSetupPage, cursor, devices, media,
                   setupDataVars, preserved, effects>>

InspectAgain ==
    /\ setupPage = "InspectingMedia" /\ selected # NoDrive
    /\ Ask("media", [drive |-> selected, id |-> lastRequest + 1], asked)
    /\ UNCHANGED <<setupPage, previousSetupPage, cursor, devices, mediaVars,
                   setupDataVars, preserved, effects>>

EjectTarget ==
    IF selected # NoDrive THEN selected
    ELSE IF cursor + 1 \in DOMAIN devices THEN devices[cursor + 1] ELSE NoDrive

AskEject(mode, drive) ==
    /\ effects < MaxEffects
    /\ effects' = effects + 1
    /\ asked' = asked \cup {[kind |-> mode, id |-> effects + 1,
                             basis |-> [drive |-> drive, id |-> 0]]}

EjectKey ==
    /\ setupPage = "ChooseDrive" /\ EjectTarget # NoDrive
    /\ AskEject("eject", EjectTarget)
    /\ UNCHANGED <<setupPage, previousSetupPage, cursor, devices, mediaVars,
                   setupDataVars, preserved, current, lastRequest>>

ForceEjectKey ==
    /\ setupPage = "ChooseDrive" /\ EjectTarget # NoDrive
    /\ selected' = EjectTarget
    /\ Goto("EjectConfirm", 0)
    /\ UNCHANGED <<previousSetupPage, devices, media, setupDataVars,
                   preserved, requestVars>>

EjectConfirmSelect ==
    /\ setupPage = "EjectConfirm"
    /\ IF cursor = 0 /\ selected # NoDrive
       THEN AskEject("forceEject", selected) /\ UNCHANGED <<setupPage, cursor>>
       ELSE Goto("ChooseDrive", 0) /\ UNCHANGED <<asked, effects>>
    /\ UNCHANGED <<previousSetupPage, devices, mediaVars, setupDataVars, preserved,
                   current, lastRequest>>

----------------------------------------------------------------------------
(* Keys: what to do with the disc. *)

Resume(jobs) ==
    /\ resume' = jobs.basis
    /\ Goto("Review", 0)

PriorProcessingSelect ==
    /\ setupPage = "PriorProcessing"
    /\ IF cursor = 0 /\ savedJobs.n = 1
       THEN Resume(savedJobs)
       ELSE /\ UNCHANGED resume
            /\ Goto(CASE cursor = 0 /\ savedJobs.n > 1 -> "ResumeJobs"
                      [] cursor = 2                    -> "ChooseDrive"
                      [] OTHER                         -> "ChooseAction", 0)
    /\ UNCHANGED <<previousSetupPage, devices, mediaVars, savedJobs, editing,
                   preserved, requestVars>>

StartNew ==
    /\ setupPage = "ChooseAction" /\ cursor = 0
    /\ resume' = NoMedia
    /\ previousSetupPage' = "ChooseAction"
    /\ Goto("ChooseOutput", 2)
    /\ editing' = FALSE
    /\ Ask("target", media, asked)
    /\ UNCHANGED <<devices, mediaVars, savedJobs, preserved, effects>>

ResumeUnfinished ==
    /\ setupPage = "ChooseAction" /\ cursor = 1
    /\ savedJobs' = NoJobs
    /\ Goto("ResumeJobs", 0)
    /\ Ask("resume", media, asked)
    /\ UNCHANGED <<previousSetupPage, devices, mediaVars, resume, editing,
                   preserved, effects>>

BrowseProcessed ==
    /\ setupPage = "ChooseAction" /\ cursor = 2
    /\ Goto("History", 0)
    /\ Ask("history", media, asked)
    /\ UNCHANGED <<previousSetupPage, devices, mediaVars, setupDataVars,
                   preserved, effects>>

ChooseAnotherDrive ==
    /\ setupPage \in {"ChooseAction", "Review"} /\ cursor = 3
    /\ Goto("ChooseDrive", 0)
    /\ UNCHANGED <<previousSetupPage, devices, mediaVars, setupDataVars,
                   preserved, requestVars>>

ResumeJobsSelect ==
    /\ setupPage = "ResumeJobs"
    /\ IF cursor < savedJobs.n
       THEN Resume(savedJobs)
       ELSE Goto("ChooseAction", 0) /\ UNCHANGED resume
    /\ UNCHANGED <<previousSetupPage, devices, mediaVars, savedJobs, editing,
                   preserved, requestVars>>

(* A row of the history, or the row behind the last. *)
HistorySelect ==
    /\ setupPage = "History"
    /\ \/ Goto("ChooseAction", 0) /\ UNCHANGED previousSetupPage
       \/ Goto("Details", cursor) /\ previousSetupPage' = "History"
    /\ UNCHANGED <<devices, mediaVars, setupDataVars, preserved, requestVars>>

(* The details of an error: its notice stays until the next one, on every  *)
(* page, but the pages with a list keep the key to themselves.             *)
DetailsOfError ==
    /\ setupPage \in {"Discover", "NoDrives", "DiscoveryError", "InspectingMedia",
                      "PriorProcessing", "ChooseOutput", "Review", "EjectConfirm"}
    /\ ~Typing
    /\ Goto("Details", cursor) /\ previousSetupPage' = setupPage
    /\ UNCHANGED <<devices, mediaVars, setupDataVars, preserved, requestVars>>

EditOutput ==
    /\ setupPage = "ChooseOutput" /\ cursor < 2 /\ ~editing
    /\ editing' = TRUE
    /\ UNCHANGED <<setupPage, previousSetupPage, cursor, devices, mediaVars,
                   savedJobs, resume, preserved, requestVars>>

(* Typing makes what was known of the target void. *)
TypeOutput ==
    /\ Typing
    /\ resume' = NoMedia
    /\ UNCHANGED <<setupPage, previousSetupPage, cursor, devices, mediaVars,
                   savedJobs, editing, preserved, requestVars>>

(* Tab goes to the other of the two fields; which one is edited is left    *)
(* open, the cursor may have been moved by an answer.                      *)
TabKey ==
    /\ Typing
    /\ cursor' \in {0, 1}
    /\ UNCHANGED <<setupPage, previousSetupPage, devices, mediaVars, setupDataVars,
                   preserved, requestVars>>

(* With Enter, or with the key that elsewhere goes back.                   *)
FinishEditing ==
    /\ Typing
    /\ editing' = FALSE
    /\ UNCHANGED <<setupPage, previousSetupPage, cursor, devices, mediaVars,
                   savedJobs, resume, preserved, requestVars>>

CheckTarget ==
    /\ setupPage = "ChooseOutput" /\ cursor >= 2 /\ ~editing
    /\ Ask("target", media, asked)
    /\ UNCHANGED <<setupPage, previousSetupPage, cursor, devices, mediaVars,
                   setupDataVars, preserved, effects>>

ChangeOutput ==
    /\ setupPage = "Review" /\ cursor = 2
    /\ previousSetupPage' = "Review"
    /\ Goto("ChooseOutput", 2)
    /\ editing' = FALSE
    /\ UNCHANGED <<devices, mediaVars, savedJobs, resume, preserved, requestVars>>

Start ==
    /\ setupPage = "Review" /\ cursor = 0
    /\ effects < MaxEffects
    /\ effects' = effects + 1
    /\ asked' = asked \cup {[kind |-> "start", id |-> effects + 1, basis |-> media]}
    /\ UNCHANGED <<setupPage, previousSetupPage, cursor, devices, mediaVars,
                   setupDataVars, preserved, current, lastRequest>>

(* The details and the stop question of a recovery remember its page, and  *)
(* only going back from the details forgets it again.                      *)
RecoveryKey ==
    /\ setupPage = "Recovery"
    /\ previousSetupPage' \in {"Recovery", "Discover"}
    /\ UNCHANGED <<setupPage, cursor, devices, mediaVars, setupDataVars, preserved,
                   requestVars>>

(* From the summary of a recovery to its disc or to the drives; its retry  *)
(* is AppRecovery's subject.                                               *)
LeaveRecovery ==
    /\ setupPage = "Recovery"
    /\ \E p \in {"ChooseAction", "ChooseDrive"} : Goto(p, 0)
    /\ UNCHANGED <<previousSetupPage, devices, mediaVars, setupDataVars,
                   preserved, requestVars>>

Remembered(default) ==
    IF previousSetupPage # "Discover"
    THEN setupPage' = previousSetupPage /\ previousSetupPage' = "Discover"
    ELSE setupPage' = default /\ UNCHANGED previousSetupPage

Back ==
    /\ \/ /\ setupPage \in {"ResumeJobs", "History"}
          /\ Remembered(setupPage)
          /\ UNCHANGED <<cursor, current, editing>>
       \/ /\ setupPage = "Details"
          /\ setupPage' = previousSetupPage /\ previousSetupPage' = "Discover"
          /\ UNCHANGED <<cursor, current, editing>>
       \/ /\ setupPage = "ChooseOutput" /\ ~editing
          /\ Remembered("ChooseAction")
          /\ UNCHANGED <<cursor, current, editing>>
       \/ /\ setupPage = "Review"
          /\ Goto("ChooseOutput", 2)
          /\ editing' = FALSE
          /\ UNCHANGED <<previousSetupPage, current>>
       \/ /\ setupPage = "EjectConfirm"
          /\ Goto("ChooseDrive", 0)
          /\ UNCHANGED <<previousSetupPage, current, editing>>
       \/ /\ setupPage \in {"ChooseAction", "PriorProcessing"}
          /\ setupPage' = "ChooseDrive"
          /\ UNCHANGED <<previousSetupPage, cursor, current, editing>>
       \/ /\ setupPage = "InspectingMedia"
          /\ setupPage' = "ChooseDrive"
          /\ current' = [current EXCEPT !["media"] = 0]
          /\ UNCHANGED <<previousSetupPage, cursor, editing>>
    /\ UNCHANGED <<devices, mediaVars, savedJobs, resume, preserved, lastRequest,
                   asked, effects>>

(* A page quits at once and nothing is kept; a recovery does so from its   *)
(* summary or when it asks whether to stop, and the output page takes the  *)
(* key for text.                                                           *)
QuitSetup ==
    /\ setupPage \notin {"ChooseOutput", "Quit"}
    /\ Goto("Quit", 0) /\ previousSetupPage' = "Discover"
    /\ devices' = <<>>
    /\ selected' = NoDrive /\ media' = NoMedia
    /\ savedJobs' = NoJobs /\ resume' = NoMedia /\ editing' = FALSE
    /\ preserved' = NoDrive
    /\ current' = [k \in Kind |-> 0] /\ lastRequest' = 0 /\ asked' = {}
    /\ effects' = 0

SetupKey ==
    \/ RefreshKey \/ ListKey \/ CursorKey \/ SelectDrive \/ InspectAgain
    \/ EjectKey \/ ForceEjectKey \/ EjectConfirmSelect
    \/ PriorProcessingSelect \/ StartNew \/ ResumeUnfinished \/ BrowseProcessed
    \/ ChooseAnotherDrive \/ ResumeJobsSelect \/ HistorySelect \/ DetailsOfError
    \/ EditOutput \/ TypeOutput \/ TabKey \/ FinishEditing \/ CheckTarget \/ ChangeOutput
    \/ Start \/ RecoveryKey \/ LeaveRecovery \/ Back \/ QuitSetup

----------------------------------------------------------------------------
(* Answers. *)

Unanswered(request) == asked \ {request}

Answers(request, kind) == request \in asked /\ request.kind = kind

Current(request) == request.id = current[request.kind]

(* An answer to any but the last request of its kind changes nothing.      *)
StaleAnswer(request) ==
    /\ request \in asked /\ request.kind \in Kind /\ ~Current(request)
    /\ asked' = Unanswered(request)
    /\ UNCHANGED <<setupPage, previousSetupPage, cursor, devices, mediaVars,
                   setupDataVars, preserved, current, lastRequest, effects>>

(* reconcileDevices: a selection stays while its drive is listed. *)
Reconciled(list, drive) == IF \E i \in DOMAIN list : list[i] = drive THEN drive ELSE NoDrive

DevicesDiscovered(request) ==
    /\ Answers(request, "discovery") /\ Current(request)
    /\ asked' = Unanswered(request)
    /\ \E found \in DeviceLists :
        LET drive == IF selected = NoDrive THEN preserved ELSE selected IN
        /\ devices' = IF found = <<>> /\ preserved # NoDrive THEN <<drive>> ELSE found
        /\ selected' = Reconciled(devices', drive)
        /\ IF preserved # NoDrive \/ selected' # drive
           THEN media' = NoMedia /\ current' = [current EXCEPT !["media"] = 0]
           ELSE UNCHANGED <<media, current>>
        /\ preserved' = NoDrive
        /\ Goto(IF devices' = <<>> THEN "NoDrives" ELSE "ChooseDrive", 0)
    /\ UNCHANGED <<previousSetupPage, setupDataVars, lastRequest, effects>>

DiscoveryFailed(request) ==
    /\ Answers(request, "discovery") /\ Current(request)
    /\ asked' = Unanswered(request)
    /\ setupPage' = "DiscoveryError"
    /\ UNCHANGED <<previousSetupPage, cursor, devices, mediaVars, setupDataVars,
                   preserved, current, lastRequest, effects>>

(* Mutant: whichever inspection answers is that of the selected drive. *)
MediaIdentifiedUnchecked(request) ==
    /\ Answers(request, "media")
    /\ media' = request.basis
    /\ Goto("ChooseAction", 0)
    /\ Ask("lookup", media', Unanswered(request))
    /\ UNCHANGED <<previousSetupPage, devices, selected, setupDataVars, preserved,
                   effects>>

MediaIdentified(request) ==
    /\ Answers(request, "media") /\ Current(request)
    /\ media' = request.basis
    /\ Goto("ChooseAction", 0)
    /\ Ask("lookup", media', Unanswered(request))
    /\ UNCHANGED <<previousSetupPage, devices, selected, setupDataVars, preserved,
                   effects>>

InspectionFailed(request) ==
    /\ Answers(request, "media") /\ Current(request)
    /\ asked' = Unanswered(request)
    /\ setupPage' = "InspectingMedia"
    /\ UNCHANGED <<previousSetupPage, cursor, devices, mediaVars, setupDataVars,
                   preserved, current, lastRequest, effects>>

Found(n, request) == [n |-> n, basis |-> IF n = 0 THEN NoMedia ELSE request.basis]

(* The page of prior work is opened from whatever page is shown.           *)
PriorProcessingLookup(request) ==
    /\ Answers(request, "lookup") /\ Current(request)
    /\ asked' = Unanswered(request)
    /\ \E n \in 0 .. MaxSaved :
        /\ savedJobs' = Found(n, request)
        /\ IF n > 0 THEN Goto("PriorProcessing", 0) ELSE UNCHANGED <<setupPage, cursor>>
    /\ UNCHANGED <<previousSetupPage, devices, mediaVars, resume, editing, preserved,
                   current, lastRequest, effects>>

(* So is the review of a target that is free or can be resumed; one that   *)
(* is neither leads back to the choice.                                    *)
RecoveryTargetInspected(request) ==
    /\ Answers(request, "target") /\ Current(request)
    /\ asked' = Unanswered(request)
    /\ \/ resume' = NoMedia /\ setupPage' = "ChooseOutput" /\ UNCHANGED cursor
       \/ resume' \in {NoMedia, request.basis} /\ Goto("Review", 0)
    /\ UNCHANGED <<previousSetupPage, devices, mediaVars, savedJobs, editing,
                   preserved, current, lastRequest, effects>>

ResumableJobsDiscovered(request) ==
    /\ Answers(request, "resume") /\ Current(request)
    /\ asked' = Unanswered(request)
    /\ \E n \in 0 .. MaxSaved :
        savedJobs' = Found(n, request) /\ Goto("ResumeJobs", 0)
    /\ UNCHANGED <<previousSetupPage, devices, mediaVars, resume, editing, preserved,
                   current, lastRequest, effects>>

ProcessedMediaDiscovered(request) ==
    /\ Answers(request, "history") /\ Current(request)
    /\ asked' = Unanswered(request)
    /\ Goto("History", 0)
    /\ UNCHANGED <<previousSetupPage, devices, mediaVars, setupDataVars, preserved,
                   current, lastRequest, effects>>

(* The searches fail back to the choice of what to do. *)
SearchFailed(request) ==
    /\ request \in asked /\ request.kind \in {"lookup", "resume", "history"}
    /\ Current(request)
    /\ asked' = Unanswered(request)
    /\ Goto("ChooseAction", IF request.kind = "lookup" THEN 0 ELSE cursor)
    /\ savedJobs' = IF request.kind = "resume" THEN NoJobs ELSE savedJobs
    /\ UNCHANGED <<previousSetupPage, devices, mediaVars, resume, editing, preserved,
                   current, lastRequest, effects>>

(* An eject carries no id: its end takes effect on any page, and is taken  *)
(* for the end of an eject of the drive that is selected by then.          *)
EjectCompleted(request) ==
    /\ request \in asked /\ request.kind \in {"eject", "forceEject"}
    /\ preserved' = EjectTarget
    /\ BeginDiscovery(Unanswered(request))
    /\ UNCHANGED <<previousSetupPage, cursor, devices, mediaVars, setupDataVars,
                   effects>>

EjectFailed(request) ==
    /\ request \in asked /\ request.kind \in {"eject", "forceEject"}
    /\ asked' = Unanswered(request)
    /\ Goto(IF request.kind = "eject" THEN "EjectConfirm" ELSE "ChooseDrive", 0)
    /\ UNCHANGED <<previousSetupPage, devices, mediaVars, setupDataVars, preserved,
                   current, lastRequest, effects>>

StartAnswered(request) ==
    /\ Answers(request, "start")
    /\ asked' = Unanswered(request)
    /\ \/ Goto("Recovery", 0)
       \/ setupPage' = "ChooseOutput" /\ UNCHANGED cursor
    /\ UNCHANGED <<previousSetupPage, devices, mediaVars, setupDataVars, preserved,
                   current, lastRequest, effects>>

SetupAnswered(request) ==
    \/ StaleAnswer(request)
    \/ DevicesDiscovered(request) \/ DiscoveryFailed(request)
    \/ MediaIdentified(request) \/ InspectionFailed(request)
    \/ PriorProcessingLookup(request) \/ RecoveryTargetInspected(request)
    \/ ResumableJobsDiscovered(request) \/ ProcessedMediaDiscovered(request)
    \/ SearchFailed(request)
    \/ EjectCompleted(request) \/ EjectFailed(request) \/ StartAnswered(request)

SetupNext ==
    \/ SetupKey
    \/ \E request \in asked : SetupAnswered(request)
    \/ setupPage = "Quit" /\ UNCHANGED setupVars

SetupSpec == SetupInit /\ [][SetupNext]_setupVars

----------------------------------------------------------------------------
(***************************************************************************)
(* Properties.                                                             *)
(***************************************************************************)

(* Whatever answers come late and in whatever order, and whatever drives   *)
(* appear, go and are ejected: the geometry a recovery would read with     *)
(* changes only to that of the selected drive, and is dropped with the     *)
(* selection (reconcileDevices, updateMediaIdentified).                    *)
MediaFollowsSelection ==
    [][/\ selected' # NoDrive => \E i \in DOMAIN devices' : devices'[i] = selected'
       /\ selected' = NoDrive => media' = NoMedia
       /\ media' \notin {media, NoMedia} => media'.drive = selected']_setupVars

(* "Finding drives" is not a dead end: whichever key, eject or stale       *)
(* answer led to the page, the answer that leaves it is under way.         *)
DiscoveryIsAnswered ==
    setupPage = "Discover" =>
        \E request \in asked : request.kind = "discovery" /\ Current(request)

(* docs/architecture/device-refresh.md: the current media is inspected     *)
(* again before resume and history decisions are available, so what these  *)
(* pages offer was checked against the disc in the selected drive.         *)
InspectedBeforeResume ==
    LET Checked(basis) == basis = media /\ basis.drive = selected IN
    /\ setupPage = "PriorProcessing" => Checked(savedJobs.basis)
    /\ setupPage = "ResumeJobs" /\ savedJobs.n > 0 => Checked(savedJobs.basis)
    /\ setupPage = "Review" /\ resume # NoMedia => Checked(resume)
=============================================================================
