------------------------------- MODULE Startup -------------------------------
(***************************************************************************)
(* Starting a recovery (platform/recovery_map_*.go, recoverymap.Create,    *)
(* StartupTransaction): look at the output path, create image and map or   *)
(* open the pair that is there, and take back what a failed start made.    *)
(*                                                                         *)
(* Starts run in goroutines and in processes of their own; every system    *)
(* call on a path is a step.  "disc.iso" and "disc" have one map path, so  *)
(* all outputs here share the map.  Linux and the other two systems differ *)
(* in when the new image is tracked and in what is checked on a resume.    *)
(***************************************************************************)
EXTENDS Naturals

CONSTANTS Starters,           \* calls of StartImageRecovery at one time
          Outputs             \* output paths with the same map path

ASSUME StartupAssumption == "none" \notin Outputs

VARIABLES system,             \* the adapter: "linux" or "native"
          images,             \* what is at each output path
          mapFile,            \* what is at the map path
          starts,             \* the calls under way and the jobs they began
          established,        \* history: outputs whose start was committed
          left                \* history: outputs whose image was left alone

startupVars == <<system, images, mapFile, starts, established, left>>

NoMap == [of |-> "none", whole |-> FALSE, claims |-> FALSE]

NoStart == [at |-> "idle", output |-> "none", sawImage |-> FALSE]

StartupInit ==
    /\ system \in {"linux", "native"}
    /\ images = [o \in Outputs |-> "none"]
    /\ mapFile = NoMap
    /\ starts = [p \in Starters |-> NoStart]
    /\ established = {} /\ left = {}

At(p, location) == starts[p].at = location

Output(p) == starts[p].output

MovesTo(p, location) == starts' = [starts EXCEPT ![p].at = location]

Returns(p) == starts' = [starts EXCEPT ![p] = NoStart]

FilesStay == UNCHANGED <<images, mapFile, established, left>>

----------------------------------------------------------------------------
(* InspectRecoveryTarget: one look at each path. *)

StatOutput(p) ==
    /\ At(p, "idle")
    /\ \E o \in Outputs :
         starts' = [starts EXCEPT ![p] = [at |-> "statMap", output |-> o,
                                          sawImage |-> images[o] # "none"]]
    /\ FilesStay

CanStartNew(p) == ~starts[p].sawImage /\ mapFile = NoMap

(* Linux does not compare the length of the image with the map's claims.   *)
CanResume(p) ==
    /\ starts[p].sawImage /\ mapFile.whole
    /\ system = "native" => images[Output(p)] = "sized" \/ ~mapFile.claims

(* The other systems go on only if the drive can be opened. *)
InspectRecoveryTarget(p) ==
    /\ At(p, "statMap")
    /\ \/ CanStartNew(p) /\ MovesTo(p, "create")
       \/ CanResume(p) /\ MovesTo(p, "openMap")
       \/ ~CanStartNew(p) /\ ~CanResume(p) /\ Returns(p)
       \/ system = "native" /\ Returns(p)
    /\ FilesStay

----------------------------------------------------------------------------
(* A new pair. *)

(* Mutant: the image is created whether or not there is one by now. *)
CreateOutputOver(p) ==
    /\ At(p, "create")
    /\ images' = [images EXCEPT ![Output(p)] = "empty"]
    /\ MovesTo(p, "truncate")
    /\ UNCHANGED <<mapFile, established, left>>

(* O_EXCL: what is there by now is not touched. *)
CreateOutput(p) ==
    /\ At(p, "create")
    /\ \/ /\ images[Output(p)] = "none"
          /\ images' = [images EXCEPT ![Output(p)] = "empty"]
          /\ MovesTo(p, "truncate")
       \/ Returns(p) /\ UNCHANGED images
    /\ UNCHANGED <<mapFile, established, left>>

TruncateOutput(p) ==
    /\ At(p, "truncate")
    /\ images' = [images EXCEPT ![Output(p)] = "sized"]
    /\ MovesTo(p, "createMap")
    /\ UNCHANGED <<mapFile, established, left>>

(* On Linux the image is tracked after this, and stays. *)
TruncateFails(p) ==
    /\ At(p, "truncate")
    /\ IF system = "linux"
       THEN Returns(p) /\ left' = left \cup {Output(p)}
       ELSE MovesTo(p, "rollback") /\ UNCHANGED left
    /\ UNCHANGED <<images, mapFile, established>>

CreateMap(p) ==
    /\ At(p, "createMap")
    /\ \/ /\ mapFile = NoMap
          /\ mapFile' = [NoMap EXCEPT !.of = Output(p)]
          /\ MovesTo(p, "writeMap")
       \/ MovesTo(p, "rollback") /\ UNCHANGED mapFile
    /\ UNCHANGED <<images, established, left>>

WriteMap(p) ==
    /\ At(p, "writeMap")
    /\ \/ mapFile' = [mapFile EXCEPT !.whole = TRUE] /\ MovesTo(p, "syncMap")
       \/ MovesTo(p, "abortCreate") /\ UNCHANGED mapFile
    /\ UNCHANGED <<images, established, left>>

(* The map is durable: the start commits and the job begins. *)
SyncMap(p) ==
    /\ At(p, "syncMap")
    /\ \/ MovesTo(p, "openOutput") /\ established' = established \cup {Output(p)}
       \/ MovesTo(p, "abortCreate") /\ UNCHANGED established
    /\ UNCHANGED <<images, mapFile, left>>

(* Files are removed by their paths, whoever made them. *)
AbortCreate(p) ==
    /\ At(p, "abortCreate")
    /\ mapFile' = NoMap
    /\ MovesTo(p, "rollback")
    /\ UNCHANGED <<images, established, left>>

Rollback(p) ==
    /\ At(p, "rollback")
    /\ images' = [images EXCEPT ![Output(p)] = "none"]
    /\ Returns(p)
    /\ UNCHANGED <<mapFile, established, left>>

----------------------------------------------------------------------------
(* The pair that is there, and the job. *)

OpenMap(p) ==
    /\ At(p, "openMap")
    /\ \/ mapFile.whole /\ MovesTo(p, "openOutput")
       \/ Returns(p)
    /\ FilesStay

(* The job opens the image without O_EXCL: one removed meanwhile, by the   *)
(* rollback of the start that made it, is made anew without its map.       *)
OpenOutput(p) ==
    /\ At(p, "openOutput")
    /\ images' = [images EXCEPT ![Output(p)] = "sized"]
    /\ left' = IF images[Output(p)] = "none" THEN left \cup {Output(p)} ELSE left
    /\ MovesTo(p, "running")
    /\ UNCHANGED <<mapFile, established>>

(* A map that was taken away under the job is written to no more path. *)
Recover(p) ==
    /\ At(p, "running")
    /\ mapFile' = [mapFile EXCEPT !.claims = mapFile.whole]
    /\ UNCHANGED <<images, starts, established, left>>

(* The job ends; it may also fail before it opened its image. *)
EndJob(p) ==
    /\ At(p, "openOutput") \/ At(p, "running")
    /\ Returns(p)
    /\ FilesStay

(* Where a start has an image that it would still take back. *)
Making == {"truncate", "createMap", "writeMap", "syncMap", "abortCreate", "rollback"}

(* The process dies, and a start under way leaves what it has made. *)
Kill(p) ==
    /\ ~At(p, "idle")
    /\ Returns(p)
    /\ left' = IF starts[p].at \in Making THEN left \cup {Output(p)} ELSE left
    /\ UNCHANGED <<images, mapFile, established>>

StartStep(p) ==
    \/ StatOutput(p) \/ InspectRecoveryTarget(p)
    \/ CreateOutput(p) \/ TruncateOutput(p) \/ TruncateFails(p)
    \/ CreateMap(p) \/ WriteMap(p) \/ SyncMap(p)
    \/ AbortCreate(p) \/ Rollback(p)
    \/ OpenMap(p) \/ OpenOutput(p) \/ Recover(p) \/ EndJob(p) \/ Kill(p)

StartupNext == (\E p \in Starters : StartStep(p)) /\ UNCHANGED system

StartupSpec == StartupInit /\ [][StartupNext]_startupVars

----------------------------------------------------------------------------

(* "StartupTransaction removes only artifacts created by a new recovery    *)
(* attempt until the attempt has reached its durable-running point":       *)
(* whatever starts run, fail, roll back or die at the same time, an output *)
(* whose start was committed keeps its image and its map, and when nothing *)
(* runs there is no image without such a start.  The images in left are    *)
(* the exceptions: of a start that was killed, of one whose truncation     *)
(* failed on Linux, and of a job that opened a pair before the start that  *)
(* made it was rolled back.                                                *)
StartKeepsPairs ==
    /\ \A o \in established : images[o] # "none" /\ mapFile.of = o /\ mapFile.whole
    /\ (\A p \in Starters : At(p, "idle")) =>
         \A o \in Outputs \ (established \cup left) : images[o] = "none"
=============================================================================
