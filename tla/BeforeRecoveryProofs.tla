------------------------- MODULE BeforeRecoveryProofs -------------------------
(***************************************************************************)
(* Proofs about what comes before a recovery: its start on the image and   *)
(* the map, for any number of starts and of outputs with one map path, and *)
(* the pages that set it up, for any drives and any number of requests.    *)
(***************************************************************************)
EXTENDS Startup, AppSetup, TLAPS

----------------------------------------------------------------------------
(* The start of a recovery. *)

Locations == Making \cup {"idle", "statMap", "create", "openMap", "openOutput", "running"}

Map == [of : Outputs \cup {"none"}, whole : BOOLEAN, claims : BOOLEAN]

StartState == [at : Locations, output : Outputs \cup {"none"}, sawImage : BOOLEAN]

StartupTypeOK ==
    /\ images \in [Outputs -> {"none", "empty", "sized"}]
    /\ mapFile \in Map
    /\ starts \in [Starters -> StartState]
    /\ \A p \in Starters : ~At(p, "idle") => Output(p) \in Outputs
    /\ established \subseteq Outputs /\ left \subseteq Outputs

(* An image that a start would take back is there, is not the image of a   *)
(* committed start, and is no other start's: O_EXCL.                       *)
ImagesOwned ==
    \A p \in Starters : starts[p].at \in Making =>
        /\ images[Output(p)] # "none"
        /\ Output(p) \notin established
        /\ \A q \in Starters : starts[q].at \in Making /\ Output(q) = Output(p) => q = p

(* A start that would remove the map has made it for its own image. *)
MapOwned ==
    \A p \in Starters :
        /\ starts[p].at \in {"writeMap", "syncMap", "abortCreate"} => mapFile.of = Output(p)
        /\ At(p, "syncMap") => mapFile.whole

(* Who answers for each image. *)
ImagesExplained ==
    \A o \in Outputs : images[o] # "none" =>
        \/ o \in established \cup left
        \/ \E p \in Starters : starts[p].at \in Making /\ Output(p) = o

PairsKept ==
    \A o \in established : images[o] # "none" /\ mapFile.of = o /\ mapFile.whole

StartupInv == StartupTypeOK /\ ImagesOwned /\ MapOwned /\ ImagesExplained /\ PairsKept

(* What a step does to the start that takes it, and to the others. *)
LEMMA MovesToFacts ==
  ASSUME StartupTypeOK, NEW p \in Starters, NEW l \in Locations, MovesTo(p, l), ~At(p, "idle")
  PROVE  /\ starts' \in [Starters -> StartState]
         /\ starts'[p].at = l /\ starts'[p].output = starts[p].output
         /\ starts'[p].output \in Outputs
         /\ \A q \in Starters : q # p => starts'[q] = starts[q]
  BY DEF MovesTo, StartupTypeOK, StartState, At, Output

LEMMA ReturnsFacts ==
  ASSUME StartupTypeOK, NEW p \in Starters, Returns(p)
  PROVE  /\ starts' \in [Starters -> StartState]
         /\ starts'[p].at = "idle"
         /\ \A q \in Starters : q # p => starts'[q] = starts[q]
  BY DEF Returns, StartupTypeOK, StartState, NoStart, Locations

(* While a start has a map of its own or none is there, no output is       *)
(* established.                                                            *)
LEMMA NoneEstablished ==
  ASSUME StartupInv
  PROVE  /\ mapFile = NoMap => established = {}
         /\ \A p \in Starters :
              starts[p].at \in {"writeMap", "syncMap", "abortCreate"} => established = {}
<1>1. \A o \in established : o \in Outputs /\ o # "none" /\ mapFile.of = o
  BY StartupAssumption DEF StartupInv, StartupTypeOK, PairsKept
<1>2. \A p \in Starters : starts[p].at \in {"writeMap", "syncMap", "abortCreate"} =>
        mapFile.of = Output(p) /\ Output(p) \notin established
  BY DEF StartupInv, MapOwned, ImagesOwned, Making
<1> QED BY <1>1, <1>2 DEF NoMap

(* And at most one start has a map of its own. *)
LEMMA OneMapOwner ==
  ASSUME StartupInv, NEW p \in Starters, NEW q \in Starters,
         starts[p].at \in {"writeMap", "syncMap", "abortCreate"},
         starts[q].at \in {"writeMap", "syncMap", "abortCreate"}
  PROVE  p = q
  BY DEF StartupInv, MapOwned, ImagesOwned, Making

(* Steps that only look: the files stay, and the start that took the step  *)
(* has made nothing and makes nothing.                                     *)
LEMMA LookStep ==
  ASSUME StartupInv, FilesStay, NEW p \in Starters, starts[p].at \notin Making,
         starts' \in [Starters -> StartState], starts'[p].at \notin Making,
         starts'[p].at # "idle" => starts'[p].output \in Outputs,
         \A q \in Starters : q # p => starts'[q] = starts[q]
  PROVE  StartupInv'
<1>1. StartupTypeOK'
  BY DEF StartupInv, StartupTypeOK, FilesStay, At, Output
<1>2. ImagesOwned'
  BY DEF StartupInv, ImagesOwned, FilesStay, Output, Making
<1>3. MapOwned'
  BY DEF StartupInv, MapOwned, FilesStay, Output, At, Making
<1>4. ImagesExplained'
  BY DEF StartupInv, ImagesExplained, FilesStay, Output
<1>5. PairsKept'
  BY DEF StartupInv, PairsKept, FilesStay
<1> QED BY <1>1, <1>2, <1>3, <1>4, <1>5 DEF StartupInv

(* A start that has made an image, and goes on with it, changing the map   *)
(* at most.                                                                *)
LEMMA MakingStep ==
  ASSUME StartupInv, NEW p \in Starters, starts[p].at \in Making,
         NEW l \in Making, MovesTo(p, l),
         images' \in [Outputs -> {"none", "empty", "sized"}],
         \A o \in Outputs : images'[o] = "none" <=> images[o] = "none",
         mapFile' \in Map, UNCHANGED <<established, left>>
  PROVE  StartupTypeOK' /\ ImagesOwned' /\ ImagesExplained'
<1>0. /\ starts' \in [Starters -> StartState]
      /\ starts'[p].at = l /\ starts'[p].output = starts[p].output
      /\ starts'[p].output \in Outputs
      /\ \A q \in Starters : q # p => starts'[q] = starts[q]
  BY MovesToFacts DEF StartupInv, Locations, Making, At
<1>1. StartupTypeOK'
  BY <1>0 DEF StartupInv, StartupTypeOK, At, Output
<1>2. ImagesOwned'
  <2>1. \A q \in Starters : starts'[q].at \in Making =>
          starts[q].at \in Making /\ starts'[q].output = starts[q].output
    BY <1>0
  <2>2. \A q \in Starters : starts[q].at \in Making => starts[q].output \in Outputs
    BY DEF StartupInv, StartupTypeOK, At, Output, Making
  <2> QED BY <2>1, <2>2 DEF StartupInv, ImagesOwned, Output
<1>3. ImagesExplained'
  <2>1. \A q \in Starters : starts[q].at \in Making =>
          starts'[q].at \in Making /\ starts'[q].output = starts[q].output
    BY <1>0
  <2> QED BY <2>1 DEF StartupInv, ImagesExplained, Output
<1> QED BY <1>1, <1>2, <1>3

LEMMA CreateOutputStep ==
  ASSUME StartupInv, NEW p \in Starters, CreateOutput(p)
  PROVE  StartupInv'
<1>1. CASE Returns(p) /\ UNCHANGED images
  <2>1. FilesStay
    BY <1>1 DEF CreateOutput, FilesStay
  <2> QED BY <1>1, <2>1, ReturnsFacts, LookStep DEF CreateOutput, At, Making, StartupInv
<1>2. CASE /\ images[Output(p)] = "none"
           /\ images' = [images EXCEPT ![Output(p)] = "empty"]
           /\ MovesTo(p, "truncate")
  <2>0. /\ starts[p].at = "create" /\ starts[p].output \in Outputs
        /\ UNCHANGED <<mapFile, established, left>>
    BY <1>2 DEF CreateOutput, At, Output, StartupInv, StartupTypeOK
  <2>1. /\ starts' \in [Starters -> StartState]
        /\ starts'[p].at = "truncate" /\ starts'[p].output = starts[p].output
        /\ \A q \in Starters : q # p => starts'[q] = starts[q]
    BY <1>2, <2>0, MovesToFacts DEF StartupInv, Locations, Making, At
  <2>2. StartupTypeOK'
    BY <1>2, <2>0, <2>1 DEF StartupInv, StartupTypeOK, At, Output
  <2>3. ImagesOwned'
    <3>1. starts[p].output \notin established
      BY <1>2, <2>0 DEF StartupInv, PairsKept, Output
    <3>2. \A q \in Starters : starts[q].at \in Making => starts[q].output # starts[p].output
      BY <1>2 DEF StartupInv, ImagesOwned, Output
    <3>3. \A o \in Outputs : images'[o] = IF o = starts[p].output THEN "empty" ELSE images[o]
      BY <1>2 DEF StartupInv, StartupTypeOK, Output
    <3>4. \A q \in Starters : starts[q].at \in Making => starts[q].output \in Outputs
      BY DEF StartupInv, StartupTypeOK, At, Output, Making
    <3> QED BY <2>0, <2>1, <3>1, <3>2, <3>3, <3>4 DEF StartupInv, ImagesOwned, Output, Making
  <2>4. MapOwned'
    BY <2>0, <2>1 DEF StartupInv, MapOwned, At, Output
  <2>5. ImagesExplained'
    <3>1. \A o \in Outputs : o # starts[p].output => images'[o] = images[o]
      BY <1>2 DEF StartupInv, StartupTypeOK, Output
    <3>2. \A q \in Starters : starts[q].at \in Making => starts'[q] = starts[q]
      BY <2>0, <2>1 DEF Making
    <3> QED BY <2>0, <2>1, <3>1, <3>2 DEF StartupInv, ImagesExplained, Output, Making
  <2>6. PairsKept'
    BY <1>2, <2>0 DEF StartupInv, StartupTypeOK, PairsKept
  <2> QED BY <2>2, <2>3, <2>4, <2>5, <2>6 DEF StartupInv
<1> QED BY <1>1, <1>2 DEF CreateOutput

(* The steps of a start that has an image and goes on with it. *)
LEMMA GoesOnStep ==
  ASSUME StartupInv, NEW p \in Starters,
         TruncateOutput(p) \/ CreateMap(p) \/ WriteMap(p) \/ AbortCreate(p)
  PROVE  StartupInv'
<1>1. CASE TruncateOutput(p)
  <2>0. starts[p].at = "truncate" /\ starts[p].output \in Outputs
    BY <1>1 DEF TruncateOutput, At, Output, StartupInv, StartupTypeOK
  <2>1. images[Output(p)] # "none"
    BY <2>0 DEF StartupInv, ImagesOwned, Making
  <2>2. StartupTypeOK' /\ ImagesOwned' /\ ImagesExplained'
    BY <1>1, <2>0, <2>1, MakingStep DEF TruncateOutput, StartupInv, StartupTypeOK, Making
  <2>3. \A q \in Starters : q # p => starts'[q] = starts[q]
    BY <1>1, <2>0, MovesToFacts DEF TruncateOutput, StartupInv, Locations, Making, At
  <2>4. starts'[p].at = "createMap"
    BY <1>1, <2>0, MovesToFacts DEF TruncateOutput, StartupInv, Locations, Making, At
  <2>5. MapOwned'
    BY <1>1, <2>3, <2>4 DEF TruncateOutput, StartupInv, MapOwned, At, Output
  <2>6. PairsKept'
    BY <1>1 DEF TruncateOutput, StartupInv, StartupTypeOK, PairsKept
  <2> QED BY <2>2, <2>5, <2>6 DEF StartupInv
<1>2. CASE CreateMap(p)
  <2>0. starts[p].at = "createMap" /\ starts[p].output \in Outputs
    BY <1>2 DEF CreateMap, At, Output, StartupInv, StartupTypeOK
  <2>1. CASE MovesTo(p, "rollback") /\ UNCHANGED mapFile
    <3>2. StartupTypeOK' /\ ImagesOwned' /\ ImagesExplained'
      BY <1>2, <2>0, <2>1, MakingStep DEF CreateMap, StartupInv, StartupTypeOK, Making
    <3>3. starts'[p].at = "rollback" /\ \A q \in Starters : q # p => starts'[q] = starts[q]
      BY <2>0, <2>1, MovesToFacts DEF StartupInv, Locations, Making, At
    <3>5. MapOwned'
      BY <2>1, <3>3 DEF StartupInv, MapOwned, At, Output
    <3>6. PairsKept'
      BY <1>2, <2>1 DEF CreateMap, StartupInv, PairsKept
    <3> QED BY <3>2, <3>5, <3>6 DEF StartupInv
  <2>2. CASE /\ mapFile = NoMap
             /\ mapFile' = [NoMap EXCEPT !.of = Output(p)]
             /\ MovesTo(p, "writeMap")
    <3>1. mapFile' \in Map /\ mapFile'.of = starts[p].output
      BY <2>0, <2>2 DEF NoMap, Map, Output
    <3>2. StartupTypeOK' /\ ImagesOwned' /\ ImagesExplained'
      BY <1>2, <2>0, <2>2, <3>1, MakingStep DEF CreateMap, StartupInv, StartupTypeOK, Making
    <3>3. /\ starts'[p].at = "writeMap" /\ starts'[p].output = starts[p].output
          /\ \A q \in Starters : q # p => starts'[q] = starts[q]
      BY <2>0, <2>2, MovesToFacts DEF StartupInv, Locations, Making, At
    <3>4. \A q \in Starters : starts[q].at \notin {"writeMap", "syncMap", "abortCreate"}
      <4>1. \A q \in Starters : starts[q].at # "idle" => starts[q].output # "none"
        BY StartupAssumption DEF StartupInv, StartupTypeOK, At, Output
      <4> QED BY <2>2, <4>1 DEF StartupInv, MapOwned, NoMap, Output
    <3>5. MapOwned'
      BY <3>1, <3>3, <3>4 DEF MapOwned, At, Output
    <3>6. PairsKept'
      BY <1>2, <2>2, NoneEstablished DEF CreateMap, PairsKept
    <3> QED BY <3>2, <3>5, <3>6 DEF StartupInv
  <2> QED BY <1>2, <2>1, <2>2 DEF CreateMap
<1>3. CASE WriteMap(p)
  <2>0. starts[p].at = "writeMap" /\ starts[p].output \in Outputs
    BY <1>3 DEF WriteMap, At, Output, StartupInv, StartupTypeOK
  <2>1. established = {} /\ mapFile.of = starts[p].output
    BY <2>0, NoneEstablished DEF StartupInv, MapOwned, Output
  <2>2. CASE mapFile' = [mapFile EXCEPT !.whole = TRUE] /\ MovesTo(p, "syncMap")
    <3>1. mapFile' \in Map /\ mapFile'.of = mapFile.of /\ mapFile'.whole
      BY <2>2 DEF StartupInv, StartupTypeOK, Map
    <3>2. StartupTypeOK' /\ ImagesOwned' /\ ImagesExplained'
      BY <1>3, <2>0, <2>2, <3>1, MakingStep DEF WriteMap, StartupInv, StartupTypeOK, Making
    <3>3. /\ starts'[p].at = "syncMap" /\ starts'[p].output = starts[p].output
          /\ \A q \in Starters : q # p => starts'[q] = starts[q]
      BY <2>0, <2>2, MovesToFacts DEF StartupInv, Locations, Making, At
    <3>5. MapOwned'
      BY <2>0, <2>1, <3>1, <3>3 DEF StartupInv, MapOwned, At, Output
    <3>6. PairsKept'
      BY <1>3, <2>1 DEF WriteMap, PairsKept
    <3> QED BY <3>2, <3>5, <3>6 DEF StartupInv
  <2>3. CASE MovesTo(p, "abortCreate") /\ UNCHANGED mapFile
    <3>2. StartupTypeOK' /\ ImagesOwned' /\ ImagesExplained'
      BY <1>3, <2>0, <2>3, MakingStep DEF WriteMap, StartupInv, StartupTypeOK, Making
    <3>3. /\ starts'[p].at = "abortCreate" /\ starts'[p].output = starts[p].output
          /\ \A q \in Starters : q # p => starts'[q] = starts[q]
      BY <2>0, <2>3, MovesToFacts DEF StartupInv, Locations, Making, At
    <3>5. MapOwned'
      BY <2>0, <2>1, <2>3, <3>3 DEF StartupInv, MapOwned, At, Output
    <3>6. PairsKept'
      BY <1>3, <2>1 DEF WriteMap, PairsKept
    <3> QED BY <3>2, <3>5, <3>6 DEF StartupInv
  <2> QED BY <1>3, <2>2, <2>3 DEF WriteMap
<1>4. CASE AbortCreate(p)
  <2>0. starts[p].at = "abortCreate" /\ starts[p].output \in Outputs
    BY <1>4 DEF AbortCreate, At, Output, StartupInv, StartupTypeOK
  <2>1. established = {} /\ mapFile' \in Map
    BY <1>4, <2>0, NoneEstablished DEF AbortCreate, NoMap, Map
  <2>2. StartupTypeOK' /\ ImagesOwned' /\ ImagesExplained'
    BY <1>4, <2>0, <2>1, MakingStep DEF AbortCreate, StartupInv, StartupTypeOK, Making
  <2>3. starts'[p].at = "rollback" /\ \A q \in Starters : q # p => starts'[q] = starts[q]
    BY <1>4, <2>0, MovesToFacts DEF AbortCreate, StartupInv, Locations, Making, At
  <2>4. \A q \in Starters : starts'[q].at \notin {"writeMap", "syncMap", "abortCreate"}
    BY <2>0, <2>3, OneMapOwner
  <2>5. MapOwned'
    BY <2>4 DEF MapOwned, At
  <2>6. PairsKept'
    BY <1>4, <2>1 DEF AbortCreate, PairsKept
  <2> QED BY <2>2, <2>5, <2>6 DEF StartupInv
<1> QED BY <1>1, <1>2, <1>3, <1>4

(* The start gives up, or dies, and its image becomes one of those left:   *)
(* the files stay as they are.                                             *)
LEMMA LeavesStep ==
  ASSUME StartupInv, NEW p \in Starters, ~At(p, "idle"), Returns(p),
         left' = IF starts[p].at \in Making THEN left \cup {Output(p)} ELSE left,
         UNCHANGED <<images, mapFile, established>>
  PROVE  StartupInv'
<1>0. /\ starts' \in [Starters -> StartState] /\ starts'[p].at = "idle"
      /\ \A q \in Starters : q # p => starts'[q] = starts[q]
      /\ starts[p].output \in Outputs
  BY ReturnsFacts DEF StartupInv, StartupTypeOK, At, Output
<1>1. StartupTypeOK'
  BY <1>0 DEF StartupInv, StartupTypeOK, At, Output
<1>2. ImagesOwned'
  BY <1>0 DEF StartupInv, ImagesOwned, Output, Making
<1>3. MapOwned'
  BY <1>0 DEF StartupInv, MapOwned, Output, At
<1>4. ImagesExplained'
  BY <1>0 DEF StartupInv, ImagesExplained, Output
<1>5. PairsKept'
  BY DEF StartupInv, PairsKept
<1> QED BY <1>1, <1>2, <1>3, <1>4, <1>5 DEF StartupInv

LEMMA TruncateFailsStep ==
  ASSUME StartupInv, NEW p \in Starters, TruncateFails(p)
  PROVE  StartupInv'
<1>0. starts[p].at = "truncate" /\ starts[p].at \in Making
  BY DEF TruncateFails, At, Making
<1>1. CASE system = "linux"
  BY <1>0, <1>1, LeavesStep DEF TruncateFails, At
<1>2. CASE system # "linux"
  <2>1. MovesTo(p, "rollback") /\ UNCHANGED <<images, mapFile, established, left>>
    BY <1>2 DEF TruncateFails
  <2>2. StartupTypeOK' /\ ImagesOwned' /\ ImagesExplained'
    BY <1>0, <2>1, MakingStep DEF StartupInv, StartupTypeOK, Making
  <2>3. starts'[p].at = "rollback" /\ \A q \in Starters : q # p => starts'[q] = starts[q]
    BY <1>0, <2>1, MovesToFacts DEF StartupInv, Locations, Making, At
  <2>4. MapOwned'
    BY <2>1, <2>3 DEF StartupInv, MapOwned, At, Output
  <2>5. PairsKept'
    BY <2>1 DEF StartupInv, PairsKept
  <2> QED BY <2>2, <2>4, <2>5 DEF StartupInv
<1> QED BY <1>1, <1>2

(* The commit: no other start is committed, and no other has a map of its  *)
(* own that it would remove.                                               *)
LEMMA SyncMapStep ==
  ASSUME StartupInv, NEW p \in Starters, SyncMap(p)
  PROVE  StartupInv'
<1>0. /\ starts[p].at = "syncMap" /\ starts[p].output \in Outputs
      /\ UNCHANGED <<images, mapFile, left>>
  BY DEF SyncMap, At, Output, StartupInv, StartupTypeOK
<1>1. established = {} /\ mapFile.of = starts[p].output /\ mapFile.whole
  BY <1>0, NoneEstablished DEF StartupInv, MapOwned, Output, At
<1>2. CASE MovesTo(p, "abortCreate") /\ UNCHANGED established
  <2>1. StartupTypeOK' /\ ImagesOwned' /\ ImagesExplained'
    BY <1>0, <1>2, MakingStep DEF StartupInv, StartupTypeOK, Making
  <2>2. /\ starts'[p].at = "abortCreate" /\ starts'[p].output = starts[p].output
        /\ \A q \in Starters : q # p => starts'[q] = starts[q]
    BY <1>0, <1>2, MovesToFacts DEF StartupInv, Locations, Making, At
  <2>3. MapOwned'
    BY <1>0, <1>1, <2>2 DEF StartupInv, MapOwned, At, Output
  <2>4. PairsKept'
    BY <1>1, <1>2 DEF PairsKept
  <2> QED BY <2>1, <2>3, <2>4 DEF StartupInv
<1>3. CASE MovesTo(p, "openOutput") /\ established' = established \cup {Output(p)}
  <2>0. established' = {starts[p].output}
    BY <1>1, <1>3 DEF Output
  <2>1. /\ starts' \in [Starters -> StartState]
        /\ starts'[p].at = "openOutput" /\ starts'[p].output = starts[p].output
        /\ \A q \in Starters : q # p => starts'[q] = starts[q]
    BY <1>0, <1>3, MovesToFacts DEF StartupInv, Locations, Making, At
  <2>2. StartupTypeOK'
    BY <1>0, <2>0, <2>1 DEF StartupInv, StartupTypeOK, At, Output
  <2>3. ImagesOwned'
    <3>1. \A q \in Starters : q # p /\ starts[q].at \in Making =>
            starts[q].output # starts[p].output
      BY <1>0 DEF StartupInv, ImagesOwned, Output, Making
    <3> QED BY <1>0, <2>0, <2>1, <3>1 DEF StartupInv, ImagesOwned, Output, Making
  <2>4. MapOwned'
    BY <1>0, <2>1 DEF StartupInv, MapOwned, Output, At
  <2>5. ImagesExplained'
    BY <1>0, <1>1, <2>0, <2>1 DEF StartupInv, ImagesExplained, Output
  <2>6. PairsKept'
    BY <1>0, <1>1, <2>0 DEF StartupInv, ImagesOwned, PairsKept, Output, Making
  <2> QED BY <2>2, <2>3, <2>4, <2>5, <2>6 DEF StartupInv
<1> QED BY <1>2, <1>3 DEF SyncMap

(* The rollback takes the image away: it is this start's alone, and not    *)
(* that of a committed one.                                                *)
LEMMA RollbackStep ==
  ASSUME StartupInv, NEW p \in Starters, Rollback(p)
  PROVE  StartupInv'
<1>0. /\ starts[p].at = "rollback" /\ starts[p].output \in Outputs
      /\ starts[p].output \notin established
      /\ UNCHANGED <<mapFile, established, left>>
  BY DEF Rollback, At, Output, StartupInv, StartupTypeOK, ImagesOwned, Making
<1>1. \A o \in Outputs : images'[o] = IF o = starts[p].output THEN "none" ELSE images[o]
  BY DEF Rollback, Output, StartupInv, StartupTypeOK
<1>2. /\ starts' \in [Starters -> StartState] /\ starts'[p].at = "idle"
      /\ \A q \in Starters : q # p => starts'[q] = starts[q]
  BY ReturnsFacts DEF Rollback, StartupInv
<1>3. \A q \in Starters : q # p /\ starts[q].at \in Making =>
        starts[q].output # starts[p].output /\ starts[q].output \in Outputs
  BY <1>0 DEF StartupInv, ImagesOwned, StartupTypeOK, At, Output, Making
<1>4. StartupTypeOK'
  BY <1>0, <1>2 DEF Rollback, StartupInv, StartupTypeOK, At, Output
<1>5. ImagesOwned'
  BY <1>0, <1>1, <1>2, <1>3 DEF StartupInv, ImagesOwned, Output, Making
<1>6. MapOwned'
  BY <1>0, <1>2 DEF StartupInv, MapOwned, Output, At
<1>7. ImagesExplained'
  BY <1>0, <1>1, <1>2 DEF StartupInv, ImagesExplained, Output
<1>8. PairsKept'
  BY <1>0, <1>1 DEF StartupInv, PairsKept, StartupTypeOK
<1> QED BY <1>4, <1>5, <1>6, <1>7, <1>8 DEF StartupInv

LEMMA OpenOutputStep ==
  ASSUME StartupInv, NEW p \in Starters, OpenOutput(p)
  PROVE  StartupInv'
<1>0. /\ starts[p].at = "openOutput" /\ starts[p].output \in Outputs
      /\ UNCHANGED <<mapFile, established>>
  BY DEF OpenOutput, At, Output, StartupInv, StartupTypeOK
<1>1. \A o \in Outputs : images'[o] = IF o = starts[p].output THEN "sized" ELSE images[o]
  BY DEF OpenOutput, Output, StartupInv, StartupTypeOK
<1>2. left' = IF images[starts[p].output] = "none" THEN left \cup {starts[p].output} ELSE left
  BY DEF OpenOutput, Output
<1>3. /\ starts' \in [Starters -> StartState] /\ starts'[p].at = "running"
      /\ starts'[p].output = starts[p].output
      /\ \A q \in Starters : q # p => starts'[q] = starts[q]
  BY <1>0, MovesToFacts DEF OpenOutput, StartupInv, Locations, At
<1>4. StartupTypeOK'
  BY <1>0, <1>2, <1>3 DEF OpenOutput, StartupInv, StartupTypeOK, At, Output
<1>5. ImagesOwned'
  <2>1. \A q \in Starters : starts[q].at \in Making => starts[q].output \in Outputs
    BY DEF StartupInv, StartupTypeOK, At, Output, Making
  <2> QED BY <1>0, <1>1, <1>3, <2>1 DEF StartupInv, ImagesOwned, Output, Making
<1>6. MapOwned'
  BY <1>0, <1>3 DEF StartupInv, MapOwned, Output, At
<1>7. ImagesExplained'
  <2>1. \A q \in Starters : starts[q].at \in Making => starts'[q] = starts[q]
    BY <1>0, <1>3 DEF Making
  <2>2. \A o \in Outputs : images'[o] # "none" => images[o] # "none" \/ o \in left'
    BY <1>1, <1>2
  <2>3. left \subseteq left'
    BY <1>2
  <2> QED BY <1>0, <2>1, <2>2, <2>3 DEF StartupInv, ImagesExplained, Output
<1>8. PairsKept'
  BY <1>0, <1>1 DEF StartupInv, PairsKept, StartupTypeOK
<1> QED BY <1>4, <1>5, <1>6, <1>7, <1>8 DEF StartupInv

LEMMA RecoverStep ==
  ASSUME StartupInv, NEW p \in Starters, Recover(p)
  PROVE  StartupInv'
<1>1. /\ mapFile' \in Map /\ mapFile'.of = mapFile.of /\ mapFile'.whole = mapFile.whole
      /\ UNCHANGED <<images, starts, established, left>>
  BY DEF Recover, StartupInv, StartupTypeOK, Map
<1>2. StartupTypeOK'
  BY <1>1 DEF StartupInv, StartupTypeOK, At, Output
<1>3. ImagesOwned' /\ ImagesExplained'
  BY <1>1 DEF StartupInv, ImagesOwned, ImagesExplained, Output
<1>4. MapOwned' /\ PairsKept'
  BY <1>1 DEF StartupInv, MapOwned, PairsKept, At, Output
<1> QED BY <1>2, <1>3, <1>4 DEF StartupInv

(* The looks at the target, the opening of its map and the end of a job.   *)
LEMMA LookingSteps ==
  ASSUME StartupInv, NEW p \in Starters,
         StatOutput(p) \/ InspectRecoveryTarget(p) \/ OpenMap(p) \/ EndJob(p)
  PROVE  StartupInv'
<1>0. FilesStay
  BY DEF StatOutput, InspectRecoveryTarget, OpenMap, EndJob
<1>1. starts[p].at \in {"idle", "statMap", "openMap", "openOutput", "running"}
  BY DEF StatOutput, InspectRecoveryTarget, OpenMap, EndJob, At
<1>2. CASE StatOutput(p)
  <2>1. PICK o \in Outputs :
          starts' = [starts EXCEPT ![p] = [at |-> "statMap", output |-> o,
                                           sawImage |-> images[o] # "none"]]
    BY <1>2 DEF StatOutput
  <2>2. /\ starts' \in [Starters -> StartState] /\ starts'[p].at = "statMap"
        /\ starts'[p].output \in Outputs
        /\ \A q \in Starters : q # p => starts'[q] = starts[q]
    BY <2>1 DEF StartupInv, StartupTypeOK, StartState, Locations
  <2> QED BY <1>0, <1>1, <2>2, LookStep DEF Making
<1>3. CASE Returns(p)
  <2>1. /\ starts' \in [Starters -> StartState] /\ starts'[p].at = "idle"
        /\ \A q \in Starters : q # p => starts'[q] = starts[q]
    BY <1>3, ReturnsFacts DEF StartupInv
  <2> QED BY <1>0, <1>1, <2>1, LookStep DEF Making
<1>4. CASE ~StatOutput(p) /\ ~Returns(p)
  <2>1. PICK l \in {"create", "openMap", "openOutput"} : MovesTo(p, l) /\ ~At(p, "idle")
    BY <1>4 DEF InspectRecoveryTarget, OpenMap, EndJob, At
  <2>2. /\ starts' \in [Starters -> StartState] /\ starts'[p].at = l
        /\ starts'[p].output \in Outputs
        /\ \A q \in Starters : q # p => starts'[q] = starts[q]
    BY <2>1, MovesToFacts DEF StartupInv, Locations
  <2> QED BY <1>0, <1>1, <2>1, <2>2, LookStep DEF Making
<1> QED BY <1>2, <1>3, <1>4

LEMMA StartupInvInit == StartupInit => StartupInv
<1> SUFFICES ASSUME StartupInit PROVE StartupInv
  OBVIOUS
<1>1. \A p \in Starters : starts[p] = NoStart
  BY DEF StartupInit
<1>2. StartupTypeOK
  BY <1>1 DEF StartupInit, StartupTypeOK, StartState, NoStart, Locations, Map, NoMap, At
<1> QED BY <1>1, <1>2 DEF StartupInit, StartupInv, ImagesOwned, MapOwned, ImagesExplained,
          PairsKept, NoStart, At, Making

LEMMA StartupInvStep == StartupInv /\ [StartupNext]_startupVars => StartupInv'
<1> SUFFICES ASSUME StartupInv, [StartupNext]_startupVars PROVE StartupInv'
  OBVIOUS
<1>1. CASE StartupNext
  <2>1. PICK p \in Starters : StartStep(p)
    BY <1>1 DEF StartupNext
  <2>2. CASE Kill(p)
    BY <2>2, LeavesStep DEF Kill
  <2> QED BY <2>1, <2>2, LookingSteps, CreateOutputStep, TruncateFailsStep, GoesOnStep,
             SyncMapStep, RollbackStep, OpenOutputStep, RecoverStep DEF StartStep
<1>2. CASE UNCHANGED startupVars
  BY <1>2 DEF startupVars, StartupInv, StartupTypeOK, ImagesOwned, MapOwned, ImagesExplained,
     PairsKept, At, Output
<1> QED BY <1>1, <1>2

(* For any number of starts, of outputs with one map path and of deaths: a *)
(* committed start keeps its image and its map, and when nothing runs      *)
(* every image that is there was committed, or is one of those left by a   *)
(* kill, a failed truncation on Linux or an opened pair that was rolled    *)
(* back (StartupTransaction.Rollback, CreateInit, O_EXCL).                 *)
THEOREM StartedPairsAreKept == StartupSpec => []StartKeepsPairs
<1>1. StartupInv => StartKeepsPairs
  <2> SUFFICES ASSUME StartupInv PROVE StartKeepsPairs
    OBVIOUS
  <2>1. (\A p \in Starters : At(p, "idle")) =>
          \A o \in Outputs \ (established \cup left) : images[o] = "none"
    BY DEF StartupInv, ImagesExplained, At, Making
  <2> QED BY <2>1 DEF StartupInv, PairsKept, StartKeepsPairs
<1> QED BY <1>1, StartupInvInit, StartupInvStep, PTL DEF StartupSpec

----------------------------------------------------------------------------
(***************************************************************************)
(* The pages that set a recovery up.  Only the last request of a kind is   *)
(* listened to, ids are never given out twice, and the inspection that is  *)
(* listened to is one of the selected drive.                               *)
(***************************************************************************)
IdsGivenOut(requests, last) ==
    \A r \in requests : r.kind \in Kind => r.id \in Nat /\ 1 <= r.id /\ r.id <= last

InspectsSelected ==
    \A r \in asked : r.kind = "media" /\ Current(r) =>
        selected # NoDrive /\ r.basis.drive = selected

SelectionListed ==
    /\ selected \in Drives \cup {NoDrive} /\ preserved \in Drives \cup {NoDrive}
    /\ \A i \in DOMAIN devices : devices[i] \in Drives
    /\ selected # NoDrive => \E i \in DOMAIN devices : devices[i] = selected
    /\ selected = NoDrive => media = NoMedia

(* The page that finds drives, or the details it is left for and returned  *)
(* to from.                                                                *)
Finding == setupPage = "Discover" \/ (setupPage = "Details" /\ previousSetupPage = "Discover")

DiscoveryAwaited ==
    Finding => \E request \in asked : request.kind = "discovery" /\ Current(request)

SetupInv ==
    /\ DOMAIN current = Kind
    /\ lastRequest \in Nat
    /\ IdsGivenOut(asked, lastRequest)
    /\ InspectsSelected
    /\ SelectionListed
    /\ DiscoveryAwaited

(* Nothing leads back to the details. *)
DetailsNotKept == previousSetupPage # "Details"

(***************************************************************************)
(* What a step does to the requests and to the page, when it leaves the    *)
(* drives and the disc alone.                                              *)
(***************************************************************************)
DiscKept == UNCHANGED <<devices, selected, media, preserved>>

(* No inspection is listened to that was not before. *)
RequestsKept ==
    /\ DOMAIN current' = Kind /\ lastRequest' \in Nat
    /\ IdsGivenOut(asked', lastRequest')
    /\ \A r \in asked' : r.kind = "media" /\ r.id = current'["media"] =>
         r \in asked /\ Current(r)

(* The page is left, or not entered and its answer still comes. *)
DiscoveryKept ==
    \/ ~Finding'
    \/ /\ Finding
       /\ current'["discovery"] = current["discovery"]
       /\ \A r \in asked : r.kind = "discovery" /\ Current(r) => r \in asked'

LEMMA KeptSuffices ==
  ASSUME SetupInv, DiscKept, RequestsKept, DiscoveryKept
  PROVE  SetupInv'
<1>1. SelectionListed'
  BY DEF SetupInv, SelectionListed, DiscKept
<1>2. InspectsSelected'
  BY DEF SetupInv, InspectsSelected, DiscKept, RequestsKept, Current
<1>3. DiscoveryAwaited'
  BY DEF SetupInv, DiscoveryAwaited, DiscoveryKept, Current
<1> QED BY <1>1, <1>2, <1>3 DEF SetupInv, RequestsKept

(* A request of any kind but a discovery or an inspection. *)
LEMMA AskFacts ==
  ASSUME SetupInv, NEW kind \in Kind, NEW basis, NEW unanswered \in SUBSET asked,
         Ask(kind, basis, unanswered)
  PROVE  /\ DOMAIN current' = Kind /\ lastRequest' \in Nat
         /\ IdsGivenOut(asked', lastRequest')
         /\ \A k \in Kind \ {kind} : current'[k] = current[k]
         /\ \A r \in asked' : r.kind = kind /\ r.id = current'[kind] => r.basis = basis
         /\ unanswered \subseteq asked'
         /\ \A r \in asked' : r \in unanswered \/ r.kind = kind
<1> DEFINE new == [kind |-> kind, id |-> lastRequest + 1, basis |-> basis]
<1>1. /\ lastRequest' = lastRequest + 1 /\ asked' = unanswered \cup {new}
      /\ current' = [current EXCEPT ![kind] = lastRequest + 1]
      /\ lastRequest \in Nat /\ DOMAIN current = Kind
  BY DEF Ask, SetupInv
<1>2. new.kind = kind /\ new.id = lastRequest + 1 /\ new.basis = basis
  OBVIOUS
<1> HIDE DEF new
<1>3. \A r \in unanswered : r.kind \in Kind => r.id \in Nat /\ 1 <= r.id /\ r.id <= lastRequest
  BY DEF SetupInv, IdsGivenOut
<1>4. IdsGivenOut(asked', lastRequest')
  <2>1. ASSUME NEW r \in asked', r.kind \in Kind
        PROVE  r.id \in Nat /\ 1 <= r.id /\ r.id <= lastRequest'
    <3>1. CASE r = new BY <1>1, <1>2, <3>1
    <3>2. CASE r \in unanswered
      <4>1. r.id \in Nat /\ 1 <= r.id /\ r.id <= lastRequest
        BY <1>3, <2>1, <3>2
      <4> QED BY <1>1, <4>1
    <3> QED BY <1>1, <3>1, <3>2
  <2> QED BY <2>1 DEF IdsGivenOut
<1>5. ASSUME NEW r \in asked', r.kind = kind, r.id = current'[kind] PROVE r.basis = basis
  <2>1. r.id = lastRequest + 1
    BY <1>1, <1>5
  <2>2. r \notin unanswered
    BY <1>1, <1>3, <1>5, <2>1
  <2> QED BY <1>1, <1>2, <2>2
<1> QED BY <1>1, <1>2, <1>4, <1>5

LEMMA AskKeeps ==
  ASSUME SetupInv, NEW kind \in Kind \ {"discovery", "media"}, NEW basis,
         NEW unanswered \in SUBSET asked, Ask(kind, basis, unanswered),
         \A r \in asked \ unanswered : r.kind # "discovery" \/ ~Finding',
         Finding' => Finding
  PROVE  RequestsKept /\ DiscoveryKept
<1>1. /\ DOMAIN current' = Kind /\ lastRequest' \in Nat
      /\ IdsGivenOut(asked', lastRequest')
      /\ \A k \in Kind \ {kind} : current'[k] = current[k]
      /\ unanswered \subseteq asked'
      /\ \A r \in asked' : r \in unanswered \/ r.kind = kind
  BY AskFacts
<1>2. current'["discovery"] = current["discovery"] /\ current'["media"] = current["media"]
  BY <1>1 DEF Kind
<1>3. RequestsKept
  BY <1>1, <1>2 DEF RequestsKept, Current
<1>4. DiscoveryKept
  BY <1>1, <1>2 DEF DiscoveryKept
<1> QED BY <1>3, <1>4

(* An eject or a start. *)
LEMMA EffectKeeps ==
  ASSUME SetupInv, NEW r, r.kind \notin Kind, asked' = asked \cup {r},
         current' = current, lastRequest' = lastRequest, Finding' => Finding
  PROVE  RequestsKept /\ DiscoveryKept
<1>1. IdsGivenOut(asked', lastRequest')
  BY DEF SetupInv, IdsGivenOut
<1>2. r.kind # "media"
  BY DEF Kind
<1> QED BY <1>1, <1>2 DEF SetupInv, RequestsKept, DiscoveryKept, Current

(* No request is made, and one answered at most. *)
LEMMA AnswerKeeps ==
  ASSUME SetupInv, asked' \subseteq asked, lastRequest' = lastRequest,
         \/ current' = current
         \/ (current' = [current EXCEPT !["media"] = 0]),
         Finding' => /\ Finding
                     /\ \A r \in asked : r.kind = "discovery" /\ Current(r) => r \in asked'
  PROVE  RequestsKept /\ DiscoveryKept
<1>1. IdsGivenOut(asked', lastRequest')
  BY DEF SetupInv, IdsGivenOut
<1>2. DOMAIN current' = Kind /\ current'["discovery"] = current["discovery"]
  BY DEF SetupInv, Kind
<1>3. ASSUME NEW r \in asked', r.kind = "media", r.id = current'["media"]
      PROVE  r \in asked /\ Current(r)
  <2>1. r \in asked /\ r.id \in Nat /\ r.id >= 1
    BY <1>3 DEF SetupInv, IdsGivenOut, Kind
  <2>2. current' = current
    <3>1. "media" \in DOMAIN current
      BY DEF SetupInv, Kind
    <3> QED BY <1>3, <2>1, <3>1
  <2> QED BY <1>3, <2>1, <2>2 DEF Current
<1> QED BY <1>1, <1>2, <1>3 DEF SetupInv, RequestsKept, DiscoveryKept

(* A discovery; the inspection under way is not listened to any more. *)
LEMMA BeginDiscoveryFacts ==
  ASSUME SetupInv, NEW unanswered \in SUBSET asked, BeginDiscovery(unanswered)
  PROVE  RequestsKept /\ DiscoveryAwaited'
<1> DEFINE new == [kind |-> "discovery", id |-> lastRequest + 1, basis |-> NoMedia]
<1>1. /\ lastRequest' = lastRequest + 1 /\ asked' = unanswered \cup {new}
      /\ current' = [current EXCEPT !["discovery"] = lastRequest + 1, !["media"] = 0]
      /\ lastRequest \in Nat /\ DOMAIN current = Kind
  BY DEF BeginDiscovery, SetupInv
<1>2. new.kind = "discovery" /\ new.id = lastRequest + 1
  OBVIOUS
<1> HIDE DEF new
<1>3. /\ DOMAIN current' = Kind /\ current'["discovery"] = lastRequest + 1
      /\ current'["media"] = 0
  BY <1>1 DEF Kind
<1>4. \A r \in unanswered : r.kind \in Kind => r.id \in Nat /\ 1 <= r.id /\ r.id <= lastRequest
  BY DEF SetupInv, IdsGivenOut
<1>5. ASSUME NEW r \in asked', r.kind \in Kind
      PROVE  r.id \in Nat /\ 1 <= r.id /\ r.id <= lastRequest'
  <2>1. CASE r = new BY <1>1, <1>2, <2>1
  <2>2. CASE r \in unanswered
    <3>1. r.id \in Nat /\ 1 <= r.id /\ r.id <= lastRequest
      BY <1>4, <1>5, <2>2
    <3> QED BY <1>1, <3>1
  <2> QED BY <1>1, <2>1, <2>2
<1>6. \A r \in asked' : r.kind = "media" => r.id # current'["media"]
  BY <1>3, <1>5 DEF Kind
<1>7. DiscoveryAwaited'
  BY <1>1, <1>2, <1>3 DEF DiscoveryAwaited, Current
<1>8. lastRequest' \in Nat
  BY <1>1
<1> QED BY <1>3, <1>5, <1>6, <1>7, <1>8 DEF RequestsKept, IdsGivenOut

LEMMA DiscoverySuffices ==
  ASSUME SetupInv, UNCHANGED <<devices, selected, media>>,
         preserved' \in Drives \cup {NoDrive},
         NEW unanswered \in SUBSET asked, BeginDiscovery(unanswered)
  PROVE  SetupInv'
<1>1. RequestsKept /\ DiscoveryAwaited'
  BY BeginDiscoveryFacts
<1>2. SelectionListed'
  BY DEF SetupInv, SelectionListed
<1>3. InspectsSelected'
  BY <1>1 DEF SetupInv, InspectsSelected, RequestsKept, Current
<1> QED BY <1>1, <1>2, <1>3 DEF SetupInv, RequestsKept

LEMMA SelectDriveStep ==
  ASSUME SetupInv, SelectDrive
  PROVE  SetupInv'
<1> DEFINE basis == [drive |-> selected', id |-> lastRequest + 1]
<1>1. /\ cursor + 1 \in DOMAIN devices /\ selected' = devices[cursor + 1]
      /\ setupPage' = "InspectingMedia" /\ Ask("media", basis, asked)
      /\ UNCHANGED <<devices, media, preserved>>
  BY DEF SelectDrive, setupDataVars
<1>2. selected' \in Drives /\ selected' # NoDrive /\ basis.drive = selected'
  BY <1>1, SetupAssumption DEF SetupInv, SelectionListed
<1> HIDE DEF basis
<1>3. /\ DOMAIN current' = Kind /\ lastRequest' \in Nat
      /\ IdsGivenOut(asked', lastRequest')
      /\ \A r \in asked' : r.kind = "media" /\ r.id = current'["media"] => r.basis = basis
  BY <1>1, AskFacts DEF Kind
<1>4. SelectionListed'
  BY <1>1, <1>2 DEF SetupInv, SelectionListed
<1>5. InspectsSelected'
  BY <1>2, <1>3 DEF InspectsSelected, Current
<1> QED BY <1>1, <1>3, <1>4, <1>5 DEF SetupInv, DiscoveryAwaited, Finding

LEMMA InspectAgainStep ==
  ASSUME SetupInv, InspectAgain
  PROVE  SetupInv'
<1> DEFINE basis == [drive |-> selected, id |-> lastRequest + 1]
<1>1. /\ selected # NoDrive /\ setupPage' = "InspectingMedia"
      /\ Ask("media", basis, asked)
      /\ UNCHANGED <<devices, selected, media, preserved>> /\ basis.drive = selected
  BY DEF InspectAgain, setupDataVars, mediaVars
<1> HIDE DEF basis
<1>2. /\ DOMAIN current' = Kind /\ lastRequest' \in Nat
      /\ IdsGivenOut(asked', lastRequest')
      /\ \A r \in asked' : r.kind = "media" /\ r.id = current'["media"] => r.basis = basis
  BY <1>1, AskFacts DEF Kind
<1>3. SelectionListed'
  BY <1>1 DEF SetupInv, SelectionListed
<1>4. InspectsSelected'
  BY <1>1, <1>2 DEF InspectsSelected, Current
<1> QED BY <1>1, <1>2, <1>3, <1>4 DEF SetupInv, DiscoveryAwaited, Finding

LEMMA EjectTargetListed ==
  ASSUME SetupInv
  PROVE  /\ EjectTarget \in Drives \cup {NoDrive}
         /\ EjectTarget # NoDrive => \E i \in DOMAIN devices : devices[i] = EjectTarget
         /\ selected # NoDrive => EjectTarget = selected
  BY DEF SetupInv, SelectionListed, EjectTarget

(* The drive to be ejected becomes the selected one, if none was; then no  *)
(* inspection is listened to.                                              *)
LEMMA ForceEjectStep ==
  ASSUME SetupInv, ForceEjectKey
  PROVE  SetupInv'
<1>1. /\ EjectTarget # NoDrive /\ selected' = EjectTarget
      /\ setupPage' = "EjectConfirm"
      /\ UNCHANGED <<devices, media, preserved, asked, current, lastRequest>>
  BY DEF ForceEjectKey, Goto, setupDataVars, requestVars
<1>2. SelectionListed'
  BY <1>1, EjectTargetListed DEF SetupInv, SelectionListed
<1>3. InspectsSelected'
  BY <1>1, EjectTargetListed DEF SetupInv, InspectsSelected, Current
<1> QED BY <1>1, <1>2, <1>3 DEF SetupInv, DiscoveryAwaited, Finding

LEMMA AskEjectKeeps ==
  ASSUME SetupInv, NEW mode \in {"eject", "forceEject"}, NEW drive, AskEject(mode, drive),
         current' = current, lastRequest' = lastRequest, Finding' => Finding
  PROVE  RequestsKept /\ DiscoveryKept
<1> DEFINE r == [kind |-> mode, id |-> effects + 1, basis |-> [drive |-> drive, id |-> 0]]
<1>1. r.kind \notin Kind /\ asked' = asked \cup {r}
  BY DEF AskEject, Kind
<1> QED BY <1>1, EffectKeeps

(* Keys that make no request of their own and keep the disc. *)
LEMMA QuietKeys ==
  ASSUME SetupInv, DiscKept, asked' = asked, lastRequest' = lastRequest,
         \/ current' = current
         \/ (current' = [current EXCEPT !["media"] = 0]),
         Finding' => Finding
  PROVE  SetupInv'
  BY AnswerKeeps, KeptSuffices

LEMMA KeyStep ==
  ASSUME SetupInv, DetailsNotKept, SetupKey
  PROVE  SetupInv'
<1> USE DEF requestVars, mediaVars, setupDataVars
<1>1. CASE RefreshKey
  <2>1. preserved \in Drives \cup {NoDrive}
    BY DEF SetupInv, SelectionListed
  <2> QED BY <1>1, <2>1, DiscoverySuffices DEF RefreshKey
<1>2. CASE ListKey \/ CursorKey
  BY <1>2, QuietKeys DEF ListKey, CursorKey, DiscKept, Finding
<1>3. CASE EjectKey
  <2>1. /\ AskEject("eject", EjectTarget) /\ DiscKept
        /\ current' = current /\ lastRequest' = lastRequest /\ (Finding' => Finding)
    BY <1>3 DEF EjectKey, DiscKept, Finding
  <2>2. RequestsKept /\ DiscoveryKept
    BY <2>1, AskEjectKeeps
  <2> QED BY <2>1, <2>2, KeptSuffices
<1>4. CASE EjectConfirmSelect
  <2>1. DiscKept /\ current' = current /\ lastRequest' = lastRequest
    BY <1>4 DEF EjectConfirmSelect, DiscKept
  <2>2. CASE cursor = 0 /\ selected # NoDrive
    <3>1. AskEject("forceEject", selected) /\ (Finding' => Finding)
      BY <1>4, <2>2 DEF EjectConfirmSelect, Finding
    <3>2. RequestsKept /\ DiscoveryKept
      BY <2>1, <3>1, AskEjectKeeps
    <3> QED BY <2>1, <3>2, KeptSuffices
  <2>3. CASE ~(cursor = 0 /\ selected # NoDrive)
    <3>1. asked' = asked /\ ~Finding'
      BY <1>4, <2>3 DEF EjectConfirmSelect, Goto, Finding
    <3> QED BY <2>1, <3>1, QuietKeys
  <2> QED BY <2>2, <2>3
<1>5. CASE PriorProcessingSelect
  <2>1. ~Finding'
    BY <1>5 DEF PriorProcessingSelect, Resume, Goto, Finding
  <2> QED BY <1>5, <2>1, QuietKeys DEF PriorProcessingSelect, DiscKept
<1>6. CASE StartNew \/ ResumeUnfinished \/ BrowseProcessed \/ CheckTarget
  <2>1. DiscKept /\ ~Finding'
    BY <1>6 DEF StartNew, ResumeUnfinished, BrowseProcessed, CheckTarget, DiscKept, Goto, Finding
  <2>2. PICK kind \in {"target", "resume", "history"} : Ask(kind, media, asked)
    BY <1>6 DEF StartNew, ResumeUnfinished, BrowseProcessed, CheckTarget
  <2>3. RequestsKept /\ DiscoveryKept
    <3>1. kind \in Kind \ {"discovery", "media"} /\ asked \in SUBSET asked
      BY DEF Kind
    <3> QED BY <2>1, <2>2, <3>1, AskKeeps
  <2> QED BY <2>1, <2>3, KeptSuffices
<1>7. CASE ChooseAnotherDrive \/ ResumeJobsSelect
  BY <1>7, QuietKeys DEF ChooseAnotherDrive, ResumeJobsSelect, Resume, Goto, DiscKept, Finding
<1>8. CASE HistorySelect \/ DetailsOfError
  BY <1>8, QuietKeys DEF HistorySelect, DetailsOfError, Goto, DiscKept, Finding
<1>9. CASE EditOutput \/ TypeOutput \/ TabKey \/ FinishEditing
  BY <1>9, QuietKeys DEF EditOutput, TypeOutput, TabKey, FinishEditing, DiscKept, Finding
<1>10. CASE ChangeOutput \/ RecoveryKey \/ LeaveRecovery
  BY <1>10, QuietKeys DEF ChangeOutput, RecoveryKey, LeaveRecovery, Goto, DiscKept, Finding
<1>11. CASE Start
  <2> DEFINE r == [kind |-> "start", id |-> effects + 1, basis |-> media]
  <2>1. /\ r.kind \notin Kind /\ asked' = asked \cup {r} /\ DiscKept
        /\ current' = current /\ lastRequest' = lastRequest /\ (Finding' => Finding)
    BY <1>11 DEF Start, Kind, DiscKept, Finding
  <2>2. RequestsKept /\ DiscoveryKept
    BY <2>1, EffectKeeps
  <2> QED BY <2>1, <2>2, KeptSuffices
<1>12. CASE Back
  <2>1. Finding' => Finding
    BY <1>12 DEF Back, Remembered, Goto, Finding, DetailsNotKept
  <2>2. DiscKept /\ asked' = asked /\ lastRequest' = lastRequest
    BY <1>12 DEF Back, DiscKept
  <2>3. current' = current \/ (current' = [current EXCEPT !["media"] = 0])
    BY <1>12 DEF Back
  <2> QED BY <2>1, <2>2, <2>3, QuietKeys
<1>13. CASE QuitSetup
  <2>1. /\ devices' = <<>> /\ selected' = NoDrive /\ media' = NoMedia
        /\ preserved' = NoDrive /\ asked' = {} /\ setupPage' = "Quit"
        /\ current' = [k \in Kind |-> 0] /\ lastRequest' = 0
    BY <1>13 DEF QuitSetup, Goto
  <2>2. SelectionListed'
    BY <2>1 DEF SelectionListed
  <2> QED BY <2>1, <2>2 DEF SetupInv, IdsGivenOut, InspectsSelected, DiscoveryAwaited, Finding
<1> QED BY <1>1, <1>2, <1>3, <1>4, <1>5, <1>6, <1>7, <1>8, <1>9, <1>10, <1>11, <1>12,
           <1>13, SelectDriveStep, InspectAgainStep, ForceEjectStep DEF SetupKey

(* The list of drives that was found, and what it leaves of the selection. *)
LEMMA DiscoveredStep ==
  ASSUME SetupInv, NEW request \in asked, DevicesDiscovered(request)
  PROVE  SetupInv'
<1> DEFINE drive == IF selected = NoDrive THEN preserved ELSE selected
<1>1. PICK found \in DeviceLists :
        /\ devices' = IF found = <<>> /\ preserved # NoDrive THEN <<drive>> ELSE found
        /\ selected' = Reconciled(devices', drive)
        /\ IF preserved # NoDrive \/ selected' # drive
           THEN media' = NoMedia /\ current' = [current EXCEPT !["media"] = 0]
           ELSE UNCHANGED <<media, current>>
        /\ preserved' = NoDrive
        /\ Goto(IF devices' = <<>> THEN "NoDrives" ELSE "ChooseDrive", 0)
  BY DEF DevicesDiscovered
<1>2. asked' = asked \ {request} /\ lastRequest' = lastRequest /\ ~Finding'
  BY <1>1 DEF DevicesDiscovered, Unanswered, Goto, Finding
<1>3. RequestsKept
  <2>1. current' = current \/ (current' = [current EXCEPT !["media"] = 0])
    BY <1>1
  <2> QED BY <1>2, <2>1, AnswerKeeps
<1>4. drive \in Drives \cup {NoDrive} /\ (preserved # NoDrive => drive # NoDrive)
  BY DEF SetupInv, SelectionListed
<1>5. \A i \in DOMAIN found : found[i] \in Drives
  BY DEF DeviceLists
<1>6. selected' \in {NoDrive, drive}
  BY <1>1 DEF Reconciled
<1>7. SelectionListed'
  <2>1. \A i \in DOMAIN devices' : devices'[i] \in Drives
    BY <1>1, <1>4, <1>5
  <2>2. selected' # NoDrive => \E i \in DOMAIN devices' : devices'[i] = selected'
    BY <1>1 DEF Reconciled
  <2>3. selected' = NoDrive => media' = NoMedia
    BY <1>1, <1>4 DEF SetupInv, SelectionListed
  <2> QED BY <1>1, <1>4, <1>6, <2>1, <2>2, <2>3 DEF SelectionListed
<1>8. InspectsSelected'
  <2> SUFFICES ASSUME NEW r \in asked', r.kind = "media", r.id = current'["media"]
               PROVE  selected' # NoDrive /\ r.basis.drive = selected'
    BY DEF InspectsSelected, Current
  <2>1. r \in asked /\ Current(r) /\ selected # NoDrive /\ r.basis.drive = selected
    BY <1>3 DEF RequestsKept, SetupInv, InspectsSelected
  <2>2. current'["media"] # 0
    BY <1>2, <2>1 DEF SetupInv, IdsGivenOut, Kind
  <2>3. "media" \in DOMAIN current
    BY DEF SetupInv, Kind
  <2>4. selected' = drive
    BY <1>1, <2>2, <2>3
  <2> QED BY <2>1, <2>4
<1> QED BY <1>2, <1>3, <1>7, <1>8 DEF SetupInv, RequestsKept, DiscoveryAwaited

LEMMA IdentifiedStep ==
  ASSUME SetupInv, NEW request \in asked, MediaIdentified(request)
  PROVE  SetupInv' /\ media'.drive = selected /\ selected' = selected
<1>1. /\ request.kind = "media" /\ Current(request) /\ media' = request.basis
      /\ setupPage' = "ChooseAction" /\ Ask("lookup", media', asked \ {request})
      /\ UNCHANGED <<devices, selected, preserved>>
  BY DEF MediaIdentified, Answers, Unanswered, Goto, setupDataVars
<1>2. RequestsKept /\ DiscoveryKept
  <2>1. /\ "lookup" \in Kind \ {"discovery", "media"} /\ asked \ {request} \in SUBSET asked
        /\ ~Finding'
    BY <1>1 DEF Kind, Finding
  <2> QED BY <1>1, <2>1, AskKeeps
<1>3. selected # NoDrive /\ media'.drive = selected
  BY <1>1 DEF SetupInv, InspectsSelected
<1>4. SelectionListed'
  BY <1>1, <1>3 DEF SetupInv, SelectionListed
<1>5. InspectsSelected'
  BY <1>1, <1>2 DEF SetupInv, InspectsSelected, RequestsKept, Current
<1> QED BY <1>1, <1>2, <1>3, <1>4, <1>5 DEF SetupInv, RequestsKept, DiscoveryAwaited, Finding

LEMMA AnswerStep ==
  ASSUME SetupInv, NEW request \in asked, SetupAnswered(request)
  PROVE  SetupInv'
<1> USE DEF mediaVars, setupDataVars
<1>1. ASSUME DiscKept, asked' = asked \ {request}, lastRequest' = lastRequest,
             current' = current,
             Finding' => Finding /\ (request.kind # "discovery" \/ ~Current(request))
      PROVE  SetupInv'
  BY <1>1, AnswerKeeps, KeptSuffices
<1>2. CASE StaleAnswer(request)
  BY <1>1, <1>2 DEF StaleAnswer, Unanswered, DiscKept, Finding
<1>3. CASE DiscoveryFailed(request) \/ InspectionFailed(request)
  BY <1>1, <1>3 DEF DiscoveryFailed, InspectionFailed, Unanswered, DiscKept, Finding
<1>4. CASE PriorProcessingLookup(request)
  <2>1. Finding' => Finding
    BY <1>4 DEF PriorProcessingLookup, Goto, Finding
  <2> QED BY <1>1, <1>4, <2>1 DEF PriorProcessingLookup, Answers, Unanswered, DiscKept
<1>5. CASE RecoveryTargetInspected(request)
  BY <1>1, <1>5 DEF RecoveryTargetInspected, Unanswered, DiscKept, Goto, Finding
<1>6. CASE ResumableJobsDiscovered(request) \/ ProcessedMediaDiscovered(request)
  BY <1>1, <1>6
     DEF ResumableJobsDiscovered, ProcessedMediaDiscovered, Unanswered, DiscKept, Goto, Finding
<1>7. CASE SearchFailed(request)
  BY <1>1, <1>7 DEF SearchFailed, Unanswered, DiscKept, Goto, Finding
<1>8. CASE EjectCompleted(request)
  <2>1. /\ UNCHANGED <<devices, selected, media>> /\ preserved' = EjectTarget
        /\ BeginDiscovery(asked \ {request}) /\ asked \ {request} \in SUBSET asked
    BY <1>8 DEF EjectCompleted, Unanswered
  <2> QED BY <2>1, EjectTargetListed, DiscoverySuffices
<1>9. CASE EjectFailed(request) \/ StartAnswered(request)
  BY <1>1, <1>9 DEF EjectFailed, StartAnswered, Unanswered, DiscKept, Goto, Finding
<1> QED BY <1>2, <1>3, <1>4, <1>5, <1>6, <1>7, <1>8, <1>9, DiscoveredStep, IdentifiedStep
        DEF SetupAnswered

LEMMA DetailsNotRemembered ==
  ASSUME DetailsNotKept, [SetupNext]_setupVars
  PROVE  DetailsNotKept'
<1> USE DEF DetailsNotKept
<1>1. CASE UNCHANGED setupVars
  BY <1>1 DEF setupVars
<1>2. CASE SetupKey
  BY <1>2 DEF SetupKey, RefreshKey, ListKey, CursorKey, SelectDrive, InspectAgain, EjectKey,
     ForceEjectKey, EjectConfirmSelect, PriorProcessingSelect, StartNew, ResumeUnfinished,
     BrowseProcessed, ChooseAnotherDrive, ResumeJobsSelect, HistorySelect, DetailsOfError,
     EditOutput, TypeOutput, TabKey, FinishEditing, CheckTarget, ChangeOutput, Start,
     RecoveryKey, LeaveRecovery, Back, Remembered, QuitSetup
<1>3. ASSUME NEW request \in asked, SetupAnswered(request)
      PROVE  previousSetupPage' = previousSetupPage
  BY <1>3 DEF SetupAnswered, StaleAnswer, DevicesDiscovered, DiscoveryFailed,
     MediaIdentified, InspectionFailed, PriorProcessingLookup, RecoveryTargetInspected,
     ResumableJobsDiscovered, ProcessedMediaDiscovered, SearchFailed, EjectCompleted,
     EjectFailed, StartAnswered
<1> QED BY <1>1, <1>2, <1>3 DEF SetupNext

LEMMA SetupInvStep ==
  ASSUME SetupInv, DetailsNotKept, [SetupNext]_setupVars
  PROVE  SetupInv' /\ DetailsNotKept'
<1>1. CASE UNCHANGED setupVars
  BY <1>1 DEF setupVars, SetupInv, SelectionListed, InspectsSelected, DiscoveryAwaited,
              Finding, IdsGivenOut, Current, DetailsNotKept
<1> QED BY <1>1, KeyStep, AnswerStep, DetailsNotRemembered DEF SetupNext

LEMMA SetupInvInit == SetupInit => SetupInv /\ DetailsNotKept
<1> SUFFICES ASSUME SetupInit PROVE SetupInv /\ DetailsNotKept
  OBVIOUS
<1>1. SelectionListed
  BY DEF SetupInit, SelectionListed
<1>2. /\ DOMAIN current = Kind /\ current["discovery"] = 1 /\ lastRequest = 1
      /\ asked = {[kind |-> "discovery", id |-> 1, basis |-> NoMedia]}
  BY DEF SetupInit, Kind
<1> QED BY <1>1, <1>2
        DEF SetupInit, SetupInv, IdsGivenOut, InspectsSelected, DiscoveryAwaited, Current,
            DetailsNotKept

(* Whatever drives there are and whatever answers come late: on the page   *)
(* that waits for a discovery, the answer that leaves it is under way.     *)
THEOREM DiscoveryIsNoDeadEnd == SetupSpec => []DiscoveryIsAnswered
<1>1. SetupInv => DiscoveryIsAnswered
  BY DEF SetupInv, DiscoveryAwaited, Finding, DiscoveryIsAnswered
<1> QED BY <1>1, SetupInvInit, SetupInvStep, PTL DEF SetupSpec

(* Only an inspection changes the geometry of the disc, otherwise than to  *)
(* none.                                                                   *)
LEMMA OnlyInspectionsChangeMedia ==
  ASSUME SetupInv, [SetupNext]_setupVars,
         \A request \in asked : ~MediaIdentified(request)
  PROVE  media' \in {media, NoMedia}
<1> USE DEF mediaVars, setupDataVars
<1>1. CASE UNCHANGED setupVars
  BY <1>1 DEF setupVars
<1>2. CASE SetupKey
  BY <1>2 DEF SetupKey, RefreshKey, ListKey, CursorKey, SelectDrive, InspectAgain, EjectKey,
     ForceEjectKey, EjectConfirmSelect, PriorProcessingSelect, StartNew, ResumeUnfinished,
     BrowseProcessed, ChooseAnotherDrive, ResumeJobsSelect, HistorySelect, DetailsOfError,
     EditOutput, TypeOutput, TabKey, FinishEditing, CheckTarget, ChangeOutput, Start,
     RecoveryKey, LeaveRecovery, Back, QuitSetup
<1>3. ASSUME NEW request \in asked, SetupAnswered(request)
      PROVE  media' \in {media, NoMedia}
  BY <1>3 DEF SetupAnswered, StaleAnswer, DevicesDiscovered, DiscoveryFailed,
     InspectionFailed, PriorProcessingLookup, RecoveryTargetInspected,
     ResumableJobsDiscovered, ProcessedMediaDiscovered, SearchFailed, EjectCompleted,
     EjectFailed, StartAnswered
<1> QED BY <1>1, <1>2, <1>3 DEF SetupNext

(* Late answers and drives that come and go never leave the setup with the *)
(* geometry of another disc than that in the selected drive: it becomes    *)
(* what an inspection of that drive found, or is dropped.                  *)
THEOREM GeometryIsOfSelection == SetupSpec => MediaFollowsSelection
<1>1. ASSUME SetupInv, DetailsNotKept, [SetupNext]_setupVars
      PROVE  [/\ selected' # NoDrive => \E i \in DOMAIN devices' : devices'[i] = selected'
              /\ selected' = NoDrive => media' = NoMedia
              /\ media' \notin {media, NoMedia} => media'.drive = selected']_setupVars
  <2>1. SetupInv'
    BY <1>1, SetupInvStep
  <2>2. media' \notin {media, NoMedia} => media'.drive = selected'
    BY <1>1, OnlyInspectionsChangeMedia, IdentifiedStep
  <2>3. /\ selected' # NoDrive => \E i \in DOMAIN devices' : devices'[i] = selected'
        /\ selected' = NoDrive => media' = NoMedia
    BY <2>1 DEF SetupInv, SelectionListed
  <2> QED BY <2>2, <2>3
<1> QED BY <1>1, SetupInvInit, SetupInvStep, PTL DEF SetupSpec, MediaFollowsSelection
=============================================================================
