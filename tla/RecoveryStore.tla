--------------------------- MODULE RecoveryStore ---------------------------
(***************************************************************************)
(* How a recovery session makes its work durable: the image file, the      *)
(* .drmap journal, the store that appends to it (package recoverymap), the *)
(* checkpointing layer above (platform/recovery_persistence.go) and the    *)
(* way a session ends (the deferred flush of the pass loop, then finish    *)
(* and Store.Close).                                                       *)
(*                                                                         *)
(* One step is one system call with the bookkeeping around it, so a crash  *)
(* can fall between any two of them.  Both files are seen twice: as the    *)
(* file system shows them and as stable storage holds them.  Until a sync  *)
(* succeeds the kernel may have written back any part of the dirty data.   *)
(* The map header is smaller than a device block and is not torn.          *)
(***************************************************************************)
EXTENDS SectorMap, FiniteSets

CONSTANTS
    MaxPendingSectors,  \* MaxPendingRecoveredBytes, counted in sectors
    MaxPendingRecords,  \* staged records that force a checkpoint
    BlockSectors,       \* largest read of a pass
    MaxAttempts,        \* bound: attempts recorded for a sector
    MaxEntries,         \* bound: entries in the journal
    Faults              \* calls that may fail, and whether writes may tear

ASSUME RecoveryStoreAssumption ==
    /\ MaxPendingSectors \in Nat \ {0}
    /\ MaxPendingRecords \in Nat \ {0}
    /\ BlockSectors \in 1 .. MaxPendingSectors
    /\ MaxAttempts \in Nat
    /\ MaxEntries \in Nat
    /\ Faults \subseteq {"imageWrite", "imageSync", "mapWrite", "mapSync", "tear"}

VARIABLES
    image,           \* sectors whose recovered bytes the image file shows
    imageSynced,     \* those that are on stable storage
    journal,         \* entries of the map's journal as the file shows them
    journalSynced,   \* how many of them are on stable storage
    clean,           \* clean-shutdown flag of the map header
    extents,         \* Store.extents
    durableExtents,  \* Store.durableExtents, the source of reported progress
    nextSequence,    \* Store.nextSequence
    pendingRecords,  \* Store.pendingRecords
    pendingSectors,  \* recoveryPersistence.pendingRecoveredBytes, in sectors
    pc,              \* where the session is
    then,            \* where it continues after the checkpoint under way
    arg,             \* extent of the PersistRecovered or ApplyExtent under way
    runErr           \* error of runPassBasedRecovery: none, canceled or error

diskVars == <<image, imageSynced, journal, journalSynced, clean>>
storeVars == <<extents, durableExtents, nextSequence, pendingRecords,
               pendingSectors>>
controlVars == <<pc, then, arg, runErr>>
vars == <<diskVars, storeVars, controlVars>>

NoExtent == [start |-> 0, sectors |-> 1, state |-> "unknown",
             confidence |-> ConfidenceNone, attempts |-> 0]

Locations == {"off", "run", "persist", "append", "appendSync", "imageSync",
              "flush", "mapSync", "unwind", "finish", "close", "header"}

(* Type invariant. *)
TypeOK ==
    /\ image \subseteq Sectors
    /\ imageSynced \subseteq image
    /\ journal \in Seq(JournalEntry)
    /\ journalSynced \in 0 .. Len(journal)
    /\ clean \in BOOLEAN
    /\ extents \in SectorMaps
    /\ durableExtents \in SectorMaps
    /\ nextSequence \in Nat
    /\ pendingRecords \in Seq(JournalEntry)
    /\ pendingSectors \in Nat
    /\ pc \in Locations
    /\ then \in {"run", "persist", "append", "finish", "header"}
    /\ arg \in Extent
    /\ runErr \in {"none", "canceled", "error"}

----------------------------------------------------------------------------
(***************************************************************************)
(* The extents a session puts in the map, from the cell they replace.  The *)
(* fast pass records its first read of unmapped sectors; a retry queues    *)
(* one more attempt durably before it reads, then records the outcome;     *)
(* finalization gives up on what is left.  RecoveryPasses has the order in *)
(* which the passes do this.                                               *)
(***************************************************************************)
Outcome(c) ==
    [state : {"read_unverified"}, confidence : {ConfidenceSingleRead},
     attempts : {c.attempts}]
        \cup [state : {"io_error"}, confidence : {ConfidenceNone},
              attempts : {c.attempts}]

NextCells(c) ==
    CASE c = Absent -> Outcome([c EXCEPT !.attempts = 1])
      [] c.state = "queued" -> Outcome(c)
      [] c.state \in {"unknown", "io_error", "missing"} ->
           [state : {"queued"}, confidence : {ConfidenceNone},
            attempts : {c.attempts + 1}]
             \cup [state : {"missing"}, confidence : {ConfidenceNone},
                   attempts : {c.attempts}]
      [] OTHER -> {}

(* Blocks of sectors that lie in one extent or in one unmapped gap of the  *)
(* session's map.                                                          *)
Blocks ==
    {b \in [start : Sectors, sectors : 1 .. CapacitySectors] :
        /\ b.start + b.sectors <= CapacitySectors
        /\ \A s \in b.start .. b.start + b.sectors - 1 :
              extents[s] = extents[b.start]}

(* A read covers at most BlockSectors sectors, finalization any extent. *)
Candidates ==
    {e \in UNION {{[start |-> b.start, sectors |-> b.sectors, state |-> c.state,
                    confidence |-> c.confidence, attempts |-> c.attempts] :
                       c \in NextCells(extents[b.start])} : b \in Blocks} :
        e.state = "missing" \/ e.sectors <= BlockSectors}

(* Bound on the work of a behaviour: every staged record fits the journal. *)
HasRoom(e) ==
    /\ Len(journal) + Len(pendingRecords) < MaxEntries
    /\ e.attempts <= MaxAttempts

----------------------------------------------------------------------------
(* A freshly created pair: an empty image and an empty, synced map. *)
Init ==
    /\ image = {} /\ imageSynced = {}
    /\ journal = <<>> /\ journalSynced = 0
    /\ clean = FALSE
    /\ extents = EmptyMap /\ durableExtents = EmptyMap
    /\ nextSequence = 1
    /\ pendingRecords = <<>> /\ pendingSectors = 0
    /\ pc = "run" /\ then = "run" /\ arg = NoExtent /\ runErr = "none"

(* Mutant: the checkpoint goes to the journal without syncing the image. *)
BeginCheckpointUnsynced(next) ==
    IF pendingSectors = 0 /\ pendingRecords = <<>>
    THEN pc' = next /\ then' = "run"
    ELSE pc' = "flush" /\ then' = next

(* ForceCheckpoint, entered on the way to location next. *)
BeginCheckpoint(next) ==
    IF pendingSectors = 0 /\ pendingRecords = <<>>
    THEN pc' = next /\ then' = "run"
    ELSE /\ pc' = IF pendingSectors > 0 THEN "imageSync" ELSE "flush"
         /\ then' = next

(* A failed call: the pass loop returns the error and its deferred flush   *)
(* follows; in the deferred flush the errors are joined; in Close the file *)
(* is closed.  A canceled run stays canceled whatever fails later.         *)
Fail ==
    /\ pc' = CASE then = "header" -> "off"
               [] then = "finish" -> "finish"
               [] OTHER -> "unwind"
    /\ then' = "run"
    /\ arg' = NoExtent
    /\ runErr' = IF runErr = "none" THEN "error" ELSE runErr

(* What the process forgets when it ends. *)
ForgetSession ==
    /\ extents' = EmptyMap /\ durableExtents' = EmptyMap
    /\ nextSequence' = 1
    /\ pendingRecords' = <<>> /\ pendingSectors' = 0
    /\ pc' = "off" /\ then' = "run" /\ arg' = NoExtent /\ runErr' = "none"

----------------------------------------------------------------------------
(* PersistRecovered: image write, StageExtent, and the thresholds. *)

WriteAndStage(e) ==
    /\ CanApplyExtent(extents, e)
    /\ image' = image \cup Covered(e)
    /\ extents' = ApplyExtent(extents, e)
    /\ pendingRecords' = Append(pendingRecords, Record(nextSequence, e))
    /\ nextSequence' = nextSequence + 1
    /\ pendingSectors' = pendingSectors + e.sectors
    /\ \/ /\ pendingSectors + e.sectors < MaxPendingSectors
          /\ Len(pendingRecords) + 1 < MaxPendingRecords
          /\ pc' = "run"
       \/ pc' = "imageSync"      \* a threshold, or the checkpoint interval
    /\ then' = "run"
    /\ arg' = NoExtent
    /\ UNCHANGED <<imageSynced, journal, journalSynced, clean, durableExtents,
                   runErr>>

(* Mutant: no checkpoint before a block that does not fit the batch. *)
PersistRecoveredOverfull(e) ==
    /\ pc = "run"
    /\ e.state = "read_unverified"
    /\ HasRoom(e)
    /\ WriteAndStage(e)

PersistRecovered(e) ==
    /\ pc = "run"
    /\ e.state = "read_unverified"
    /\ HasRoom(e)
    /\ IF pendingSectors > 0 /\ pendingSectors + e.sectors > MaxPendingSectors
       THEN /\ pc' = "imageSync" /\ then' = "persist" /\ arg' = e
            /\ UNCHANGED <<diskVars, storeVars, runErr>>
       ELSE WriteAndStage(e)

PersistAfterCheckpoint ==
    /\ pc = "persist"
    /\ WriteAndStage(arg)

(* The image write fails after some of the block has been written. *)
ImageWriteFails(e) ==
    /\ "imageWrite" \in Faults
    /\ \/ /\ pc = "run" /\ e.state = "read_unverified" /\ HasRoom(e)
          /\ pendingSectors = 0 \/ pendingSectors + e.sectors <= MaxPendingSectors
       \/ pc = "persist" /\ e = arg
    /\ \E part \in SUBSET Covered(e) : image' = image \cup part
    /\ Fail
    /\ UNCHANGED <<imageSynced, journal, journalSynced, clean, storeVars>>

(* recoveryPersistence.ApplyExtent: a checkpoint, then a synced append. *)
ApplyDurably(e) ==
    /\ pc = "run"
    /\ e.state # "read_unverified"
    /\ HasRoom(e)
    /\ BeginCheckpoint("append")
    /\ arg' = e
    /\ UNCHANGED <<diskVars, storeVars, runErr>>

----------------------------------------------------------------------------
(* The calls of a checkpoint: image sync, journal writes, journal sync. *)

SyncImage ==
    /\ pc = "imageSync"
    /\ imageSynced' = image
    /\ pc' = "flush"
    /\ UNCHANGED <<image, journal, journalSynced, clean, storeVars, then, arg,
                   runErr>>

SyncImageFails ==
    /\ "imageSync" \in Faults
    /\ pc = "imageSync"
    /\ Fail
    /\ UNCHANGED <<diskVars, storeVars>>

FlushWrite ==
    /\ pc = "flush"
    /\ journal' = journal \o pendingRecords
    /\ pc' = "mapSync"
    /\ UNCHANGED <<image, imageSynced, journalSynced, clean, storeVars, then,
                   arg, runErr>>

(* Some records are written, the next one perhaps in part.  They stay      *)
(* pending.                                                                *)
FlushWriteFails ==
    /\ "mapWrite" \in Faults
    /\ pc = "flush"
    /\ \E n \in 0 .. Len(pendingRecords) - 1 :
         LET written == SubSeq(pendingRecords, 1, n)
         IN  \/ journal' = journal \o written
             \/ \E fate \in {"corrupt", "swallow"} :
                  journal' = Append(journal \o written,
                                    Torn(pendingRecords[n + 1], fate))
    /\ Fail
    /\ UNCHANGED <<image, imageSynced, journalSynced, clean, storeVars>>

(* Mutant: the flush returns without syncing the journal. *)
FlushSyncSkipped ==
    /\ pc = "mapSync"
    /\ pendingRecords' = <<>>
    /\ durableExtents' = extents
    /\ pendingSectors' = 0
    /\ pc' = then
    /\ then' = "run"
    /\ UNCHANGED <<diskVars, extents, nextSequence, arg, runErr>>

FlushSync ==
    /\ pc = "mapSync"
    /\ journalSynced' = Len(journal)
    /\ pendingRecords' = <<>>
    /\ durableExtents' = extents
    \* Store.Close flushes the store alone; the session's counter goes with it
    /\ pendingSectors' = 0
    /\ pc' = then
    /\ then' = "run"
    /\ UNCHANGED <<image, imageSynced, journal, clean, extents, nextSequence,
                   arg, runErr>>

(* The records are in the file and, since the call failed, still pending. *)
FlushSyncFails ==
    /\ "mapSync" \in Faults
    /\ pc = "mapSync"
    /\ Fail
    /\ UNCHANGED <<diskVars, storeVars>>

----------------------------------------------------------------------------
(* Store.appendExtent with sync. *)

AppendWrite ==
    /\ pc = "append"
    /\ CanApplyExtent(extents, arg)
    /\ journal' = Append(journal, Record(nextSequence, arg))
    /\ pc' = "appendSync"
    /\ UNCHANGED <<image, imageSynced, journalSynced, clean, storeVars, then,
                   arg, runErr>>

AppendWriteFails ==
    /\ "mapWrite" \in Faults
    /\ pc = "append"
    /\ \/ UNCHANGED journal
       \/ \E fate \in {"corrupt", "swallow"} :
            journal' = Append(journal, Torn(Record(nextSequence, arg), fate))
    /\ Fail
    /\ UNCHANGED <<image, imageSynced, journalSynced, clean, storeVars>>

(* Mutant: a synced append leaves the next sequence number alone. *)
AppendSyncKeepsSequence ==
    /\ pc = "appendSync"
    /\ journalSynced' = Len(journal)
    /\ extents' = ApplyExtent(extents, arg)
    /\ durableExtents' = ApplyExtent(extents, arg)
    /\ pc' = "run"
    /\ arg' = NoExtent
    /\ UNCHANGED <<image, imageSynced, journal, clean, nextSequence,
                   pendingRecords, pendingSectors, then, runErr>>

AppendSync ==
    /\ pc = "appendSync"
    /\ journalSynced' = Len(journal)
    /\ extents' = ApplyExtent(extents, arg)
    /\ durableExtents' = ApplyExtent(extents, arg)
    /\ nextSequence' = nextSequence + 1
    /\ pc' = "run"
    /\ arg' = NoExtent
    /\ UNCHANGED <<image, imageSynced, journal, clean, pendingRecords,
                   pendingSectors, then, runErr>>

AppendSyncFails ==
    /\ "mapSync" \in Faults
    /\ pc = "appendSync"
    /\ Fail
    /\ UNCHANGED <<diskVars, storeVars>>

----------------------------------------------------------------------------
(* How the pass loop returns: all passes done, a stop, or a fatal source   *)
(* error.                                                                  *)
RunReturns(err) ==
    /\ pc = "run"
    /\ runErr' = err
    /\ pc' = "unwind"
    /\ UNCHANGED <<diskVars, storeVars, then, arg>>

(* Mutant: a canceled run never gets past its deferred flush. *)
DeferredFlushUnlessCanceled ==
    /\ pc = "unwind"
    /\ runErr # "canceled"
    /\ BeginCheckpoint("finish")
    /\ UNCHANGED <<diskVars, storeVars, arg, runErr>>

DeferredFlush ==
    /\ pc = "unwind"
    /\ BeginCheckpoint("finish")
    /\ UNCHANGED <<diskVars, storeVars, arg, runErr>>

(* The rest of run: a run without error syncs the image once more. *)
FinishRun ==
    /\ pc = "finish"
    /\ \/ /\ runErr = "none"
          /\ imageSynced' = image
          /\ UNCHANGED runErr
       \/ /\ runErr = "none"
          /\ "imageSync" \in Faults
          /\ runErr' = "error"
          /\ UNCHANGED imageSynced
       \/ /\ runErr # "none"
          /\ UNCHANGED <<imageSynced, runErr>>
    /\ pc' = "close"
    /\ UNCHANGED <<image, journal, journalSynced, clean, storeVars, then, arg>>

(* Store.Close: flush, then the header with the session's verdict. *)
CloseStore ==
    /\ pc = "close"
    /\ IF pendingRecords = <<>>
       THEN pc' = "header" /\ then' = "run"
       ELSE pc' = "flush" /\ then' = "header"
    /\ UNCHANGED <<diskVars, storeVars, arg, runErr>>

CloseHeader ==
    /\ pc = "header"
    /\ clean' = (runErr # "error")
    /\ journalSynced' = Len(journal)
    /\ ForgetSession
    /\ UNCHANGED <<image, imageSynced, journal>>

CloseHeaderFails ==
    /\ {"mapWrite", "mapSync"} \cap Faults # {}
    /\ pc = "header"
    /\ ForgetSession
    /\ UNCHANGED diskVars

----------------------------------------------------------------------------
(* Open replays the map, appends after whatever the file holds, and marks  *)
(* the map active; its sync covers the whole file.                         *)
Open ==
    /\ pc = "off"
    /\ ReplayOK(journal)
    /\ extents' = ReplayJournal(journal)
    /\ durableExtents' = ReplayJournal(journal)
    /\ nextSequence' = LastSequence(journal) + 1
    /\ pendingRecords' = <<>> /\ pendingSectors' = 0
    /\ clean' = FALSE
    /\ journalSynced' = Len(journal)
    /\ pc' = "run" /\ then' = "run" /\ arg' = NoExtent /\ runErr' = "none"
    /\ UNCHANGED <<image, imageSynced, journal>>

OpenFails ==
    /\ "mapSync" \in Faults
    /\ pc = "off"
    /\ ReplayOK(journal)
    /\ clean' = FALSE
    /\ UNCHANGED <<image, imageSynced, journal, journalSynced, storeVars,
                   controlVars>>

OpenRejected ==
    /\ pc = "off"
    /\ ~ReplayOK(journal)
    /\ UNCHANGED vars

(* The process dies; the files keep what has been written to them. *)
Kill ==
    /\ pc # "off"
    /\ ForgetSession
    /\ UNCHANGED diskVars

(* The machine dies: of what was not synced any part of the image and any  *)
(* prefix of the journal survives, the next entry perhaps in part.         *)
PowerLoss ==
    /\ \E kept \in SUBSET (image \ imageSynced) :
         /\ image' = imageSynced \cup kept
         /\ imageSynced' = imageSynced \cup kept
    /\ \E n \in journalSynced .. Len(journal) :
         \/ /\ journal' = SubSeq(journal, 1, n)
            /\ journalSynced' = n
         \/ /\ "tear" \in Faults
            /\ n < Len(journal)
            /\ \E fate \in {"corrupt", "swallow"} :
                 journal' = Append(SubSeq(journal, 1, n),
                                   Torn(journal[n + 1], fate))
            /\ journalSynced' = n + 1
    /\ ForgetSession
    /\ UNCHANGED clean

----------------------------------------------------------------------------
SessionStep ==
    \/ PersistAfterCheckpoint
    \/ SyncImage \/ SyncImageFails
    \/ FlushWrite \/ FlushWriteFails \/ FlushSync \/ FlushSyncFails
    \/ AppendWrite \/ AppendWriteFails \/ AppendSync \/ AppendSyncFails
    \/ DeferredFlush \/ FinishRun
    \/ CloseStore \/ CloseHeader \/ CloseHeaderFails

PassStep ==
    \/ \E e \in Candidates : PersistRecovered(e) \/ ApplyDurably(e)
    \/ \E e \in Candidates \cup {arg} : ImageWriteFails(e)

Next ==
    \/ PassStep
    \/ SessionStep
    \/ \E err \in {"none", "canceled", "error"} : RunReturns(err)
    \/ Open \/ OpenFails \/ OpenRejected
    \/ Kill \/ PowerLoss

Spec == Init /\ [][Next]_vars

(* The session's own calls return: a device may be slow, system calls on   *)
(* the two files are not waited for forever.                               *)
FairSpec == Spec /\ WF_vars(SessionStep)

----------------------------------------------------------------------------
(***************************************************************************)
(* Properties.                                                             *)
(***************************************************************************)

(* Every record of the journal that promises image bytes, synced or not,   *)
(* is about sectors whose bytes are already on stable storage: the image   *)
(* sync of ForceCheckpoint comes before the journal writes of Flush on     *)
(* every path, the deferred flush and Close after an error included.       *)
ClaimsBacked ==
    \A i \in 1 .. Len(journal) : EntryClaims(journal[i]) \subseteq imageSynced

(* Why ClaimsBacked survives a step: the sectors of a staged record are in *)
(* the image, they are on stable storage from the image sync of a          *)
(* checkpoint until its flush is over, a failed or retried flush included, *)
(* and the synced append of ApplyExtent, which has no image sync of its    *)
(* own, only ever starts with nothing staged and claims nothing.  Only a   *)
(* checkpoint remembers where to go on.                                    *)
WriteOrder ==
    /\ \A i \in 1 .. Len(pendingRecords) :
         /\ EntryClaims(pendingRecords[i]) \subseteq image
         /\ pc \in {"flush", "mapSync", "finish", "close"} =>
              EntryClaims(pendingRecords[i]) \subseteq imageSynced
    /\ pc \in {"persist", "append", "appendSync", "header"} \/ pendingSectors = 0 =>
         pendingRecords = <<>>
    /\ pc \in {"append", "appendSync"} \/ then = "append" =>
         ~StateClaimsImageData(arg.state)
    /\ pc \notin {"imageSync", "flush", "mapSync"} => then = "run"

(* Journals a crash without torn writes may leave behind. *)
CrashJournals == {SubSeq(journal, 1, n) : n \in journalSynced .. Len(journal)}

(* The state progress is reported from (Store.durableExtents) survives a   *)
(* crash at any point: whatever prefix of the journal is left, it replays, *)
(* and no recovered sector and no attempt counted before is missing.       *)
ReportedProgressSurvives ==
    pc # "off" =>
        \A j \in CrashJournals :
            /\ ReplayOK(j)
            /\ ClaimedSectors(durableExtents) \subseteq ClaimedSectors(ReplayJournal(j))
            /\ \A s \in Sectors :
                 durableExtents[s].attempts <= ReplayJournal(j)[s].attempts

(* Between two operations the journal with the staged records replays to   *)
(* exactly the map the session works from, and the next record continues   *)
(* its numbering: what StageExtent and ApplyExtent keep in memory and what *)
(* ReplayJournalReader makes of their records never drift apart, over      *)
(* flushes, crashes and resumes.                                           *)
JournalReproducesMemory ==
    pc = "run" =>
        LET all == journal \o pendingRecords
        IN  /\ ReplayOK(all)
            /\ ReplayJournal(all) = RequeueAsUnknown(extents)
            /\ nextSequence = Len(all) + 1

(* A crash costs at most one batch: the recovered sectors a session knows  *)
(* of and some crash would forget never exceed the checkpoint threshold of *)
(* PersistRecovered.                                                       *)
LossBounded ==
    pc # "off" =>
        \A j \in CrashJournals :
            Cardinality(ClaimedSectors(extents) \ ClaimedSectors(ReplayJournal(j)))
                <= MaxPendingSectors

(* A map that has been established can be opened again once its session    *)
(* has ended, by whatever end.                                             *)
MapReopens == pc = "off" => ReplayOK(journal)

(* A session that is asked to stop ends: its deferred flush, the image     *)
(* sync and Store.Close follow one another to the closed map.              *)
CanceledSessionEnds == runErr = "canceled" ~> pc = "off"

(* The sectors the durable part of the journal promises. *)
DurableClaims ==
    UNION {EntryClaims(journal[i]) : i \in 1 .. journalSynced}

Durable == INSTANCE DurableProgress
             WITH Sectors <- Sectors, stored <- imageSynced,
                  claimed <- DurableClaims

(* The files of a session only ever move the way DurableProgress allows.   *)
ImplementsDurableProgress == Durable!Spec
============================================================================
