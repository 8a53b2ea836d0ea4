------------------------ MODULE RecoveryStoreProofs ------------------------
(***************************************************************************)
(* Proofs about RecoveryStore for every medium, batch size and bound.      *)
(***************************************************************************)
EXTENDS RecoveryStore, SequenceTheorems, FiniteSetTheorems, TLAPS

(* An extent covers sectors of the medium only. *)
LEMMA CoveredSectors == \A e : Covered(e) \subseteq Sectors
  BY DEF Covered

(* What an entry claims are sectors; a fragment claims nothing. *)
LEMMA EntryClaimsSectors == \A entry : EntryClaims(entry) \subseteq Sectors
  BY CoveredSectors DEF EntryClaims

LEMMA TornClaimsNothing ==
  ASSUME NEW entry \in JournalEntry, NEW fate \in {"corrupt", "swallow"}
  PROVE  /\ Torn(entry, fate) \in JournalEntry
         /\ EntryClaims(Torn(entry, fate)) = {}
  BY DEF JournalEntry, Torn, EntryClaims, IsRecord

LEMMA RecordTyped ==
  ASSUME NEW n \in Nat, NEW e \in Extent
  PROVE  /\ Record(n, e) \in JournalEntry
         /\ EntryClaims(Record(n, e)) \subseteq Covered(e)
         /\ ~StateClaimsImageData(e.state) => EntryClaims(Record(n, e)) = {}
  BY DEF JournalEntry, Record, EntryClaims, IsRecord

LEMMA ApplyExtentTyped ==
  ASSUME NEW map \in SectorMaps, NEW e \in Extent
  PROVE  ApplyExtent(map, e) \in SectorMaps
  BY DEF ApplyExtent, SectorMaps, Cell, CellOf, Extent

LEMMA EmptyMapTyped == EmptyMap \in SectorMaps
  BY DEF EmptyMap, SectorMaps, Cell, Absent, Confidence, ConfidenceNone,
         ConfidenceReconstructedChecksum

LEMMA NoExtentTyped == NoExtent \in Extent
  BY CapacityAssumption
  DEF NoExtent, Extent, Sectors, SectorState, Confidence, ConfidenceNone,
      ConfidenceReconstructedChecksum

(* Downgrading queued cells yields a map. *)
LEMMA RequeueTyped ==
  ASSUME NEW map \in SectorMaps
  PROVE  RequeueAsUnknown(map) \in SectorMaps
<1>1. ASSUME NEW s \in Sectors
      PROVE  RequeueAsUnknown(map)[s] \in Cell
  <2>1. map[s] \in Cell
    BY DEF SectorMaps
  <2>2. [state |-> "unknown", confidence |-> ConfidenceNone,
         attempts |-> map[s].attempts] \in Cell
    BY <2>1 DEF Cell, SectorState, Confidence, ConfidenceNone,
                ConfidenceReconstructedChecksum
  <2> QED BY <2>1, <2>2, Zenon DEF RequeueAsUnknown
<1> QED BY <1>1 DEF RequeueAsUnknown, SectorMaps

(* Replaying any journal yields a map. *)
LEMMA ReplayTyped ==
  ASSUME NEW j \in Seq(JournalEntry)
  PROVE  ReplayJournal(j) \in SectorMaps /\ LastSequence(j) \in Nat
<1>1. ASSUME NEW s \in Sectors, NEW n PROVE CellAfter(j, n, s) \in Cell
  <2> DEFINE covering == CoveringIndices(j, n, s)
             IsLast(i) == \A k \in covering : k <= i
             last == CHOOSE i \in covering : IsLast(i)
  <2>1. Absent \in Cell
    BY DEF Absent, Cell, Confidence, ConfidenceNone, ConfidenceReconstructedChecksum
  <2>2. covering \subseteq 1 .. Len(j)
    BY DEF CoveringIndices, ReadableIndices
  <2>3. CASE \E i \in covering : IsLast(i)
    <3>1. last \in covering
      BY <2>3
    <3>2. j[last] \in JournalEntry
      <4> HIDE DEF last, covering
      <4> QED BY <2>2, <3>1
    <3>3. CellOf(j[last].extent) \in Cell
      <4> HIDE DEF last, covering
      <4> QED BY <3>2 DEF JournalEntry, Extent, CellOf, Cell
    <3> QED BY <2>3, <3>3 DEF CellAfter
  <2>4. CASE ~ \E i \in covering : IsLast(i)
    BY <2>1, <2>4 DEF CellAfter
  <2> QED BY <2>3, <2>4
<1>2. ReplayJournal(j) \in SectorMaps
  <2> DEFINE m == [s \in Sectors |-> CellAfter(j, Len(j), s)]
  <2>1. m \in SectorMaps
    BY <1>1 DEF SectorMaps
  <2> HIDE DEF m
  <2>2. RequeueAsUnknown(m) \in SectorMaps
    BY <2>1, RequeueTyped
  <2> QED BY <2>2 DEF ReplayJournal, m
<1>3. LastSequence(j) \in Nat
  <2>1. ReadableIndices(j) \subseteq Nat
    BY DEF ReadableIndices
  <2> DEFINE P(n) == \A k \in ReadableIndices(j) : k <= n
  <2>2. CASE \E n \in ReadableIndices(j) : P(n)
    <3>1. (CHOOSE n \in ReadableIndices(j) : P(n)) \in ReadableIndices(j)
      BY <2>2
    <3> QED BY <2>1, <2>2, <3>1 DEF LastSequence
  <2>3. CASE ~ \E n \in ReadableIndices(j) : P(n)
    BY <2>3 DEF LastSequence
  <2> QED BY <2>2, <2>3
<1> QED BY <1>2, <1>3

(* The extents a session records are typed, and only a successful read     *)
(* claims image bytes.                                                     *)
LEMMA CandidatesTyped ==
  ASSUME TypeOK, NEW e \in Candidates
  PROVE  /\ e \in Extent
         /\ e.sectors \in Nat \ {0}
         /\ e.state # "read_unverified" => ~StateClaimsImageData(e.state)
<1>1. PICK b \in Blocks : \E c \in NextCells(extents[b.start]) :
        e = [start |-> b.start, sectors |-> b.sectors, state |-> c.state,
             confidence |-> c.confidence, attempts |-> c.attempts]
  BY DEF Candidates
<1>5. PICK c \in NextCells(extents[b.start]) :
        e = [start |-> b.start, sectors |-> b.sectors, state |-> c.state,
             confidence |-> c.confidence, attempts |-> c.attempts]
  BY <1>1
<1>2. b.start \in Sectors /\ b.sectors \in Nat \ {0}
  BY CapacityAssumption DEF Blocks
<1>3. extents[b.start] \in Cell
  BY <1>2 DEF TypeOK, SectorMaps
<1>4. /\ c.state \in {"read_unverified", "io_error", "queued", "missing"}
      /\ c.confidence \in Confidence
      /\ c.attempts \in Nat
  BY <1>5, <1>3 DEF NextCells, Outcome, Cell, Confidence, ConfidenceNone,
                    ConfidenceSingleRead, ConfidenceReconstructedChecksum, Absent
<1> QED BY <1>5, <1>2, <1>4 DEF Extent, SectorState, StateClaimsImageData

----------------------------------------------------------------------------
(* Type correctness.  The parts of the type invariant that a step's        *)
(* auxiliary operators take care of:                                       *)

ControlTyped ==
    /\ pc \in Locations
    /\ then \in {"run", "persist", "append", "finish", "header"}
    /\ arg \in Extent
    /\ runErr \in {"none", "canceled", "error"}

StoreTyped ==
    /\ extents \in SectorMaps
    /\ durableExtents \in SectorMaps
    /\ nextSequence \in Nat
    /\ pendingRecords \in Seq(JournalEntry)
    /\ pendingSectors \in Nat

DiskTyped ==
    /\ image \subseteq Sectors
    /\ imageSynced \subseteq image
    /\ journal \in Seq(JournalEntry)
    /\ journalSynced \in 0 .. Len(journal)
    /\ clean \in BOOLEAN

LEMMA TypeOKParts == TypeOK <=> DiskTyped /\ StoreTyped /\ ControlTyped
  BY DEF TypeOK, DiskTyped, StoreTyped, ControlTyped

LEMMA FailTyped == ControlTyped /\ Fail => ControlTyped'
  BY NoExtentTyped DEF ControlTyped, Fail, Locations

LEMMA ForgetTyped == ForgetSession => StoreTyped' /\ ControlTyped'
  BY NoExtentTyped, EmptyMapTyped DEF ForgetSession, StoreTyped, ControlTyped, Locations

LEMMA WriteAndStageTyped ==
  ASSUME TypeOK, NEW e \in Extent, WriteAndStage(e)
  PROVE  TypeOK'
<1>1. ControlTyped'
  BY NoExtentTyped DEF TypeOK, ControlTyped, WriteAndStage, Locations
<1>2. extents' \in SectorMaps
  BY ApplyExtentTyped DEF TypeOK, WriteAndStage
<1>3. pendingRecords' \in Seq(JournalEntry)
  BY RecordTyped DEF TypeOK, WriteAndStage
<1>4. StoreTyped'
  BY <1>2, <1>3 DEF TypeOK, WriteAndStage, StoreTyped, Extent
<1>5. DiskTyped'
  BY CoveredSectors DEF TypeOK, WriteAndStage, DiskTyped
<1> QED BY <1>1, <1>4, <1>5 DEF TypeOK, DiskTyped, StoreTyped, ControlTyped

(* A step of the specification keeps every variable in its type. *)
LEMMA TypeOKStep == TypeOK /\ [Next]_vars => TypeOK'
<1> SUFFICES ASSUME TypeOK, [Next]_vars PROVE TypeOK'
  OBVIOUS
<1> USE DEF diskVars, storeVars
<1>a. DiskTyped /\ StoreTyped /\ ControlTyped
  BY TypeOKParts
<1>1. ASSUME NEW e \in Candidates, PersistRecovered(e) PROVE TypeOK'
  <2>1. e \in Extent
    BY CandidatesTyped
  <2>2. CASE WriteAndStage(e)
    BY <2>1, <2>2, WriteAndStageTyped
  <2>3. CASE /\ pc' = "imageSync" /\ then' = "persist" /\ arg' = e
             /\ UNCHANGED <<diskVars, storeVars, runErr>>
    BY <2>1, <2>3 DEF TypeOK, Locations
  <2> QED BY <1>1, <2>2, <2>3 DEF PersistRecovered
<1>2. ASSUME NEW e \in Candidates, ApplyDurably(e) PROVE TypeOK'
  <2>1. e \in Extent
    BY CandidatesTyped
  <2> QED BY <1>2, <2>1 DEF ApplyDurably, BeginCheckpoint, TypeOK, Locations
<1>3. ASSUME NEW e, ImageWriteFails(e) PROVE TypeOK'
  <2>1. ControlTyped'
    BY <1>3, <1>a, FailTyped DEF ImageWriteFails
  <2>2. DiskTyped'
    BY <1>3, CoveredSectors DEF ImageWriteFails, TypeOK, DiskTyped
  <2>3. StoreTyped'
    BY <1>3, <1>a DEF ImageWriteFails, StoreTyped
  <2> QED BY <2>1, <2>2, <2>3 DEF TypeOK, DiskTyped, StoreTyped, ControlTyped
<1>4. CASE PersistAfterCheckpoint
  BY <1>4, WriteAndStageTyped DEF PersistAfterCheckpoint, TypeOK
<1>5. CASE SyncImage
  BY <1>5 DEF SyncImage, TypeOK, Locations
<1>6. CASE SyncImageFails \/ FlushSyncFails \/ AppendSyncFails
  <2>1. ControlTyped'
    BY <1>6, <1>a, FailTyped DEF SyncImageFails, FlushSyncFails, AppendSyncFails
  <2>2. DiskTyped' /\ StoreTyped'
    BY <1>6, <1>a DEF SyncImageFails, FlushSyncFails, AppendSyncFails, DiskTyped,
                      StoreTyped
  <2> QED BY <2>1, <2>2 DEF TypeOK, DiskTyped, StoreTyped, ControlTyped
<1>7. CASE FlushWrite
  <2>1. journal' \in Seq(JournalEntry) /\ Len(journal') >= Len(journal)
    BY <1>7 DEF FlushWrite, TypeOK
  <2> QED BY <1>7, <2>1 DEF FlushWrite, TypeOK, Locations
<1>8. CASE FlushWriteFails
  <2>1. PICK n \in 0 .. Len(pendingRecords) - 1 :
          LET written == SubSeq(pendingRecords, 1, n)
          IN  \/ journal' = journal \o written
              \/ \E fate \in {"corrupt", "swallow"} :
                   journal' = Append(journal \o written,
                                     Torn(pendingRecords[n + 1], fate))
    BY <1>8 DEF FlushWriteFails
  <2> DEFINE written == SubSeq(pendingRecords, 1, n)
  <2>2. written \in Seq(JournalEntry) /\ pendingRecords[n + 1] \in JournalEntry
    BY DEF TypeOK
  <2> HIDE DEF written
  <2>3. journal \o written \in Seq(JournalEntry) /\ Len(journal \o written) >= Len(journal)
    BY <2>2 DEF TypeOK
  <2>4. journal' \in Seq(JournalEntry) /\ Len(journal') >= Len(journal)
    <3>1. CASE journal' = journal \o written
      BY <2>3, <3>1
    <3>2. ASSUME NEW fate \in {"corrupt", "swallow"},
                 journal' = Append(journal \o written, Torn(pendingRecords[n + 1], fate))
          PROVE  journal' \in Seq(JournalEntry) /\ Len(journal') >= Len(journal)
      <4>1. Torn(pendingRecords[n + 1], fate) \in JournalEntry
        BY <2>2, TornClaimsNothing
      <4> QED BY <2>3, <3>2, <4>1 DEF TypeOK
    <3> QED BY <2>1, <3>1, <3>2 DEF written
  <2>5. ControlTyped'
    BY <1>8, <1>a, FailTyped DEF FlushWriteFails
  <2> QED BY <1>8, <2>4, <2>5 DEF FlushWriteFails, TypeOK, ControlTyped
<1>9. CASE FlushSync
  BY <1>9 DEF FlushSync, TypeOK, Locations
<1>10. CASE AppendWrite
  <2>1. Record(nextSequence, arg) \in JournalEntry
    BY RecordTyped DEF TypeOK
  <2>2. journal' \in Seq(JournalEntry) /\ Len(journal') >= Len(journal)
    BY <1>10, <2>1 DEF AppendWrite, TypeOK
  <2> QED BY <1>10, <2>2 DEF AppendWrite, TypeOK, Locations
<1>11. CASE AppendWriteFails
  <2>1. Record(nextSequence, arg) \in JournalEntry
    BY RecordTyped DEF TypeOK
  <2>2. journal' \in Seq(JournalEntry) /\ Len(journal') >= Len(journal)
    <3>1. CASE UNCHANGED journal
      BY <3>1 DEF TypeOK
    <3>2. ASSUME NEW fate \in {"corrupt", "swallow"},
                 journal' = Append(journal, Torn(Record(nextSequence, arg), fate))
          PROVE  journal' \in Seq(JournalEntry) /\ Len(journal') >= Len(journal)
      <4>1. Torn(Record(nextSequence, arg), fate) \in JournalEntry
        BY <2>1, TornClaimsNothing
      <4> QED BY <3>2, <4>1 DEF TypeOK
    <3> QED BY <1>11, <3>1, <3>2 DEF AppendWriteFails
  <2>3. ControlTyped'
    BY <1>11, <1>a, FailTyped DEF AppendWriteFails
  <2> QED BY <1>11, <2>2, <2>3 DEF AppendWriteFails, TypeOK, ControlTyped
<1>12. CASE AppendSync
  <2>1. extents' \in SectorMaps /\ durableExtents' \in SectorMaps
    BY <1>12, ApplyExtentTyped DEF AppendSync, TypeOK
  <2> QED BY <1>12, <2>1, NoExtentTyped DEF AppendSync, TypeOK, Locations
<1>13. ASSUME NEW err \in {"none", "canceled", "error"}, RunReturns(err) PROVE TypeOK'
  BY <1>13 DEF RunReturns, TypeOK, Locations
<1>14. CASE DeferredFlush
  BY <1>14 DEF DeferredFlush, BeginCheckpoint, TypeOK, Locations
<1>15. CASE FinishRun
  BY <1>15 DEF FinishRun, TypeOK, Locations
<1>16. CASE CloseStore
  BY <1>16 DEF CloseStore, TypeOK, Locations
<1>17. CASE CloseHeader
  <2>1. StoreTyped' /\ ControlTyped'
    BY <1>17, ForgetTyped DEF CloseHeader
  <2>2. DiskTyped'
    BY <1>17 DEF CloseHeader, TypeOK, DiskTyped
  <2> QED BY <2>1, <2>2 DEF TypeOK, DiskTyped, StoreTyped, ControlTyped
<1>18. CASE CloseHeaderFails \/ Kill
  <2>1. StoreTyped' /\ ControlTyped'
    BY <1>18, ForgetTyped DEF CloseHeaderFails, Kill
  <2>2. DiskTyped'
    BY <1>18, <1>a DEF CloseHeaderFails, Kill, DiskTyped
  <2> QED BY <2>1, <2>2 DEF TypeOK, DiskTyped, StoreTyped, ControlTyped
<1>19. CASE Open
  <2>1. extents' \in SectorMaps /\ durableExtents' \in SectorMaps /\ nextSequence' \in Nat
    BY <1>19, ReplayTyped DEF Open, TypeOK
  <2>2. StoreTyped'
    BY <1>19, <2>1 DEF Open, StoreTyped
  <2>3. ControlTyped'
    BY <1>19, NoExtentTyped DEF Open, ControlTyped, Locations
  <2>4. DiskTyped'
    <3>1. clean' \in BOOLEAN
      BY <1>19, Zenon DEF Open
    <3> QED BY <1>19, <1>a, <3>1 DEF Open, DiskTyped
  <2> QED BY <2>2, <2>3, <2>4 DEF TypeOK, DiskTyped, StoreTyped, ControlTyped
<1>20. CASE OpenFails
  BY <1>20 DEF OpenFails, controlVars, TypeOK
<1>21. CASE OpenRejected \/ UNCHANGED vars
  BY <1>21 DEF OpenRejected, vars, controlVars, TypeOK
<1>22. CASE PowerLoss
  <2>1. StoreTyped' /\ ControlTyped'
    BY <1>22, ForgetTyped DEF PowerLoss
  <2>2. image' \subseteq Sectors /\ imageSynced' \subseteq image'
    BY <1>22 DEF PowerLoss, TypeOK
  <2>3. PICK n \in journalSynced .. Len(journal) :
          \/ /\ journal' = SubSeq(journal, 1, n)
             /\ journalSynced' = n
          \/ /\ n < Len(journal)
             /\ \E fate \in {"corrupt", "swallow"} :
                  journal' = Append(SubSeq(journal, 1, n), Torn(journal[n + 1], fate))
             /\ journalSynced' = n + 1
    BY <1>22 DEF PowerLoss
  <2>4. n \in Nat /\ SubSeq(journal, 1, n) \in Seq(JournalEntry) /\ Len(SubSeq(journal, 1, n)) = n
    BY DEF TypeOK
  <2>5. journal' \in Seq(JournalEntry) /\ journalSynced' \in 0 .. Len(journal')
    <3>1. CASE journal' = SubSeq(journal, 1, n) /\ journalSynced' = n
      BY <2>4, <3>1
    <3>2. ASSUME n < Len(journal), NEW fate \in {"corrupt", "swallow"},
                 journal' = Append(SubSeq(journal, 1, n), Torn(journal[n + 1], fate)),
                 journalSynced' = n + 1
          PROVE  journal' \in Seq(JournalEntry) /\ journalSynced' \in 0 .. Len(journal')
      <4>1. journal[n + 1] \in JournalEntry
        BY <2>4, <3>2 DEF TypeOK
      <4>2. Torn(journal[n + 1], fate) \in JournalEntry
        BY <4>1, TornClaimsNothing
      <4> QED BY <2>4, <3>2, <4>2
    <3> QED BY <2>3, <3>1, <3>2
  <2>6. DiskTyped'
    BY <1>22, <2>2, <2>5 DEF PowerLoss, DiskTyped, TypeOK
  <2> QED BY <2>1, <2>6 DEF TypeOK, DiskTyped, StoreTyped, ControlTyped
<1> QED
  BY <1>1, <1>2, <1>3, <1>4, <1>5, <1>6, <1>7, <1>8, <1>9, <1>10, <1>11, <1>12,
     <1>13, <1>14, <1>15, <1>16, <1>17, <1>18, <1>19, <1>20, <1>21, <1>22
  DEF Next, PassStep, SessionStep

LEMMA InitTyped == Init => TypeOK
<1> SUFFICES ASSUME Init PROVE TypeOK
  OBVIOUS
<1>1. StoreTyped
  BY EmptyMapTyped DEF Init, StoreTyped
<1>2. ControlTyped
  BY NoExtentTyped DEF Init, ControlTyped, Locations
<1>3. DiskTyped
  <2>1. clean \in BOOLEAN
    BY Zenon DEF Init
  <2> QED BY <2>1 DEF Init, DiskTyped
<1> QED BY <1>1, <1>2, <1>3, TypeOKParts

(* Every reachable state of a session's files, store and control is        *)
(* well-typed, whatever calls fail and wherever a crash falls.             *)
THEOREM TypeCorrect == Spec => []TypeOK
  BY InitTyped, TypeOKStep, PTL DEF Spec

----------------------------------------------------------------------------
(***************************************************************************)
(* The write order.  ClaimsBacked alone is not inductive: a flush appends  *)
(* records whose sectors must have been synced by an earlier step.         *)
(* WriteOrder carries that fact from the image sync to the flush.          *)
(***************************************************************************)
IInv == TypeOK /\ ClaimsBacked /\ WriteOrder

(* What one step does to the journal: every entry it leaves claims sectors *)
(* that were on stable storage before the step, what was synced stays as   *)
(* it was, and stable storage only grows.                                  *)
JournalStep ==
    /\ \A i \in 1 .. Len(journal') : EntryClaims(journal'[i]) \subseteq imageSynced
    /\ \A i \in 1 .. journalSynced : journal'[i] = journal[i]
    /\ journalSynced <= journalSynced' /\ journalSynced' <= Len(journal')
    /\ imageSynced \subseteq imageSynced'

(* The writes of a checkpoint and of an append add backed entries. *)
LEMMA AppendedEntries ==
  ASSUME TypeOK, ClaimsBacked, NEW added \in Seq(JournalEntry),
         \A i \in 1 .. Len(added) : EntryClaims(added[i]) \subseteq imageSynced,
         journal' = journal \o added,
         journalSynced' = journalSynced, imageSynced \subseteq imageSynced'
  PROVE  JournalStep
<1>1. Len(journal') = Len(journal) + Len(added)
  BY DEF TypeOK
<1>2. \A i \in 1 .. Len(journal) : journal'[i] = journal[i]
  BY DEF TypeOK
<1>3. \A i \in Len(journal) + 1 .. Len(journal') :
        i - Len(journal) \in 1 .. Len(added) /\ journal'[i] = added[i - Len(journal)]
  BY <1>1 DEF TypeOK
<1>4. ASSUME NEW i \in 1 .. Len(journal') PROVE EntryClaims(journal'[i]) \subseteq imageSynced
  <2>1. CASE i <= Len(journal)
    BY <1>2, <2>1 DEF ClaimsBacked, TypeOK
  <2>2. CASE i > Len(journal)
    <3>1. i \in Len(journal) + 1 .. Len(journal')
      BY <2>2 DEF TypeOK
    <3>2. i - Len(journal) \in 1 .. Len(added) /\ journal'[i] = added[i - Len(journal)]
      BY <1>3, <3>1
    <3> QED BY <3>2
  <2> QED BY <2>1, <2>2 DEF TypeOK
<1>5. journalSynced \in 0 .. Len(journal) /\ Len(added) \in Nat /\ Len(journal) \in Nat
  BY DEF TypeOK
<1> QED BY <1>1, <1>2, <1>4, <1>5 DEF JournalStep

(* One entry appended. *)
LEMMA AppendedEntry ==
  ASSUME TypeOK, ClaimsBacked, NEW entry \in JournalEntry,
         EntryClaims(entry) \subseteq imageSynced,
         journal' = Append(journal, entry),
         journalSynced' = journalSynced, imageSynced \subseteq imageSynced'
  PROVE  JournalStep
<1>1. <<entry>> \in Seq(JournalEntry) /\ Len(<<entry>>) = 1 /\ <<entry>>[1] = entry
  OBVIOUS
<1>2. \A i \in 1 .. Len(<<entry>>) : EntryClaims(<<entry>>[i]) \subseteq imageSynced
  BY <1>1
<1>3. journal' = journal \o <<entry>>
  BY DEF TypeOK
<1> QED BY <1>1, <1>2, <1>3, AppendedEntries

(* The journal keeps its entries; perhaps more of it is synced. *)
LEMMA KeptEntries ==
  ASSUME TypeOK, ClaimsBacked, journal' = journal,
         journalSynced' \in {journalSynced, Len(journal)},
         imageSynced \subseteq imageSynced'
  PROVE  JournalStep
  BY DEF JournalStep, TypeOK, ClaimsBacked

LEMMA JournalMoves ==
  ASSUME IInv, "imageSync" \notin Faults, Next
  PROVE  JournalStep
<1> USE DEF diskVars, storeVars
<1>a. TypeOK /\ ClaimsBacked /\ WriteOrder
  BY DEF IInv
<1>1. ASSUME NEW e, PersistRecovered(e) \/ ApplyDurably(e) \/ ImageWriteFails(e)
      PROVE  JournalStep
  BY <1>a, <1>1, KeptEntries
  DEF PersistRecovered, WriteAndStage, ApplyDurably, BeginCheckpoint, ImageWriteFails
<1>2. CASE PersistAfterCheckpoint
  BY <1>a, <1>2, KeptEntries DEF PersistAfterCheckpoint, WriteAndStage
<1>3. CASE SyncImage \/ FinishRun
  BY <1>a, <1>3, KeptEntries DEF SyncImage, FinishRun, TypeOK
<1>4. CASE SyncImageFails \/ FlushSyncFails \/ AppendSyncFails
  BY <1>a, <1>4, KeptEntries DEF SyncImageFails, FlushSyncFails, AppendSyncFails
<1>5. CASE FlushWrite
  <2>1. \A i \in 1 .. Len(pendingRecords) : EntryClaims(pendingRecords[i]) \subseteq imageSynced
    BY <1>a, <1>5 DEF FlushWrite, WriteOrder
  <2>2. pendingRecords \in Seq(JournalEntry)
    BY <1>a DEF TypeOK
  <2> QED BY <1>a, <1>5, <2>1, <2>2, AppendedEntries DEF FlushWrite
<1>6. CASE FlushWriteFails
  <2>1. PICK n \in 0 .. Len(pendingRecords) - 1 :
          LET written == SubSeq(pendingRecords, 1, n)
          IN  \/ journal' = journal \o written
              \/ \E fate \in {"corrupt", "swallow"} :
                   journal' = Append(journal \o written,
                                     Torn(pendingRecords[n + 1], fate))
    BY <1>6 DEF FlushWriteFails
  <2> DEFINE written == SubSeq(pendingRecords, 1, n)
  <2>2. /\ written \in Seq(JournalEntry) /\ pendingRecords[n + 1] \in JournalEntry
        /\ Len(written) = n /\ \A i \in 1 .. n : written[i] = pendingRecords[i]
    BY <1>a DEF TypeOK
  <2>3. \A i \in 1 .. Len(pendingRecords) : EntryClaims(pendingRecords[i]) \subseteq imageSynced
    BY <1>a, <1>6 DEF FlushWriteFails, WriteOrder
  <2>4. \A i \in 1 .. Len(written) : EntryClaims(written[i]) \subseteq imageSynced
    <3> HIDE DEF written
    <3> QED BY <2>2, <2>3
  <2>5. journalSynced' = journalSynced /\ imageSynced' = imageSynced
    BY <1>6 DEF FlushWriteFails
  <2> HIDE DEF written
  <2>6. CASE journal' = journal \o written
    BY <1>a, <2>2, <2>4, <2>5, <2>6, AppendedEntries
  <2>7. ASSUME NEW fate \in {"corrupt", "swallow"},
               journal' = Append(journal \o written, Torn(pendingRecords[n + 1], fate))
        PROVE  JournalStep
    <3> DEFINE torn == Torn(pendingRecords[n + 1], fate)
               added == Append(written, torn)
    <3>1. torn \in JournalEntry /\ EntryClaims(torn) = {}
      BY <2>2, TornClaimsNothing
    <3> HIDE DEF torn
    <3>2. added \in Seq(JournalEntry) /\ Len(added) = n + 1 /\ added[n + 1] = torn
          /\ \A i \in 1 .. n : added[i] = written[i]
      BY <2>2, <3>1
    <3>3. journal' = journal \o added
      <4>1. journal \in Seq(JournalEntry) /\ journal \o written \in Seq(JournalEntry)
            /\ <<torn>> \in Seq(JournalEntry)
        BY <1>a, <2>2, <3>1 DEF TypeOK
      <4>2. journal' = (journal \o written) \o <<torn>>
        BY <2>7, <3>1, <4>1, AppendIsConcat DEF torn
      <4>3. (journal \o written) \o <<torn>> = journal \o (written \o <<torn>>)
        BY <2>2, <4>1, ConcatAssociative
      <4>4. added = written \o <<torn>>
        BY <2>2, <3>1, AppendIsConcat
      <4> QED BY <4>2, <4>3, <4>4
    <3> HIDE DEF added
    <3>4. ASSUME NEW i \in 1 .. Len(added) PROVE EntryClaims(added[i]) \subseteq imageSynced
      <4>1. CASE i = n + 1
        BY <3>1, <3>2, <4>1
      <4>2. CASE i # n + 1
        BY <2>2, <2>4, <3>2, <4>2
      <4> QED BY <4>1, <4>2
    <3> QED BY <1>a, <2>5, <3>2, <3>3, <3>4, AppendedEntries
  <2> QED BY <2>1, <2>6, <2>7 DEF written
<1>7. CASE FlushSync \/ AppendSync \/ CloseHeader \/ Open
  BY <1>a, <1>7, KeptEntries DEF FlushSync, AppendSync, CloseHeader, Open
<1>8. CASE AppendWrite
  <2>1. Record(nextSequence, arg) \in JournalEntry /\ EntryClaims(Record(nextSequence, arg)) = {}
    BY <1>a, <1>8, RecordTyped DEF AppendWrite, WriteOrder, TypeOK
  <2> QED BY <1>a, <1>8, <2>1, AppendedEntry DEF AppendWrite
<1>9. CASE AppendWriteFails
  <2>1. CASE journal' = journal
    BY <1>a, <1>9, <2>1, KeptEntries DEF AppendWriteFails
  <2>2. ASSUME NEW fate \in {"corrupt", "swallow"},
               journal' = Append(journal, Torn(Record(nextSequence, arg), fate))
        PROVE  JournalStep
    <3>1. Record(nextSequence, arg) \in JournalEntry
      BY <1>a, RecordTyped DEF TypeOK
    <3> DEFINE torn == Torn(Record(nextSequence, arg), fate)
    <3>2. torn \in JournalEntry /\ EntryClaims(torn) = {}
      BY <3>1, TornClaimsNothing
    <3> HIDE DEF torn
    <3> QED BY <1>a, <1>9, <2>2, <3>2, AppendedEntry DEF AppendWriteFails, torn
  <2> QED BY <1>9, <2>1, <2>2 DEF AppendWriteFails
<1>10. ASSUME NEW err, RunReturns(err) PROVE JournalStep
  BY <1>a, <1>10, KeptEntries DEF RunReturns
<1>11. CASE DeferredFlush \/ CloseStore \/ CloseHeaderFails \/ Kill
  BY <1>a, <1>11, KeptEntries DEF DeferredFlush, CloseStore, CloseHeaderFails, Kill
<1>12. CASE OpenFails \/ OpenRejected
  BY <1>a, <1>12, KeptEntries DEF OpenFails, OpenRejected, vars
<1>13. CASE PowerLoss
  <2>1. imageSynced \subseteq imageSynced'
    BY <1>13 DEF PowerLoss
  <2>2. PICK n \in journalSynced .. Len(journal) :
          \/ /\ journal' = SubSeq(journal, 1, n)
             /\ journalSynced' = n
          \/ /\ n < Len(journal)
             /\ \E fate \in {"corrupt", "swallow"} :
                  journal' = Append(SubSeq(journal, 1, n), Torn(journal[n + 1], fate))
             /\ journalSynced' = n + 1
    BY <1>13 DEF PowerLoss
  <2> DEFINE kept == SubSeq(journal, 1, n)
  <2>3. /\ n \in Nat /\ journalSynced \in Nat /\ journalSynced <= n
        /\ kept \in Seq(JournalEntry) /\ Len(kept) = n
        /\ \A i \in 1 .. n : kept[i] = journal[i]
    BY <1>a DEF TypeOK
  <2>4. \A i \in 1 .. n : EntryClaims(kept[i]) \subseteq imageSynced
    <3> HIDE DEF kept
    <3> QED BY <1>a, <2>3 DEF ClaimsBacked, TypeOK
  <2> HIDE DEF kept
  <2>5. CASE journal' = kept /\ journalSynced' = n
    BY <2>1, <2>3, <2>4, <2>5 DEF JournalStep
  <2>6. ASSUME n < Len(journal), NEW fate \in {"corrupt", "swallow"},
               journal' = Append(kept, Torn(journal[n + 1], fate)),
               journalSynced' = n + 1
        PROVE  JournalStep
    <3> DEFINE torn == Torn(journal[n + 1], fate)
    <3>1. journal[n + 1] \in JournalEntry
      BY <1>a, <2>3, <2>6 DEF TypeOK
    <3>2. torn \in JournalEntry /\ EntryClaims(torn) = {}
      BY <3>1, TornClaimsNothing
    <3>3. journal' = Append(kept, torn)
      BY <2>6
    <3> HIDE DEF torn
    <3>4. Len(journal') = n + 1 /\ journal'[n + 1] = torn
          /\ \A i \in 1 .. n : journal'[i] = kept[i]
      BY <2>3, <3>2, <3>3
    <3>5. ASSUME NEW i \in 1 .. Len(journal')
          PROVE  EntryClaims(journal'[i]) \subseteq imageSynced
      <4>1. CASE i = n + 1
        BY <3>2, <3>4, <4>1
      <4>2. CASE i # n + 1
        BY <2>3, <2>4, <3>4, <4>2
      <4> QED BY <4>1, <4>2
    <3>6. \A i \in 1 .. journalSynced : journal'[i] = journal[i]
      BY <2>3, <3>4
    <3> QED BY <2>1, <2>3, <2>6, <3>4, <3>5, <3>6 DEF JournalStep
  <2> QED BY <2>2, <2>5, <2>6 DEF kept
<1> QED
  BY <1>1, <1>2, <1>3, <1>4, <1>5, <1>6, <1>7, <1>8, <1>9, <1>10, <1>11, <1>12,
     <1>13
  DEF Next, PassStep, SessionStep

(* A failed call away from the image sync keeps the write order. *)
LEMMA FailKeepsOrder ==
  ASSUME TypeOK, WriteOrder, Fail, pc \in {"run", "persist", "append", "appendSync",
                                          "flush", "mapSync"},
         image \subseteq image', imageSynced' = imageSynced,
         pendingRecords' = pendingRecords, pendingSectors' = pendingSectors
  PROVE  WriteOrder'
<1>1. arg' = NoExtent /\ then' = "run" /\ pc' \in {"off", "finish", "unwind"}
  BY DEF Fail, TypeOK
<1>2. pc' = "finish" => pc \in {"flush", "mapSync"}
  BY DEF Fail, WriteOrder
<1>3. ~StateClaimsImageData(NoExtent.state)
  BY DEF StateClaimsImageData, NoExtent
<1> QED BY <1>1, <1>2, <1>3 DEF WriteOrder

(* Nothing is staged, and no call is under way. *)
LEMMA NothingStaged ==
  ASSUME pendingRecords' = <<>>, then' = "run", arg' = NoExtent
  PROVE  WriteOrder'
<1>1. ~StateClaimsImageData(NoExtent.state)
  BY DEF StateClaimsImageData, NoExtent
<1> QED BY <1>1 DEF WriteOrder

(* Image write, then stage: the staged sectors are in the image. *)
LEMMA StageKeepsOrder ==
  ASSUME TypeOK, WriteOrder, NEW e \in Extent, WriteAndStage(e)
  PROVE  WriteOrder'
<1>1. Record(nextSequence, e) \in JournalEntry /\ EntryClaims(Record(nextSequence, e)) \subseteq Covered(e)
  BY RecordTyped DEF TypeOK
<1> DEFINE rec == Record(nextSequence, e)
<1>2. pendingRecords' = Append(pendingRecords, rec) /\ image' = image \cup Covered(e)
  BY DEF WriteAndStage
<1> HIDE DEF rec
<1>3. /\ Len(pendingRecords') = Len(pendingRecords) + 1
      /\ pendingRecords'[Len(pendingRecords) + 1] = rec
      /\ \A i \in 1 .. Len(pendingRecords) : pendingRecords'[i] = pendingRecords[i]
  BY <1>1, <1>2 DEF TypeOK, rec
<1>4. ASSUME NEW i \in 1 .. Len(pendingRecords')
      PROVE  EntryClaims(pendingRecords'[i]) \subseteq image'
  <2>1. CASE i = Len(pendingRecords) + 1
    BY <1>1, <1>2, <1>3, <2>1 DEF rec
  <2>2. CASE i # Len(pendingRecords) + 1
    BY <1>2, <1>3, <2>2 DEF WriteOrder, TypeOK
  <2> QED BY <2>1, <2>2
<1>5. pendingSectors' > 0 /\ pc' \in {"run", "imageSync"} /\ then' = "run" /\ arg' = NoExtent
  BY DEF WriteAndStage, TypeOK, Extent
<1>6. ~StateClaimsImageData(NoExtent.state)
  BY DEF StateClaimsImageData, NoExtent
<1> QED BY <1>4, <1>5, <1>6 DEF WriteOrder

LEMMA WriteOrderStep ==
  ASSUME IInv, "imageSync" \notin Faults, Next
  PROVE  WriteOrder'
<1> USE DEF diskVars, storeVars
<1>a. TypeOK /\ WriteOrder
  BY DEF IInv
<1>1. ASSUME NEW e \in Candidates, PersistRecovered(e) PROVE WriteOrder'
  <2>1. e \in Extent
    BY <1>a, CandidatesTyped
  <2>2. CASE WriteAndStage(e)
    BY <1>a, <2>1, <2>2, StageKeepsOrder
  <2>3. CASE /\ pc' = "imageSync" /\ then' = "persist" /\ arg' = e
             /\ UNCHANGED <<diskVars, storeVars, runErr>>
    BY <1>a, <2>3, <1>1 DEF WriteOrder, PersistRecovered
  <2> QED BY <1>1, <2>2, <2>3 DEF PersistRecovered
<1>2. ASSUME NEW e \in Candidates, ApplyDurably(e) PROVE WriteOrder'
  <2>1. ~StateClaimsImageData(e.state)
    BY <1>a, <1>2, CandidatesTyped DEF ApplyDurably
  <2> QED BY <1>a, <1>2, <2>1 DEF ApplyDurably, BeginCheckpoint, WriteOrder, TypeOK
<1>3. ASSUME NEW e, ImageWriteFails(e) PROVE WriteOrder'
  BY <1>a, <1>3, FailKeepsOrder DEF ImageWriteFails
<1>4. CASE PersistAfterCheckpoint
  BY <1>a, <1>4, StageKeepsOrder DEF PersistAfterCheckpoint, TypeOK
<1>5. CASE SyncImage
  BY <1>a, <1>5 DEF SyncImage, WriteOrder
<1>6. CASE SyncImageFails
  BY <1>6 DEF SyncImageFails
<1>7. CASE FlushSyncFails \/ AppendSyncFails
  BY <1>a, <1>7, FailKeepsOrder DEF FlushSyncFails, AppendSyncFails
<1>8. CASE FlushWrite
  BY <1>a, <1>8 DEF FlushWrite, WriteOrder
<1>9. CASE FlushWriteFails
  BY <1>a, <1>9, FailKeepsOrder DEF FlushWriteFails
<1>10. CASE FlushSync
  BY <1>a, <1>10 DEF FlushSync, WriteOrder, TypeOK
<1>11. CASE AppendWrite
  BY <1>a, <1>11 DEF AppendWrite, WriteOrder
<1>12. CASE AppendWriteFails
  BY <1>a, <1>12, FailKeepsOrder DEF AppendWriteFails
<1>13. CASE AppendSync
  <2>1. pendingRecords' = <<>> /\ then' = "run" /\ arg' = NoExtent
    BY <1>a, <1>13 DEF AppendSync, WriteOrder
  <2> QED BY <2>1, NothingStaged
<1>14. ASSUME NEW err, RunReturns(err) PROVE WriteOrder'
  BY <1>a, <1>14 DEF RunReturns, WriteOrder
<1>15. CASE DeferredFlush
  BY <1>a, <1>15 DEF DeferredFlush, BeginCheckpoint, WriteOrder, TypeOK
<1>16. CASE FinishRun
  BY <1>a, <1>16 DEF FinishRun, WriteOrder
<1>17. CASE CloseStore
  BY <1>a, <1>17 DEF CloseStore, WriteOrder
<1>18. CASE CloseHeader \/ CloseHeaderFails \/ Kill \/ PowerLoss
  BY <1>18, NothingStaged DEF CloseHeader, CloseHeaderFails, Kill, PowerLoss, ForgetSession
<1>19. CASE Open
  BY <1>19, NothingStaged DEF Open
<1>20. CASE OpenFails \/ OpenRejected
  BY <1>a, <1>20 DEF OpenFails, OpenRejected, vars, controlVars, WriteOrder
<1> QED
  BY <1>1, <1>2, <1>3, <1>4, <1>5, <1>6, <1>7, <1>8, <1>9, <1>10, <1>11, <1>12,
     <1>13, <1>14, <1>15, <1>16, <1>17, <1>18, <1>19, <1>20
  DEF Next, PassStep, SessionStep

LEMMA IInvStep ==
  ASSUME IInv, "imageSync" \notin Faults, [Next]_vars
  PROVE  IInv'
<1>1. TypeOK'
  BY TypeOKStep DEF IInv
<1>2. CASE Next
  <2>1. JournalStep
    BY <1>2, JournalMoves
  <2>2. ClaimsBacked'
    BY <2>1 DEF JournalStep, ClaimsBacked
  <2>3. WriteOrder'
    BY <1>2, WriteOrderStep
  <2> QED BY <1>1, <2>2, <2>3 DEF IInv
<1>3. CASE UNCHANGED vars
  <2>1. ClaimsBacked' /\ WriteOrder'
    BY <1>3 DEF IInv, ClaimsBacked, WriteOrder, vars, diskVars, storeVars, controlVars
  <2> QED BY <1>1, <2>1 DEF IInv
<1> QED BY <1>2, <1>3

LEMMA IInvInit == Init => IInv
<1> SUFFICES ASSUME Init PROVE IInv
  OBVIOUS
<1>1. TypeOK
  BY InitTyped
<1>2. ClaimsBacked
  BY DEF Init, ClaimsBacked
<1>3. ~StateClaimsImageData(NoExtent.state)
  BY DEF StateClaimsImageData, NoExtent
<1>4. WriteOrder
  BY <1>3 DEF Init, WriteOrder
<1> QED BY <1>1, <1>2, <1>4 DEF IInv

(* As long as Sync on the image file does not fail, no record of the map   *)
(* ever promises a sector whose bytes are not on stable storage: whatever  *)
(* else fails, wherever a crash falls, for every medium and batch size.    *)
THEOREM ClaimsAlwaysBacked ==
  ASSUME "imageSync" \notin Faults
  PROVE  Spec => []ClaimsBacked
<1>1. IInv /\ [Next]_vars => IInv'
  BY IInvStep
<1>2. IInv => ClaimsBacked
  BY DEF IInv
<1> QED BY IInvInit, <1>1, <1>2, PTL DEF Spec

(* Under the same assumption the files implement DurableProgress: stored   *)
(* and promised sectors are never taken back, over any number of crashes,  *)
(* failed calls and resumes, and a sector is stored before it is promised. *)
THEOREM ProgressIsDurable ==
  ASSUME "imageSync" \notin Faults
  PROVE  Spec => ImplementsDurableProgress
<1>1. Init => Durable!Init
  BY DEF Init, Durable!Init, DurableClaims
<1>2. ASSUME IInv, [Next]_vars
      PROVE  [Durable!Advance]_<<imageSynced, DurableClaims>>
  <2>1. CASE Next
    <3>1. JournalStep
      BY <1>2, <2>1, JournalMoves
    <3>2. imageSynced' \subseteq Sectors
      BY <1>2, TypeOKStep DEF IInv, TypeOK
    <3>3. journalSynced \in Nat /\ journalSynced' \in Nat /\ Len(journal') \in Nat
      BY <1>2, TypeOKStep DEF IInv, TypeOK
    <3>4. DurableClaims' \subseteq imageSynced
      BY <3>1, <3>3 DEF JournalStep, DurableClaims
    <3>5. DurableClaims \subseteq DurableClaims'
      BY <3>1, <3>3 DEF JournalStep, DurableClaims
    <3> QED BY <3>1, <3>2, <3>4, <3>5 DEF Durable!Advance, JournalStep
  <2>2. CASE UNCHANGED vars
    BY <2>2 DEF vars, diskVars, DurableClaims
  <2> QED BY <1>2, <2>1, <2>2
<1>3. IInv /\ [Next]_vars => IInv'
  BY IInvStep
<1>4. IInv /\ [Next]_vars => [Durable!Advance]_<<imageSynced, DurableClaims>>
  BY <1>2
<1> QED
  BY IInvInit, <1>1, <1>3, <1>4, PTL DEF Spec, ImplementsDurableProgress, Durable!Spec

----------------------------------------------------------------------------
(***************************************************************************)
(* Replay.  The cell of a sector after a prefix of a journal without       *)
(* fragments changes only with the records that cover the sector, so what  *)
(* replay makes of a journal can be followed one record at a time.         *)
(***************************************************************************)
(* A journal whose records are whole, numbered in order and legal.         *)
Legal(j) ==
    \A i \in 1 .. Len(j) :
        /\ IsRecord(j[i])
        /\ j[i].seq = i
        /\ WithinCapacity(j[i].extent)
        /\ ValidateStateConfidence(j[i].extent.state, j[i].extent.confidence)
        /\ \A s \in Covered(j[i].extent) : MayReplace(CellAfter(j, i - 1, s), j[i].extent)

LEMMA ReadableAll ==
  ASSUME NEW j, Len(j) \in Nat, \A i \in 1 .. Len(j) : IsRecord(j[i])
  PROVE  ReadableIndices(j) = 1 .. Len(j)
BY DEF ReadableIndices

(* The cell after one more record. *)
LEMMA CellAfterNext ==
  ASSUME NEW j, Len(j) \in Nat, \A i \in 1 .. Len(j) : IsRecord(j[i]),
         NEW n \in 0 .. Len(j) - 1, NEW s
  PROVE  CellAfter(j, n + 1, s) = IF s \in Covered(j[n + 1].extent)
                                  THEN CellOf(j[n + 1].extent) ELSE CellAfter(j, n, s)
<1>1. ReadableIndices(j) = 1 .. Len(j)
  BY ReadableAll
<1>2. CASE s \in Covered(j[n + 1].extent)
  <2> DEFINE covering == CoveringIndices(j, n + 1, s)
             IsLast(i) == \A k \in covering : k <= i
  <2>1. n + 1 \in covering /\ \A k \in covering : k \in Nat /\ k <= n + 1
    BY <1>1, <1>2 DEF CoveringIndices
  <2>2. \A i \in covering : IsLast(i) => i = n + 1
    BY <2>1
  <2>3. IsLast(n + 1)
    BY <2>1
  <2> HIDE DEF covering
  <2>4. (CHOOSE i \in covering : IsLast(i)) = n + 1
    BY <2>1, <2>2, <2>3
  <2>5. CellAfter(j, n + 1, s) = CellOf(j[CHOOSE i \in covering : IsLast(i)].extent)
    BY <2>1, <2>3 DEF CellAfter, covering
  <2> QED BY <1>2, <2>4, <2>5
<1>3. CASE s \notin Covered(j[n + 1].extent)
  <2>1. CoveringIndices(j, n + 1, s) = CoveringIndices(j, n, s)
    <3>1. \A i \in 1 .. Len(j) : i <= n + 1 <=> i <= n \/ i = n + 1
      OBVIOUS
    <3> QED BY <1>1, <1>3, <3>1 DEF CoveringIndices
  <2> QED BY <1>3, <2>1 DEF CellAfter
<1> QED BY <1>2, <1>3

(* The cell depends on the entries so far only. *)
LEMMA CellAfterPrefix ==
  ASSUME NEW j, NEW k, Len(j) \in Nat, Len(k) \in Nat, NEW n \in Nat,
         n <= Len(j), n <= Len(k),
         \A i \in 1 .. Len(j) : IsRecord(j[i]), \A i \in 1 .. Len(k) : IsRecord(k[i]),
         \A i \in 1 .. n : j[i] = k[i], NEW s
  PROVE  CellAfter(j, n, s) = CellAfter(k, n, s)
<1>1. ReadableIndices(j) = 1 .. Len(j) /\ ReadableIndices(k) = 1 .. Len(k)
  BY ReadableAll
<1>2. CoveringIndices(j, n, s) = CoveringIndices(k, n, s)
  BY <1>1 DEF CoveringIndices
<1> DEFINE covering == CoveringIndices(k, n, s)
           IsLast(i) == \A l \in covering : l <= i
<1>3. CASE \E i \in covering : IsLast(i)
  <2>1. (CHOOSE i \in covering : IsLast(i)) \in covering
    BY <1>3
  <2>2. covering \subseteq 1 .. n
    BY <1>1 DEF CoveringIndices
  <2> QED BY <1>2, <1>3, <2>1, <2>2 DEF CellAfter
<1>4. CASE ~ \E i \in covering : IsLast(i)
  BY <1>2, <1>4 DEF CellAfter
<1> QED BY <1>3, <1>4

LEMMA CellAfterNothing ==
  ASSUME NEW j, Len(j) \in Nat, NEW s
  PROVE  CellAfter(j, 0, s) = Absent
<1>1. CoveringIndices(j, 0, s) = {}
  BY DEF CoveringIndices, ReadableIndices
<1> QED BY <1>1 DEF CellAfter

(* A legal journal replays, and its last record has its last number. *)
LEMMA LegalReplays ==
  ASSUME NEW j \in Seq(JournalEntry), Legal(j)
  PROVE  ReplayOK(j) /\ LastSequence(j) = Len(j)
<1>1. Len(j) \in Nat /\ ReadableIndices(j) = 1 .. Len(j)
  BY ReadableAll DEF Legal
<1>2. ReplayOK(j)
  <2>1. \A i \in 1 .. Len(j) : j[i].kind # "corrupt"
    BY DEF Legal, IsRecord
  <2> QED BY <1>1, <2>1 DEF ReplayOK, Legal
<1>3. LastSequence(j) = Len(j)
  <2>1. CASE Len(j) = 0
    BY <1>1, <2>1 DEF LastSequence
  <2>2. CASE Len(j) # 0
    <3>1. /\ Len(j) \in 1 .. Len(j) /\ \A k \in 1 .. Len(j) : k <= Len(j)
          /\ \A n \in 1 .. Len(j) : (\A k \in 1 .. Len(j) : k <= n) => n = Len(j)
      BY <1>1, <2>2
    <3> QED BY <1>1, <3>1 DEF LastSequence
  <2> QED BY <2>1, <2>2
<1> QED BY <1>2, <1>3

(* A crash leaves a legal journal, with the cells it had so far. *)
LEMMA LegalPrefix ==
  ASSUME NEW j \in Seq(JournalEntry), Legal(j), NEW k \in Seq(JournalEntry),
         Len(k) <= Len(j), \A i \in 1 .. Len(k) : k[i] = j[i]
  PROVE  /\ Legal(k)
         /\ \A n \in 0 .. Len(k), s \in Sectors : CellAfter(k, n, s) = CellAfter(j, n, s)
<1>1. Len(j) \in Nat /\ Len(k) \in Nat
  OBVIOUS
<1>2. /\ \A i \in 1 .. Len(j) : IsRecord(j[i])
      /\ \A i \in 1 .. Len(k) : IsRecord(k[i])
  BY <1>1 DEF Legal
<1>3. ASSUME NEW n \in 0 .. Len(k), NEW s PROVE CellAfter(k, n, s) = CellAfter(j, n, s)
  <2>1. n \in Nat /\ n <= Len(j) /\ n <= Len(k) /\ \A i \in 1 .. n : k[i] = j[i]
    BY <1>1
  <2> QED BY <1>1, <1>2, <2>1, CellAfterPrefix
<1>4. Legal(k)
  <2> SUFFICES ASSUME NEW i \in 1 .. Len(k)
               PROVE  /\ IsRecord(k[i])
                      /\ k[i].seq = i
                      /\ WithinCapacity(k[i].extent)
                      /\ ValidateStateConfidence(k[i].extent.state, k[i].extent.confidence)
                      /\ \A s \in Covered(k[i].extent) :
                           MayReplace(CellAfter(k, i - 1, s), k[i].extent)
    BY DEF Legal
  <2>1. i \in 1 .. Len(j) /\ k[i] = j[i] /\ i - 1 \in 0 .. Len(k)
    BY <1>1
  <2> QED BY <1>3, <2>1 DEF Legal
<1> QED BY <1>3, <1>4

(* One more record the map accepts. *)
Accepts(j, e) ==
    /\ e \in Extent /\ WithinCapacity(e)
    /\ ValidateStateConfidence(e.state, e.confidence)
    /\ \A s \in Covered(e) : MayReplace(CellAfter(j, Len(j), s), e)

Continues(j, e, k) ==
    /\ k \in Seq(JournalEntry) /\ Len(k) = Len(j) + 1
    /\ Legal(k)
    /\ \A n \in 0 .. Len(j), s \in Sectors : CellAfter(k, n, s) = CellAfter(j, n, s)
    /\ \A s \in Sectors : CellAfter(k, Len(k), s) =
         IF s \in Covered(e) THEN CellOf(e) ELSE CellAfter(j, Len(j), s)

LEMMA LegalAppend ==
  ASSUME NEW j \in Seq(JournalEntry), Legal(j), NEW e, Accepts(j, e),
         NEW k, k = Append(j, Record(Len(j) + 1, e))
  PROVE  Continues(j, e, k)
<1> USE DEF Accepts
<1> DEFINE r == Record(Len(j) + 1, e)
<1>1. r \in JournalEntry /\ IsRecord(r) /\ r.seq = Len(j) + 1 /\ r.extent = e
  BY RecordTyped DEF Record, IsRecord
<1> HIDE DEF r
<1>2. /\ k \in Seq(JournalEntry) /\ Len(k) = Len(j) + 1 /\ Len(j) \in Nat /\ Len(k) \in Nat
      /\ k[Len(j) + 1] = r /\ \A i \in 1 .. Len(j) : k[i] = j[i]
  BY <1>1 DEF r
<1>3. /\ \A i \in 1 .. Len(j) : IsRecord(j[i])
      /\ \A i \in 1 .. Len(k) : IsRecord(k[i])
  BY <1>1, <1>2 DEF Legal
<1>4. ASSUME NEW n \in 0 .. Len(j), NEW s PROVE CellAfter(k, n, s) = CellAfter(j, n, s)
  <2>1. n \in Nat /\ n <= Len(j) /\ n <= Len(k) /\ \A i \in 1 .. n : k[i] = j[i]
    BY <1>2
  <2> QED BY ONLY <1>2, <1>3, <2>1, CellAfterPrefix
<1>5. Legal(k)
  <2> SUFFICES ASSUME NEW i \in 1 .. Len(k)
               PROVE  /\ IsRecord(k[i])
                      /\ k[i].seq = i
                      /\ WithinCapacity(k[i].extent)
                      /\ ValidateStateConfidence(k[i].extent.state, k[i].extent.confidence)
                      /\ \A s \in Covered(k[i].extent) :
                           MayReplace(CellAfter(k, i - 1, s), k[i].extent)
    BY DEF Legal
  <2>1. i - 1 \in 0 .. Len(j) /\ \A s : CellAfter(k, i - 1, s) = CellAfter(j, i - 1, s)
    BY <1>2, <1>4
  <2>2. CASE i = Len(j) + 1
    <3>1. k[i] = r /\ i - 1 = Len(j)
      BY <1>2, <2>2
    <3> QED BY <1>1, <2>1, <2>2, <3>1
  <2>3. CASE i # Len(j) + 1
    <3>1. i \in 1 .. Len(j) /\ k[i] = j[i]
      BY <1>2, <2>3
    <3> QED BY <2>1, <3>1 DEF Legal
  <2> QED BY <2>2, <2>3
<1>6. ASSUME NEW s \in Sectors
      PROVE  CellAfter(k, Len(k), s) =
               IF s \in Covered(e) THEN CellOf(e) ELSE CellAfter(j, Len(j), s)
  <2>1. Len(j) \in 0 .. Len(k) - 1 /\ Len(j) \in 0 .. Len(j)
    BY <1>2
  <2>2. CellAfter(k, Len(j) + 1, s) = IF s \in Covered(k[Len(j) + 1].extent)
           THEN CellOf(k[Len(j) + 1].extent) ELSE CellAfter(k, Len(j), s)
    BY <1>2, <1>3, <2>1, CellAfterNext
  <2> QED BY <1>1, <1>2, <1>4, <2>1, <2>2
<1> QED BY <1>2, <1>4, <1>5, <1>6 DEF Continues

(* The cells of a legal journal are ones the map may hold. *)
LEMMA LegalCell ==
  ASSUME NEW j \in Seq(JournalEntry), Legal(j), NEW n, NEW s
  PROVE  LET c == CellAfter(j, n, s)
         IN  c \in Cell /\ (c = Absent \/ ValidateStateConfidence(c.state, c.confidence))
<1> DEFINE covering == CoveringIndices(j, n, s)
           IsLast(i) == \A k \in covering : k <= i
           last == CHOOSE i \in covering : IsLast(i)
<1>1. CASE \E i \in covering : IsLast(i)
  <2>1. last \in 1 .. Len(j)
    <3>1. last \in covering
      BY <1>1
    <3> QED BY <3>1 DEF CoveringIndices, ReadableIndices
  <2>2. CellAfter(j, n, s) = CellOf(j[last].extent)
    BY <1>1 DEF CellAfter
  <2> HIDE DEF last, covering
  <2>3. /\ j[last].extent \in Extent
        /\ ValidateStateConfidence(j[last].extent.state, j[last].extent.confidence)
    <3>1. j[last] \in JournalEntry
      BY <2>1
    <3>2. j[last].extent \in Extent
      BY <3>1 DEF JournalEntry
    <3> QED BY <2>1, <3>2 DEF Legal
  <2> DEFINE e == j[last].extent
             c == CellOf(e)
  <2>4. e.state \in SectorState /\ e.confidence \in Confidence /\ e.attempts \in Nat
    BY <2>3 DEF Extent
  <2>5. c.state = e.state /\ c.confidence = e.confidence /\ c.attempts = e.attempts /\ c \in Cell
    BY <2>4 DEF CellOf, Cell
  <2> QED BY <2>2, <2>3, <2>5
<1>2. CASE ~ \E i \in covering : IsLast(i)
  <2>1. CellAfter(j, n, s) = Absent
    BY <1>2 DEF CellAfter
  <2>2. Absent \in Cell
    BY DEF Absent, Cell, Confidence, ConfidenceNone, ConfidenceReconstructedChecksum
  <2> QED BY <2>1, <2>2
<1> QED BY <1>1, <1>2

RequeuedCell(c) ==
    IF c.state = "queued"
    THEN [state |-> "unknown", confidence |-> ConfidenceNone, attempts |-> c.attempts]
    ELSE c

LEMMA RequeuedCells ==
  ASSUME NEW m
  PROVE  /\ RequeueAsUnknown(m) = [s \in Sectors |-> RequeuedCell(m[s])]
         /\ \A s \in Sectors : RequeueAsUnknown(m)[s] = RequeuedCell(m[s])
BY DEF RequeueAsUnknown, RequeuedCell

(* Cell d keeps what cell c counts as progress. *)
Keeps(c, d) ==
    /\ StateClaimsImageData(c.state) => StateClaimsImageData(d.state)
    /\ c.attempts <= d.attempts

LEMMA RequeuedKeeps ==
  ASSUME NEW c \in Cell, NEW d \in Cell
  PROVE  /\ RequeuedCell(c) = RequeuedCell(d) => Keeps(c, d)
         /\ Keeps(c, d) <=> Keeps(c, RequeuedCell(d))
<1>1. c.attempts \in Nat /\ d.attempts \in Nat
  BY DEF Cell
<1>2. ASSUME NEW x \in Cell
      PROVE  /\ RequeuedCell(x).attempts = x.attempts
             /\ StateClaimsImageData(RequeuedCell(x).state) <=> StateClaimsImageData(x.state)
  <2>1. CASE x.state = "queued"
    <3>1. RequeuedCell(x) = [state |-> "unknown", confidence |-> ConfidenceNone,
                             attempts |-> x.attempts]
      BY <2>1 DEF RequeuedCell
    <3>2. RequeuedCell(x).attempts = x.attempts /\ RequeuedCell(x).state = "unknown"
      BY <3>1
    <3> QED BY <2>1, <3>2 DEF StateClaimsImageData
  <2>2. CASE x.state # "queued"
    BY <2>2 DEF RequeuedCell
  <2> QED BY <2>1, <2>2
<1> QED BY <1>1, <1>2 DEF Keeps

LEMMA ReplaceKeeps ==
  ASSUME NEW c \in Cell, NEW e \in Extent, MayReplace(c, e)
  PROVE  Keeps(c, CellOf(e))
<1>1. c.attempts \in Nat /\ e.attempts \in Nat
  BY DEF Cell, Extent
<1>2. CellOf(e).state = e.state /\ CellOf(e).attempts = e.attempts
  BY DEF CellOf
<1>3. CASE c = Absent
  <2>1. c.attempts = 0 /\ ~StateClaimsImageData(c.state)
    BY <1>3 DEF Absent, StateClaimsImageData
  <2> QED BY <1>1, <1>2, <2>1 DEF Keeps
<1>4. CASE c # Absent
  BY <1>1, <1>2, <1>4 DEF Keeps, MayReplace, ValidateTransition
<1> QED BY <1>3, <1>4

(* What replaces a cell of the session replaces that of the log, which may *)
(* still have a read in flight where the session has given it up.          *)
LEMMA LogAccepts ==
  ASSUME NEW c \in Cell, c = Absent \/ ValidateStateConfidence(c.state, c.confidence),
         NEW d \in Cell, RequeuedCell(c) = RequeuedCell(d),
         NEW e \in Extent, ValidateStateConfidence(e.state, e.confidence), MayReplace(d, e)
  PROVE  MayReplace(c, e)
<1>1. CASE c.state # "queued" /\ d.state # "queued"
  BY <1>1 DEF RequeuedCell
<1>2. CASE c.state = "queued" \/ d.state = "queued"
  <2> DEFINE waiting(x) == [state |-> "unknown", confidence |-> ConfidenceNone,
                            attempts |-> x.attempts]
  <2>1. waiting(c).attempts = c.attempts /\ waiting(c).state = "unknown"
        /\ waiting(d).attempts = d.attempts /\ waiting(d).state = "unknown"
        /\ waiting(c).confidence = 0 /\ waiting(d).confidence = 0
    BY DEF ConfidenceNone
  <2>2. /\ c.state = "queued" => RequeuedCell(c) = waiting(c)
        /\ c.state # "queued" => RequeuedCell(c) = c
        /\ d.state = "queued" => RequeuedCell(d) = waiting(d)
        /\ d.state # "queued" => RequeuedCell(d) = d
    BY DEF RequeuedCell
  <2> HIDE DEF waiting
  <2>3. c.state \in {"queued", "unknown"} /\ d.state \in {"queued", "unknown"}
        /\ c.attempts = d.attempts
    BY <1>2, <2>1, <2>2
  <2>4. c # Absent /\ d # Absent
    BY <2>3 DEF Absent
  <2>5. c.confidence = 0 /\ ValidateStateConfidence(c.state, c.confidence)
    BY <2>3, <2>4 DEF ValidateStateConfidence, ConfidenceNone
  <2>6. e.attempts >= c.attempts
    BY <2>3, <2>4 DEF MayReplace
  <2>7. e.confidence \in Confidence /\ e.confidence >= 0
    BY DEF Extent, Confidence, ConfidenceNone, ConfidenceReconstructedChecksum
  <2>8. ValidateTransition(c.state, c.confidence, e.state, e.confidence)
    BY <2>3, <2>5, <2>7 DEF ValidateTransition, StateClaimsImageData
  <2> QED BY <2>6, <2>8 DEF MayReplace
<1> QED BY <1>1, <1>2

(* A journal that replays to a map keeps what the map counts. *)
LEMMA ReplayedKeeps ==
  ASSUME NEW j \in Seq(JournalEntry), Legal(j), NEW m \in SectorMaps,
         ReplayJournal(j) = RequeueAsUnknown(m), NEW s \in Sectors
  PROVE  /\ RequeuedCell(CellAfter(j, Len(j), s)) = RequeuedCell(m[s])
         /\ Keeps(m[s], CellAfter(j, Len(j), s))
<1> DEFINE raw == [x \in Sectors |-> CellAfter(j, Len(j), x)]
<1>1. ReplayJournal(j) = RequeueAsUnknown(raw)
  BY DEF ReplayJournal
<1>2. raw[s] = CellAfter(j, Len(j), s)
  OBVIOUS
<1> HIDE DEF raw
<1>3. RequeuedCell(raw[s]) = RequeuedCell(m[s])
  <2>1. RequeueAsUnknown(raw)[s] = RequeuedCell(raw[s])
    BY RequeuedCells
  <2>2. RequeueAsUnknown(m)[s] = RequeuedCell(m[s])
    BY RequeuedCells
  <2> QED BY <1>1, <2>1, <2>2
<1>4. m[s] \in Cell /\ raw[s] \in Cell
  BY <1>2, LegalCell DEF SectorMaps
<1> QED BY <1>2, <1>3, <1>4, RequeuedKeeps

LEMMA KeepsTransitive ==
  ASSUME NEW b \in Cell, NEW c \in Cell, NEW d \in Cell, Keeps(b, c), Keeps(c, d)
  PROVE  Keeps(b, d)
<1>1. b.attempts \in Nat /\ c.attempts \in Nat /\ d.attempts \in Nat
  BY DEF Cell
<1> QED BY <1>1 DEF Keeps

(* Log j is legal and replays to map m, and its prefixes from f on keep d. *)
Replays(j, m, d, f) ==
    /\ Legal(j)
    /\ ReplayJournal(j) = RequeueAsUnknown(m)
    /\ \A n \in f .. Len(j), s \in Sectors : Keeps(d[s], CellAfter(j, n, s))

(* A legal journal and its map go on together, and what was reported from  *)
(* a shorter one is kept.                                                  *)
LEMMA ReplaysAppend ==
  ASSUME NEW j \in Seq(JournalEntry), NEW m \in SectorMaps, NEW d \in SectorMaps,
         NEW f \in Nat, f <= Len(j), Replays(j, m, d, f),
         NEW e \in Extent, WithinCapacity(e), CanApplyExtent(m, e),
         NEW k, k = Append(j, Record(Len(j) + 1, e))
  PROVE  k \in Seq(JournalEntry) /\ Len(k) = Len(j) + 1 /\ Replays(k, ApplyExtent(m, e), d, f)
<1>0. /\ Legal(j) /\ ReplayJournal(j) = RequeueAsUnknown(m)
      /\ \A n \in f .. Len(j), s \in Sectors : Keeps(d[s], CellAfter(j, n, s))
  BY DEF Replays
<1>1. ValidateStateConfidence(e.state, e.confidence) /\ \A s \in Covered(e) : MayReplace(m[s], e)
  BY DEF CanApplyExtent
<1>2. \A s \in Sectors : /\ RequeuedCell(CellAfter(j, Len(j), s)) = RequeuedCell(m[s])
                         /\ m[s] \in Cell /\ d[s] \in Cell
  BY <1>0, ReplayedKeeps DEF SectorMaps
<1>3. \A n, s : /\ CellAfter(j, n, s) \in Cell
                /\ \/ CellAfter(j, n, s) = Absent
                   \/ ValidateStateConfidence(CellAfter(j, n, s).state, CellAfter(j, n, s).confidence)
  BY <1>0, LegalCell
<1>4. \A s \in Covered(e) : s \in Sectors /\ MayReplace(CellAfter(j, Len(j), s), e)
  BY <1>1, <1>2, <1>3, LogAccepts, CoveredSectors
<1>5. /\ k \in Seq(JournalEntry) /\ Len(k) = Len(j) + 1 /\ Legal(k)
      /\ \A n \in 0 .. Len(j), s \in Sectors : CellAfter(k, n, s) = CellAfter(j, n, s)
      /\ \A s \in Sectors : CellAfter(k, Len(k), s) =
           IF s \in Covered(e) THEN CellOf(e) ELSE CellAfter(j, Len(j), s)
  <2>1. Accepts(j, e)
    BY <1>1, <1>4 DEF Accepts
  <2>2. Continues(j, e, k)
    BY <1>0, <2>1, LegalAppend
  <2> QED BY <2>2 DEF Continues
<1>6. ReplayJournal(k) = RequeueAsUnknown(ApplyExtent(m, e))
  <2> DEFINE raw == [s \in Sectors |-> CellAfter(k, Len(k), s)]
             new == ApplyExtent(m, e)
  <2>1. ReplayJournal(k) = RequeueAsUnknown(raw)
    BY DEF ReplayJournal
  <2>2. \A s \in Sectors : RequeuedCell(raw[s]) = RequeuedCell(new[s])
    BY <1>2, <1>5 DEF ApplyExtent
  <2> HIDE DEF raw, new
  <2>3. RequeueAsUnknown(raw) = [s \in Sectors |-> RequeuedCell(raw[s])]
    BY ONLY RequeuedCells
  <2>4. RequeueAsUnknown(new) = [s \in Sectors |-> RequeuedCell(new[s])]
    BY ONLY RequeuedCells
  <2>5. RequeueAsUnknown(raw) = RequeueAsUnknown(new)
    BY ONLY <2>2, <2>3, <2>4
  <2> QED BY <2>1, <2>5 DEF new
<1>7. ASSUME NEW n \in f .. Len(k), NEW s \in Sectors PROVE Keeps(d[s], CellAfter(k, n, s))
  <2>1. Len(j) \in Nat /\ Keeps(d[s], CellAfter(j, Len(j), s))
    BY <1>0
  <2>2. CASE n = Len(k)
    <3>1. CASE s \in Covered(e)
      <4>1. MayReplace(CellAfter(j, Len(j), s), e) /\ CellAfter(j, Len(j), s) \in Cell
        BY <1>3, <1>4, <3>1
      <4>2. Keeps(CellAfter(j, Len(j), s), CellOf(e))
        BY <4>1, ReplaceKeeps
      <4>3. CellAfter(k, n, s) = CellOf(e) /\ CellOf(e) \in Cell
        BY <1>5, <2>2, <3>1 DEF CellOf, Cell, Extent
      <4> QED BY <1>2, <2>1, <4>1, <4>2, <4>3, KeepsTransitive
    <3>2. CASE s \notin Covered(e)
      BY <1>5, <2>1, <2>2, <3>2
    <3> QED BY <3>1, <3>2
  <2>3. CASE n # Len(k)
    <3>1. n \in f .. Len(j) /\ n \in 0 .. Len(j)
      BY <1>5, <2>1, <2>3
    <3> QED BY <1>0, <1>5, <3>1
  <2> QED BY <2>2, <2>3
<1> QED BY <1>5, <1>6, <1>7 DEF Replays

(* Giving up a read in flight twice is giving it up once. *)
LEMMA ReplayIsRequeued ==
  ASSUME NEW j
  PROVE  RequeueAsUnknown(ReplayJournal(j)) = ReplayJournal(j)
<1> DEFINE raw == [s \in Sectors |-> CellAfter(j, Len(j), s)]
           m == RequeueAsUnknown(raw)
<1>1. ReplayJournal(j) = m
  BY DEF ReplayJournal
<1> HIDE DEF raw
<1>2. m = [s \in Sectors |-> RequeuedCell(raw[s])]
  BY RequeuedCells
<1> HIDE DEF m
<1>3. RequeueAsUnknown(m) = [s \in Sectors |-> RequeuedCell(m[s])]
  BY RequeuedCells
<1>4. ASSUME NEW c PROVE RequeuedCell(RequeuedCell(c)) = RequeuedCell(c)
  <2> DEFINE waiting == [state |-> "unknown", confidence |-> ConfidenceNone,
                         attempts |-> c.attempts]
  <2>1. waiting.state = "unknown"
    OBVIOUS
  <2> HIDE DEF waiting
  <2>2. CASE c.state = "queued"
    <3>1. RequeuedCell(c) = waiting
      BY <2>2 DEF RequeuedCell, waiting
    <3>2. RequeuedCell(waiting) = waiting
      BY <2>1 DEF RequeuedCell
    <3> QED BY <3>1, <3>2
  <2>3. CASE c.state # "queued"
    BY <2>3 DEF RequeuedCell
  <2> QED BY <2>2, <2>3
<1>5. \A s \in Sectors : RequeuedCell(m[s]) = m[s]
  BY <1>2, <1>4
<1>6. [s \in Sectors |-> RequeuedCell(m[s])] = m
  BY <1>2, <1>5
<1> QED BY <1>1, <1>3, <1>6

----------------------------------------------------------------------------
(***************************************************************************)
(* What a crash leaves.  The properties speak of the journal file; what    *)
(* the steps preserve is about the log, the file and what is staged for    *)
(* it: it is legal, it replays to the session's map, and each of its       *)
(* prefixes down to the synced part has what was reported.  Saying it of   *)
(* the prefixes makes it inductive without an induction over journals.     *)
(***************************************************************************)

(* What the session has written or staged.  A flush has written what it    *)
(* still holds as pending.                                                 *)
Log == IF pc = "mapSync" THEN journal ELSE journal \o pendingRecords

(* The map as of the last record of the log, a synced append included. *)
Recorded == IF pc = "appendSync" THEN ApplyExtent(extents, arg) ELSE extents

LogReplays ==
    IF pc = "off" THEN Legal(journal)
    ELSE /\ Replays(Log, Recorded, durableExtents, journalSynced)
         /\ nextSequence = IF pc = "appendSync" THEN Len(Log) ELSE Len(Log) + 1

(* A batch is bounded, and so is what only the session knows. *)
BatchBounded ==
    pc # "off" =>
        /\ pendingSectors <= MaxPendingSectors
        /\ Cardinality(ClaimedSectors(extents) \ ClaimedSectors(durableExtents))
             <= pendingSectors

(* What a checkpoint on the way to a record leaves for it. *)
RecordWaits ==
    /\ pc \in {"persist", "append", "appendSync", "header"} \/ pendingSectors = 0 =>
         pendingRecords = <<>>
    /\ pc = "persist" => pendingSectors = 0
    /\ pc \notin {"imageSync", "flush", "mapSync"} => then = "run"
    /\ pc \in {"persist", "append", "appendSync"} \/ then \in {"persist", "append"} =>
         WithinCapacity(arg)
    /\ pc = "persist" \/ then = "persist" => arg.sectors <= BlockSectors

ReplayInv == TypeOK /\ LogReplays /\ BatchBounded /\ RecordWaits

(* The log is a journal that begins with the file's. *)
LEMMA LogTyped ==
  ASSUME TypeOK
  PROVE  /\ Log \in Seq(JournalEntry) /\ Len(journal) <= Len(Log)
         /\ \A i \in 1 .. Len(journal) : Log[i] = journal[i]
         /\ pendingRecords = <<>> => Log = journal
         /\ journalSynced \in Nat /\ journalSynced <= Len(Log)
<1>1. journal \in Seq(JournalEntry) /\ pendingRecords \in Seq(JournalEntry)
      /\ journalSynced \in 0 .. Len(journal)
  BY DEF TypeOK
<1>2. CASE pc = "mapSync"
  BY <1>1, <1>2 DEF Log
<1>3. CASE pc # "mapSync"
  <2>1. Log = journal \o pendingRecords
    BY <1>3 DEF Log
  <2>2. pendingRecords = <<>> => Log = journal
    BY <1>1, <2>1
  <2>3. Len(Log) = Len(journal) + Len(pendingRecords) /\ Log \in Seq(JournalEntry)
    BY <1>1, <2>1
  <2> QED BY <1>1, <2>1, <2>2, <2>3
<1> QED BY <1>2, <1>3

(* A session that ends leaves what it has, or a prefix of it. *)
LEMMA EndsLegal ==
  ASSUME TypeOK, LogReplays, NEW j \in Seq(JournalEntry), Len(j) <= Len(journal),
         \A i \in 1 .. Len(j) : j[i] = journal[i]
  PROVE  Legal(j)
<1>1. journal \in Seq(JournalEntry) /\ Len(journal) \in Nat /\ Len(j) \in Nat
  BY DEF TypeOK
<1>2. CASE pc = "off"
  BY <1>1, <1>2, LegalPrefix DEF LogReplays
<1>3. CASE pc # "off"
  <2>1. Legal(Log)
    BY <1>3 DEF LogReplays, Replays
  <2>2. Log \in Seq(JournalEntry) /\ Len(j) <= Len(Log) /\ \A i \in 1 .. Len(j) : j[i] = Log[i]
    <3>1. /\ Log \in Seq(JournalEntry) /\ Len(journal) <= Len(Log)
          /\ \A i \in 1 .. Len(journal) : Log[i] = journal[i]
      BY LogTyped
    <3>2. Len(Log) \in Nat
      BY <3>1
    <3>3. \A i \in 1 .. Len(j) : i \in 1 .. Len(journal)
      BY <1>1
    <3> QED BY ONLY <1>1, <3>1, <3>2, <3>3, \A i \in 1 .. Len(j) : j[i] = journal[i],
               Len(j) <= Len(journal)
  <2> QED BY <2>1, <2>2, LegalPrefix
<1> QED BY <1>2, <1>3

(* A step that neither writes to the journal nor changes the store. *)
LEMMA LogKept ==
  ASSUME TypeOK, LogReplays, pc # "off",
         pc \notin {"mapSync", "appendSync"}, pc' \notin {"mapSync", "appendSync"},
         UNCHANGED <<journal, journalSynced, storeVars>>
  PROVE  LogReplays'
<1> USE DEF storeVars
<1>1. CASE pc' = "off"
  <2>1. journal \in Seq(JournalEntry) /\ Len(journal) \in Nat
    BY DEF TypeOK
  <2>2. Legal(journal)
    BY <2>1, EndsLegal
  <2> QED BY <1>1, <2>2 DEF LogReplays
<1>2. CASE pc' # "off"
  <2>1. Log' = Log /\ Recorded' = Recorded
    BY DEF Log, Recorded
  <2> QED BY <1>2, <2>1 DEF LogReplays
<1> QED BY <1>1, <1>2

LEMMA LogEnded ==
  ASSUME TypeOK, LogReplays, pc' = "off", journal' \in Seq(JournalEntry),
         Len(journal') <= Len(journal), \A i \in 1 .. Len(journal') : journal'[i] = journal[i]
  PROVE  LogReplays'
<1>1. Legal(journal')
  BY EndsLegal
<1> QED BY <1>1 DEF LogReplays

(* What is synced may be reported. *)
LEMMA ReplaysReported ==
  ASSUME NEW j \in Seq(JournalEntry), NEW m \in SectorMaps, Legal(j),
         ReplayJournal(j) = RequeueAsUnknown(m)
  PROVE  Replays(j, m, m, Len(j))
<1>1. Len(j) .. Len(j) = {Len(j)}
  OBVIOUS
<1>2. \A s \in Sectors : Keeps(m[s], CellAfter(j, Len(j), s))
  BY ReplayedKeeps
<1> QED BY <1>1, <1>2 DEF Replays

(* What a recorded block must be for the batch and for the medium. *)
LEMMA CandidatesFit ==
  ASSUME TypeOK, NEW e \in Candidates
  PROVE  WithinCapacity(e) /\ (e.state = "read_unverified" => e.sectors <= BlockSectors)
<1>1. PICK b \in Blocks : \E c \in NextCells(extents[b.start]) :
        e = [start |-> b.start, sectors |-> b.sectors, state |-> c.state,
             confidence |-> c.confidence, attempts |-> c.attempts]
  BY DEF Candidates
<1>2. e.start = b.start /\ e.sectors = b.sectors
  BY <1>1
<1>3. b.start + b.sectors <= CapacitySectors
  BY DEF Blocks
<1>4. e.state = "missing" \/ e.sectors <= BlockSectors
  BY DEF Candidates
<1> QED BY <1>2, <1>3, <1>4 DEF WithinCapacity

(* StageExtent: the map, the staged record and the number of the next one. *)
LEMMA StageReplays ==
  ASSUME TypeOK, LogReplays, NEW e \in Extent, WithinCapacity(e),
         pc \in {"run", "persist"}, WriteAndStage(e)
  PROVE  LogReplays'
<1> DEFINE r == Record(Len(Log) + 1, e)
<1>1. /\ journal \in Seq(JournalEntry) /\ pendingRecords \in Seq(JournalEntry)
      /\ extents \in SectorMaps /\ durableExtents \in SectorMaps
  BY DEF TypeOK
<1>2. /\ Log \in Seq(JournalEntry) /\ Len(Log) \in Nat
      /\ journalSynced \in Nat /\ journalSynced <= Len(Log)
  BY LogTyped
<1>3. /\ Log = journal \o pendingRecords /\ Recorded = extents
      /\ Replays(Log, extents, durableExtents, journalSynced)
      /\ nextSequence = Len(Log) + 1
  BY DEF LogReplays, Log, Recorded
<1>4. /\ CanApplyExtent(extents, e)
      /\ extents' = ApplyExtent(extents, e)
      /\ pendingRecords' = Append(pendingRecords, Record(nextSequence, e))
      /\ nextSequence' = nextSequence + 1 /\ pc' \in {"run", "imageSync"}
      /\ journal' = journal /\ journalSynced' = journalSynced
      /\ durableExtents' = durableExtents
  BY DEF WriteAndStage
<1>5. Log' = Append(Log, r)
  <2>1. r \in JournalEntry
    BY <1>2, RecordTyped
  <2>2. pendingRecords' = Append(pendingRecords, r)
    BY <1>3, <1>4
  <2> HIDE DEF r
  <2>3. Log' = journal \o pendingRecords'
    BY <1>4 DEF Log
  <2>4. Append(pendingRecords, r) = pendingRecords \o <<r>> /\ <<r>> \in Seq(JournalEntry)
    BY <1>1, <2>1, AppendIsConcat
  <2>5. Append(Log, r) = Log \o <<r>>
    BY <1>2, <2>1, AppendIsConcat
  <2>6. (journal \o pendingRecords) \o <<r>> = journal \o (pendingRecords \o <<r>>)
    BY <1>1, <2>4, ConcatAssociative
  <2> QED BY <1>3, <2>2, <2>3, <2>4, <2>5, <2>6
<1>6. /\ Len(Log') = Len(Log) + 1
      /\ Replays(Log', ApplyExtent(extents, e), durableExtents, journalSynced)
  <2> DEFINE j == Log
             k == Log'
  <2>1. j \in Seq(JournalEntry) /\ journalSynced \in Nat /\ journalSynced <= Len(j)
        /\ Replays(j, extents, durableExtents, journalSynced)
        /\ k = Append(j, Record(Len(j) + 1, e))
    BY <1>2, <1>3, <1>5
  <2>2. CanApplyExtent(extents, e)
    BY <1>4
  <2> HIDE DEF j, k
  <2>3. Len(k) = Len(j) + 1
        /\ Replays(k, ApplyExtent(extents, e), durableExtents, journalSynced)
    BY <1>1, <2>1, <2>2, ReplaysAppend
  <2> QED BY <2>3 DEF j, k
<1>7. Recorded' = ApplyExtent(extents, e)
  BY <1>4 DEF Recorded
<1> QED BY <1>3, <1>4, <1>6, <1>7 DEF LogReplays

(* Steps of a checkpoint, of a synced append and of a resume. *)
LEMMA FlushReplays ==
  ASSUME TypeOK, LogReplays, FlushWrite \/ FlushSync
  PROVE  LogReplays'
<1> USE DEF storeVars
<1>1. /\ journal \in Seq(JournalEntry) /\ pendingRecords \in Seq(JournalEntry)
      /\ extents \in SectorMaps
  BY DEF TypeOK
<1>2. CASE FlushWrite
  <2>1. Log' = Log /\ Recorded' = Recorded
    BY <1>2 DEF FlushWrite, Log, Recorded
  <2> QED BY <1>2, <2>1 DEF FlushWrite, LogReplays
<1>3. CASE FlushSync
  <2>1. Log = journal /\ Recorded = extents
    BY <1>3 DEF FlushSync, Log, Recorded
  <2>2. /\ Replays(journal, extents, durableExtents, journalSynced)
        /\ nextSequence = Len(journal) + 1
    BY <1>3, <2>1 DEF FlushSync, LogReplays
  <2>3. Replays(journal, extents, extents, Len(journal))
    BY <1>1, <2>2, ReplaysReported DEF Replays
  <2>4. pc' \notin {"off", "mapSync", "appendSync"}
    BY <1>3 DEF FlushSync, TypeOK
  <2>5. journal \o <<>> = journal
    BY <1>1
  <2>6. Log' = journal /\ Recorded' = extents
    BY <1>3, <2>4, <2>5 DEF FlushSync, Log, Recorded
  <2> QED BY <1>3, <2>2, <2>3, <2>4, <2>6 DEF FlushSync, LogReplays
<1> QED BY <1>2, <1>3

LEMMA AppendWriteReplays ==
  ASSUME TypeOK, LogReplays, RecordWaits, AppendWrite
  PROVE  LogReplays'
<1>1. /\ journal \in Seq(JournalEntry) /\ extents \in SectorMaps
      /\ durableExtents \in SectorMaps /\ arg \in Extent
  BY DEF TypeOK
<1>2. pendingRecords = <<>> /\ WithinCapacity(arg)
  BY DEF AppendWrite, RecordWaits
<1>3. Log = journal /\ Recorded = extents
  BY <1>2, LogTyped DEF AppendWrite, Recorded
<1>4. /\ Replays(journal, extents, durableExtents, journalSynced)
      /\ nextSequence = Len(journal) + 1
  BY <1>3 DEF LogReplays, AppendWrite
<1>5. /\ CanApplyExtent(extents, arg)
      /\ journal' = Append(journal, Record(nextSequence, arg))
      /\ pc' = "appendSync" /\ journalSynced' = journalSynced
      /\ extents' = extents /\ durableExtents' = durableExtents /\ arg' = arg
      /\ nextSequence' = nextSequence /\ pendingRecords' = pendingRecords
  BY DEF AppendWrite, storeVars
<1>6. journalSynced \in Nat /\ journalSynced <= Len(journal) /\ Len(journal) \in Nat
  BY DEF TypeOK
<1>7. /\ journal' \in Seq(JournalEntry) /\ Len(journal') = Len(journal) + 1
      /\ Replays(journal', ApplyExtent(extents, arg), durableExtents, journalSynced)
  BY <1>1, <1>2, <1>4, <1>5, <1>6, ReplaysAppend
<1>8. journal' \o <<>> = journal'
  BY <1>7
<1>9. Log' = journal' /\ Recorded' = ApplyExtent(extents, arg)
  BY <1>2, <1>5, <1>8 DEF Log, Recorded
<1> QED BY <1>4, <1>5, <1>7, <1>9 DEF LogReplays

LEMMA AppendSyncReplays ==
  ASSUME TypeOK, LogReplays, RecordWaits, AppendSync
  PROVE  LogReplays'
<1> DEFINE m == ApplyExtent(extents, arg)
<1>1. journal \in Seq(JournalEntry) /\ m \in SectorMaps
  BY ApplyExtentTyped DEF TypeOK
<1>2. pendingRecords = <<>>
  BY DEF AppendSync, RecordWaits
<1>3. Log = journal /\ Recorded = m
  BY <1>2, LogTyped DEF AppendSync, Recorded
<1> HIDE DEF m
<1>4. Replays(journal, m, durableExtents, journalSynced) /\ nextSequence = Len(journal)
  BY <1>3 DEF LogReplays, AppendSync
<1>5. Replays(journal, m, m, Len(journal))
  BY <1>1, <1>4, ReplaysReported DEF Replays
<1>6. /\ extents' = m /\ durableExtents' = m /\ journalSynced' = Len(journal)
      /\ pc' = "run" /\ journal' = journal /\ pendingRecords' = pendingRecords
      /\ nextSequence' = nextSequence + 1
  BY DEF AppendSync, m
<1>7. journal \o <<>> = journal
  BY <1>1
<1>8. Log' = journal /\ Recorded' = m
  BY <1>2, <1>6, <1>7 DEF Log, Recorded
<1> QED BY <1>4, <1>5, <1>6, <1>8 DEF LogReplays

LEMMA OpenReplays ==
  ASSUME TypeOK, LogReplays, Open
  PROVE  LogReplays'
<1> DEFINE m == ReplayJournal(journal)
<1>1. journal \in Seq(JournalEntry) /\ m \in SectorMaps
  BY ReplayTyped DEF TypeOK
<1>2. Legal(journal) /\ LastSequence(journal) = Len(journal)
  BY <1>1, LegalReplays DEF LogReplays, Open
<1>3. ReplayJournal(journal) = RequeueAsUnknown(m)
  BY ReplayIsRequeued
<1>4. /\ extents' = m /\ durableExtents' = m /\ journalSynced' = Len(journal)
      /\ pc' = "run" /\ journal' = journal /\ pendingRecords' = <<>>
      /\ nextSequence' = Len(journal) + 1
  BY <1>2 DEF Open
<1> HIDE DEF m
<1>5. Replays(journal, m, m, Len(journal))
  BY <1>1, <1>2, <1>3, ReplaysReported
<1>6. journal \o <<>> = journal
  BY <1>1
<1>7. Log' = journal /\ Recorded' = m
  BY <1>4, <1>6 DEF Log, Recorded
<1> QED BY <1>4, <1>5, <1>7 DEF LogReplays

----------------------------------------------------------------------------
(* A block adds at most its own sectors to what the session alone knows. *)
LEMMA CoveredSize ==
  ASSUME NEW e \in Extent
  PROVE  IsFiniteSet(Covered(e)) /\ Cardinality(Covered(e)) <= e.sectors
<1>1. e.start \in Int /\ e.sectors \in Nat \ {0}
  BY DEF Extent, Sectors
<1> DEFINE span == e.start .. e.start + e.sectors - 1
<1>2. e.start \in Int /\ e.start + e.sectors - 1 \in Int
      /\ e.start <= e.start + e.sectors - 1
      /\ (e.start + e.sectors - 1) - e.start + 1 = e.sectors
  BY <1>1
<1>3. IsFiniteSet(span) /\ Cardinality(span) = e.sectors
  BY <1>2, FS_Interval
<1>4. Covered(e) \subseteq span
  BY <1>1, CapacityAssumption DEF Covered, Sectors
<1> HIDE DEF span
<1>5. IsFiniteSet(Covered(e)) /\ Cardinality(Covered(e)) <= Cardinality(span)
  BY <1>3, <1>4, FS_Subset
<1> QED BY <1>3, <1>5

LEMMA ClaimsFinite == \A m : IsFiniteSet(ClaimedSectors(m)) /\ ClaimedSectors(m) \subseteq Sectors
<1>1. IsFiniteSet(Sectors)
  BY CapacityAssumption, FS_Interval DEF Sectors
<1>2. \A m : ClaimedSectors(m) \subseteq Sectors
  BY DEF ClaimedSectors
<1> QED BY <1>1, <1>2, FS_Subset

LEMMA StagedClaims ==
  ASSUME NEW m \in SectorMaps, NEW d, NEW e \in Extent
  PROVE  Cardinality(ClaimedSectors(ApplyExtent(m, e)) \ ClaimedSectors(d))
           <= Cardinality(ClaimedSectors(m) \ ClaimedSectors(d)) + e.sectors
<1> DEFINE before == ClaimedSectors(m) \ ClaimedSectors(d)
           after == ClaimedSectors(ApplyExtent(m, e)) \ ClaimedSectors(d)
           own == Covered(e)
<1>1. after \subseteq before \cup own
  BY DEF ClaimedSectors, ApplyExtent
<1>2. IsFiniteSet(before)
  <2>1. before \subseteq ClaimedSectors(m)
    OBVIOUS
  <2> HIDE DEF before
  <2> QED BY <2>1, ClaimsFinite, FS_Subset
<1>3. IsFiniteSet(own) /\ Cardinality(own) <= e.sectors /\ e.sectors \in Nat
  BY CoveredSize DEF Extent
<1> HIDE DEF before, after, own
<1>4. /\ IsFiniteSet(before \cup own)
      /\ Cardinality(before \cup own) =
           Cardinality(before) + Cardinality(own) - Cardinality(before \cap own)
  BY <1>2, <1>3, FS_Union
<1>5. Cardinality(after) <= Cardinality(before \cup own) /\ IsFiniteSet(after)
  BY <1>1, <1>4, FS_Subset
<1>6. IsFiniteSet(before \cap own)
  BY <1>2, FS_Subset
<1>7. /\ Cardinality(before) \in Nat /\ Cardinality(own) \in Nat
      /\ Cardinality(before \cap own) \in Nat /\ Cardinality(after) \in Nat
  BY <1>2, <1>3, <1>5, <1>6, FS_CardinalityType
<1>8. Cardinality(after) <= Cardinality(before) + e.sectors
  BY <1>3, <1>4, <1>5, <1>7
<1> QED BY <1>8 DEF before, after

LEMMA StageBounded ==
  ASSUME TypeOK, BatchBounded, NEW e \in Extent, e.sectors <= BlockSectors,
         pc # "off", pendingSectors = 0 \/ pendingSectors + e.sectors <= MaxPendingSectors,
         WriteAndStage(e)
  PROVE  BatchBounded'
<1>1. /\ extents' = ApplyExtent(extents, e) /\ durableExtents' = durableExtents
      /\ pendingSectors' = pendingSectors + e.sectors /\ pc' # "off"
  BY DEF WriteAndStage
<1>2. /\ pendingSectors \in Nat /\ e.sectors \in Nat /\ extents \in SectorMaps
      /\ MaxPendingSectors \in Nat /\ BlockSectors \in Nat
      /\ BlockSectors <= MaxPendingSectors
  BY RecoveryStoreAssumption DEF TypeOK, Extent
<1>3. pendingSectors' <= MaxPendingSectors
  BY <1>1, <1>2
<1> DEFINE known == Cardinality(ClaimedSectors(extents) \ ClaimedSectors(durableExtents))
           known2 == Cardinality(ClaimedSectors(ApplyExtent(extents, e))
                                   \ ClaimedSectors(durableExtents))
<1>4. known <= pendingSectors
  BY DEF BatchBounded
<1>5. known2 <= known + e.sectors
  BY <1>2, StagedClaims
<1>6. known \in Nat /\ known2 \in Nat
  <2>1. IsFiniteSet(ClaimedSectors(extents) \ ClaimedSectors(durableExtents))
    BY ClaimsFinite, FS_Subset
  <2>2. IsFiniteSet(ClaimedSectors(ApplyExtent(extents, e)) \ ClaimedSectors(durableExtents))
    BY ClaimsFinite, FS_Subset
  <2> QED BY <2>1, <2>2, FS_CardinalityType
<1> HIDE DEF known, known2
<1>7. known2 <= pendingSectors + e.sectors
  BY <1>2, <1>4, <1>5, <1>6
<1> QED BY <1>1, <1>3, <1>7 DEF BatchBounded, known2

(* Nothing is known that has not been reported. *)
LEMMA ReportedBounded ==
  ASSUME TypeOK', extents' = durableExtents', pendingSectors' <= MaxPendingSectors
  PROVE  BatchBounded'
<1>1. ClaimedSectors(extents') \ ClaimedSectors(durableExtents') = {}
  BY Zenon
<1>2. Cardinality(ClaimedSectors(extents') \ ClaimedSectors(durableExtents')) = 0
  BY <1>1, FS_EmptySet
<1>3. pendingSectors' \in Nat
  BY DEF TypeOK
<1> QED BY <1>2, <1>3 DEF BatchBounded

LEMMA StoreBounded ==
  ASSUME BatchBounded, UNCHANGED storeVars, pc # "off"
  PROVE  BatchBounded'
  BY DEF BatchBounded, storeVars

(* A failed call leaves nothing waiting. *)
LEMMA FailWaits ==
  ASSUME TypeOK, RecordWaits, Fail, UNCHANGED storeVars
  PROVE  RecordWaits'
<1>1. arg' = NoExtent /\ then' = "run" /\ pc' \in {"off", "finish", "unwind"}
  BY DEF Fail
<1> QED BY <1>1 DEF RecordWaits, storeVars

LEMMA ForgetWaits == ForgetSession => RecordWaits'
  BY DEF ForgetSession, RecordWaits

(* The calls on the image file may fail; those on the map do not, and no   *)
(* write of the map is torn.                                               *)
MapIsWritten == Faults \cap {"mapWrite", "mapSync", "tear"} = {}

LEMMA LogReplaysStep ==
  ASSUME MapIsWritten, ReplayInv, TypeOK', Next
  PROVE  LogReplays'
<1> USE DEF diskVars
<1>a. TypeOK /\ LogReplays /\ RecordWaits
  BY DEF ReplayInv
<1>b. "mapWrite" \notin Faults /\ "mapSync" \notin Faults /\ "tear" \notin Faults
  BY DEF MapIsWritten
<1>c. /\ journal \in Seq(JournalEntry) /\ journal' \in Seq(JournalEntry)
      /\ Len(journal) \in Nat
  BY <1>a DEF TypeOK
<1>1. ASSUME NEW e \in Candidates, PersistRecovered(e) PROVE LogReplays'
  <2>1. e \in Extent /\ WithinCapacity(e) /\ pc = "run"
    BY <1>a, <1>1, CandidatesTyped, CandidatesFit DEF PersistRecovered
  <2>2. CASE WriteAndStage(e)
    BY <1>a, <2>1, <2>2, StageReplays
  <2>3. CASE /\ pc' = "imageSync" /\ then' = "persist" /\ arg' = e
             /\ UNCHANGED <<diskVars, storeVars, runErr>>
    BY <1>a, <2>1, <2>3, LogKept
  <2> QED BY <1>1, <2>2, <2>3 DEF PersistRecovered
<1>2. ASSUME NEW e, ApplyDurably(e) PROVE LogReplays'
  BY <1>a, <1>2, LogKept DEF ApplyDurably, BeginCheckpoint
<1>3. ASSUME NEW e, ImageWriteFails(e) PROVE LogReplays'
  BY <1>a, <1>3, LogKept DEF ImageWriteFails, Fail
<1>4. CASE PersistAfterCheckpoint
  <2>1. arg \in Extent /\ WithinCapacity(arg) /\ pc = "persist" /\ WriteAndStage(arg)
    BY <1>a, <1>4 DEF PersistAfterCheckpoint, RecordWaits, TypeOK
  <2> QED BY <1>a, <2>1, StageReplays
<1>5. CASE SyncImage \/ SyncImageFails
  BY <1>a, <1>5, LogKept DEF SyncImage, SyncImageFails, Fail
<1>6. CASE FlushWrite \/ FlushSync
  BY <1>a, <1>6, FlushReplays
<1>7. CASE AppendWrite
  BY <1>a, <1>7, AppendWriteReplays
<1>8. CASE AppendSync
  BY <1>a, <1>8, AppendSyncReplays
<1>9. CASE FlushWriteFails \/ FlushSyncFails \/ AppendWriteFails \/ AppendSyncFails
           \/ CloseHeaderFails \/ OpenFails
  BY <1>b, <1>9 DEF FlushWriteFails, FlushSyncFails, AppendWriteFails, AppendSyncFails,
                    CloseHeaderFails, OpenFails
<1>10. ASSUME NEW err, RunReturns(err) PROVE LogReplays'
  BY <1>a, <1>10, LogKept DEF RunReturns
<1>11. CASE DeferredFlush \/ FinishRun \/ CloseStore
  BY <1>a, <1>11, LogKept DEF DeferredFlush, BeginCheckpoint, FinishRun, CloseStore
<1>12. CASE CloseHeader \/ Kill
  <2>1. pc' = "off" /\ journal' = journal
    BY <1>12 DEF CloseHeader, Kill, ForgetSession
  <2> QED BY <1>a, <1>c, <2>1, LogEnded
<1>13. CASE PowerLoss
  <2>1. PICK n \in journalSynced .. Len(journal) : journal' = SubSeq(journal, 1, n)
    BY <1>b, <1>13 DEF PowerLoss
  <2>2. n \in 0 .. Len(journal)
    BY <1>a, <1>c DEF TypeOK
  <2>3. Len(journal') <= Len(journal) /\ \A i \in 1 .. Len(journal') : journal'[i] = journal[i]
    BY <1>c, <2>1, <2>2
  <2>4. pc' = "off"
    BY <1>13 DEF PowerLoss, ForgetSession
  <2> QED BY <1>a, <1>c, <2>3, <2>4, LogEnded
<1>14. CASE Open
  BY <1>a, <1>14, OpenReplays
<1>15. CASE OpenRejected
  BY <1>a, <1>15 DEF OpenRejected, vars, controlVars, LogReplays
<1> QED
  BY <1>1, <1>2, <1>3, <1>4, <1>5, <1>6, <1>7, <1>8, <1>9, <1>10, <1>11, <1>12,
     <1>13, <1>14, <1>15
  DEF Next, PassStep, SessionStep

LEMMA BatchBoundedStep ==
  ASSUME MapIsWritten, ReplayInv, TypeOK', Next
  PROVE  BatchBounded'
<1>a. TypeOK /\ BatchBounded /\ RecordWaits
  BY DEF ReplayInv
<1>b. "mapWrite" \notin Faults /\ "mapSync" \notin Faults
  BY DEF MapIsWritten
<1>c. MaxPendingSectors \in Nat
  BY RecoveryStoreAssumption
<1>1. ASSUME NEW e \in Candidates, PersistRecovered(e) PROVE BatchBounded'
  <2>1. e \in Extent /\ e.sectors <= BlockSectors /\ pc = "run"
    BY <1>a, <1>1, CandidatesTyped, CandidatesFit DEF PersistRecovered
  <2>2. pendingSectors \in Nat /\ e.sectors \in Nat
    BY <1>a, <2>1 DEF TypeOK, Extent
  <2>3. CASE pendingSectors > 0 /\ pendingSectors + e.sectors > MaxPendingSectors
    BY <1>a, <1>1, <2>1, <2>3, StoreBounded DEF PersistRecovered
  <2>4. CASE ~(pendingSectors > 0 /\ pendingSectors + e.sectors > MaxPendingSectors)
    <3>1. WriteAndStage(e)
      BY <1>1, <2>4 DEF PersistRecovered
    <3>2. pendingSectors = 0 \/ pendingSectors + e.sectors <= MaxPendingSectors
      BY <1>c, <2>2, <2>4
    <3> QED BY <1>a, <2>1, <3>1, <3>2, StageBounded
  <2> QED BY <2>3, <2>4
<1>2. ASSUME NEW e, ApplyDurably(e) \/ ImageWriteFails(e) PROVE BatchBounded'
  <2>1. UNCHANGED storeVars
    BY <1>2 DEF ApplyDurably, ImageWriteFails
  <2> QED BY <1>a, <1>2, <2>1 DEF BatchBounded, storeVars, ApplyDurably, ImageWriteFails
<1>3. CASE PersistAfterCheckpoint
  <2>1. /\ arg \in Extent /\ arg.sectors <= BlockSectors /\ pc = "persist"
        /\ pendingSectors = 0 /\ WriteAndStage(arg)
    BY <1>a, <1>3 DEF PersistAfterCheckpoint, RecordWaits, TypeOK
  <2> QED BY <1>a, <2>1, StageBounded
<1>4. CASE SyncImage \/ SyncImageFails \/ FlushWrite \/ AppendWrite
  BY <1>a, <1>4, StoreBounded DEF SyncImage, SyncImageFails, FlushWrite, AppendWrite
<1>5. CASE FlushSync
  BY <1>5, <1>c, ReportedBounded DEF FlushSync
<1>6. CASE AppendSync
  BY <1>a, <1>6, ReportedBounded DEF AppendSync, BatchBounded
<1>7. CASE FlushWriteFails \/ FlushSyncFails \/ AppendWriteFails \/ AppendSyncFails
           \/ CloseHeaderFails \/ OpenFails
  BY <1>b, <1>7 DEF FlushWriteFails, FlushSyncFails, AppendWriteFails, AppendSyncFails,
                    CloseHeaderFails, OpenFails
<1>8. ASSUME NEW err, RunReturns(err) PROVE BatchBounded'
  BY <1>a, <1>8, StoreBounded DEF RunReturns
<1>9. CASE DeferredFlush \/ FinishRun \/ CloseStore
  BY <1>a, <1>9, StoreBounded DEF DeferredFlush, FinishRun, CloseStore
<1>10. CASE CloseHeader \/ Kill \/ PowerLoss
  BY <1>10 DEF CloseHeader, Kill, PowerLoss, ForgetSession, BatchBounded
<1>11. CASE Open
  BY <1>11, <1>c, ReportedBounded DEF Open
<1>12. CASE OpenRejected
  BY <1>a, <1>12 DEF OpenRejected, vars, controlVars, storeVars, BatchBounded
<1> QED
  BY <1>1, <1>2, <1>3, <1>4, <1>5, <1>6, <1>7, <1>8, <1>9, <1>10, <1>11, <1>12
  DEF Next, PassStep, SessionStep

LEMMA RecordWaitsStep ==
  ASSUME MapIsWritten, ReplayInv, TypeOK', Next
  PROVE  RecordWaits'
<1> USE DEF storeVars
<1>a. TypeOK /\ RecordWaits
  BY DEF ReplayInv
<1>b. "mapWrite" \notin Faults /\ "mapSync" \notin Faults
  BY DEF MapIsWritten
<1>1. ASSUME NEW e \in Extent, pc \in {"run", "persist"}, WriteAndStage(e) PROVE RecordWaits'
  <2>1. pendingSectors' > 0 /\ pc' \in {"run", "imageSync"} /\ then' = "run"
    BY <1>a, <1>1 DEF WriteAndStage, TypeOK, Extent
  <2> QED BY <2>1 DEF RecordWaits
<1>2. ASSUME NEW e \in Candidates, PersistRecovered(e) PROVE RecordWaits'
  <2>1. e \in Extent /\ e.sectors <= BlockSectors /\ WithinCapacity(e) /\ pc = "run"
    BY <1>a, <1>2, CandidatesTyped, CandidatesFit DEF PersistRecovered
  <2>2. CASE WriteAndStage(e)
    BY <1>1, <2>1, <2>2
  <2>3. CASE /\ pc' = "imageSync" /\ then' = "persist" /\ arg' = e
             /\ UNCHANGED <<diskVars, storeVars, runErr>>
    BY <1>a, <2>1, <2>3 DEF RecordWaits
  <2> QED BY <1>2, <2>2, <2>3 DEF PersistRecovered
<1>3. ASSUME NEW e \in Candidates, ApplyDurably(e) PROVE RecordWaits'
  <2>1. WithinCapacity(e)
    BY <1>a, CandidatesFit
  <2> QED BY <1>a, <1>3, <2>1 DEF ApplyDurably, BeginCheckpoint, RecordWaits, TypeOK
<1>4. ASSUME NEW e, ImageWriteFails(e) PROVE RecordWaits'
  BY <1>a, <1>4, FailWaits DEF ImageWriteFails
<1>5. CASE PersistAfterCheckpoint
  BY <1>a, <1>1, <1>5 DEF PersistAfterCheckpoint, TypeOK
<1>6. CASE SyncImage
  BY <1>a, <1>6 DEF SyncImage, RecordWaits
<1>7. CASE SyncImageFails
  BY <1>a, <1>7, FailWaits DEF SyncImageFails
<1>8. CASE FlushWrite
  BY <1>a, <1>8 DEF FlushWrite, RecordWaits
<1>9. CASE FlushSync
  BY <1>a, <1>9 DEF FlushSync, RecordWaits, TypeOK
<1>10. CASE AppendWrite
  BY <1>a, <1>10 DEF AppendWrite, RecordWaits
<1>11. CASE AppendSync
  BY <1>a, <1>11 DEF AppendSync, RecordWaits
<1>12. CASE FlushWriteFails \/ FlushSyncFails \/ AppendWriteFails \/ AppendSyncFails
           \/ CloseHeaderFails \/ OpenFails
  BY <1>b, <1>12 DEF FlushWriteFails, FlushSyncFails, AppendWriteFails, AppendSyncFails,
                    CloseHeaderFails, OpenFails
<1>13. ASSUME NEW err, RunReturns(err) PROVE RecordWaits'
  BY <1>a, <1>13 DEF RunReturns, RecordWaits
<1>14. CASE DeferredFlush
  BY <1>a, <1>14 DEF DeferredFlush, BeginCheckpoint, RecordWaits, TypeOK
<1>15. CASE FinishRun
  BY <1>a, <1>15 DEF FinishRun, RecordWaits
<1>16. CASE CloseStore
  BY <1>a, <1>16 DEF CloseStore, RecordWaits
<1>17. CASE CloseHeader \/ Kill \/ PowerLoss
  BY <1>17, ForgetWaits DEF CloseHeader, Kill, PowerLoss
<1>18. CASE Open
  BY <1>18 DEF Open, RecordWaits
<1>19. CASE OpenRejected
  BY <1>a, <1>19 DEF OpenRejected, vars, controlVars, RecordWaits
<1> QED
  BY <1>2, <1>3, <1>4, <1>5, <1>6, <1>7, <1>8, <1>9, <1>10, <1>11, <1>12,
     <1>13, <1>14, <1>15, <1>16, <1>17, <1>18, <1>19
  DEF Next, PassStep, SessionStep

LEMMA ReplayInvInit == Init => ReplayInv
<1> SUFFICES ASSUME Init PROVE ReplayInv
  OBVIOUS
<1>1. TypeOK
  BY InitTyped
<1>2. /\ journal = <<>> /\ pendingRecords = <<>> /\ journalSynced = 0 /\ pc = "run"
      /\ extents = EmptyMap /\ durableExtents = EmptyMap /\ nextSequence = 1
      /\ pendingSectors = 0 /\ then = "run"
  BY DEF Init
<1>3. /\ <<>> \in Seq(JournalEntry) /\ Len(<<>>) = 0 /\ EmptyMap \in SectorMaps
      /\ <<>> \o <<>> = <<>>
  BY EmptyMapTyped
<1>4. Legal(<<>>)
  BY DEF Legal
<1>5. ReplayJournal(<<>>) = RequeueAsUnknown(EmptyMap)
  <2>1. \A s \in Sectors : CellAfter(<<>>, Len(<<>>), s) = Absent
    BY <1>3, CellAfterNothing
  <2>2. [s \in Sectors |-> CellAfter(<<>>, Len(<<>>), s)] = EmptyMap
    BY <2>1 DEF EmptyMap
  <2> QED BY <2>2 DEF ReplayJournal
<1>6. Replays(<<>>, EmptyMap, EmptyMap, 0)
  BY <1>3, <1>4, <1>5, ReplaysReported
<1>7. LogReplays
  <2>1. Log = <<>> /\ Recorded = EmptyMap
    BY <1>2, <1>3 DEF Log, Recorded
  <2> QED BY <1>2, <1>3, <1>6, <2>1 DEF LogReplays
<1>8. BatchBounded
  <2>1. ClaimedSectors(extents) \ ClaimedSectors(durableExtents) = {}
    BY <1>2
  <2>2. Cardinality(ClaimedSectors(extents) \ ClaimedSectors(durableExtents)) = 0
    BY <2>1, FS_EmptySet
  <2> QED BY <1>2, <2>2, RecoveryStoreAssumption DEF BatchBounded
<1>9. RecordWaits
  BY <1>2 DEF RecordWaits
<1> QED BY <1>1, <1>7, <1>8, <1>9 DEF ReplayInv

LEMMA ReplayInvStep ==
  ASSUME MapIsWritten, ReplayInv, [Next]_vars
  PROVE  ReplayInv'
<1>1. TypeOK'
  BY TypeOKStep DEF ReplayInv
<1>2. CASE Next
  BY <1>1, <1>2, LogReplaysStep, BatchBoundedStep, RecordWaitsStep DEF ReplayInv
<1>3. CASE UNCHANGED vars
  <2>1. LogReplays'
    BY <1>3 DEF ReplayInv, LogReplays, Log, Recorded, vars, diskVars, storeVars, controlVars
  <2>2. BatchBounded' /\ RecordWaits'
    BY <1>3 DEF ReplayInv, BatchBounded, RecordWaits, vars, diskVars, storeVars, controlVars
  <2> QED BY <1>1, <2>1, <2>2 DEF ReplayInv
<1> QED BY <1>2, <1>3

(* A journal a crash may leave has the cells the log had there. *)
LEMMA CrashJournal ==
  ASSUME ReplayInv, pc # "off", NEW j \in CrashJournals, NEW s \in Sectors
  PROVE  ReplayOK(j) /\ Keeps(durableExtents[s], ReplayJournal(j)[s])
<1>1. TypeOK /\ Replays(Log, Recorded, durableExtents, journalSynced)
  BY DEF ReplayInv, LogReplays
<1>2. PICK n \in journalSynced .. Len(journal) : j = SubSeq(journal, 1, n)
  BY DEF CrashJournals
<1>3. /\ Log \in Seq(JournalEntry) /\ Len(journal) <= Len(Log)
      /\ \A i \in 1 .. Len(journal) : Log[i] = journal[i]
  BY <1>1, LogTyped
<1>4. /\ journal \in Seq(JournalEntry) /\ journalSynced \in Nat
      /\ Len(journal) \in Nat /\ Len(Log) \in Nat
  BY <1>1, <1>3 DEF TypeOK
<1>5. n \in Nat /\ n \in journalSynced .. Len(Log)
  BY <1>3, <1>4
<1>6. /\ j \in Seq(JournalEntry) /\ Len(j) = n /\ Len(j) <= Len(Log)
      /\ \A i \in 1 .. Len(j) : j[i] = Log[i]
  <2>1. j \in Seq(JournalEntry) /\ Len(j) = n /\ \A i \in 1 .. n : j[i] = journal[i]
    BY <1>2, <1>4, <1>5
  <2>2. \A i \in 1 .. n : i \in 1 .. Len(journal)
    BY <1>2, <1>4
  <2> QED BY <1>3, <1>5, <2>1, <2>2
<1>7. Legal(Log) /\ Keeps(durableExtents[s], CellAfter(Log, n, s))
  BY <1>1, <1>5 DEF Replays
<1>8. Legal(j) /\ CellAfter(j, n, s) = CellAfter(Log, n, s)
  <2>1. n \in 0 .. Len(j)
    BY <1>5, <1>6
  <2> QED BY <1>3, <1>6, <1>7, <2>1, LegalPrefix
<1>9. ReplayJournal(j)[s] = RequeuedCell(CellAfter(j, n, s))
  BY <1>6 DEF ReplayJournal, RequeueAsUnknown, RequeuedCell
<1>10. CellAfter(j, n, s) \in Cell /\ durableExtents[s] \in Cell
  BY <1>1, <1>6, <1>8, LegalCell DEF TypeOK, SectorMaps
<1>11. Keeps(durableExtents[s], RequeuedCell(CellAfter(j, n, s)))
  BY <1>7, <1>8, <1>10, RequeuedKeeps
<1> QED BY <1>6, <1>8, <1>9, <1>11, LegalReplays

LEMMA CrashKeepsClaims ==
  ASSUME ReplayInv, pc # "off", NEW j \in CrashJournals
  PROVE  /\ ReplayOK(j)
         /\ ClaimedSectors(durableExtents) \subseteq ClaimedSectors(ReplayJournal(j))
         /\ \A s \in Sectors : durableExtents[s].attempts <= ReplayJournal(j)[s].attempts
<1>1. \A s \in Sectors : ReplayOK(j) /\ Keeps(durableExtents[s], ReplayJournal(j)[s])
  BY CrashJournal
<1>2. 0 \in Sectors
  BY CapacityAssumption DEF Sectors
<1> QED BY <1>1, <1>2 DEF Keeps, ClaimedSectors

(* As long as the map file itself is written and synced, what progress is  *)
(* reported from is there after a crash at any point, whatever happens to  *)
(* the image file: for every medium, batch size and number of resumes.     *)
THEOREM ReportedProgressIsKept ==
  ASSUME MapIsWritten
  PROVE  Spec => []ReportedProgressSurvives
<1>1. ReplayInv /\ [Next]_vars => ReplayInv'
  BY ReplayInvStep
<1>2. ReplayInv => ReportedProgressSurvives
  BY CrashKeepsClaims DEF ReportedProgressSurvives
<1> QED BY ReplayInvInit, <1>1, <1>2, PTL DEF Spec

(* Between two operations of a session, and after any number of crashes    *)
(* and resumes, the journal with the staged records replays to exactly the *)
(* map in memory and continues its numbering.                              *)
THEOREM JournalIsTheMap ==
  ASSUME MapIsWritten
  PROVE  Spec => []JournalReproducesMemory
<1>1. ReplayInv /\ [Next]_vars => ReplayInv'
  BY ReplayInvStep
<1>2. ASSUME ReplayInv PROVE JournalReproducesMemory
  <2> SUFFICES ASSUME pc = "run"
               PROVE  LET all == journal \o pendingRecords
                      IN  /\ ReplayOK(all)
                          /\ ReplayJournal(all) = RequeueAsUnknown(extents)
                          /\ nextSequence = Len(all) + 1
    BY DEF JournalReproducesMemory
  <2>1. TypeOK /\ LogReplays
    BY <1>2 DEF ReplayInv
  <2>2. Log = journal \o pendingRecords /\ Recorded = extents
    BY DEF Log, Recorded
  <2>3. /\ Legal(Log) /\ ReplayJournal(Log) = RequeueAsUnknown(extents)
        /\ nextSequence = Len(Log) + 1
    BY <2>1, <2>2 DEF LogReplays, Replays
  <2>4. ReplayOK(Log)
    BY <2>1, <2>3, LogTyped, LegalReplays
  <2> QED BY <2>2, <2>3, <2>4
<1> QED BY ReplayInvInit, <1>1, <1>2, PTL DEF Spec

(* Under the same assumption a crash at any point costs at most the        *)
(* recovered sectors of one batch.                                         *)
THEOREM CrashLosesOneBatch ==
  ASSUME MapIsWritten
  PROVE  Spec => []LossBounded
<1>1. ReplayInv /\ [Next]_vars => ReplayInv'
  BY ReplayInvStep
<1>2. ASSUME ReplayInv, pc # "off", NEW j \in CrashJournals
      PROVE  Cardinality(ClaimedSectors(extents) \ ClaimedSectors(ReplayJournal(j)))
               <= MaxPendingSectors
  <2> DEFINE lost == ClaimedSectors(extents) \ ClaimedSectors(ReplayJournal(j))
             known == ClaimedSectors(extents) \ ClaimedSectors(durableExtents)
  <2>1. lost \subseteq known
    BY <1>2, CrashKeepsClaims
  <2>2. IsFiniteSet(known)
    BY ClaimsFinite, FS_Subset
  <2>3. /\ Cardinality(known) <= pendingSectors /\ pendingSectors <= MaxPendingSectors
        /\ pendingSectors \in Nat
    BY <1>2 DEF ReplayInv, BatchBounded, TypeOK
  <2> HIDE DEF lost, known
  <2>4. IsFiniteSet(lost) /\ Cardinality(lost) <= Cardinality(known)
    BY <2>1, <2>2, FS_Subset
  <2>5. Cardinality(lost) \in Nat /\ Cardinality(known) \in Nat /\ MaxPendingSectors \in Nat
    BY <2>2, <2>4, FS_CardinalityType, RecoveryStoreAssumption
  <2>6. Cardinality(lost) <= MaxPendingSectors
    BY <2>3, <2>4, <2>5
  <2> QED BY <2>6 DEF lost
<1>3. ReplayInv => LossBounded
  BY <1>2 DEF LossBounded
<1> QED BY ReplayInvInit, <1>1, <1>3, PTL DEF Spec

(* Under the same assumption a session, however it ends, leaves a map that *)
(* opens again.                                                            *)
THEOREM EndedMapReopens ==
  ASSUME MapIsWritten
  PROVE  Spec => []MapReopens
<1>1. ReplayInv /\ [Next]_vars => ReplayInv'
  BY ReplayInvStep
<1>2. ReplayInv => MapReopens
  BY LegalReplays DEF ReplayInv, MapReopens, LogReplays, TypeOK
<1> QED BY ReplayInvInit, <1>1, <1>2, PTL DEF Spec
============================================================================
