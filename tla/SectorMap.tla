----------------------------- MODULE SectorMap -----------------------------
(***************************************************************************)
(* The recovery map's view of a disc (package mapfile): what a state and a *)
(* confidence mean, which transitions are legal, and how a journal of      *)
(* extent records replays to a map.                                        *)
(*                                                                         *)
(* The code keeps a sorted list of extents; here a map is a function from  *)
(* sectors to cells, a sector outside every extent being Absent.  Sense    *)
(* bytes, capture ids and hashes ride along with an extent and decide      *)
(* nothing, so a cell has only the fields the code tests.                  *)
(***************************************************************************)
EXTENDS Integers, Sequences

CONSTANT CapacitySectors      \* sectors of the medium

ASSUME CapacityAssumption == CapacitySectors \in Nat \ {0}

Sectors == 0 .. CapacitySectors - 1

(* Sector states and confidences of the on-disk format. *)
SectorState == {"unknown", "queued", "read_unverified", "verified", "missing",
                "io_error", "checksum_error", "conflicting", "reconstructed",
                "skipped"}

ConfidenceNone == 0
ConfidenceSingleRead == 1
ConfidenceRepeatedSingleCapture == 2
ConfidenceTrustedChecksum == 4
ConfidenceReconstructedChecksum == 5

Confidence == ConfidenceNone .. ConfidenceReconstructedChecksum

(* States that promise bytes in the image. *)
StateClaimsImageData(state) ==
    state \in {"read_unverified", "verified", "checksum_error", "conflicting",
               "reconstructed"}

ValidateStateConfidence(state, confidence) ==
    /\ state \in SectorState
    /\ confidence \in Confidence
    /\ state = "read_unverified" => confidence = ConfidenceSingleRead
    /\ state = "verified" =>
         confidence \in ConfidenceRepeatedSingleCapture .. ConfidenceTrustedChecksum
    /\ state = "reconstructed" => confidence = ConfidenceReconstructedChecksum
    /\ state \notin {"read_unverified", "verified", "reconstructed"} =>
         confidence = ConfidenceNone

ValidateTransition(state, confidence, nextState, nextConfidence) ==
    /\ ValidateStateConfidence(state, confidence)
    /\ ValidateStateConfidence(nextState, nextConfidence)
    /\ nextState = state => nextConfidence >= confidence
    /\ StateClaimsImageData(state) => StateClaimsImageData(nextState)
    /\ state \in {"verified", "conflicting"} => nextState # "read_unverified"
    /\ state = "reconstructed" => nextConfidence >= confidence

(* States another pass of the recovery may still read. *)
IsRetryableState(state) == state \in {"unknown", "queued", "io_error", "missing"}

----------------------------------------------------------------------------
(* Extents, cells and maps. *)

Cell == [state : SectorState \cup {"absent"}, confidence : Confidence,
         attempts : Nat]

Absent == [state |-> "absent", confidence |-> ConfidenceNone, attempts |-> 0]

Extent == [start : Sectors, sectors : Nat \ {0}, state : SectorState,
           confidence : Confidence, attempts : Nat]

SectorMaps == [Sectors -> Cell]

EmptyMap == [s \in Sectors |-> Absent]

Covered(e) == {s \in Sectors : e.start <= s /\ s < e.start + e.sectors}

WithinCapacity(e) == e.start + e.sectors <= CapacitySectors

CellOf(e) == [state |-> e.state, confidence |-> e.confidence,
              attempts |-> e.attempts]

(* May extent e replace the cell c of one of the sectors it covers? *)
MayReplace(c, e) ==
    \/ c = Absent
    \/ /\ e.attempts >= c.attempts
       /\ ValidateTransition(c.state, c.confidence, e.state, e.confidence)

CanApplyExtent(map, e) ==
    /\ e.sectors > 0
    /\ ValidateStateConfidence(e.state, e.confidence)
    /\ \A s \in Covered(e) : MayReplace(map[s], e)

ApplyExtent(map, e) ==
    [s \in Sectors |-> IF s \in Covered(e) THEN CellOf(e) ELSE map[s]]

(* Sectors a map promises image bytes for. *)
ClaimedSectors(map) == {s \in Sectors : StateClaimsImageData(map[s].state)}

(* A queued read that never finished is not an attempt in flight any more. *)
RequeueAsUnknown(map) ==
    [s \in Sectors |-> IF map[s].state = "queued"
                       THEN [state |-> "unknown", confidence |-> ConfidenceNone,
                             attempts |-> map[s].attempts]
                       ELSE map[s]]

----------------------------------------------------------------------------
(***************************************************************************)
(* The journal file: entries that are either a complete record or a torn   *)
(* fragment.  A fragment at the end of the file is skipped.  When a        *)
(* complete record follows one, the reader takes that record's first bytes *)
(* for the rest of the fragment: it either fails the CRC ("corrupt") or,   *)
(* when the fragment stops inside the length field, reads a length that    *)
(* runs past the end of the file and drops everything from there on        *)
(* ("swallow").                                                            *)
(***************************************************************************)
JournalEntry == [kind : {"record", "corrupt", "swallow"}, seq : Nat,
                 extent : Extent]

Record(n, e) == [kind |-> "record", seq |-> n, extent |-> e]

Torn(entry, fate) == [entry EXCEPT !.kind = fate]

IsRecord(entry) == entry.kind = "record"

(* Sectors a single entry promises image bytes for. *)
EntryClaims(entry) ==
    IF IsRecord(entry) /\ StateClaimsImageData(entry.extent.state)
    THEN Covered(entry.extent) ELSE {}

(* Entries the reader gets to before it meets a fragment. *)
ReadableIndices(journal) ==
    {i \in 1 .. Len(journal) : \A k \in 1 .. i : IsRecord(journal[k])}

(* The readable entries up to index n that cover sector s. *)
CoveringIndices(journal, n, s) ==
    {i \in ReadableIndices(journal) : i <= n /\ s \in Covered(journal[i].extent)}

(* Cell of sector s once the readable entries up to index n are applied:   *)
(* the last one that covers s decides.                                     *)
CellAfter(journal, n, s) ==
    LET covering == CoveringIndices(journal, n, s)
        IsLast(i) == \A k \in covering : k <= i
    IN  IF \E i \in covering : IsLast(i)
        THEN CellOf(journal[CHOOSE i \in covering : IsLast(i)].extent)
        ELSE Absent

(* The reader rejects the whole file when a fragment is followed by a      *)
(* complete record and fails its CRC, when a sequence number is not the    *)
(* expected one, or when a record is not a legal transition of the map the *)
(* records before it produced.                                             *)
ReplayOK(journal) ==
    /\ \A i \in 1 .. Len(journal) :
         (journal[i].kind = "corrupt" /\ \A k \in 1 .. i - 1 : IsRecord(journal[k]))
             => \A k \in i + 1 .. Len(journal) : ~IsRecord(journal[k])
    /\ \A i \in ReadableIndices(journal) :
         /\ journal[i].seq = i
         /\ WithinCapacity(journal[i].extent)
         /\ ValidateStateConfidence(journal[i].extent.state,
                                    journal[i].extent.confidence)
         /\ \A s \in Covered(journal[i].extent) :
              MayReplace(CellAfter(journal, i - 1, s), journal[i].extent)

ReplayJournal(journal) ==
    RequeueAsUnknown([s \in Sectors |-> CellAfter(journal, Len(journal), s)])

(* LastSequence of the replayed checkpoint: the map is created with an     *)
(* empty checkpoint that is never rewritten, so it is the number of        *)
(* records read.                                                           *)
LastSequence(journal) ==
    IF \E n \in ReadableIndices(journal) : \A k \in ReadableIndices(journal) : k <= n
    THEN CHOOSE n \in ReadableIndices(journal) :
            \A k \in ReadableIndices(journal) : k <= n
    ELSE 0
============================================================================
