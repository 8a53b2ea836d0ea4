------------------------------- MODULE Merge -------------------------------
(***************************************************************************)
(* Merging the recovery maps of several captures of one disc (package      *)
(* merge): BuildPlan cuts the disc at every boundary of an extent, decides *)
(* segment by segment which capture to take, and joins segments again.     *)
(*                                                                         *)
(* An extent's data is known by its hash only, which a segment inherits    *)
(* from its extent.  Provenance follows from the rule and is left out.  A  *)
(* plan is the set of its extents, in the order of their starts.           *)
(***************************************************************************)
EXTENDS SectorMap, FiniteSetsExt

CONSTANTS CaptureIDs, Hashes

VARIABLES captures,           \* in the order given
          plan,               \* Plan.Extents
          merging             \* "given", "planned" or "refused"

mergeVars == <<captures, plan, merging>>

ConfidenceRepeatedIndependentCapture == 3

(* What a capture's map may hold: a hash per extent, also of one without   *)
(* data.                                                                   *)
CaptureExtents == [start : Nat, sectors : Nat \ {0}, state : SectorState,
                   confidence : Confidence, hash : Hashes]

Captures == [id : CaptureIDs, sameContents : BOOLEAN,
             extents : {X \in SUBSET CaptureExtents : IsFiniteSet(X)}]

(* A capture of the medium, of the same logical contents or not. *)
SameContents(c) == c.sameContents

(* ValidateExtentSet, and within the medium. *)
ValidExtents(extents) ==
    /\ \A e \in extents : WithinCapacity(e) /\ ValidateStateConfidence(e.state, e.confidence)
    /\ \A e, f \in extents : e = f \/ Covered(e) \cap Covered(f) = {}

ClaimsData(e) == e.state \in {"read_unverified", "verified", "reconstructed"}

----------------------------------------------------------------------------
(* The candidates of a segment, capture by capture; a segment lies within  *)
(* an extent or outside of it.                                             *)

ExtentsAt(c, s) == {e \in c.extents : s \in Covered(e)}

Candidates(s) ==
    UNION {{[place |-> i, id |-> captures[i].id, extent |-> e] :
              e \in ExtentsAt(captures[i], s)} : i \in DOMAIN captures}

Trusted(x) == x.extent.state = "verified" /\ x.extent.confidence = ConfidenceTrustedChecksum

Reconstructed(x) == x.extent.state = "reconstructed"

Verified(x) == x.extent.state = "verified"

Unverified(x) == x.extent.state = "read_unverified"

AllSameHash(C) == \A x, y \in C : x.extent.hash = y.extent.hash

UniqueHashes(C) == {x.extent.hash : x \in {y \in C : ClaimsData(y.extent)}}

First(C) == CHOOSE x \in C : \A y \in C : x.place <= y.place

Selected(C, rule, state, confidence) ==
    [state |-> state, confidence |-> confidence, rule |-> rule,
     capture |-> First(C).id, hash |-> First(C).extent.hash]

Unselected(rule, state) ==
    [state |-> state, confidence |-> ConfidenceNone, rule |-> rule,
     capture |-> "none", hash |-> "none"]

Conflict == Unselected("conflict", "conflicting")

(* Mutant: of the candidates verified by reading again the first is taken. *)
ResolveVerifiedFirst(V) ==
    Selected(V, "single_verified_candidate", "verified", First(V).extent.confidence)

ResolveVerified(V) ==
    CASE Cardinality(V) = 1 -> Selected(V, "single_verified_candidate", "verified",
                                        First(V).extent.confidence)
      [] Cardinality(V) > 1 /\ AllSameHash(V) ->
            Selected(V, "identical_verified_candidates", "verified",
                     ConfidenceRepeatedIndependentCapture)
      [] OTHER -> Conflict

(* Two reads of one capture do not confirm each other. *)
ResolveUnverified(U) ==
    CASE Cardinality(U) = 1 -> Selected(U, "single_unverified_candidate",
                                        "read_unverified", ConfidenceSingleRead)
      [] /\ Cardinality(U) > 1 /\ AllSameHash(U)
         /\ Cardinality({x.id : x \in U}) > 1 ->
            Selected(U, "identical_unverified_candidates", "verified",
                     ConfidenceRepeatedIndependentCapture)
      [] OTHER -> Conflict

(* The strongest evidence decides alone; weaker claims only leave their    *)
(* hashes behind.                                                          *)
ResolveSegment(s) ==
    LET C == Candidates(s)
        T == {x \in C : Trusted(x)}
        R == {x \in C : Reconstructed(x)}
        V == {x \in C : Verified(x)}
        U == {x \in C : Unverified(x)}
    IN CASE T # {} /\ AllSameHash(T) ->
              Selected(T, "trusted_checksum_match", "verified", ConfidenceTrustedChecksum)
         [] T # {} /\ ~AllSameHash(T) -> Conflict
         [] T = {} /\ R # {} /\ AllSameHash(R) ->
              Selected(R, "reconstructed_trusted_checksum", "reconstructed",
                       ConfidenceReconstructedChecksum)
         [] T = {} /\ R # {} /\ ~AllSameHash(R) -> Conflict
         [] T = {} /\ R = {} /\ V # {} -> ResolveVerified(V)
         [] T = {} /\ R = {} /\ V = {} /\ U # {} -> ResolveUnverified(U)
         [] OTHER -> Unselected("missing", "missing")

----------------------------------------------------------------------------

Boundaries ==
    {0, CapacitySectors} \cup
    UNION {UNION {{e.start, e.start + e.sectors} : e \in captures[i].extents} :
              i \in DOMAIN captures}

Segments ==
    {[start |-> b, hashes |-> UniqueHashes(Candidates(b)), selection |-> ResolveSegment(b)] :
       b \in Boundaries \ {CapacitySectors}}

(* Neighbours that agree in everything but the hash of their data.         *)
CanMergeMergedExtent(left, right) ==
    /\ left.hashes = right.hashes
    /\ left.selection.state = right.selection.state
    /\ left.selection.confidence = right.selection.confidence
    /\ left.selection.rule = right.selection.rule
    /\ left.selection.capture = right.selection.capture

(* The segment before x; a segment that can be is joined to it. *)
SegmentBefore(x, segments) ==
    {y \in segments : y.start < x.start
        /\ \A z \in segments : z.start <= y.start \/ x.start <= z.start}

FirstSegments(segments) ==
    {x \in segments : \A y \in SegmentBefore(x, segments) : ~CanMergeMergedExtent(y, x)}

MergedExtents ==
    LET first == FirstSegments(Segments)
        Next(x) == {y.start : y \in {z \in first : z.start > x.start}} \cup {CapacitySectors}
    IN {[start |-> x.start, end |-> Min(Next(x)), hashes |-> x.hashes,
         selection |-> x.selection] : x \in first}

StartMerge(given) ==
    /\ captures = given
    /\ plan = {}
    /\ merging = "given"

BuildPlan ==
    /\ merging = "given"
    /\ captures # <<>>
    /\ \A i \in DOMAIN captures : SameContents(captures[i]) /\ ValidExtents(captures[i].extents)
    /\ plan' = MergedExtents
    /\ merging' = "planned"
    /\ UNCHANGED captures

RefusePlan ==
    /\ merging = "given"
    /\ \/ captures = <<>>
       \/ \E i \in DOMAIN captures :
            ~SameContents(captures[i]) \/ ~ValidExtents(captures[i].extents)
    /\ merging' = "refused"
    /\ UNCHANGED <<captures, plan>>

MergeNext == BuildPlan \/ RefusePlan

MergeInit == \E given \in Seq(Captures) : StartMerge(given)

MergeSpec == MergeInit /\ [][MergeNext]_mergeVars

----------------------------------------------------------------------------

(* What the captures say of one sector, in the four strengths of evidence. *)
Evidence(s) ==
    LET claims == UNION {ExtentsAt(captures[i], s) : i \in DOMAIN captures}
    IN <<{e \in claims : e.state = "verified" /\ e.confidence = ConfidenceTrustedChecksum},
         {e \in claims : e.state = "reconstructed"},
         {e \in claims : e.state = "verified"},
         {e \in claims : e.state = "read_unverified"}>>

Readers(s, hash) ==
    {captures[i].id : i \in {j \in DOMAIN captures :
        \E e \in ExtentsAt(captures[j], s) : ClaimsData(e) /\ e.hash = hash}}

(* The plan's word on a sector is that of the strongest evidence for it.    *)
ToldBy(x, s) ==
    LET told == {k \in 1 .. 4 : Evidence(s)[k] # {}}
        best == Evidence(s)[Min(told)]
    IN /\ x.state = "missing" <=> told = {}
       /\ told # {} =>
            /\ Cardinality({e.hash : e \in best}) > 1 => x.state = "conflicting"
            /\ x.state = "conflicting" =>
                 \/ Cardinality({e.hash : e \in best}) > 1
                 \/ /\ Min(told) = 4
                    /\ \A e \in best : Cardinality(Readers(s, e.hash)) = 1
            /\ x.state # "conflicting" =>
                 /\ \E i \in DOMAIN captures :
                      captures[i].id = x.capture /\ ExtentsAt(captures[i], s) \cap best # {}
                 /\ x.confidence >= Max({e.confidence : e \in best})
                 /\ (x.state # "read_unverified" /\ Min(told) = 4) =>
                      \E e \in best : Cardinality(Readers(s, e.hash)) > 1

BackedHashes(hashes, s) == \A h \in hashes : Readers(s, h) # {}

(* "Complementary captures can be merged conservatively" and "every        *)
(* missing sector is represented": whatever way the extents of the         *)
(* captures overlap and the segments are joined again, every sector is in  *)
(* one extent of the plan, and that says of it, sector by sector, what the *)
(* strongest evidence for it says: missing only if no capture has it, a    *)
(* conflict if that evidence disagrees (or is two reads of one capture),   *)
(* else taken from a capture that has it, and repeated only if two         *)
(* captures read the same.                                                 *)
MergeIsConservative ==
    merging = "planned" =>
        /\ \A i \in DOMAIN captures : SameContents(captures[i])
        /\ \A s \in Sectors :
            LET here == {x \in plan : x.start <= s /\ s < x.end}
            IN /\ Cardinality(here) = 1
               /\ \A x \in here : ToldBy(x.selection, s) /\ BackedHashes(x.hashes, s)
=============================================================================
