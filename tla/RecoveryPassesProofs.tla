------------------------ MODULE RecoveryPassesProofs ------------------------
(***************************************************************************)
(* Proofs about the passes of a recovery, for every medium, block size,    *)
(* set of methods and interruptions, and any number of runs over one map.  *)
(*                                                                         *)
(* The argument rests on what a stage leaves alone: it writes behind Ahead *)
(* only, so the ranges still to come are as they were when it began.       *)
(***************************************************************************)
EXTENDS RecoveryPasses, WellFoundedInduction, TLAPS

(* Cells the passes make. *)
PassCell ==
    {Absent}
    \cup [state : {"unknown", "queued", "io_error", "missing"},
          confidence : {ConfidenceNone}, attempts : 1 .. AttemptsMax]
    \cup [state : {"read_unverified"}, confidence : {ConfidenceSingleRead},
          attempts : 1 .. AttemptsMax]

Shape ==
    /\ map \in [Sectors -> PassCell] /\ durable \in [Sectors -> PassCell]
    /\ policy \in Seq(Stage)
    /\ stage \in 1 .. Len(policy) + 1
    /\ ranges \subseteq Range
    /\ lba \in 0 .. CapacitySectors
    /\ pc \in {"off", "run", "read"}
    /\ outcome \in {"none", "complete", "canceled", "failed", "crashed"}
    /\ session \in Nat
    /\ reads \in [Sectors -> Nat] /\ retried \in [Sectors -> Nat]
    /\ due \subseteq Sectors
    /\ pc # "off" => outcome = "none" /\ stage <= Len(policy)

(* A policy acquires first and gives up last; in between it trims and then *)
(* retries.                                                                *)
PolicyFits ==
    policy # <<>> =>
        /\ Len(policy) >= 3 /\ (due # {} => Len(policy) > 3)
        /\ policy[1].kind = "fast" /\ policy[2].kind = "trim" /\ policy[3].kind = "retry"
        /\ \A i \in 1 .. Len(policy) :
             /\ policy[i].kind = "fast" => i = 1
             /\ policy[i].kind = "finalize" => i = Len(policy)
             /\ policy[i].kind \in {"fast", "trim", "retry"} => policy[i].block > 0
             /\ policy[i].kind = "trim" => policy[i].block = 1
             /\ policy[i].kind \in {"trim", "retry"} => policy[i].limit <= AttemptsMax

Kind == policy[stage].kind

(* The sectors of a retry that is queued, and where the stage is going on. *)
Block == IF pc = "read" THEN lba .. lba + RetryBlock - 1 ELSE {}

Ahead == IF pc = "read" THEN lba + RetryBlock ELSE lba

(* Between reads nothing is queued; during one, its block and nothing else *)
(* is, in one extent, and the attempt is durable.                          *)
QueuedIsBlock ==
    pc # "off" =>
        /\ {s \in Sectors : map[s].state = "queued"} = Block
        /\ \A s \in Block : map[s] = map[lba]
        /\ pc = "read" => Kind \in {"trim", "retry"} /\ ranges # {} /\ durable = map

(* The ranges left do not overlap, the first of them is under way, and a   *)
(* block stays within it.                                                  *)
RangesInOrder ==
    pc # "off" /\ Kind # "fast" =>
        /\ \A r, q \in ranges : r = q \/ r.end <= q.start \/ q.end <= r.start
        /\ \A r \in ranges : r.start < r.end
        /\ \A r \in ranges : Kind = "trim" => r.end = r.start + 1
        /\ ranges # {} => /\ First(ranges).start <= lba
                          /\ lba < First(ranges).end
                          /\ Ahead <= First(ranges).end
                          /\ Kind = "finalize" => lba = First(ranges).start

(* What is left of a range is one extent, and no more than an extent.      *)
RestIsExtent ==
    pc # "off" /\ Kind \in {"retry", "finalize"} =>
        \A r \in ranges : r.end > Ahead =>
            /\ \A k \in r.start .. r.end - 1 : k >= Ahead => map[k] = map[r.end - 1]
            /\ r.end < CapacitySectors => map[r.end] # map[r.end - 1]
            /\ IsRetryableState(map[r.end - 1].state)

(* The fast pass leaves nothing unmapped behind it, and finalization       *)
(* nothing deferred.                                                       *)
StagesCover ==
    pc # "off" =>
        /\ \A s \in Sectors : (Kind = "fast" => s < lba) => map[s] # Absent
        /\ Kind = "finalize" =>
             \A s \in Sectors : map[s].state \in {"unknown", "io_error"} =>
                 \E r \in ranges : s \in r.start .. r.end - 1

(* One read in a pass, and none ahead of it. *)
ReadsFit ==
    /\ \A s \in Sectors : reads[s] <= 1
    /\ pc # "off" =>
         \A s \in Sectors : s >= lba /\ (Kind # "fast" => ranges # {}) => reads[s] = 0

(* Retries are in the attempts of a cell, and a queued one is already.     *)
Counted(m) ==
    \A s \in Sectors :
        IF m[s] = Absent THEN retried[s] = 0
        ELSE retried[s] + (IF s \in Block THEN 1 ELSE 0) < m[s].attempts

(* A sector of a retry cycle that was not read yet may still be read, and  *)
(* it is the first pass of retries that sees to it.                        *)
DueInTime ==
    pc # "off" =>
        \A s \in due :
            /\ s \notin Block =>
                 /\ IsRetryableState(map[s].state)
                 /\ \A i \in 1 .. Len(policy) : policy[i].kind \in {"trim", "retry"} =>
                      map[s].attempts < policy[i].limit
            /\ stage <= 3
            /\ stage = 3 => s >= lba /\ \E r \in ranges : s \in r.start .. r.end - 1

IInv == /\ Shape /\ PolicyFits /\ QueuedIsBlock /\ RangesInOrder /\ RestIsExtent
        /\ StagesCover /\ ReadsFit /\ Counted(map) /\ Counted(durable) /\ DueInTime
        /\ CompleteCoversMedium /\ RetryCycleRereads

----------------------------------------------------------------------------
(* Numbers, extents and lists of ranges. *)

Less == {pair \in Nat \X Nat : pair[1] < pair[2]}

LEMMA LeastNumber ==
  ASSUME NEW T \in SUBSET Nat, T # {}
  PROVE  \E m \in T : \A n \in T : m <= n
<1>1. IsWellFoundedOn(Less, Nat)
  BY NatLessThanWellFounded DEF OpToRel, Less
<1>2. PICK m \in T : \A n \in T : <<n, m>> \notin Less
  BY <1>1, WFMin
<1>3. ASSUME NEW n \in T PROVE m <= n
  <2>1. <<n, m>> \notin Less /\ n \in Nat /\ m \in Nat
    BY <1>2
  <2>2. <<n, m>> \in Nat \X Nat /\ <<n, m>>[1] = n /\ <<n, m>>[2] = m
    BY <2>1
  <2> QED BY <2>1, <2>2 DEF Less
<1> QED BY <1>3

LEMMA GreatestNumber ==
  ASSUME NEW b \in Nat, NEW T \in SUBSET (0 .. b), T # {}
  PROVE  \E m \in T : \A n \in T : n <= m
<1> DEFINE U == {b - n : n \in T}
<1>1. \A n \in T : n \in Nat /\ b - n \in Nat
  OBVIOUS
<1> HIDE DEF U
<1>2. U \in SUBSET Nat /\ U # {}
  BY <1>1 DEF U
<1>3. PICK u \in U : \A v \in U : u <= v
  BY <1>2, LeastNumber
<1>4. PICK m \in T : u = b - m
  BY <1>3 DEF U
<1>5. ASSUME NEW n \in T PROVE n <= m
  <2>1. b - m <= b - n
    BY <1>3, <1>4 DEF U
  <2> QED BY <1>1, <2>1
<1> QED BY <1>5

(* An extent ends behind its start, where the medium ends or another cell  *)
(* follows.                                                                *)
LEMMA ExtentEndFacts ==
  ASSUME NEW m, NEW l \in Sectors
  PROVE  /\ ExtentEnd(m, l) \in l + 1 .. CapacitySectors
         /\ ExtentEnd(m, l) = CapacitySectors \/ m[ExtentEnd(m, l)] # m[l]
         /\ \A k \in l .. ExtentEnd(m, l) - 1 : m[k] = m[l]
<1> USE CapacityAssumption DEF Sectors
<1> DEFINE T == {e \in l + 1 .. CapacitySectors : e = CapacitySectors \/ m[e] # m[l]}
<1>1. T \in SUBSET Nat /\ CapacitySectors \in T
  OBVIOUS
<1>2. PICK e \in T : \A n \in T : e <= n
  BY <1>1, LeastNumber
<1>3. ASSUME NEW k \in l .. e - 1 PROVE m[k] = m[l]
  BY <1>2
<1>4. /\ e \in l + 1 .. CapacitySectors
      /\ e = CapacitySectors \/ m[e] # m[l]
      /\ \A k \in l .. e - 1 : m[k] = m[l]
  BY <1>3
<1> QED BY <1>4 DEF ExtentEnd

LEMMA FirstFacts ==
  ASSUME NEW rs \in SUBSET Range, rs # {}
  PROVE  First(rs) \in rs /\ \A q \in rs : First(rs).start <= q.start
<1> DEFINE T == {r.start : r \in rs}
<1>1. T \in SUBSET Nat /\ T # {}
  BY DEF Range, Sectors
<1>2. PICK t \in T : \A n \in T : t <= n
  BY <1>1, LeastNumber
<1>3. PICK r \in rs : t = r.start
  BY <1>2
<1>4. \A q \in rs : r.start <= q.start
  BY <1>2, <1>3
<1> QED BY <1>3, <1>4 DEF First

(* The extents a pass begins with: they do not overlap, each is one extent *)
(* of retryable cells, and together they hold every retryable sector.      *)
LEMMA RetryableExtentsFacts ==
  ASSUME NEW m \in [Sectors -> PassCell]
  PROVE  LET rs == RetryableExtents(m) IN
         /\ rs \subseteq Range
         /\ \A r, q \in rs : r = q \/ r.end <= q.start \/ q.end <= r.start
         /\ \A r \in rs :
              /\ r.start < r.end
              /\ \A k \in r.start .. r.end - 1 : m[k] = m[r.end - 1]
              /\ r.end < CapacitySectors => m[r.end] # m[r.end - 1]
              /\ IsRetryableState(m[r.end - 1].state)
         /\ \A s \in Sectors : IsRetryableState(m[s].state) =>
              \E r \in rs : s \in r.start .. r.end - 1
<1> USE CapacityAssumption DEF Sectors
<1> DEFINE Starts == {t \in Sectors : /\ IsRetryableState(m[t].state)
                                      /\ t = 0 \/ m[t - 1] # m[t]}
           rs == RetryableExtents(m)
<1>1. rs = {[start |-> s, end |-> ExtentEnd(m, s)] : s \in Starts}
  BY DEF RetryableExtents
<1>2. ASSUME NEW r \in rs
      PROVE  /\ r.start \in Starts /\ r.end \in r.start + 1 .. CapacitySectors
             /\ r = [start |-> r.start, end |-> r.end]
             /\ r.end = CapacitySectors \/ m[r.end] # m[r.start]
             /\ \A k \in r.start .. r.end - 1 : m[k] = m[r.start]
  <2>1. PICK s \in Starts : r = [start |-> s, end |-> ExtentEnd(m, s)]
    BY <1>1
  <2>2. s \in Sectors
    OBVIOUS
  <2>3. /\ ExtentEnd(m, s) \in s + 1 .. CapacitySectors
        /\ ExtentEnd(m, s) = CapacitySectors \/ m[ExtentEnd(m, s)] # m[s]
        /\ \A k \in s .. ExtentEnd(m, s) - 1 : m[k] = m[s]
    BY ONLY <2>2, ExtentEndFacts
  <2>4. r.start = s /\ r.end = ExtentEnd(m, s)
    BY <2>1
  <2> QED BY <2>1, <2>3, <2>4
<1>3. rs \subseteq Range
  BY <1>2 DEF Range
<1>4. ASSUME NEW r \in rs, NEW q \in rs
      PROVE  r = q \/ r.end <= q.start \/ q.end <= r.start
  <2>1. ASSUME NEW x \in rs, NEW y \in rs, x.start < y.start PROVE x.end <= y.start
    <3> SUFFICES ASSUME y.start < x.end PROVE FALSE
      BY <1>2, <2>1
    <3>3. /\ x.start \in Starts /\ x.end \in x.start + 1 .. CapacitySectors
          /\ \A k \in x.start .. x.end - 1 : m[k] = m[x.start]
      BY <1>2
    <3>4. y.start \in Starts
      BY <1>2
    <3>5. x.start \in Nat /\ y.start \in Nat /\ x.end \in Nat
      BY <3>3, <3>4
    <3>1. /\ x.start \in Nat /\ y.start \in Nat \ {0} /\ x.end \in Nat
          /\ m[y.start - 1] # m[y.start]
          /\ \A k \in x.start .. x.end - 1 : m[k] = m[x.start]
      BY <3>3, <3>4, <3>5, <2>1
    <3>2. /\ y.start \in x.start .. x.end - 1
          /\ y.start - 1 \in x.start .. x.end - 1
      BY <2>1, <3>1
    <3> QED BY <3>1, <3>2
  <2>2. CASE r.start = q.start
    <3>1. ASSUME r.end < q.end PROVE FALSE
      BY <1>2, <2>2, <3>1
    <3>2. ASSUME q.end < r.end PROVE FALSE
      BY <1>2, <2>2, <3>2
    <3> QED BY <1>2, <2>2, <3>1, <3>2
  <2> QED BY <1>2, <2>1, <2>2
<1>5. ASSUME NEW r \in rs
      PROVE  /\ r.start < r.end
             /\ \A k \in r.start .. r.end - 1 : m[k] = m[r.end - 1]
             /\ r.end < CapacitySectors => m[r.end] # m[r.end - 1]
             /\ IsRetryableState(m[r.end - 1].state)
  <2>1. m[r.end - 1] = m[r.start]
    BY <1>2
  <2> QED BY <1>2, <2>1
<1>6. ASSUME NEW s \in Sectors, IsRetryableState(m[s].state)
      PROVE  \E r \in rs : s \in r.start .. r.end - 1
  <2> DEFINE T == {t \in 0 .. s : \A k \in t .. s : m[k] = m[s]}
  <2>1. T \in SUBSET Nat /\ s \in T
    OBVIOUS
  <2>2. PICK t \in T : \A n \in T : t <= n
    BY <2>1, LeastNumber
  <2>3. t \in Starts
    <3>1. t = 0 \/ m[t - 1] # m[t]
      <4> SUFFICES ASSUME t # 0, m[t - 1] = m[t] PROVE FALSE
        OBVIOUS
      <4>1. t - 1 \in T
        BY <2>2
      <4> QED BY <2>2, <4>1
    <3> QED BY <1>6, <2>2, <3>1
  <2> DEFINE e == ExtentEnd(m, t)
  <2>4. [start |-> t, end |-> e] \in rs
    BY <1>1, <2>3
  <2>5. /\ e \in t + 1 .. CapacitySectors
        /\ e = CapacitySectors \/ m[e] # m[t]
    BY <2>3, ExtentEndFacts
  <2>6. t \in 0 .. s /\ \A k \in t .. s : m[k] = m[t]
    BY <2>2
  <2>7. e > s
    BY <2>5, <2>6
  <2> HIDE DEF e
  <2> QED BY <2>4, <2>5, <2>6, <2>7
<1> QED BY <1>3, <1>4, <1>5, <1>6

LEMMA TrimEdgesFacts ==
  ASSUME NEW m \in [Sectors -> PassCell]
  PROVE  /\ TrimEdges(m) \subseteq Range
         /\ \A r \in TrimEdges(m) : r.end = r.start + 1
         /\ \A r, q \in TrimEdges(m) : r = q \/ r.end <= q.start \/ q.end <= r.start
<1> USE CapacityAssumption DEF Sectors
<1>1. ASSUME NEW e \in TrimEdges(m)
      PROVE  e \in Range /\ e.end = e.start + 1
             /\ e = [start |-> e.start, end |-> e.end]
  <2>1. PICK r \in RetryableExtents(m) :
          /\ r.end - r.start > 1
          /\ e \in {[start |-> r.start, end |-> r.start + 1], [start |-> r.end - 1, end |-> r.end]}
    BY <1>1 DEF TrimEdges
  <2>2. r \in Range
    BY RetryableExtentsFacts
  <2> QED BY <2>1, <2>2 DEF Range
<1> QED BY <1>1 DEF Range

----------------------------------------------------------------------------
(* What the parts of a step do. *)

LEMMA StageFacts ==
  ASSUME IInv, pc # "off"
  PROVE  /\ stage \in 1 .. Len(policy) /\ policy \in Seq(Stage) /\ policy[stage] \in Stage
         /\ policy # <<>> /\ Len(policy) \in Nat
         /\ Kind \in {"fast", "trim", "retry", "finalize"}
         /\ Kind = "fast" <=> stage = 1
         /\ Kind = "finalize" => stage = Len(policy) /\ stage > 3
         /\ Kind \in {"fast", "trim", "retry"} => policy[stage].block \in Nat \ {0}
         /\ Kind = "trim" => policy[stage].block = 1
         /\ Kind \in {"trim", "retry"} => policy[stage].limit \in 0 .. AttemptsMax
<1>1. stage \in 1 .. Len(policy) /\ policy \in Seq(Stage) /\ Len(policy) \in Nat
  BY DEF IInv, Shape
<1>2. policy[stage] \in Stage /\ policy # <<>>
  BY <1>1
<1>3. /\ Len(policy) >= 3
      /\ policy[1].kind = "fast" /\ policy[2].kind = "trim" /\ policy[3].kind = "retry"
  BY <1>2 DEF IInv, PolicyFits
<1>4. /\ Kind = "fast" => stage = 1
      /\ Kind = "finalize" => stage = Len(policy)
      /\ Kind \in {"fast", "trim", "retry"} => policy[stage].block > 0
      /\ Kind = "trim" => policy[stage].block = 1
      /\ Kind \in {"trim", "retry"} => policy[stage].limit <= AttemptsMax
  BY <1>1, <1>2 DEF IInv, PolicyFits, Kind
<1>5. /\ Kind \in {"fast", "trim", "retry", "finalize"}
      /\ policy[stage].block \in Nat /\ policy[stage].limit \in Nat
  BY <1>2 DEF Kind, Stage
<1>6. stage = 1 => Kind = "fast"
  BY <1>3 DEF Kind
<1>7. ASSUME Kind = "finalize" PROVE stage > 3
  <2>1. stage # 1 /\ stage # 2 /\ stage # 3
    BY <1>3, <1>7 DEF Kind
  <2> QED BY <1>1, <2>1
<1>8. /\ Kind \in {"fast", "trim", "retry"} => policy[stage].block \in Nat \ {0}
      /\ Kind \in {"trim", "retry"} => policy[stage].limit \in 0 .. AttemptsMax
  BY <1>4, <1>5, RecoveryPassesAssumption
<1> QED BY <1>1, <1>2, <1>4, <1>5, <1>6, <1>7, <1>8

(* The map after a write of n cells at l. *)
Written(l, n, cell) == [s \in Sectors |-> IF l <= s /\ s < l + n THEN cell ELSE map[s]]

(* The map takes what the passes write over nothing or over a retryable    *)
(* cell.                                                                   *)
LEMMA PutFacts ==
  ASSUME map \in [Sectors -> PassCell],
         NEW l \in Sectors, NEW n \in Nat \ {0}, NEW next,
         NEW state, NEW confidence, NEW attempts,
         [state |-> state, confidence |-> confidence, attempts |-> attempts] \in PassCell \ {Absent},
         state # "unknown",
         \A k \in Sectors : l <= k /\ k < l + n =>
            \/ map[k] = Absent
            \/ IsRetryableState(map[k].state) /\ map[k].attempts <= attempts,
         Put(BlockAt(l, n, state, confidence, attempts), next)
  PROVE  /\ map' = Written(l, n, [state |-> state, confidence |-> confidence,
                                  attempts |-> attempts])
         /\ pc' = next /\ outcome' = outcome
<1> DEFINE e == BlockAt(l, n, state, confidence, attempts)
           cell == [state |-> state, confidence |-> confidence, attempts |-> attempts]
<1>1. /\ e.start = l /\ e.sectors = n /\ e.state = state
      /\ e.confidence = confidence /\ e.attempts = attempts
  BY DEF BlockAt
<1>2. /\ \/ state \in {"queued", "io_error", "missing"} /\ confidence = 0
         \/ state = "read_unverified" /\ confidence = 1
      /\ attempts \in 1 .. AttemptsMax
  <2>1. /\ cell.state = state /\ cell.confidence = confidence
        /\ cell.attempts = attempts
    OBVIOUS
  <2>2. \/ cell \in [state : {"unknown", "queued", "io_error", "missing"},
                      confidence : {ConfidenceNone}, attempts : 1 .. AttemptsMax]
        \/ cell \in [state : {"read_unverified"}, confidence : {ConfidenceSingleRead},
                      attempts : 1 .. AttemptsMax]
    BY DEF PassCell
  <2> HIDE DEF cell
  <2>3. \/ /\ cell.state \in {"unknown", "queued", "io_error", "missing"}
           /\ cell.confidence = 0
        \/ cell.state = "read_unverified" /\ cell.confidence = 1
    BY <2>2 DEF ConfidenceNone, ConfidenceSingleRead
  <2>4. cell.attempts \in 1 .. AttemptsMax
    BY <2>2
  <2>5. \/ state \in {"unknown", "queued", "io_error", "missing"} /\ confidence = 0
        \/ state = "read_unverified" /\ confidence = 1
    BY ONLY <2>1, <2>3
  <2>6. attempts \in 1 .. AttemptsMax
    BY ONLY <2>1, <2>4
  <2> QED BY <2>5, <2>6
<1>3. ValidateStateConfidence(state, confidence)
  BY <1>2 DEF ValidateStateConfidence, SectorState, Confidence, ConfidenceNone, ConfidenceSingleRead,
     ConfidenceReconstructedChecksum
<1>4. ASSUME NEW k \in Sectors, l <= k, k < l + n, map[k] # Absent
      PROVE  MayReplace(map[k], e)
  <2>1. /\ map[k].state \in {"unknown", "queued", "io_error", "missing"}
        /\ map[k].confidence = 0 /\ map[k].attempts \in 1 .. AttemptsMax
        /\ map[k].attempts <= attempts
    BY <1>4 DEF PassCell, IsRetryableState, ConfidenceNone
  <2>2. ValidateStateConfidence(map[k].state, map[k].confidence)
    BY <2>1 DEF ValidateStateConfidence, SectorState, Confidence, ConfidenceNone,
       ConfidenceReconstructedChecksum
  <2>3. ValidateTransition(map[k].state, map[k].confidence, state, confidence)
    BY <1>2, <1>3, <2>1, <2>2 DEF ValidateTransition, StateClaimsImageData
  <2> QED BY <1>1, <2>1, <2>3 DEF MayReplace
<1>5. Covered(e) = {k \in Sectors : l <= k /\ k < l + n}
  BY <1>1 DEF Covered
<1>6. CanApplyExtent(map, e)
  <2> HIDE DEF e
  <2>1. \A k \in Covered(e) : MayReplace(map[k], e)
    BY <1>4, <1>5 DEF MayReplace
  <2> QED BY <1>1, <1>3, <2>1 DEF CanApplyExtent
<1>7. ApplyExtent(map, e) = Written(l, n, cell)
  <2> HIDE DEF e
  <2> QED BY <1>1, <1>5 DEF ApplyExtent, Written, CellOf
<1>8. map' = ApplyExtent(map, e) /\ pc' = next /\ outcome' = outcome
  BY <1>6 DEF Put
<1> QED BY <1>7, <1>8

LEMMA WrittenFacts ==
  ASSUME map \in [Sectors -> PassCell], NEW l, NEW n, NEW cell \in PassCell
  PROVE  /\ Written(l, n, cell) \in [Sectors -> PassCell]
         /\ \A s \in Sectors :
              Written(l, n, cell)[s] = IF l <= s /\ s < l + n THEN cell ELSE map[s]
BY DEF Written

(* Where a stage that has ranges left stands. *)
LEMMA InRange ==
  ASSUME IInv, pc # "off", Kind # "fast", ranges # {}
  PROVE  /\ First(ranges) \in ranges /\ First(ranges) \in Range
         /\ \A q \in ranges : First(ranges).start <= q.start
         /\ lba \in Sectors
         /\ First(ranges).start <= lba /\ lba < First(ranges).end
         /\ First(ranges).end \in 1 .. CapacitySectors
<1>1. /\ First(ranges) \in ranges /\ First(ranges) \in Range
      /\ \A q \in ranges : First(ranges).start <= q.start
  BY FirstFacts DEF IInv, Shape
<1>2. First(ranges).start <= lba /\ lba < First(ranges).end /\ lba \in 0 .. CapacitySectors
  BY DEF IInv, Shape, RangesInOrder
<1>3. First(ranges).end \in 1 .. CapacitySectors
  BY <1>1 DEF Range
<1> QED BY <1>1, <1>2, <1>3, CapacityAssumption DEF Sectors

(* A retry stays within one extent and within its range. *)
LEMMA RetryBlockFacts ==
  ASSUME IInv, pc = "run", Kind \in {"trim", "retry"}, ranges # {}
  PROVE  /\ RetryBlock \in Nat \ {0} /\ RetryBlock <= policy[stage].block
         /\ lba + RetryBlock <= First(ranges).end
         /\ lba + RetryBlock <= CapacitySectors
         /\ \A k \in Sectors : lba <= k /\ k < lba + RetryBlock => map[k] = map[lba]
<1> DEFINE e == ExtentEnd(map, lba)
<1>1. /\ lba \in Sectors /\ First(ranges) \in ranges
      /\ lba \in First(ranges).start .. First(ranges).end - 1
      /\ First(ranges).end \in 1 .. CapacitySectors
      /\ First(ranges).start \in Nat
  BY InRange DEF Range, Sectors
<1>2. policy[stage].block \in Nat \ {0} /\ (Kind = "trim" => policy[stage].block = 1)
  BY StageFacts
<1>3. /\ e \in lba + 1 .. CapacitySectors
      /\ e = CapacitySectors \/ map[e] # map[lba]
      /\ \A k \in lba .. e - 1 : map[k] = map[lba]
  BY <1>1, ExtentEndFacts
<1>4. RetryBlock = IF policy[stage].block < e - lba THEN policy[stage].block ELSE e - lba
  BY DEF RetryBlock, Min
<1>5. lba + RetryBlock <= First(ranges).end
  <2>1. CASE Kind = "trim"
    BY <2>1, <1>1, <1>2, <1>3, <1>4, CapacityAssumption DEF Sectors
  <2>2. CASE Kind = "retry"
    <3> SUFFICES ASSUME First(ranges).end < e PROVE FALSE
      BY <1>1, <1>2, <1>3, <1>4, CapacityAssumption DEF Sectors
    <3>1. Ahead = lba
      BY DEF Ahead
    <3>2. /\ map[lba] = map[First(ranges).end - 1]
          /\ map[First(ranges).end] # map[First(ranges).end - 1]
      BY <1>1, <1>3, <2>2, <3>1, CapacityAssumption DEF IInv, RestIsExtent, Sectors
    <3>3. map[First(ranges).end] = map[lba]
      BY <1>1, <1>3, CapacityAssumption DEF Sectors
    <3> QED BY <3>2, <3>3
  <2> QED BY <2>1, <2>2
<1>6. ASSUME NEW k \in Sectors, lba <= k, k < lba + RetryBlock PROVE map[k] = map[lba]
  BY <1>1, <1>2, <1>3, <1>4, <1>6, CapacityAssumption DEF Sectors
<1> QED BY <1>1, <1>2, <1>3, <1>4, <1>5, <1>6, CapacityAssumption DEF Sectors

(* Moving on within a range, or to the next one. *)
LEMMA MoveToFacts ==
  ASSUME IInv, pc # "off", Kind # "fast", ranges # {},
         NEW to \in Nat, to > lba, to <= CapacitySectors, MoveTo(to)
  PROVE  /\ ranges' \subseteq ranges
         /\ lba' \in Sectors
         /\ ranges' # {} =>
              /\ First(ranges').start <= lba' /\ lba' < First(ranges').end
              /\ lba' > lba
              /\ to <= First(ranges).end => lba' >= to
              /\ ranges' # ranges => lba' = First(ranges').start
         /\ \A r \in ranges : r \notin ranges' => r = First(ranges) /\ r.end <= to
         /\ \A r \in ranges, s \in Sectors :
              s \in r.start .. r.end - 1 /\ s >= to => r \in ranges' /\ s >= lba'
<1>1. /\ First(ranges) \in ranges /\ ranges \subseteq Range
      /\ \A q \in ranges : First(ranges).start <= q.start
      /\ lba \in Sectors
      /\ First(ranges).start <= lba /\ lba < First(ranges).end
  BY InRange DEF IInv, Shape
<1>2. \A r \in ranges : r.start \in Sectors /\ r.end \in 1 .. CapacitySectors
  BY <1>1 DEF Range
<1>3. CASE to < First(ranges).end
  <2>1. lba' = to /\ ranges' = ranges
    BY <1>3 DEF MoveTo
  <2> QED BY <1>1, <1>2, <1>3, <2>1, CapacityAssumption DEF Sectors
<1>4. CASE ~(to < First(ranges).end)
  <2>1. ranges' = ranges \ {First(ranges)} /\ lba' = FirstLBA(ranges')
    BY <1>4 DEF MoveTo
  <2>2. CASE ranges' = {}
    <3>1. lba' = 0 /\ \A r \in ranges : r = First(ranges)
      BY <2>1, <2>2 DEF FirstLBA
    <3> QED BY <1>1, <1>2, <1>4, <2>1, <2>2, <3>1, CapacityAssumption DEF Sectors
  <2>3. CASE ranges' # {}
    <3>1. lba' = First(ranges').start
      BY <2>1, <2>3 DEF FirstLBA
    <3>2. /\ First(ranges') \in ranges'
          /\ \A q \in ranges' : First(ranges').start <= q.start
      BY <1>1, <2>1, <2>3, FirstFacts
    <3>3. /\ First(ranges') \in ranges /\ First(ranges') # First(ranges)
      BY <2>1, <3>2
    <3>4. /\ First(ranges').start >= First(ranges).end
          /\ First(ranges').start < First(ranges').end
      BY <1>1, <1>2, <3>3, CapacityAssumption DEF IInv, RangesInOrder, Sectors
    <3>5. \A r \in ranges : r.start < r.end
      BY DEF IInv, RangesInOrder
    <3>6. First(ranges').start \in Sectors /\ First(ranges').end \in 1 .. CapacitySectors
      BY <1>2, <3>3
    <3>7. lba' \in Sectors /\ lba' > lba /\ (to <= First(ranges).end => lba' >= to)
      BY <1>1, <1>2, <3>1, <3>4, <3>6, CapacityAssumption DEF Sectors
    <3>8. \A r \in ranges : r \notin ranges' => r = First(ranges) /\ r.end <= to
      BY <1>1, <1>2, <1>4, <2>1, CapacityAssumption DEF Sectors
    <3>9. ASSUME NEW r \in ranges, NEW s \in Sectors, s \in r.start .. r.end - 1, s >= to
          PROVE  r \in ranges' /\ s >= lba'
      <4>1. r # First(ranges)
        BY <1>1, <1>2, <1>4, <3>9, CapacityAssumption DEF Sectors
      <4>2. r \in ranges' /\ lba' <= r.start
        BY <2>1, <3>1, <3>2, <4>1
      <4> QED BY <1>2, <3>6, <3>9, <4>2, <3>1, CapacityAssumption DEF Sectors
    <3>10. /\ First(ranges').start <= lba' /\ lba' < First(ranges').end
           /\ ranges' \subseteq ranges
      BY <2>1, <3>1, <3>4, <3>6, CapacityAssumption DEF Sectors
    <3> QED BY <3>1, <3>7, <3>8, <3>9, <3>10
  <2> QED BY <2>2, <2>3
<1> QED BY <1>3, <1>4

----------------------------------------------------------------------------
(* Cells, and steps that leave the run or only move on. *)

LEMMA CellFacts ==
  ASSUME NEW c \in PassCell
  PROVE  /\ c.attempts \in 0 .. AttemptsMax
         /\ c.state \in {"absent", "unknown", "queued", "io_error", "missing", "read_unverified"}
         /\ c = Absent <=> c.state = "absent"
         /\ c = Absent <=> c.attempts = 0
         /\ IsRetryableState(c.state) => c # Absent
<1> USE RecoveryPassesAssumption
<1>1. CASE c = Absent
  BY <1>1 DEF Absent, IsRetryableState
<1>2. CASE c \in [state : {"unknown", "queued", "io_error", "missing"},
                  confidence : {ConfidenceNone}, attempts : 1 .. AttemptsMax]
  BY <1>2 DEF Absent
<1>3. CASE c \in [state : {"read_unverified"}, confidence : {ConfidenceSingleRead},
                  attempts : 1 .. AttemptsMax]
  BY <1>3 DEF Absent
<1> QED BY <1>1, <1>2, <1>3 DEF PassCell

LEMMA ReadFacts ==
  ASSUME reads \in [Sectors -> Nat], NEW l, NEW n, Read(l, n)
  PROVE  /\ reads' \in [Sectors -> Nat]
         /\ \A s \in Sectors : reads'[s] = IF l <= s /\ s < l + n THEN reads[s] + 1 ELSE reads[s]
         /\ due' = due \ (l .. l + n - 1)
BY DEF Read

(* Between reads. *)
LEMMA RunFacts ==
  ASSUME IInv, pc = "run"
  PROVE  /\ Block = {} /\ Ahead = lba /\ outcome = "none"
         /\ \A s \in Sectors : map[s].state # "queued"
         /\ \A s \in Sectors :
              IF map[s] = Absent THEN retried[s] = 0 ELSE retried[s] < map[s].attempts
         /\ \A s \in Sectors :
              IF durable[s] = Absent THEN retried[s] = 0 ELSE retried[s] < durable[s].attempts
<1>1. Block = {} /\ Ahead = lba /\ outcome = "none"
  BY DEF IInv, Shape, Block, Ahead
<1>2. \A s \in Sectors : map[s].state # "queued"
  BY <1>1 DEF IInv, QueuedIsBlock
<1> QED BY <1>1, <1>2 DEF IInv, Counted, Shape

(* Leaving a run. *)
LEMMA Ends ==
  ASSUME IInv, pc' = "off", UNCHANGED <<passVars, ghostVars>>,
         map' \in {map, durable}, durable' \in {map, durable},
         outcome' \in {"complete", "canceled", "failed", "crashed"},
         CompleteCoversMedium', RetryCycleRereads'
  PROVE  IInv'
<1> USE DEF passVars, ghostVars
<1>1. Shape'
  BY DEF IInv, Shape
<1>2. PolicyFits'
  BY DEF IInv, PolicyFits
<1>3. ASSUME NEW m, m \in [Sectors -> PassCell], Counted(m)
      PROVE  \A s \in Sectors : IF m[s] = Absent THEN retried[s] = 0
                                ELSE retried[s] < m[s].attempts
  <2>1. \A s \in Sectors : m[s].attempts \in Nat /\ retried[s] \in Nat
    BY <1>3, CellFacts DEF IInv, Shape
  <2> QED BY <1>3, <2>1 DEF Counted
<1>4. /\ \A s \in Sectors : IF map'[s] = Absent THEN retried[s] = 0
                            ELSE retried[s] < map'[s].attempts
      /\ \A s \in Sectors : IF durable'[s] = Absent THEN retried[s] = 0
                            ELSE retried[s] < durable'[s].attempts
  BY <1>3 DEF IInv, Shape
<1>5. Block' = {}
  BY DEF Block
<1>6. Counted(map)' /\ Counted(durable)'
  BY <1>4, <1>5 DEF Counted, IInv, Shape
<1>7. ReadsFit'
  BY DEF IInv, ReadsFit
<1>8. QueuedIsBlock' /\ RangesInOrder' /\ RestIsExtent' /\ StagesCover' /\ DueInTime'
  BY DEF QueuedIsBlock, RangesInOrder, RestIsExtent, StagesCover, DueInTime
<1> QED BY <1>1, <1>2, <1>6, <1>7, <1>8 DEF IInv

LEMMA StutterKeeps ==
  ASSUME IInv, UNCHANGED vars
  PROVE  IInv'
<1> USE DEF vars, passVars, ghostVars
<1>1. Kind' = Kind /\ Block' = Block /\ Ahead' = Ahead
  BY DEF Kind, Block, Ahead, RetryBlock
<1>2. Shape' /\ PolicyFits' /\ ReadsFit' /\ CompleteCoversMedium' /\ RetryCycleRereads'
  BY <1>1 DEF IInv, Shape, PolicyFits, ReadsFit, CompleteCoversMedium, RetryCycleRereads
<1>3. QueuedIsBlock' /\ RangesInOrder' /\ RestIsExtent' /\ StagesCover' /\ DueInTime'
  BY <1>1 DEF IInv, QueuedIsBlock, RangesInOrder, RestIsExtent, StagesCover, DueInTime
<1>4. Counted(map)' /\ Counted(durable)'
  BY <1>1 DEF IInv, Counted
<1> QED BY <1>2, <1>3, <1>4 DEF IInv

LEMMA StopKeeps ==
  ASSUME IInv, Stop \/ SourceLost \/ Crash
  PROVE  IInv'
<1>1. /\ pc' = "off" /\ UNCHANGED <<passVars, ghostVars>>
      /\ map' \in {map, durable} /\ durable' \in {map, durable}
      /\ outcome' \in {"canceled", "failed", "crashed"}
  BY DEF Stop, SourceLost, Crash, EndRun
<1>2. CompleteCoversMedium' /\ RetryCycleRereads'
  BY <1>1 DEF CompleteCoversMedium, RetryCycleRereads
<1> QED BY <1>1, <1>2, Ends

LEMMA FastSkipKeeps ==
  ASSUME IInv, FastSkip
  PROVE  IInv'
<1> USE CapacityAssumption DEF Sectors
<1>1. /\ pc = "run" /\ Kind = "fast" /\ lba \in Sectors /\ map[lba] # Absent
      /\ lba' = ExtentEnd(map, lba)
      /\ UNCHANGED <<map, durable, policy, stage, ranges, pc, outcome, session, reads, retried, due>>
  BY DEF FastSkip, Running, Kind, ghostVars, IInv, Shape
<1>2. /\ lba' \in lba + 1 .. CapacitySectors
      /\ \A k \in lba .. lba' - 1 : map[k] # Absent
  BY <1>1, ExtentEndFacts
<1>3. /\ Kind' = "fast" /\ Block = {} /\ Block' = {}
  BY <1>1 DEF Kind, Block
<1>4. stage = 1
  BY <1>1, StageFacts
<1>5. Shape'
  <2>1. lba' \in 0 .. CapacitySectors
    BY <1>1, <1>2
  <2> HIDE DEF Sectors
  <2> QED BY <1>1, <2>1 DEF IInv, Shape
<1>6. PolicyFits' /\ CompleteCoversMedium' /\ RetryCycleRereads'
  BY <1>1 DEF IInv, PolicyFits, CompleteCoversMedium, RetryCycleRereads
<1>7. QueuedIsBlock'
  BY <1>1, <1>3 DEF IInv, QueuedIsBlock
<1>8. RangesInOrder' /\ RestIsExtent'
  BY <1>3 DEF RangesInOrder, RestIsExtent
<1>9. StagesCover'
  BY <1>1, <1>2, <1>3 DEF IInv, StagesCover
<1>10. ReadsFit'
  BY <1>1, <1>2, <1>3 DEF IInv, ReadsFit
<1>11. Counted(map)' /\ Counted(durable)'
  BY <1>1, <1>3 DEF IInv, Counted
<1>12. DueInTime'
  BY <1>1, <1>3, <1>4 DEF IInv, DueInTime
<1> QED BY <1>5, <1>6, <1>7, <1>8, <1>9, <1>10, <1>11, <1>12 DEF IInv

----------------------------------------------------------------------------
(* Steps that write.  A record that replaces what a stage is at leaves the *)
(* sectors ahead of it alone.                                              *)

LEMMA FastReadKeeps ==
  ASSUME IInv, NEW ok \in BOOLEAN, FastRead(ok)
  PROVE  IInv'
<1> DEFINE n == FastBlock
           cell == IF ok THEN [state |-> "read_unverified",
                               confidence |-> ConfidenceSingleRead, attempts |-> 1]
                         ELSE [state |-> "io_error",
                               confidence |-> ConfidenceNone, attempts |-> 1]
<1>1. /\ pc = "run" /\ Kind = "fast" /\ lba \in Sectors /\ map[lba] = Absent
      /\ lba' = lba + n /\ Read(lba, n)
      /\ durable' \in {durable, map'}
      /\ UNCHANGED <<policy, stage, ranges, session, retried>>
  BY CapacityAssumption DEF FastRead, Running, Kind, IInv, Shape, Sectors
<1>2. /\ n \in Nat \ {0} /\ lba + n <= CapacitySectors
      /\ \A k \in Sectors : lba <= k /\ k < lba + n => map[k] = Absent
  <2>1. /\ ExtentEnd(map, lba) \in lba + 1 .. CapacitySectors
        /\ \A k \in lba .. ExtentEnd(map, lba) - 1 : map[k] = map[lba]
    BY <1>1, ExtentEndFacts
  <2>2. policy[stage].block \in Nat \ {0}
    BY <1>1, StageFacts
  <2>3. n = IF policy[stage].block < ExtentEnd(map, lba) - lba
            THEN policy[stage].block ELSE ExtentEnd(map, lba) - lba
    BY DEF FastBlock, Min
  <2>4. n \in Nat \ {0} /\ lba + n <= ExtentEnd(map, lba)
    BY <1>1, <2>1, <2>2, <2>3, CapacityAssumption DEF Sectors
  <2> QED BY <1>1, <2>1, <2>4, CapacityAssumption DEF Sectors
<1> HIDE DEF n
<1>3. cell \in PassCell /\ cell # Absent /\ cell.attempts = 1
      /\ cell.state \in {"read_unverified", "io_error"}
  BY RecoveryPassesAssumption DEF PassCell, Absent
<1>4. map' = Written(lba, n, cell) /\ pc' = "run" /\ outcome' = outcome
  <2>1. CASE ok
    <3>1. cell = [state |-> "read_unverified", confidence |-> ConfidenceSingleRead,
                  attempts |-> 1]
      BY <2>1
    <3>2. Put(BlockAt(lba, n, "read_unverified", ConfidenceSingleRead, 1), "run")
      BY <2>1 DEF FastRead, n
    <3> HIDE DEF cell
    <3> QED BY <1>1, <1>2, <1>3, <3>1, <3>2, PutFacts DEF IInv, Shape
  <2>2. CASE ~ok
    <3>1. cell = [state |-> "io_error", confidence |-> ConfidenceNone, attempts |-> 1]
      BY <2>2
    <3>2. Put(BlockAt(lba, n, "io_error", ConfidenceNone, 1), "run")
      BY <2>2 DEF FastRead, n
    <3> HIDE DEF cell
    <3> QED BY <1>1, <1>2, <1>3, <3>1, <3>2, PutFacts DEF IInv, Shape
  <2> QED BY <2>1, <2>2
<1> HIDE DEF cell
<1>5. /\ map' \in [Sectors -> PassCell]
      /\ \A s \in Sectors : map'[s] = IF lba <= s /\ s < lba + n THEN cell ELSE map[s]
  BY <1>3, <1>4, WrittenFacts DEF IInv, Shape
<1>6. /\ reads' \in [Sectors -> Nat]
      /\ \A s \in Sectors : reads'[s] = IF lba <= s /\ s < lba + n THEN reads[s] + 1 ELSE reads[s]
      /\ due' = due \ (lba .. lba + n - 1) /\ due' \subseteq due /\ due \subseteq Sectors
  BY <1>1, ReadFacts DEF IInv, Shape
<1>7. /\ Kind' = "fast" /\ Block = {} /\ Block' = {} /\ stage = 1 /\ outcome = "none"
  BY <1>1, <1>4, StageFacts, RunFacts DEF Kind, Block
<1>8. Shape'
  <2>1. lba' \in 0 .. CapacitySectors
    BY <1>1, <1>2, CapacityAssumption DEF Sectors
  <2>2. durable' \in [Sectors -> PassCell]
    BY <1>1, <1>5 DEF IInv, Shape
  <2> QED BY <1>1, <1>4, <1>5, <1>6, <2>1, <2>2 DEF IInv, Shape
<1>9. PolicyFits' /\ CompleteCoversMedium' /\ RetryCycleRereads'
  BY <1>1, <1>4, <1>6, <1>7 DEF IInv, PolicyFits, CompleteCoversMedium, RetryCycleRereads
<1>10. QueuedIsBlock'
  BY <1>3, <1>4, <1>5, <1>7, RunFacts, <1>1 DEF QueuedIsBlock
<1>11. RangesInOrder' /\ RestIsExtent'
  BY <1>7 DEF RangesInOrder, RestIsExtent
<1>12. StagesCover'
  <2>1. \A s \in Sectors : s < lba => map[s] # Absent
    BY <1>1 DEF IInv, StagesCover
  <2>2. \A s \in Sectors : s < lba' => map'[s] # Absent
    BY <1>1, <1>2, <1>3, <1>5, <2>1, CapacityAssumption DEF Sectors
  <2> QED BY <1>7, <2>2 DEF StagesCover
<1>13. ReadsFit'
  <2>1. \A s \in Sectors : reads[s] <= 1 /\ (s >= lba => reads[s] = 0)
    BY <1>1, <1>7 DEF IInv, ReadsFit
  <2>2. \A s \in Sectors : reads'[s] <= 1 /\ (s >= lba' => reads'[s] = 0)
    <3> SUFFICES ASSUME NEW s \in Sectors
                 PROVE  reads'[s] <= 1 /\ (s >= lba' => reads'[s] = 0)
      OBVIOUS
    <3>1. reads[s] \in Nat /\ s \in Nat /\ lba \in Nat
      BY <1>1, CapacityAssumption DEF Sectors, IInv, Shape
    <3> QED BY <1>1, <1>2, <1>6, <2>1, <3>1
  <2> QED BY <1>1, <1>7, <2>2 DEF ReadsFit
<1>14. Counted(map)' /\ Counted(durable)'
  <2>1. ASSUME NEW s \in Sectors
        PROVE  IF map'[s] = Absent THEN retried[s] = 0 ELSE retried[s] < map'[s].attempts
    <3>1. IF map[s] = Absent THEN retried[s] = 0 ELSE retried[s] < map[s].attempts
      BY <1>1, RunFacts
    <3> QED BY <1>2, <1>3, <1>5, <3>1
  <2>2. \A s \in Sectors : IF durable'[s] = Absent THEN retried[s] = 0
                           ELSE retried[s] < durable'[s].attempts
    BY <1>1, <2>1, RunFacts
  <2>3. \A s \in Sectors : retried[s] \in Nat /\ map'[s].attempts \in Nat
                           /\ durable'[s].attempts \in Nat
    BY <1>8, CellFacts DEF Shape, IInv
  <2> QED BY <1>1, <1>7, <2>1, <2>2, <2>3 DEF Counted
<1>15. DueInTime'
  <2>1. \A s \in due' : s \in due /\ map'[s] = map[s]
    BY <1>1, <1>2, <1>5, <1>6, CapacityAssumption DEF Sectors
  <2> QED BY <1>1, <1>7, <2>1 DEF IInv, DueInTime
<1> QED BY <1>8, <1>9, <1>10, <1>11, <1>12, <1>13, <1>14, <1>15 DEF IInv

LEMMA RetrySkipKeeps ==
  ASSUME IInv, RetrySkip
  PROVE  IInv'
<1> DEFINE to == ExtentEnd(map, lba)
<1>1. /\ pc = "run" /\ Kind \in {"trim", "retry"} /\ ranges # {}
      /\ ~WorthRetry(map[lba]) /\ MoveTo(to)
      /\ UNCHANGED <<map, durable, policy, stage, pc, outcome, session, reads, retried, due>>
  BY DEF RetrySkip, Running, Kind, ghostVars
<1>2. /\ lba \in Sectors /\ ranges \subseteq Range
      /\ to \in Nat /\ to > lba /\ to <= CapacitySectors
      /\ \A k \in Sectors : lba <= k /\ k < to => map[k] = map[lba]
  <2>1. lba \in Sectors /\ ranges \subseteq Range
    BY <1>1, InRange DEF IInv, Shape
  <2>2. to \in lba + 1 .. CapacitySectors /\ \A k \in lba .. to - 1 : map[k] = map[lba]
    BY <2>1, ExtentEndFacts
  <2> QED BY <2>1, <2>2, CapacityAssumption DEF Sectors
<1> HIDE DEF to
<1>3. /\ ranges' \subseteq ranges
      /\ lba' \in Sectors
      /\ ranges' # {} =>
           /\ First(ranges').start <= lba' /\ lba' < First(ranges').end
           /\ lba' > lba
      /\ \A r \in ranges, s \in Sectors :
           s \in r.start .. r.end - 1 /\ s >= to => r \in ranges' /\ s >= lba'
  BY <1>1, <1>2, MoveToFacts
<1>4. /\ Kind' = Kind /\ Block = {} /\ Block' = {} /\ Ahead = lba /\ Ahead' = lba'
      /\ outcome = "none" /\ stage \in Nat
  BY <1>1, RunFacts, StageFacts DEF Kind, Block, Ahead
<1>5. Shape'
  <2>1. lba' \in 0 .. CapacitySectors
    BY <1>3, CapacityAssumption DEF Sectors
  <2> QED BY <1>1, <1>3, <2>1 DEF IInv, Shape
<1>6. PolicyFits' /\ CompleteCoversMedium' /\ RetryCycleRereads'
  BY <1>1, <1>4 DEF IInv, PolicyFits, CompleteCoversMedium, RetryCycleRereads
<1>7. QueuedIsBlock'
  BY <1>1, <1>4 DEF IInv, QueuedIsBlock
<1>8. RangesInOrder'
  <2>1. ranges' # {} => First(ranges') \in ranges' /\ First(ranges').end \in Nat
    BY <1>2, <1>3, FirstFacts DEF Range
  <2>2. ranges' # {} => lba' <= First(ranges').end
    BY <1>3, <2>1, CapacityAssumption DEF Sectors
  <2> QED BY <1>1, <1>3, <1>4, <2>2 DEF IInv, RangesInOrder
<1>9. RestIsExtent'
  <2> SUFFICES ASSUME Kind = "retry", NEW r \in ranges', r.end > lba'
               PROVE  /\ \A k \in r.start .. r.end - 1 : k >= lba' => map[k] = map[r.end - 1]
                      /\ r.end < CapacitySectors => map[r.end] # map[r.end - 1]
                      /\ IsRetryableState(map[r.end - 1].state)
    BY <1>1, <1>4 DEF RestIsExtent
  <2>1. r \in ranges /\ r.start \in Nat /\ r.end \in Nat /\ lba' > lba /\ lba' \in Nat /\ lba \in Nat
    BY <1>2, <1>3, CapacityAssumption DEF Range, Sectors
  <2>2. r.end > lba /\ \A k \in r.start .. r.end - 1 : k >= lba' => k >= lba
    BY <2>1
  <2> QED BY <1>1, <1>4, <2>1, <2>2 DEF IInv, RestIsExtent
<1>10. StagesCover'
  BY <1>1, <1>4 DEF IInv, StagesCover
<1>11. ReadsFit'
  <2>1. \A s \in Sectors : ranges' # {} /\ s >= lba' => ranges # {} /\ s >= lba
    BY <1>2, <1>3, CapacityAssumption DEF Sectors
  <2> QED BY <1>1, <1>4, <2>1 DEF IInv, ReadsFit
<1>12. Counted(map)' /\ Counted(durable)'
  BY <1>1, <1>4 DEF IInv, Counted
<1>13. DueInTime'
  <2> SUFFICES ASSUME NEW s \in due
               PROVE  /\ IsRetryableState(map[s].state)
                      /\ \A i \in 1 .. Len(policy) : policy[i].kind \in {"trim", "retry"} =>
                           map[s].attempts < policy[i].limit
                      /\ stage <= 3
                      /\ stage = 3 => s >= lba' /\ \E r \in ranges' : s \in r.start .. r.end - 1
    BY <1>1, <1>4 DEF DueInTime
  <2>1. /\ IsRetryableState(map[s].state)
        /\ \A i \in 1 .. Len(policy) : policy[i].kind \in {"trim", "retry"} =>
             map[s].attempts < policy[i].limit
        /\ stage <= 3
        /\ stage = 3 => s >= lba /\ \E r \in ranges : s \in r.start .. r.end - 1
    BY <1>1, <1>4 DEF IInv, DueInTime
  <2>2. WorthRetry(map[s])
    BY <1>1, <2>1, StageFacts DEF WorthRetry, Kind
  <2>3. s \in Sectors /\ s \in Nat /\ lba \in Nat
    BY <1>2, CapacityAssumption DEF IInv, Shape, Sectors
  <2>4. s >= lba => s >= to
    BY <1>1, <1>2, <2>2, <2>3
  <2> QED BY <1>3, <2>1, <2>3, <2>4
<1> QED BY <1>5, <1>6, <1>7, <1>8, <1>9, <1>10, <1>11, <1>12, <1>13 DEF IInv

LEMMA QueueRetryKeeps ==
  ASSUME IInv, QueueRetry
  PROVE  IInv'
<1> DEFINE n == RetryBlock
           attempts == map[lba].attempts
           cell == [state |-> "queued", confidence |-> ConfidenceNone,
                    attempts |-> attempts + 1]
<1>1. /\ pc = "run" /\ Kind \in {"trim", "retry"} /\ ranges # {}
      /\ IsRetryableState(map[lba].state) /\ attempts < policy[stage].limit
      /\ Put(BlockAt(lba, n, "queued", ConfidenceNone,
                     (attempts + 1) % (AttemptsMax + 1)), "read")
      /\ durable' = map'
      /\ UNCHANGED <<policy, stage, ranges, lba, session, reads, retried, due>>
  BY DEF QueueRetry, Running, Kind, WorthRetry, passVars, ghostVars
<1>2. /\ lba \in Sectors /\ ranges \subseteq Range /\ First(ranges) \in ranges
      /\ n \in Nat \ {0} /\ n <= policy[stage].block
      /\ lba + n <= First(ranges).end /\ lba + n <= CapacitySectors
      /\ \A k \in Sectors : lba <= k /\ k < lba + n => map[k] = map[lba]
  BY <1>1, InRange, RetryBlockFacts DEF IInv, Shape
<1> HIDE DEF n
<1>3. /\ attempts \in Nat /\ policy[stage].limit \in 0 .. AttemptsMax
      /\ map[lba] # Absent
  <2>1. policy[stage].limit \in 0 .. AttemptsMax
    BY <1>1, StageFacts
  <2>2. map[lba] \in PassCell
    BY <1>2 DEF IInv, Shape
  <2> QED BY <1>1, <2>1, <2>2, CellFacts
<1>4. (attempts + 1) % (AttemptsMax + 1) = attempts + 1 /\ attempts + 1 \in 1 .. AttemptsMax
  BY <1>1, <1>3, RecoveryPassesAssumption
<1>5. cell \in PassCell /\ cell # Absent /\ cell.attempts = attempts + 1
      /\ cell.state = "queued"
  BY <1>4 DEF PassCell, Absent
<1>6. map' = Written(lba, n, cell) /\ pc' = "read" /\ outcome' = outcome
  <2>1. Put(BlockAt(lba, n, "queued", ConfidenceNone, attempts + 1), "read")
    BY <1>1, <1>4
  <2>2. cell = [state |-> "queued", confidence |-> ConfidenceNone, attempts |-> attempts + 1]
    OBVIOUS
  <2>3. \A k \in Sectors : lba <= k /\ k < lba + n =>
           \/ map[k] = Absent
           \/ IsRetryableState(map[k].state) /\ map[k].attempts <= attempts + 1
    BY <1>1, <1>2, <1>3
  <2>4. cell \in PassCell \ {Absent} /\ "queued" # "unknown" /\ map \in [Sectors -> PassCell]
    BY <1>5 DEF IInv, Shape
  <2> HIDE DEF cell, attempts
  <2> QED BY ONLY <1>2, <2>1, <2>2, <2>3, <2>4, PutFacts
<1> HIDE DEF cell
<1>7. /\ map' \in [Sectors -> PassCell]
      /\ \A s \in Sectors : map'[s] = IF lba <= s /\ s < lba + n THEN cell ELSE map[s]
  BY <1>5, <1>6, WrittenFacts DEF IInv, Shape
<1>8. /\ Block = {} /\ Ahead = lba /\ outcome = "none"
      /\ \A s \in Sectors : map[s].state # "queued"
      /\ \A s \in Sectors : IF map[s] = Absent THEN retried[s] = 0
                            ELSE retried[s] < map[s].attempts
  BY <1>1, RunFacts
<1>9. RetryBlock' = n
  <2> DEFINE e == ExtentEnd(map', lba)
  <2>1. /\ e \in lba + 1 .. CapacitySectors
        /\ e = CapacitySectors \/ map'[e] # map'[lba]
        /\ \A k \in lba .. e - 1 : map'[k] = map'[lba]
    BY <1>2, ExtentEndFacts
  <2>2. RetryBlock' = IF policy[stage].block < e - lba THEN policy[stage].block ELSE e - lba
    BY <1>1 DEF RetryBlock, Min
  <2> HIDE DEF e
  <2>3. lba \in Nat /\ CapacitySectors \in Nat /\ policy[stage].block \in Nat
        /\ map'[lba] = cell
    BY <1>1, <1>2, <1>7, StageFacts, CapacityAssumption DEF Sectors
  <2>4. ~(e < lba + n)
    BY <1>2, <1>7, <2>1, <2>3, CapacityAssumption DEF Sectors
  <2>5. ASSUME lba + n < e PROVE FALSE
    <3>1. lba + n \in Sectors /\ lba + n \in lba .. e - 1
      BY <1>2, <2>1, <2>3, <2>5, CapacityAssumption DEF Sectors
    <3>2. map'[lba + n] = map[lba + n] /\ map'[lba + n] = cell
      BY <1>7, <2>1, <2>3, <3>1, CapacityAssumption DEF Sectors
    <3> QED BY <1>5, <1>8, <3>1, <3>2
  <2> QED BY <1>2, <2>1, <2>2, <2>3, <2>4, <2>5
<1>10. /\ Kind' = Kind /\ Block' = lba .. lba + n - 1 /\ Ahead' = lba + n
       /\ stage \in Nat /\ lba \in Nat /\ Kind # "fast" /\ Kind # "finalize"
  BY <1>1, <1>2, <1>6, <1>9, StageFacts, CapacityAssumption DEF Kind, Block, Ahead, Sectors
<1>11. \A s \in Sectors : s \in Nat /\ (s \in Block' <=> lba <= s /\ s < lba + n)
  BY <1>2, <1>10, CapacityAssumption DEF Sectors
<1>12. Shape'
  <2>1. stage <= Len(policy)
    BY <1>1, StageFacts
  <2> QED BY <1>1, <1>6, <1>7, <1>8, <2>1 DEF IInv, Shape
<1>13. PolicyFits' /\ CompleteCoversMedium' /\ RetryCycleRereads'
  BY <1>1, <1>6, <1>8 DEF IInv, PolicyFits, CompleteCoversMedium, RetryCycleRereads
<1>14. QueuedIsBlock'
  <2>1. {s \in Sectors : map'[s].state = "queued"} = Block'
    BY <1>2, <1>5, <1>7, <1>8, <1>10, <1>11, CapacityAssumption DEF Sectors
  <2>2. \A s \in Block' : map'[s] = map'[lba']
    BY <1>1, <1>2, <1>7, <1>10, CapacityAssumption DEF Sectors
  <2> QED BY <1>1, <1>10, <2>1, <2>2 DEF QueuedIsBlock
<1>15. RangesInOrder'
  BY <1>1, <1>2, <1>10 DEF IInv, RangesInOrder
<1>16. RestIsExtent'
  <2> SUFFICES ASSUME Kind = "retry", NEW r \in ranges, r.end > lba + n
               PROVE  /\ \A k \in r.start .. r.end - 1 : k >= lba + n => map'[k] = map'[r.end - 1]
                      /\ r.end < CapacitySectors => map'[r.end] # map'[r.end - 1]
                      /\ IsRetryableState(map'[r.end - 1].state)
    BY <1>1, <1>10 DEF RestIsExtent
  <2>1. r.start \in Nat /\ r.end \in Nat /\ r.end <= CapacitySectors
    BY <1>2, CapacityAssumption DEF Range, Sectors
  <2>2. /\ \A k \in r.start .. r.end - 1 : k >= lba => map[k] = map[r.end - 1]
        /\ r.end < CapacitySectors => map[r.end] # map[r.end - 1]
        /\ IsRetryableState(map[r.end - 1].state)
    <3>1. r.end > Ahead
      BY <1>2, <1>8, <1>10, <2>1
    <3> QED BY <1>1, <1>8, <3>1 DEF IInv, RestIsExtent
  <2>3. \A k \in Sectors : k >= lba + n => map'[k] = map[k]
    BY <1>2, <1>7, <1>10, CapacityAssumption DEF Sectors
  <2>4. /\ \A k \in r.start .. r.end - 1 : k >= lba + n => k \in Sectors /\ k >= lba
        /\ r.end - 1 \in Sectors /\ r.end - 1 >= lba + n
        /\ r.end < CapacitySectors => r.end \in Sectors /\ r.end >= lba + n
    BY <1>2, <1>10, <2>1, CapacityAssumption DEF Sectors
  <2> QED BY <2>2, <2>3, <2>4
<1>17. StagesCover'
  BY <1>1, <1>5, <1>7, <1>10 DEF IInv, StagesCover
<1>18. ReadsFit'
  BY <1>1, <1>10 DEF IInv, ReadsFit
<1>19. Counted(map)' /\ Counted(durable)'
  <2>1. ASSUME NEW s \in Sectors
        PROVE  IF map'[s] = Absent THEN retried[s] = 0
               ELSE retried[s] + (IF s \in Block' THEN 1 ELSE 0) < map'[s].attempts
    <3>1. retried[s] \in Nat /\ map[s].attempts \in Nat
      BY CellFacts DEF IInv, Shape
    <3>2. CASE s \in Block'
      <4>1. map'[s] = cell /\ map[s] = map[lba]
        BY <1>2, <1>7, <1>11, <3>2
      <4>2. retried[s] < attempts
        BY <1>3, <1>8, <4>1
      <4> QED BY <1>3, <1>5, <3>1, <3>2, <4>1, <4>2
    <3>3. CASE s \notin Block'
      <4>1. map'[s] = map[s]
        BY <1>7, <1>11, <3>3
      <4> QED BY <1>8, <3>1, <3>3, <4>1
    <3> QED BY <3>2, <3>3
  <2> QED BY <1>1, <2>1 DEF Counted
<1>20. DueInTime'
  <2>1. due \subseteq Sectors
    BY DEF IInv, Shape
  <2>2. \A s \in due : s \notin Block' => map'[s] = map[s]
    BY <1>7, <1>11, <2>1
  <2> QED BY <1>1, <1>8, <2>2 DEF IInv, DueInTime
<1> QED BY <1>12, <1>13, <1>14, <1>15, <1>16, <1>17, <1>18, <1>19, <1>20 DEF IInv

LEMMA RetryReadKeeps ==
  ASSUME IInv, NEW ok \in BOOLEAN, RetryRead(ok)
  PROVE  IInv'
<1> DEFINE n == RetryBlock
           attempts == map[lba].attempts
           cell == IF ok THEN [state |-> "read_unverified",
                               confidence |-> ConfidenceSingleRead, attempts |-> attempts]
                         ELSE [state |-> "io_error",
                               confidence |-> ConfidenceNone, attempts |-> attempts]
<1>1. /\ pc = "read" /\ Kind \in {"trim", "retry"} /\ ranges # {}
      /\ MoveTo(lba + n) /\ Read(lba, n)
      /\ retried' = [s \in Sectors |-> retried[s] + reads'[s] - reads[s]]
      /\ durable' \in {durable, map'}
      /\ UNCHANGED <<policy, stage, session>>
  BY DEF RetryRead, IInv, QueuedIsBlock
<1>2. /\ lba \in Sectors /\ ranges \subseteq Range /\ First(ranges) \in ranges
      /\ First(ranges).end \in 1 .. CapacitySectors
  BY <1>1, InRange DEF IInv, Shape
<1>3. /\ Ahead = lba + n /\ Block = lba .. lba + n - 1
      /\ lba + n <= First(ranges).end
  BY <1>1, StageFacts DEF IInv, RangesInOrder, Ahead, Block
<1>4. n \in Nat \ {0} /\ lba + n <= CapacitySectors /\ lba \in Nat
  <2>1. ExtentEnd(map, lba) \in lba + 1 .. CapacitySectors
    BY <1>2, ExtentEndFacts
  <2>2. policy[stage].block \in Nat \ {0}
    BY <1>1, StageFacts
  <2>3. n = IF policy[stage].block < ExtentEnd(map, lba) - lba
            THEN policy[stage].block ELSE ExtentEnd(map, lba) - lba
    BY DEF RetryBlock, Min
  <2> HIDE DEF n
  <2> QED BY <1>2, <2>1, <2>2, <2>3, CapacityAssumption DEF Sectors
<1> HIDE DEF n
<1>5. \A s \in Sectors : s \in Nat /\ (s \in Block <=> lba <= s /\ s < lba + n)
  BY <1>3, <1>4, CapacityAssumption DEF Sectors
<1>6. /\ \A s \in Sectors : s \in Block <=> map[s].state = "queued"
      /\ \A s \in Block : map[s] = map[lba]
      /\ lba \in Block
  BY <1>1, <1>2, <1>4, <1>5 DEF IInv, QueuedIsBlock
<1>7. attempts \in 1 .. AttemptsMax /\ map[lba] # Absent
  <2>1. map[lba] \in PassCell /\ map[lba].state = "queued"
    BY <1>2, <1>6 DEF IInv, Shape
  <2> QED BY <2>1, CellFacts, RecoveryPassesAssumption
<1>8. cell \in PassCell /\ cell # Absent /\ cell.attempts = attempts
      /\ cell.state \in {"read_unverified", "io_error"}
  BY <1>7 DEF PassCell, Absent
<1>9. \A k \in Sectors : lba <= k /\ k < lba + n =>
         \/ map[k] = Absent
         \/ IsRetryableState(map[k].state) /\ map[k].attempts <= attempts
  BY <1>5, <1>6, <1>7 DEF IsRetryableState
<1>10. map' = Written(lba, n, cell) /\ pc' = "run" /\ outcome' = outcome
  <2>1. map \in [Sectors -> PassCell]
    BY DEF IInv, Shape
  <2>2. CASE ok
    <3>1. cell = [state |-> "read_unverified", confidence |-> ConfidenceSingleRead,
                  attempts |-> attempts]
      BY <2>2
    <3>2. Put(BlockAt(lba, n, "read_unverified", ConfidenceSingleRead, attempts), "run")
      BY <2>2 DEF RetryRead, n
    <3>3. cell \in PassCell \ {Absent} /\ "read_unverified" # "unknown"
      BY <1>8
    <3> HIDE DEF cell, attempts
    <3> QED BY ONLY <1>2, <1>4, <1>9, <2>1, <3>1, <3>2, <3>3, PutFacts
  <2>3. CASE ~ok
    <3>1. cell = [state |-> "io_error", confidence |-> ConfidenceNone,
                  attempts |-> attempts]
      BY <2>3
    <3>2. Put(BlockAt(lba, n, "io_error", ConfidenceNone, attempts), "run")
      BY <2>3 DEF RetryRead, n
    <3>3. cell \in PassCell \ {Absent} /\ "io_error" # "unknown"
      BY <1>8
    <3> HIDE DEF cell, attempts
    <3> QED BY ONLY <1>2, <1>4, <1>9, <2>1, <3>1, <3>2, <3>3, PutFacts
  <2> QED BY <2>2, <2>3
<1> HIDE DEF cell
<1>11. /\ map' \in [Sectors -> PassCell]
       /\ \A s \in Sectors : map'[s] = IF s \in Block THEN cell ELSE map[s]
  BY <1>5, <1>8, <1>10, WrittenFacts DEF IInv, Shape
<1>12. /\ reads' \in [Sectors -> Nat]
       /\ \A s \in Sectors : reads'[s] = IF s \in Block THEN reads[s] + 1 ELSE reads[s]
       /\ due' = due \ Block /\ due' \subseteq due /\ due \subseteq Sectors
  BY <1>1, <1>3, <1>5, ReadFacts DEF IInv, Shape
<1>13. /\ retried' \in [Sectors -> Nat]
       /\ \A s \in Sectors :
            retried'[s] = IF s \in Block THEN retried[s] + 1 ELSE retried[s]
  <2>1. \A s \in Sectors : reads[s] \in Nat /\ retried[s] \in Nat
    BY DEF IInv, Shape
  <2>2. \A s \in Sectors : retried[s] + reads'[s] - reads[s]
                             = IF s \in Block THEN retried[s] + 1 ELSE retried[s]
    BY <1>12, <2>1
  <2> QED BY <1>1, <2>1, <2>2
<1>14. /\ ranges' \subseteq ranges /\ lba' \in Sectors
       /\ ranges' # {} =>
            /\ First(ranges').start <= lba' /\ lba' < First(ranges').end
            /\ lba' > lba /\ lba' >= lba + n
       /\ \A r \in ranges, s \in Sectors :
            s \in r.start .. r.end - 1 /\ s >= lba + n => r \in ranges' /\ s >= lba'
  <2>1. lba + n \in Nat /\ lba + n > lba
    BY <1>4
  <2>2. pc # "off" /\ Kind # "fast"
    BY <1>1
  <2> QED BY <1>1, <1>3, <1>4, <2>1, <2>2, MoveToFacts
<1>15. /\ Kind' = Kind /\ Kind # "fast" /\ Kind # "finalize" /\ Block' = {} /\ Ahead' = lba'
       /\ outcome = "none" /\ stage \in Nat /\ stage <= Len(policy)
  BY <1>1, <1>10, StageFacts DEF Kind, Block, Ahead, IInv, Shape
<1>16. Shape'
  <2>1. lba' \in 0 .. CapacitySectors
    BY <1>14, CapacityAssumption DEF Sectors
  <2>2. durable' \in [Sectors -> PassCell]
    BY <1>1, <1>11 DEF IInv, Shape
  <2>3. ranges' \subseteq Range
    BY <1>2, <1>14
  <2> QED BY <1>1, <1>10, <1>11, <1>12, <1>13, <1>15, <2>1, <2>2, <2>3 DEF IInv, Shape
<1>17. PolicyFits' /\ CompleteCoversMedium' /\ RetryCycleRereads'
  BY <1>1, <1>10, <1>12, <1>15 DEF IInv, PolicyFits, CompleteCoversMedium, RetryCycleRereads
<1>18. QueuedIsBlock'
  BY <1>6, <1>8, <1>10, <1>11, <1>15 DEF QueuedIsBlock
<1>19. RangesInOrder'
  <2>1. ranges' # {} => First(ranges').end \in Nat
    BY <1>2, <1>14, FirstFacts DEF Range
  <2>2. ranges' # {} => lba' <= First(ranges').end
    BY <1>14, <2>1, CapacityAssumption DEF Sectors
  <2> QED BY <1>1, <1>14, <1>15, <2>2 DEF IInv, RangesInOrder
<1>20. RestIsExtent'
  <2> SUFFICES ASSUME Kind = "retry", NEW r \in ranges', r.end > lba'
               PROVE  /\ \A k \in r.start .. r.end - 1 : k >= lba' => map'[k] = map'[r.end - 1]
                      /\ r.end < CapacitySectors => map'[r.end] # map'[r.end - 1]
                      /\ IsRetryableState(map'[r.end - 1].state)
    BY <1>1, <1>15 DEF RestIsExtent
  <2>1. r \in ranges /\ r.start \in Nat /\ r.end \in Nat /\ r.end <= CapacitySectors
        /\ lba' >= lba + n /\ lba' \in Nat
    BY <1>2, <1>14, CapacityAssumption DEF Range, Sectors
  <2>2. /\ \A k \in r.start .. r.end - 1 : k >= lba + n => map[k] = map[r.end - 1]
        /\ r.end < CapacitySectors => map[r.end] # map[r.end - 1]
        /\ IsRetryableState(map[r.end - 1].state)
    <3>1. r.end > Ahead
      BY <1>3, <1>4, <2>1
    <3> QED BY <1>1, <1>3, <2>1, <3>1 DEF IInv, RestIsExtent
  <2>3. \A k \in Sectors : k >= lba + n => map'[k] = map[k]
    BY <1>4, <1>5, <1>11
  <2>4. /\ \A k \in r.start .. r.end - 1 : k >= lba' => k \in Sectors /\ k >= lba + n
        /\ r.end - 1 \in Sectors /\ r.end - 1 >= lba + n
        /\ r.end < CapacitySectors => r.end \in Sectors /\ r.end >= lba + n
    BY <1>4, <2>1, CapacityAssumption DEF Sectors
  <2> QED BY <2>2, <2>3, <2>4
<1>21. StagesCover'
  BY <1>1, <1>8, <1>11, <1>15 DEF IInv, StagesCover
<1>22. ReadsFit'
  <2>1. ASSUME NEW s \in Sectors
        PROVE  reads'[s] <= 1 /\ (s >= lba' /\ ranges' # {} => reads'[s] = 0)
    <3>1. reads[s] \in Nat /\ reads[s] <= 1 /\ (s >= lba => reads[s] = 0)
      BY <1>1 DEF IInv, Shape, ReadsFit
    <3>2. s \in Nat /\ lba' \in Nat
      BY <1>14, CapacityAssumption DEF Sectors
    <3> QED BY <1>4, <1>5, <1>12, <1>14, <1>15, <3>1, <3>2
  <2> QED BY <1>1, <1>15, <2>1 DEF ReadsFit
<1>23. Counted(map)' /\ Counted(durable)'
  <2>1. ASSUME NEW s \in Sectors
        PROVE  /\ retried[s] \in Nat /\ map[s].attempts \in Nat /\ durable[s].attempts \in Nat
               /\ IF map[s] = Absent THEN retried[s] = 0
                  ELSE retried[s] + (IF s \in Block THEN 1 ELSE 0) < map[s].attempts
               /\ IF durable[s] = Absent THEN retried[s] = 0
                  ELSE retried[s] + (IF s \in Block THEN 1 ELSE 0) < durable[s].attempts
    BY <2>1, CellFacts DEF IInv, Shape, Counted
  <2>2. ASSUME NEW s \in Sectors
        PROVE  IF map'[s] = Absent THEN retried'[s] = 0 ELSE retried'[s] < map'[s].attempts
    <3>1. CASE s \in Block
      <4>1. map[s] = map[lba] /\ map'[s] = cell
        BY <1>6, <1>11, <3>1
      <4> QED BY <1>7, <1>8, <1>13, <2>1, <3>1, <4>1
    <3>2. CASE s \notin Block
      BY <1>11, <1>13, <2>1, <3>2
    <3> QED BY <3>1, <3>2
  <2>3. CASE durable' = map'
    BY <1>1, <1>15, <2>2, <2>3, <1>16, CellFacts DEF Counted, Shape
  <2>4. CASE durable' = durable
    <3>1. \A s \in Sectors : IF durable[s] = Absent THEN retried'[s] = 0
                             ELSE retried'[s] < durable[s].attempts
      <4> SUFFICES ASSUME NEW s \in Sectors
                   PROVE  IF durable[s] = Absent THEN retried'[s] = 0
                          ELSE retried'[s] < durable[s].attempts
        OBVIOUS
      <4>1. s \in Block => durable[s] # Absent
        BY <1>1, <1>6, <1>7 DEF IInv, QueuedIsBlock
      <4> QED BY <1>13, <2>1, <4>1
    <3> QED BY <1>1, <1>15, <2>2, <2>4, <3>1, <1>16, CellFacts DEF Counted, Shape
  <2> QED BY <1>1, <2>3, <2>4
<1>24. DueInTime'
  <2> SUFFICES ASSUME NEW s \in due'
               PROVE  /\ IsRetryableState(map'[s].state)
                      /\ \A i \in 1 .. Len(policy) : policy[i].kind \in {"trim", "retry"} =>
                           map'[s].attempts < policy[i].limit
                      /\ stage <= 3
                      /\ stage = 3 => s >= lba' /\ \E r \in ranges' : s \in r.start .. r.end - 1
    BY <1>1, <1>15 DEF DueInTime
  <2>1. s \in Sectors /\ s \notin Block /\ s \in due /\ map'[s] = map[s]
    BY <1>11, <1>12
  <2>2. /\ IsRetryableState(map[s].state)
        /\ \A i \in 1 .. Len(policy) : policy[i].kind \in {"trim", "retry"} =>
             map[s].attempts < policy[i].limit
        /\ stage <= 3
        /\ stage = 3 => s >= lba /\ \E r \in ranges : s \in r.start .. r.end - 1
    BY <1>1, <2>1 DEF IInv, DueInTime
  <2>3. s >= lba => s >= lba + n
    BY <1>4, <1>5, <2>1
  <2> QED BY <1>14, <2>1, <2>2, <2>3
<1> QED BY <1>16, <1>17, <1>18, <1>19, <1>20, <1>21, <1>22, <1>23, <1>24 DEF IInv

LEMMA FinalizeRangeKeeps ==
  ASSUME IInv, FinalizeRange
  PROVE  IInv'
<1> DEFINE end == First(ranges).end
           n == end - lba
           attempts == map[lba].attempts
           cell == [state |-> "missing", confidence |-> ConfidenceNone, attempts |-> attempts]
<1>1. /\ pc = "run" /\ Kind = "finalize" /\ ranges # {}
      /\ Put(BlockAt(lba, n, "missing", ConfidenceNone, attempts), "run")
      /\ MoveTo(end)
      /\ durable' = map'
      /\ UNCHANGED <<policy, stage, session, reads, retried, due>>
  BY DEF FinalizeRange, Running, Kind, ghostVars
<1>2. /\ lba \in Sectors /\ ranges \subseteq Range /\ First(ranges) \in ranges
      /\ \A q \in ranges : First(ranges).start <= q.start
      /\ end \in 1 .. CapacitySectors /\ lba < end /\ lba \in Nat
      /\ lba = First(ranges).start
  <2>1. lba \in Sectors /\ First(ranges) \in ranges /\ First(ranges).start <= lba
        /\ lba < end /\ end \in 1 .. CapacitySectors
        /\ \A q \in ranges : First(ranges).start <= q.start
    BY <1>1, InRange
  <2>2. ranges \subseteq Range
    BY DEF IInv, Shape
  <2>3. lba = First(ranges).start
    BY <1>1 DEF IInv, RangesInOrder
  <2> QED BY <2>1, <2>2, <2>3 DEF Sectors
<1>3. /\ Block = {} /\ Ahead = lba /\ outcome = "none"
      /\ \A s \in Sectors : map[s].state # "queued"
      /\ \A s \in Sectors : IF map[s] = Absent THEN retried[s] = 0
                            ELSE retried[s] < map[s].attempts
  BY <1>1, RunFacts
<1>4. /\ \A k \in Sectors : lba <= k /\ k < end => map[k] = map[lba]
      /\ IsRetryableState(map[lba].state)
  <2>1. /\ \A k \in lba .. end - 1 : k >= lba => map[k] = map[end - 1]
        /\ IsRetryableState(map[end - 1].state)
    <3>1. pc # "off" /\ Kind \in {"retry", "finalize"} /\ end > Ahead
      BY <1>1, <1>2, <1>3
    <3> QED BY <1>2, <1>3, <3>1 DEF IInv, RestIsExtent
  <2>2. \A k \in Sectors : lba <= k /\ k < end => k \in lba .. end - 1 /\ k >= lba
    BY <1>2, CapacityAssumption DEF Sectors
  <2> QED BY <1>2, <2>1, <2>2
<1> HIDE DEF end
<1>5. n \in Nat \ {0} /\ lba + n = end
  BY <1>2
<1>6. attempts \in 1 .. AttemptsMax
  BY <1>2, <1>4, CellFacts, RecoveryPassesAssumption DEF IInv, Shape
<1>7. cell \in PassCell /\ cell # Absent /\ cell.attempts = attempts /\ cell.state = "missing"
  BY <1>6 DEF PassCell, Absent
<1>8. map' = Written(lba, n, cell) /\ pc' = "run" /\ outcome' = outcome
  <2>1. \A k \in Sectors : lba <= k /\ k < lba + n =>
           \/ map[k] = Absent
           \/ IsRetryableState(map[k].state) /\ map[k].attempts <= attempts
    BY <1>4, <1>5, <1>6
  <2>2. cell \in PassCell \ {Absent} /\ "missing" # "unknown" /\ map \in [Sectors -> PassCell]
    BY <1>7 DEF IInv, Shape
  <2>3. cell = [state |-> "missing", confidence |-> ConfidenceNone, attempts |-> attempts]
    OBVIOUS
  <2>4. Put(BlockAt(lba, n, "missing", ConfidenceNone, attempts), "run")
    BY <1>1
  <2> HIDE DEF cell, attempts, n
  <2> QED BY ONLY <1>2, <1>5, <2>1, <2>2, <2>3, <2>4, PutFacts
<1> HIDE DEF cell, n
<1>9. /\ map' \in [Sectors -> PassCell]
      /\ \A s \in Sectors : map'[s] = IF lba <= s /\ s < end THEN cell ELSE map[s]
  BY <1>5, <1>7, <1>8, WrittenFacts DEF IInv, Shape
<1>10. /\ ranges' \subseteq ranges /\ lba' \in Sectors
       /\ ranges' # {} =>
            /\ First(ranges').start <= lba' /\ lba' < First(ranges').end
            /\ lba' > lba /\ lba' >= end
            /\ ranges' # ranges => lba' = First(ranges').start
       /\ \A r \in ranges : r \notin ranges' => r = First(ranges)
  <2>1. end \in Nat /\ end > lba /\ end <= CapacitySectors /\ end <= First(ranges).end
    BY <1>2, CapacityAssumption DEF end
  <2>2. pc # "off" /\ Kind # "fast"
    BY <1>1
  <2> QED BY <1>1, <1>2, <2>1, <2>2, MoveToFacts
<1>11. ranges' = ranges \ {First(ranges)}
  BY <1>1, <1>2 DEF MoveTo, end
<1>12. /\ Kind' = Kind /\ Block' = {} /\ Ahead' = lba'
       /\ stage = Len(policy) /\ stage > 3 /\ stage \in Nat
  BY <1>1, <1>8, StageFacts DEF Kind, Block, Ahead
<1>13. \A r \in ranges' : /\ r \in ranges /\ r.start \in Nat /\ r.end \in 1 .. CapacitySectors
                          /\ r.start >= end /\ r.start < r.end
  <2>1. \A r, q \in ranges : r = q \/ r.end <= q.start \/ q.end <= r.start
    BY <1>1 DEF IInv, RangesInOrder
  <2>2. \A r \in ranges : r.start < r.end /\ r.start \in Nat /\ r.end \in 1 .. CapacitySectors
    BY <1>1, <1>2, CapacityAssumption DEF IInv, RangesInOrder, Range, Sectors
  <2> QED BY <1>2, <1>11, <2>1, <2>2 DEF end
<1>14. Shape'
  <2>1. lba' \in 0 .. CapacitySectors
    BY <1>10, CapacityAssumption DEF Sectors
  <2>2. ranges' \subseteq Range /\ stage <= Len(policy)
    BY <1>2, <1>10, <1>12
  <2> QED BY <1>1, <1>3, <1>8, <1>9, <2>1, <2>2 DEF IInv, Shape
<1>15. PolicyFits' /\ CompleteCoversMedium' /\ RetryCycleRereads'
  BY <1>1, <1>3, <1>8 DEF IInv, PolicyFits, CompleteCoversMedium, RetryCycleRereads
<1>16. QueuedIsBlock'
  BY <1>3, <1>7, <1>8, <1>9, <1>12 DEF QueuedIsBlock
<1>17. RangesInOrder'
  <2>1. ranges' # {} => First(ranges').end \in Nat /\ ranges' # ranges
    BY <1>2, <1>10, <1>11, FirstFacts DEF Range
  <2>2. ranges' # {} => lba' <= First(ranges').end
    BY <1>10, <2>1, CapacityAssumption DEF Sectors
  <2> QED BY <1>1, <1>10, <1>12, <2>1, <2>2 DEF IInv, RangesInOrder
<1>18. RestIsExtent'
  <2> SUFFICES ASSUME NEW r \in ranges', r.end > lba'
               PROVE  /\ \A k \in r.start .. r.end - 1 : k >= lba' => map'[k] = map'[r.end - 1]
                      /\ r.end < CapacitySectors => map'[r.end] # map'[r.end - 1]
                      /\ IsRetryableState(map'[r.end - 1].state)
    BY <1>1, <1>12 DEF RestIsExtent
  <2>1. /\ r \in ranges /\ r.start \in Nat /\ r.end \in 1 .. CapacitySectors
        /\ r.start >= end /\ r.start < r.end
    BY <1>13
  <2>2. /\ \A k \in r.start .. r.end - 1 : k >= lba => map[k] = map[r.end - 1]
        /\ r.end < CapacitySectors => map[r.end] # map[r.end - 1]
        /\ IsRetryableState(map[r.end - 1].state)
    <3>1. pc # "off" /\ Kind \in {"retry", "finalize"} /\ r.end > Ahead
      BY <1>1, <1>2, <1>3, <2>1
    <3> QED BY <1>3, <2>1, <3>1 DEF IInv, RestIsExtent
  <2>3. \A k \in Sectors : k >= end => map'[k] = map[k]
    BY <1>2, <1>9, CapacityAssumption DEF Sectors
  <2>4. /\ \A k \in r.start .. r.end - 1 : k \in Sectors /\ k >= end /\ k >= lba
        /\ r.end - 1 \in Sectors /\ r.end - 1 >= end
        /\ r.end < CapacitySectors => r.end \in Sectors /\ r.end >= end
    BY <1>2, <2>1, CapacityAssumption DEF Sectors
  <2> QED BY <2>2, <2>3, <2>4
<1>19. StagesCover'
  <2>1. \A s \in Sectors : map'[s] # Absent
    BY <1>1, <1>7, <1>9 DEF IInv, StagesCover
  <2>2. ASSUME NEW s \in Sectors, map'[s].state \in {"unknown", "io_error"}
        PROVE  \E r \in ranges' : s \in r.start .. r.end - 1
    <3>1. ~(lba <= s /\ s < end) /\ map'[s] = map[s]
      BY <1>7, <1>9, <2>2
    <3>2. PICK r \in ranges : s \in r.start .. r.end - 1
      BY <1>1, <2>2, <3>1 DEF IInv, StagesCover
    <3>3. r # First(ranges)
      BY <1>2, <3>1, <3>2, CapacityAssumption DEF Sectors, end
    <3> QED BY <1>11, <3>2, <3>3
  <2> QED BY <1>1, <1>12, <2>1, <2>2 DEF StagesCover
<1>20. ReadsFit'
  <2>1. \A s \in Sectors : ranges' # {} /\ s >= lba' => ranges # {} /\ s >= lba
    BY <1>2, <1>10, CapacityAssumption DEF Sectors
  <2> QED BY <1>1, <1>12, <2>1 DEF IInv, ReadsFit
<1>21. Counted(map)' /\ Counted(durable)'
  <2>1. ASSUME NEW s \in Sectors
        PROVE  /\ IF map'[s] = Absent THEN retried[s] = 0 ELSE retried[s] < map'[s].attempts
               /\ retried[s] \in Nat /\ map'[s].attempts \in Nat
    <3>1. CASE lba <= s /\ s < end
      BY <1>3, <1>4, <1>6, <1>7, <1>9, <3>1, CellFacts DEF IInv, Shape
    <3>2. CASE ~(lba <= s /\ s < end)
      BY <1>3, <1>9, <3>2, CellFacts DEF IInv, Shape
    <3> QED BY <3>1, <3>2
  <2> QED BY <1>1, <1>12, <2>1 DEF Counted
<1>22. DueInTime'
  <2>1. due = {}
    BY <1>1, <1>12 DEF IInv, DueInTime
  <2> QED BY <1>1, <2>1 DEF DueInTime
<1> QED BY <1>14, <1>15, <1>16, <1>17, <1>18, <1>19, <1>20, <1>21, <1>22 DEF IInv

(* A stage that is done has left nothing unmapped. *)
LEMMA StageDoneFacts ==
  ASSUME IInv, pc = "run", StageDone
  PROVE  /\ \A s \in Sectors : map[s] # Absent
         /\ \A s \in Sectors : map[s].state \notin {"absent", "queued"}
         /\ Kind # "fast" => ranges = {}
<1>1. \A s \in Sectors : map[s] # Absent
  <2>1. lba \in Nat /\ (Kind = "fast" => lba >= CapacitySectors)
    BY CapacityAssumption DEF IInv, Shape, StageDone, Kind
  <2>2. \A s \in Sectors : Kind = "fast" => s < lba
    BY <2>1, CapacityAssumption DEF Sectors
  <2> QED BY <2>2 DEF IInv, StagesCover
<1> QED BY <1>1, RunFacts, CellFacts DEF StageDone, Kind, IInv, Shape

LEMMA CompleteKeeps ==
  ASSUME IInv, FinishStage, pc' = "off"
  PROVE  IInv'
<1>1. pc = "run" /\ StageDone /\ UNCHANGED <<session, retried, due>>
  BY DEF FinishStage, Running
<1>2. /\ stage = Len(policy) \/ (Kind = "fast" /\ UnresolvedSectors(map) = {})
      /\ EndRun("complete") /\ UNCHANGED reads
  <2> DEFINE last == \/ stage = Len(policy)
                     \/ policy[stage].kind = "fast" /\ UnresolvedSectors(map) = {}
  <2>1. CASE last
    <3>1. EndRun("complete") /\ UNCHANGED reads
      BY <2>1 DEF FinishStage
    <3> QED BY <2>1, <3>1 DEF Kind
  <2>2. CASE ~last
    <3>1. pc' = pc
      BY <2>2 DEF FinishStage
    <3> QED BY <1>1, <3>1
  <2> QED BY <2>1, <2>2
<1>3. /\ pc' = "off" /\ UNCHANGED <<passVars, ghostVars>>
      /\ map' = map /\ durable' = map /\ outcome' = "complete"
  BY <1>1, <1>2 DEF EndRun, ghostVars
<1>4. CompleteCoversMedium'
  <2>1. \A s \in Sectors : map[s].state \notin {"absent", "queued"}
    BY <1>1, StageDoneFacts
  <2>2. ASSUME policy[Len(policy)].kind = "finalize", NEW s \in Sectors
        PROVE  map[s].state \notin {"unknown", "io_error"}
    <3>1. CASE stage = Len(policy)
      <4>1. Kind = "finalize" /\ ranges = {}
        BY <1>1, <2>2, <3>1, StageDoneFacts DEF Kind
      <4> QED BY <1>1, <4>1 DEF IInv, StagesCover
    <3>2. CASE UnresolvedSectors(map) = {}
      BY <3>2 DEF UnresolvedSectors, IsRetryableState
    <3> QED BY <1>2, <3>1, <3>2
  <2> QED BY <1>3, <2>1, <2>2 DEF CompleteCoversMedium, passVars
<1>5. RetryCycleRereads'
  <2> SUFFICES ASSUME NEW s \in due PROVE FALSE
    BY <1>3 DEF RetryCycleRereads, ghostVars
  <2>1. s \in Sectors
    BY DEF IInv, Shape
  <2>2. /\ s \notin Block => IsRetryableState(map[s].state)
        /\ stage <= 3
    BY <1>1, <2>1 DEF IInv, DueInTime
  <2>3. stage # Len(policy)
    BY <1>1, <2>2, StageFacts DEF IInv, PolicyFits
  <2>4. s \in UnresolvedSectors(map)
    BY <1>1, <2>1, <2>2, RunFacts DEF UnresolvedSectors
  <2> QED BY <1>2, <2>3, <2>4
<1> QED BY <1>3, <1>4, <1>5, Ends

LEMMA NextStageKeeps ==
  ASSUME IInv, FinishStage, pc' # "off"
  PROVE  IInv'
<1>1. pc = "run" /\ StageDone
  BY DEF FinishStage, Running
<1>2. /\ stage # Len(policy) /\ durable' = map /\ stage' = stage + 1
      /\ ranges' = StageRanges(policy[stage + 1], map) /\ lba' = FirstLBA(ranges')
      /\ reads' = [s \in Sectors |-> 0]
      /\ UNCHANGED <<map, policy, pc, outcome, session, retried, due>>
  BY <1>1 DEF FinishStage, EndRun
<1>3. /\ stage \in 1 .. Len(policy) /\ Len(policy) \in Nat /\ policy # <<>>
      /\ policy \in Seq(Stage)
  BY <1>1, StageFacts
<1>4. stage + 1 \in 2 .. Len(policy)
  BY <1>2, <1>3
<1>5. /\ Kind' = policy[stage + 1].kind /\ Kind' \in {"trim", "retry", "finalize"}
      /\ stage + 1 = 3 => Kind' = "retry"
  <2>1. policy[stage + 1] \in Stage
    BY <1>3, <1>4
  <2>2. policy[stage + 1].kind # "fast"
    BY <1>3, <1>4 DEF IInv, PolicyFits
  <2>3. stage + 1 = 3 => policy[stage + 1].kind = "retry"
    BY <1>3 DEF IInv, PolicyFits
  <2> QED BY <1>2, <2>1, <2>2, <2>3 DEF Kind, Stage
<1>6. /\ Block = {} /\ Block' = {} /\ Ahead' = lba'
      /\ outcome = "none"
      /\ \A s \in Sectors : map[s].state # "queued"
      /\ \A s \in Sectors : IF map[s] = Absent THEN retried[s] = 0
                            ELSE retried[s] < map[s].attempts
  BY <1>1, <1>2, RunFacts DEF Block, Ahead
<1>7. map \in [Sectors -> PassCell] /\ \A s \in Sectors : map[s] # Absent
  BY <1>1, StageDoneFacts DEF IInv, Shape
<1>8. ranges' = IF Kind' = "trim" THEN TrimEdges(map) ELSE RetryableExtents(map)
  BY <1>2, <1>5 DEF StageRanges
<1>9. /\ ranges' \subseteq Range
      /\ \A r, q \in ranges' : r = q \/ r.end <= q.start \/ q.end <= r.start
      /\ \A r \in ranges' : r.start < r.end
      /\ Kind' = "trim" => \A r \in ranges' : r.end = r.start + 1
  <2>1. CASE Kind' = "trim"
    <3>1. /\ ranges' = TrimEdges(map) /\ ranges' \subseteq Range
          /\ \A r \in ranges' : r.end = r.start + 1
          /\ \A r, q \in ranges' : r = q \/ r.end <= q.start \/ q.end <= r.start
      BY <1>7, <1>8, <2>1, TrimEdgesFacts
    <3>2. \A r \in ranges' : r.start < r.end
      BY <3>1, CapacityAssumption DEF Range, Sectors
    <3> QED BY <2>1, <3>1, <3>2
  <2>2. CASE Kind' # "trim"
    BY <1>7, <1>8, <2>2, RetryableExtentsFacts
  <2> QED BY <2>1, <2>2
<1>10. /\ lba' \in Sectors
       /\ ranges' # {} => /\ First(ranges') \in ranges' /\ lba' = First(ranges').start
                          /\ \A r \in ranges' : lba' <= r.start
  <2>1. CASE ranges' = {}
    BY <1>2, <2>1, CapacityAssumption DEF FirstLBA, Sectors
  <2>2. CASE ranges' # {}
    <3>1. /\ First(ranges') \in ranges' /\ \A r \in ranges' : First(ranges').start <= r.start
      BY <1>9, <2>2, FirstFacts
    <3> QED BY <1>2, <1>9, <2>2, <3>1 DEF FirstLBA, Range
  <2> QED BY <2>1, <2>2
<1>11. Shape'
  <2>1. lba' \in 0 .. CapacitySectors
    BY <1>10, CapacityAssumption DEF Sectors
  <2>2. stage' \in 1 .. Len(policy) + 1 /\ stage' <= Len(policy)
    BY <1>2, <1>3, <1>4
  <2> QED BY <1>1, <1>2, <1>6, <1>7, <1>9, <2>1, <2>2 DEF IInv, Shape
<1>12. PolicyFits' /\ CompleteCoversMedium' /\ RetryCycleRereads'
  BY <1>2, <1>6 DEF IInv, PolicyFits, CompleteCoversMedium, RetryCycleRereads
<1>13. QueuedIsBlock'
  BY <1>1, <1>2, <1>6 DEF QueuedIsBlock
<1>14. RangesInOrder'
  <2>1. ranges' # {} => First(ranges').start <= lba' /\ lba' < First(ranges').end
                        /\ lba' <= First(ranges').end
    BY <1>9, <1>10, CapacityAssumption DEF Range, Sectors
  <2> QED BY <1>5, <1>6, <1>9, <1>10, <2>1 DEF RangesInOrder
<1>15. RestIsExtent'
  <2> SUFFICES ASSUME Kind' \in {"retry", "finalize"}, NEW r \in ranges'
               PROVE  /\ \A k \in r.start .. r.end - 1 : map[k] = map[r.end - 1]
                      /\ r.end < CapacitySectors => map[r.end] # map[r.end - 1]
                      /\ IsRetryableState(map[r.end - 1].state)
    BY <1>2, <1>6 DEF RestIsExtent
  <2>1. ranges' = RetryableExtents(map)
    BY <1>8
  <2> QED BY <1>7, <2>1, RetryableExtentsFacts
<1>16. StagesCover'
  <2>1. ASSUME Kind' = "finalize", NEW s \in Sectors, map[s].state \in {"unknown", "io_error"}
        PROVE  \E r \in ranges' : s \in r.start .. r.end - 1
    <3>1. ranges' = RetryableExtents(map) /\ IsRetryableState(map[s].state)
      BY <1>8, <2>1 DEF IsRetryableState
    <3> QED BY <1>7, <3>1, RetryableExtentsFacts
  <2> QED BY <1>2, <1>7, <2>1 DEF StagesCover
<1>17. ReadsFit'
  BY <1>2 DEF ReadsFit
<1>18. Counted(map)' /\ Counted(durable)'
  <2>1. \A s \in Sectors : retried[s] \in Nat /\ map[s].attempts \in Nat
    BY CellFacts DEF IInv, Shape
  <2> QED BY <1>2, <1>6, <2>1 DEF Counted
<1>19. DueInTime'
  <2> SUFFICES ASSUME NEW s \in due
               PROVE  /\ IsRetryableState(map[s].state)
                      /\ \A i \in 1 .. Len(policy) : policy[i].kind \in {"trim", "retry"} =>
                           map[s].attempts < policy[i].limit
                      /\ stage + 1 <= 3
                      /\ stage + 1 = 3 => s >= lba' /\ \E r \in ranges' : s \in r.start .. r.end - 1
    BY <1>2, <1>6 DEF DueInTime
  <2>1. /\ IsRetryableState(map[s].state)
        /\ \A i \in 1 .. Len(policy) : policy[i].kind \in {"trim", "retry"} =>
             map[s].attempts < policy[i].limit
        /\ stage <= 3
        /\ stage = 3 => \E r \in ranges : s \in r.start .. r.end - 1
    BY <1>1, <1>6 DEF IInv, DueInTime
  <2>2. stage # 3
    <3>1. stage = 3 => Kind # "fast"
      BY <1>1, StageFacts
    <3> QED BY <1>1, <2>1, <3>1, StageDoneFacts
  <2>3. ASSUME stage + 1 = 3
        PROVE  s >= lba' /\ \E r \in ranges' : s \in r.start .. r.end - 1
    <3>1. ranges' = RetryableExtents(map) /\ s \in Sectors
      BY <1>5, <1>8, <2>3 DEF IInv, Shape
    <3>2. PICK r \in ranges' : s \in r.start .. r.end - 1
      BY <1>7, <2>1, <3>1, RetryableExtentsFacts
    <3>3. lba' <= r.start /\ r.start \in Nat /\ lba' \in Nat /\ s \in Nat
      BY <1>9, <1>10, <3>1, <3>2, CapacityAssumption DEF Range, Sectors
    <3> QED BY <3>2, <3>3
  <2> QED BY <1>3, <2>1, <2>2, <2>3
<1> QED BY <1>11, <1>12, <1>13, <1>14, <1>15, <1>16, <1>17, <1>18, <1>19 DEF IInv

----------------------------------------------------------------------------
(* The start of a run. *)

LEMMA AttemptOffsetFacts ==
  ASSUME NEW m \in [Sectors -> PassCell]
  PROVE  /\ AttemptOffset(m) \in 0 .. AttemptsMax
         /\ \A s \in Sectors : IsRetryableState(m[s].state) => m[s].attempts <= AttemptOffset(m)
<1> DEFINE counts == {0} \cup {m[s].attempts : s \in {t \in Sectors : IsRetryableState(m[t].state)}}
<1>1. counts \in SUBSET (0 .. AttemptsMax) /\ counts # {}
  BY CellFacts, RecoveryPassesAssumption
<1>2. PICK n \in counts : \A k \in counts : k <= n
  BY <1>1, GreatestNumber, RecoveryPassesAssumption
<1>3. AttemptOffset(m) \in counts /\ \A k \in counts : k <= AttemptOffset(m)
  BY <1>2 DEF AttemptOffset
<1>4. \A s \in Sectors : IsRetryableState(m[s].state) => m[s].attempts \in counts
  OBVIOUS
<1> HIDE DEF counts
<1> QED BY <1>1, <1>3, <1>4

MethodPolicy(p) ==
    /\ p \in Seq(Stage) /\ Len(p) \in 3 .. 6
    /\ p[1].kind = "fast" /\ p[2].kind = "trim" /\ p[3].kind = "retry"
    /\ \A i \in 1 .. Len(p) :
         /\ p[i].kind = "fast" => i = 1
         /\ p[i].kind = "finalize" => i = Len(p)
         /\ p[i].kind \in {"fast", "trim", "retry"} => p[i].block > 0
         /\ p[i].kind = "trim" => p[i].block = 1
         /\ p[i].kind \in {"trim", "retry"} => p[i].limit \in 1 .. AttemptsMax

LEMMA PolicyForMethodFacts ==
  ASSUME NEW method \in Methods
  PROVE  /\ MethodPolicy(PolicyForMethod(method))
         /\ method = "balanced" => Len(PolicyForMethod(method)) = 6
<1> USE RecoveryPassesAssumption
<1>1. /\ FastStage \in Stage /\ FinalizeStage \in Stage
      /\ \A n \in Nat : TrimStage(n) \in Stage /\ RetryStage(MiddleBlock, n) \in Stage
                        /\ RetryStage(SmallBlock, n) \in Stage /\ RetryStage(1, n) \in Stage
  BY DEF Stage, FastStage, FinalizeStage, TrimStage, RetryStage
<1>2. /\ FastStage.kind = "fast" /\ FastStage.block > 0
      /\ FinalizeStage.kind = "finalize"
      /\ \A n \in Nat : /\ TrimStage(n).kind = "trim" /\ TrimStage(n).block = 1
                        /\ TrimStage(n).limit = n
      /\ \A b, n \in Nat : /\ RetryStage(b, n).kind = "retry" /\ RetryStage(b, n).block = b
                           /\ RetryStage(b, n).limit = n
  BY DEF FastStage, FinalizeStage, TrimStage, RetryStage
<1> HIDE DEF FastStage, FinalizeStage, TrimStage, RetryStage
<1>3. CASE method = "fast"
  <2> DEFINE p == <<FastStage, TrimStage(1), RetryStage(MiddleBlock, 2)>>
  <2>1. PolicyForMethod(method) = p
    BY <1>3 DEF PolicyForMethod
  <2>2. p \in Seq(Stage) /\ Len(p) = 3
    BY <1>1
  <2>3. p[1] = FastStage /\ p[2] = TrimStage(1) /\ p[3] = RetryStage(MiddleBlock, 2)
    OBVIOUS
  <2>4. \A i \in 1 .. 3 : i = 1 \/ i = 2 \/ i = 3
    OBVIOUS
  <2> HIDE DEF p
  <2>5. ASSUME NEW i \in 1 .. 3
        PROVE  /\ p[i].kind = "fast" => i = 1
               /\ p[i].kind = "finalize" => i = 3
               /\ p[i].kind \in {"fast", "trim", "retry"} => p[i].block > 0
               /\ p[i].kind = "trim" => p[i].block = 1
               /\ p[i].kind \in {"trim", "retry"} => p[i].limit \in 1 .. AttemptsMax
    BY <1>2, <2>3, <2>4
  <2>6. p[1].kind = "fast" /\ p[2].kind = "trim" /\ p[3].kind = "retry"
    BY <1>2, <2>3
  <2>7. MethodPolicy(p)
    BY ONLY <2>2, <2>5, <2>6 DEF MethodPolicy
  <2> QED BY ONLY <1>3, <2>1, <2>2, <2>7
<1>4. CASE method = "gentle"
  <2> DEFINE p == <<FastStage, TrimStage(1), RetryStage(MiddleBlock, 2), RetryStage(1, 3)>>
  <2>1. PolicyForMethod(method) = p
    BY <1>4 DEF PolicyForMethod
  <2>2. p \in Seq(Stage) /\ Len(p) = 4
    BY <1>1
  <2>3. p[1] = FastStage /\ p[2] = TrimStage(1) /\ p[3] = RetryStage(MiddleBlock, 2)
        /\ p[4] = RetryStage(1, 3)
    OBVIOUS
  <2>4. \A i \in 1 .. 4 : i = 1 \/ i = 2 \/ i = 3 \/ i = 4
    OBVIOUS
  <2> HIDE DEF p
  <2>5. ASSUME NEW i \in 1 .. 4
        PROVE  /\ p[i].kind = "fast" => i = 1
               /\ p[i].kind = "finalize" => i = 4
               /\ p[i].kind \in {"fast", "trim", "retry"} => p[i].block > 0
               /\ p[i].kind = "trim" => p[i].block = 1
               /\ p[i].kind \in {"trim", "retry"} => p[i].limit \in 1 .. AttemptsMax
    BY <1>2, <2>3, <2>4
  <2>6. p[1].kind = "fast" /\ p[2].kind = "trim" /\ p[3].kind = "retry"
    BY <1>2, <2>3
  <2>7. MethodPolicy(p)
    BY ONLY <2>2, <2>5, <2>6 DEF MethodPolicy
  <2> QED BY ONLY <1>4, <2>1, <2>2, <2>7
<1>5. CASE method = "balanced"
  <2> DEFINE p == <<FastStage, TrimStage(2), RetryStage(MiddleBlock, 3),
                    RetryStage(SmallBlock, 4), RetryStage(1, 6), FinalizeStage>>
  <2>1. PolicyForMethod(method) = p
    BY <1>5 DEF PolicyForMethod
  <2>2. p \in Seq(Stage) /\ Len(p) = 6
    BY <1>1
  <2>3. p[1] = FastStage /\ p[2] = TrimStage(2) /\ p[3] = RetryStage(MiddleBlock, 3)
        /\ p[4] = RetryStage(SmallBlock, 4) /\ p[5] = RetryStage(1, 6) /\ p[6] = FinalizeStage
    OBVIOUS
  <2>4. \A i \in 1 .. 6 : i = 1 \/ i = 2 \/ i = 3 \/ i = 4 \/ i = 5 \/ i = 6
    OBVIOUS
  <2> HIDE DEF p
  <2>5. ASSUME NEW i \in 1 .. 6
        PROVE  /\ p[i].kind = "fast" => i = 1
               /\ p[i].kind = "finalize" => i = 6
               /\ p[i].kind \in {"fast", "trim", "retry"} => p[i].block > 0
               /\ p[i].kind = "trim" => p[i].block = 1
               /\ p[i].kind \in {"trim", "retry"} => p[i].limit \in 1 .. AttemptsMax
    BY <1>2, <2>3, <2>4
  <2>6. p[1].kind = "fast" /\ p[2].kind = "trim" /\ p[3].kind = "retry"
    BY <1>2, <2>3
  <2>7. MethodPolicy(p)
    BY ONLY <2>2, <2>5, <2>6 DEF MethodPolicy
  <2> QED BY ONLY <1>5, <2>1, <2>2, <2>7
<1> QED BY <1>3, <1>4, <1>5

(* A retry cycle adds what was already spent, so every unresolved sector   *)
(* below the counter's maximum may be read again.                          *)
LEMMA RetryPolicyFacts ==
  ASSUME NEW m \in [Sectors -> PassCell], NEW p \in Seq(Stage),
         \A i \in 1 .. Len(p) : p[i].kind \in {"trim", "retry"} => p[i].limit \in 1 .. AttemptsMax
  PROVE  LET q == RetryPolicyWithCurrentAttempts(p, m) IN
         /\ q \in Seq(Stage) /\ Len(q) = Len(p)
         /\ \A i \in 1 .. Len(p) : q[i].kind = p[i].kind /\ q[i].block = p[i].block
         /\ \A i \in 1 .. Len(p) : p[i].kind \in {"trim", "retry"} =>
              /\ q[i].limit \in 1 .. AttemptsMax
              /\ \A s \in Sectors :
                   IsRetryableState(m[s].state) /\ m[s].attempts < AttemptsMax =>
                      m[s].attempts < q[i].limit
<1> DEFINE q == RetryPolicyWithCurrentAttempts(p, m)
           offset == AttemptOffset(m)
<1>1. offset \in 0 .. AttemptsMax
  BY AttemptOffsetFacts
<1>2. ASSUME NEW limit \in 1 .. AttemptsMax
      PROVE  /\ AddRetryAttemptOffset(limit, offset) \in 1 .. AttemptsMax
             /\ \A n \in Nat : n <= offset /\ n < AttemptsMax =>
                  n < AddRetryAttemptOffset(limit, offset)
  <2> HIDE DEF offset
  <2> QED BY <1>1, <1>2, RecoveryPassesAssumption DEF AddRetryAttemptOffset
<1>3. Len(p) \in Nat /\ \A i \in 1 .. Len(p) : p[i] \in Stage
  OBVIOUS
<1>4. q = [i \in 1 .. Len(p) |->
             IF p[i].kind \in {"trim", "retry"}
             THEN [p[i] EXCEPT !.limit = AddRetryAttemptOffset(@, offset)] ELSE p[i]]
  BY DEF RetryPolicyWithCurrentAttempts
<1> HIDE DEF q, offset
<1>5. ASSUME NEW i \in 1 .. Len(p)
      PROVE  /\ q[i] \in Stage /\ q[i].kind = p[i].kind /\ q[i].block = p[i].block
             /\ p[i].kind \in {"trim", "retry"} =>
                  q[i].limit = AddRetryAttemptOffset(p[i].limit, offset)
  <2>1. CASE p[i].kind \in {"trim", "retry"}
    <3>1. q[i] = [p[i] EXCEPT !.limit = AddRetryAttemptOffset(p[i].limit, offset)]
      BY <1>4, <2>1
    <3>2. AddRetryAttemptOffset(p[i].limit, offset) \in Nat
      BY <1>2, <2>1, RecoveryPassesAssumption
    <3> QED BY <1>3, <3>1, <3>2 DEF Stage
  <2>2. CASE p[i].kind \notin {"trim", "retry"}
    BY <1>3, <1>4, <2>2
  <2> QED BY <2>1, <2>2
<1>6. q \in Seq(Stage) /\ Len(q) = Len(p)
  <2>1. q \in [1 .. Len(p) -> Stage]
    BY <1>4, <1>5
  <2> QED BY <1>3, <2>1
<1>7. ASSUME NEW i \in 1 .. Len(p), p[i].kind \in {"trim", "retry"}
      PROVE  /\ q[i].limit \in 1 .. AttemptsMax
             /\ \A s \in Sectors :
                  IsRetryableState(m[s].state) /\ m[s].attempts < AttemptsMax =>
                     m[s].attempts < q[i].limit
  <2>1. \A s \in Sectors : IsRetryableState(m[s].state) =>
           m[s].attempts <= offset /\ m[s].attempts \in Nat
    BY AttemptOffsetFacts, CellFacts, RecoveryPassesAssumption DEF offset
  <2>2. q[i].limit = AddRetryAttemptOffset(p[i].limit, offset) /\ p[i].limit \in 1 .. AttemptsMax
    BY <1>5, <1>7
  <2> QED BY <1>2, <2>1, <2>2
<1> QED BY <1>5, <1>6, <1>7 DEF q

LEMMA StartRunKeeps ==
  ASSUME IInv, NEW method \in Methods, NEW retry \in BOOLEAN, StartRun(method, retry)
  PROVE  IInv'
<1> DEFINE opened == RequeueAsUnknown(map)
           base == PolicyForMethod(method)
<1>1. /\ map' = opened /\ durable' = opened
      /\ policy' = IF retry THEN RetryPolicyWithCurrentAttempts(base, opened) ELSE base
      /\ due' = IF retry THEN {s \in UnresolvedSectors(opened) : opened[s].attempts < AttemptsMax}
                         ELSE {}
      /\ stage' = 1 /\ ranges' = {} /\ lba' = 0 /\ pc' = "run" /\ outcome' = "none"
      /\ session' = session + 1 /\ reads' = [s \in Sectors |-> 0] /\ retried' = retried
      /\ retry => method = "balanced"
  BY DEF StartRun
<1>2. ASSUME NEW s \in Sectors
      PROVE  /\ opened[s] \in PassCell /\ opened[s].state # "queued"
             /\ opened[s].attempts = map[s].attempts
             /\ opened[s] = Absent <=> map[s] = Absent
  <2>1. map[s] \in PassCell
    BY DEF IInv, Shape
  <2>2. CASE map[s].state = "queued"
    <3>1. opened[s] = [state |-> "unknown", confidence |-> ConfidenceNone,
                       attempts |-> map[s].attempts]
      BY <2>2 DEF RequeueAsUnknown
    <3>2. map[s] # Absent /\ map[s].attempts \in 1 .. AttemptsMax
      BY <2>1, <2>2, CellFacts, RecoveryPassesAssumption
    <3> QED BY <3>1, <3>2 DEF PassCell, Absent
  <2>3. CASE map[s].state # "queued"
    BY <2>1, <2>3 DEF RequeueAsUnknown
  <2> QED BY <2>2, <2>3
<1>3. opened \in [Sectors -> PassCell]
  BY <1>2 DEF RequeueAsUnknown
<1>4. MethodPolicy(base) /\ (retry => Len(base) = 6)
  BY <1>1, PolicyForMethodFacts
<1> HIDE DEF opened, base
<1>5. /\ policy' \in Seq(Stage) /\ Len(policy') = Len(base) /\ Len(base) \in 3 .. 6
      /\ \A i \in 1 .. Len(base) : policy'[i].kind = base[i].kind /\ policy'[i].block = base[i].block
      /\ \A i \in 1 .. Len(base) : base[i].kind \in {"trim", "retry"} =>
           /\ policy'[i].limit \in 1 .. AttemptsMax
           /\ retry => \A s \in Sectors :
                 IsRetryableState(opened[s].state) /\ opened[s].attempts < AttemptsMax =>
                    opened[s].attempts < policy'[i].limit
  <2>1. /\ base \in Seq(Stage) /\ Len(base) \in 3 .. 6
        /\ \A i \in 1 .. Len(base) : base[i].kind \in {"trim", "retry"} =>
              base[i].limit \in 1 .. AttemptsMax
    BY <1>4 DEF MethodPolicy
  <2>2. CASE retry
    <3>1. policy' = RetryPolicyWithCurrentAttempts(base, opened)
      BY <1>1, <2>2
    <3> QED BY <1>3, <2>1, <3>1, RetryPolicyFacts
  <2>3. CASE ~retry
    BY <1>1, <2>1, <2>3
  <2> QED BY <2>2, <2>3
<1>6. due' \subseteq Sectors /\ (due' # {} => retry)
      /\ \A s \in due' : IsRetryableState(opened[s].state) /\ opened[s].attempts < AttemptsMax
  BY <1>1 DEF UnresolvedSectors
<1>7. PolicyFits'
  <2>1. policy'[1].kind = "fast" /\ policy'[2].kind = "trim" /\ policy'[3].kind = "retry"
    BY <1>4, <1>5 DEF MethodPolicy
  <2>2. ASSUME NEW i \in 1 .. Len(base)
        PROVE  /\ policy'[i].kind = "fast" => i = 1
               /\ policy'[i].kind = "finalize" => i = Len(base)
               /\ policy'[i].kind \in {"fast", "trim", "retry"} => policy'[i].block > 0
               /\ policy'[i].kind = "trim" => policy'[i].block = 1
               /\ policy'[i].kind \in {"trim", "retry"} => policy'[i].limit <= AttemptsMax
    <3>1. /\ policy'[i].kind = base[i].kind /\ policy'[i].block = base[i].block
          /\ base[i].kind \in {"trim", "retry"} => policy'[i].limit \in 1 .. AttemptsMax
      BY <1>5
    <3> QED BY <1>4, <3>1, RecoveryPassesAssumption DEF MethodPolicy
  <2>3. due' # {} => Len(policy') > 3
    BY <1>4, <1>5, <1>6
  <2> QED BY <1>5, <2>1, <2>2, <2>3 DEF PolicyFits
<1>8. /\ Kind' = "fast" /\ Block' = {} /\ Ahead' = 0
  BY <1>1, <1>4, <1>5 DEF Kind, Block, Ahead, MethodPolicy
<1>9. Shape'
  <2>1. 1 \in 1 .. Len(policy') + 1 /\ 1 <= Len(policy')
    BY <1>5
  <2>2. session' \in Nat /\ retried' \in [Sectors -> Nat] /\ reads' \in [Sectors -> Nat]
    BY <1>1 DEF IInv, Shape
  <2> QED BY <1>1, <1>3, <1>5, <1>6, <2>1, <2>2, CapacityAssumption DEF Shape
<1>10. CompleteCoversMedium' /\ RetryCycleRereads'
  BY <1>1 DEF CompleteCoversMedium, RetryCycleRereads
<1>11. QueuedIsBlock'
  BY <1>1, <1>2, <1>8 DEF QueuedIsBlock
<1>12. RangesInOrder' /\ RestIsExtent'
  BY <1>8 DEF RangesInOrder, RestIsExtent
<1>13. StagesCover'
  BY <1>1, <1>8, CapacityAssumption DEF StagesCover, Sectors
<1>14. ReadsFit'
  BY <1>1, <1>8 DEF ReadsFit
<1>15. Counted(map)' /\ Counted(durable)'
  <2>1. ASSUME NEW s \in Sectors
        PROVE  IF opened[s] = Absent THEN retried[s] = 0 ELSE retried[s] < opened[s].attempts
    <3>1. retried[s] \in Nat /\ map[s].attempts \in Nat
      BY CellFacts DEF IInv, Shape
    <3>2. IF map[s] = Absent THEN retried[s] = 0 ELSE retried[s] < map[s].attempts
      BY <3>1 DEF IInv, Counted
    <3> QED BY <1>2, <3>2
  <2>2. \A s \in Sectors : retried[s] \in Nat /\ opened[s].attempts \in Nat
    BY <1>3, CellFacts DEF IInv, Shape
  <2> QED BY <1>1, <1>8, <2>1, <2>2 DEF Counted
<1>16. DueInTime'
  <2>1. ASSUME NEW s \in due', NEW i \in 1 .. Len(policy'),
               policy'[i].kind \in {"trim", "retry"}
        PROVE  opened[s].attempts < policy'[i].limit
    BY <1>5, <1>6, <2>1
  <2> QED BY <1>1, <1>6, <1>8, <2>1 DEF DueInTime
<1> QED BY <1>7, <1>9, <1>10, <1>11, <1>12, <1>13, <1>14, <1>15, <1>16 DEF IInv

----------------------------------------------------------------------------
(* Inductive invariant. *)

LEMMA IInvInit == Init => IInv
<1> SUFFICES ASSUME Init PROVE IInv
  OBVIOUS
<1> USE CapacityAssumption, RecoveryPassesAssumption DEF Init
<1>1. \A s \in Sectors : map[s] = Absent /\ durable[s] = Absent
  BY DEF EmptyMap
<1>2. Shape
  BY DEF Shape, EmptyMap, PassCell
<1>3. PolicyFits /\ ReadsFit /\ CompleteCoversMedium /\ RetryCycleRereads
  BY DEF PolicyFits, ReadsFit, CompleteCoversMedium, RetryCycleRereads
<1>4. QueuedIsBlock /\ RangesInOrder /\ RestIsExtent /\ StagesCover /\ DueInTime
  BY DEF QueuedIsBlock, RangesInOrder, RestIsExtent, StagesCover, DueInTime
<1>5. Counted(map) /\ Counted(durable)
  BY <1>1 DEF Counted
<1> QED BY <1>2, <1>3, <1>4, <1>5 DEF IInv

LEMMA IInvStep == IInv /\ [Next]_vars => IInv'
<1> SUFFICES ASSUME IInv, [Next]_vars PROVE IInv'
  OBVIOUS
<1>1. ASSUME NEW method \in Methods, NEW retry \in BOOLEAN, StartRun(method, retry)
      PROVE  IInv'
  BY <1>1, StartRunKeeps
<1>2. CASE FastSkip
  BY <1>2, FastSkipKeeps
<1>3. CASE RetrySkip
  BY <1>3, RetrySkipKeeps
<1>4. CASE QueueRetry
  BY <1>4, QueueRetryKeeps
<1>5. CASE FinalizeRange
  BY <1>5, FinalizeRangeKeeps
<1>6. CASE FinishStage
  BY <1>6, CompleteKeeps, NextStageKeeps
<1>7. ASSUME NEW ok \in BOOLEAN, FastRead(ok) \/ RetryRead(ok)
      PROVE  IInv'
  BY <1>7, FastReadKeeps, RetryReadKeeps
<1>8. CASE Stop \/ SourceLost \/ Crash
  BY <1>8, StopKeeps
<1>9. CASE Finished \/ UNCHANGED vars
  BY <1>9, StutterKeeps DEF Finished
<1> QED BY <1>1, <1>2, <1>3, <1>4, <1>5, <1>6, <1>7, <1>8, <1>9 DEF Next, PassStep

(* Any run, by any method, after any history of runs, keeps the invariant. *)
THEOREM PassesInvariant == Spec => []IInv
BY IInvInit, IInvStep, PTL DEF Spec

----------------------------------------------------------------------------
LEMMA PassCellIsCell == PassCell \subseteq {c \in Cell : c.attempts <= AttemptsMax}
<1> SUFFICES ASSUME NEW c \in PassCell PROVE c \in Cell /\ c.attempts <= AttemptsMax
  OBVIOUS
<1> USE RecoveryPassesAssumption DEF Cell, SectorState, Confidence, ConfidenceNone,
        ConfidenceSingleRead, ConfidenceReconstructedChecksum
<1>1. CASE c = Absent
  BY <1>1 DEF Absent
<1>2. CASE c \in [state : {"unknown", "queued", "io_error", "missing"},
                  confidence : {ConfidenceNone}, attempts : 1 .. AttemptsMax]
  BY <1>2
<1>3. CASE c \in [state : {"read_unverified"}, confidence : {ConfidenceSingleRead},
                  attempts : 1 .. AttemptsMax]
  BY <1>3
<1> QED BY <1>1, <1>2, <1>3 DEF PassCell

(* The passes keep their state well-formed: attempts stay within the       *)
(* counter, the position within the medium, the ranges within the map.     *)
THEOREM PassesTypeCorrect == Spec => []TypeOK
<1>1. IInv => TypeOK
  <2> SUFFICES ASSUME IInv PROVE TypeOK
    OBVIOUS
  <2>1. /\ map \in SectorMaps /\ durable \in SectorMaps
        /\ \A s \in Sectors : map[s].attempts <= AttemptsMax
    BY PassCellIsCell DEF IInv, Shape, SectorMaps
  <2> QED BY <2>1 DEF IInv, Shape, TypeOK
<1> QED BY <1>1, PassesInvariant, PTL

(* The map accepts every record of every pass.                             *)
THEOREM RecordsAreLegal == Spec => []PassesRecordLegally
<1>1. IInv => PassesRecordLegally
  BY DEF IInv, Shape, PassesRecordLegally
<1> QED BY <1>1, PassesInvariant, PTL

(* A complete run has covered the medium, durably, and one that finalizes  *)
(* has left nothing deferred.                                              *)
THEOREM CompleteRunsCoverMedium == Spec => []CompleteCoversMedium
<1>1. IInv => CompleteCoversMedium
  BY DEF IInv
<1> QED BY <1>1, PassesInvariant, PTL

(* However extents merge and split, a pass reads a sector at most once.    *)
THEOREM PassesReadOnce == Spec => []OneReadPerPass
<1>1. IInv => OneReadPerPass
  BY DEF IInv, ReadsFit, OneReadPerPass
<1> QED BY <1>1, PassesInvariant, PTL

(* Every retry read is in the attempts a crash leaves a sector with.       *)
THEOREM NoRetryForgotten == Spec => []RetriesAreCounted
<1>1. IInv => RetriesAreCounted
  <2> SUFFICES ASSUME IInv, NEW s \in Sectors, retried[s] > 0
               PROVE  retried[s] < durable[s].attempts
    BY DEF RetriesAreCounted
  <2>1. retried[s] \in Nat /\ durable[s].attempts \in Nat
    BY CellFacts DEF IInv, Shape
  <2> QED BY <2>1 DEF IInv, Counted
<1> QED BY <1>1, PassesInvariant, PTL

(* A retry cycle that completes has read all that was unresolved.          *)
THEOREM RetryCyclesReread == Spec => []RetryCycleRereads
<1>1. IInv => RetryCycleRereads
  BY DEF IInv
<1> QED BY <1>1, PassesInvariant, PTL
=============================================================================
