--------------------------- MODULE RecoveryPasses ---------------------------
(***************************************************************************)
(* The order in which a recovery reads the medium                          *)
(* (runPassBasedRecoveryWithPolicy and its passes in package platform):    *)
(* fast acquisition over everything unmapped, then trim, adaptive and      *)
(* targeted passes over what is still deferred, then finalization.  A run  *)
(* may be stopped, may fail or may crash anywhere, and the next one goes   *)
(* on from the durable map, by any method, or as the user's retry cycle.   *)
(*                                                                         *)
(* A stage of a policy is one pass.  How a record becomes durable is       *)
(* RecoveryStore's subject: here ApplyExtent is durable when it returns,   *)
(* and a recovered block becomes so at a checkpoint, which may follow any  *)
(* block.  Calls on the two files do not fail.                             *)
(***************************************************************************)
EXTENDS SectorMap

CONSTANTS
    Methods,       \* recovery methods the user may choose
    LargeBlock,    \* sectors of a fast read (64 or 32)
    MiddleBlock,   \* sectors of a first adaptive read (16 or 8)
    SmallBlock,    \* sectors of a second adaptive read (4)
    AttemptsMax,   \* the largest attempts value (uint16 in the code)
    MaxSessions,   \* bound: runs over one map
    Interruptions  \* what may end a run early

ASSUME RecoveryPassesAssumption ==
    /\ Methods \subseteq {"fast", "balanced", "gentle"}
    /\ SmallBlock \in Nat \ {0}
    /\ MiddleBlock \in Nat /\ SmallBlock <= MiddleBlock
    /\ LargeBlock \in Nat /\ MiddleBlock <= LargeBlock
    /\ AttemptsMax \in Nat /\ AttemptsMax >= 6
    /\ MaxSessions \in Nat
    /\ Interruptions \subseteq {"stop", "sourceLost", "crash"}

VARIABLES
    map,       \* the extents of the open session
    durable,   \* what of them a crash leaves
    policy,    \* the stages of this run
    stage,     \* the stage under way
    ranges,    \* ranges the stage has yet to finish
    lba,       \* where it is
    pc,        \* off, run (between reads) or read (a retry is queued)
    outcome,   \* how the last run ended
    session,   \* runs so far
    reads,     \* reads of each sector in this pass of this run
    retried,   \* retry reads of each sector over all runs
    due        \* sectors a retry cycle was started for and has not read yet

passVars == <<policy, stage, ranges, lba>>
ghostVars == <<session, reads, retried, due>>
vars == <<map, durable, passVars, pc, outcome, ghostVars>>

Stage == [kind : {"fast", "trim", "retry", "finalize"}, block : Nat, limit : Nat]

Range == [start : Sectors, end : 1 .. CapacitySectors]

(* Type invariant. *)
TypeOK ==
    /\ map \in SectorMaps /\ durable \in SectorMaps
    /\ \A s \in Sectors : map[s].attempts <= AttemptsMax
    /\ policy \in Seq(Stage)
    /\ stage \in 1 .. Len(policy) + 1
    /\ ranges \subseteq Range
    /\ lba \in 0 .. CapacitySectors
    /\ pc \in {"off", "run", "read"}
    /\ outcome \in {"none", "complete", "canceled", "failed", "rejected", "crashed"}
    /\ session \in Nat
    /\ reads \in [Sectors -> Nat] /\ retried \in [Sectors -> Nat]
    /\ due \subseteq Sectors

----------------------------------------------------------------------------
(* Policies. *)

FastStage == [kind |-> "fast", block |-> LargeBlock, limit |-> 0]
TrimStage(limit) == [kind |-> "trim", block |-> 1, limit |-> limit]
RetryStage(block, limit) == [kind |-> "retry", block |-> block, limit |-> limit]
FinalizeStage == [kind |-> "finalize", block |-> 0, limit |-> 0]

(* The passes and attempt limits of the code; block sizes are scaled down. *)
PolicyForMethod(method) ==
    CASE method = "fast" ->
           <<FastStage, TrimStage(1), RetryStage(MiddleBlock, 2)>>
      [] method = "gentle" ->
           <<FastStage, TrimStage(1), RetryStage(MiddleBlock, 2), RetryStage(1, 3)>>
      [] OTHER ->
           <<FastStage, TrimStage(2), RetryStage(MiddleBlock, 3),
             RetryStage(SmallBlock, 4), RetryStage(1, 6), FinalizeStage>>

(* Mutant: the sum of limit and offset wraps around. *)
AddRetryAttemptOffsetWraps(limit, offset) == (limit + offset) % (AttemptsMax + 1)

(* Mutant: the sum of limit and offset may exceed the counter's range. *)
AddRetryAttemptOffsetUnbounded(limit, offset) == limit + offset

AddRetryAttemptOffset(limit, offset) ==
    IF AttemptsMax - limit < offset THEN AttemptsMax ELSE limit + offset

(* Highest attempts of an unresolved extent. *)
AttemptOffset(m) ==
    LET counts == {0} \cup {m[s].attempts : s \in {t \in Sectors : IsRetryableState(m[t].state)}}
    IN  CHOOSE n \in counts : \A k \in counts : k <= n

RetryPolicyWithCurrentAttempts(stages, m) ==
    [i \in 1 .. Len(stages) |->
        IF stages[i].kind \in {"trim", "retry"}
        THEN [stages[i] EXCEPT !.limit = AddRetryAttemptOffset(@, AttemptOffset(m))]
        ELSE stages[i]]

----------------------------------------------------------------------------
(* Extents: the code keeps them coalesced, so an extent is a longest run   *)
(* of equal cells.                                                         *)

ExtentEnd(m, l) ==
    CHOOSE e \in l + 1 .. CapacitySectors :
        /\ e = CapacitySectors \/ m[e] # m[l]
        /\ \A k \in l .. e - 1 : m[k] = m[l]

RetryableExtents(m) ==
    {[start |-> s, end |-> ExtentEnd(m, s)] :
        s \in {t \in Sectors : /\ IsRetryableState(m[t].state)
                               /\ t = 0 \/ m[t - 1] # m[t]}}

(* First and last sector of every range of at least two. *)
TrimEdges(m) ==
    UNION {{[start |-> r.start, end |-> r.start + 1], [start |-> r.end - 1, end |-> r.end]} :
              r \in {x \in RetryableExtents(m) : x.end - x.start > 1}}

StageRanges(s, m) ==
    CASE s.kind = "fast" -> {}
      [] s.kind = "trim" -> TrimEdges(m)
      [] OTHER -> RetryableExtents(m)

First(rs) == CHOOSE r \in rs : \A q \in rs : r.start <= q.start

FirstLBA(rs) == IF rs = {} THEN 0 ELSE First(rs).start

BlockAt(l, sectors, state, confidence, attempts) ==
    [start |-> l, sectors |-> sectors, state |-> state, confidence |-> confidence,
     attempts |-> attempts]

Min(a, b) == IF a < b THEN a ELSE b

(* Mutant: deferred sectors are not counted. *)
UnresolvedSectorsMissing(m) == {s \in Sectors : m[s].state = "missing"}

UnresolvedSectors(m) == {s \in Sectors : IsRetryableState(m[s].state)}

----------------------------------------------------------------------------
Init ==
    /\ map = EmptyMap /\ durable = EmptyMap
    /\ policy = <<>> /\ stage = 1 /\ ranges = {} /\ lba = 0
    /\ pc = "off" /\ outcome = "none" /\ session = 0
    /\ reads = [s \in Sectors |-> 0] /\ retried = [s \in Sectors |-> 0]
    /\ due = {}

(* A run opens the map.  The summary offers a retry cycle, always by the   *)
(* balanced method, when the run it is about left sectors unresolved.      *)
StartRun(method, retry) ==
    /\ pc = "off" /\ session < MaxSessions
    /\ retry => /\ method = "balanced"
                /\ outcome \in {"complete", "canceled", "failed"}
                /\ UnresolvedSectors(map) # {}
    /\ LET opened == RequeueAsUnknown(map)
       IN  /\ map' = opened /\ durable' = opened
           /\ policy' = IF retry
                        THEN RetryPolicyWithCurrentAttempts(PolicyForMethod(method), opened)
                        ELSE PolicyForMethod(method)
           /\ due' = IF retry THEN {s \in UnresolvedSectors(opened) :
                                       opened[s].attempts < AttemptsMax}
                              ELSE {}
    /\ stage' = 1 /\ ranges' = {} /\ lba' = 0
    /\ pc' = "run" /\ outcome' = "none" /\ session' = session + 1
    /\ reads' = [s \in Sectors |-> 0]
    /\ UNCHANGED retried

(* The run returns; its deferred flush makes everything durable. *)
EndRun(how) ==
    /\ durable' = map
    /\ pc' = "off" /\ outcome' = how
    /\ UNCHANGED <<map, passVars>>

(* Put extent e in the map and go on at next.  The map refuses an extent   *)
(* that is no legal transition, which would end the run with an error.     *)
Put(e, next) ==
    LET legal == CanApplyExtent(map, e)
    IN  /\ map' = IF legal THEN ApplyExtent(map, e) ELSE map
        /\ pc' = IF legal THEN next ELSE "off"
        /\ outcome' = IF legal THEN outcome ELSE "rejected"

Running(kinds) ==
    /\ pc = "run"
    /\ stage <= Len(policy)
    /\ policy[stage].kind \in kinds

Read(l, n) ==
    /\ reads' = [s \in Sectors |-> IF l <= s /\ s < l + n THEN reads[s] + 1 ELSE reads[s]]
    /\ due' = due \ (l .. l + n - 1)

----------------------------------------------------------------------------
(* Fast acquisition. *)

FastSkip ==
    /\ Running({"fast"})
    /\ lba < CapacitySectors /\ map[lba] # Absent
    /\ lba' = ExtentEnd(map, lba)
    /\ UNCHANGED <<map, durable, policy, stage, ranges, pc, outcome, ghostVars>>

(* A read ends at the next extent at the latest. *)
FastBlock == Min(policy[stage].block, ExtentEnd(map, lba) - lba)

FastRead(ok) ==
    /\ Running({"fast"})
    /\ lba < CapacitySectors /\ map[lba] = Absent
    /\ IF ok
       THEN /\ Put(BlockAt(lba, FastBlock, "read_unverified", ConfidenceSingleRead, 1), "run")
            /\ durable' \in {durable, map'}
       ELSE /\ Put(BlockAt(lba, FastBlock, "io_error", ConfidenceNone, 1), "run")
            /\ durable' = map'
    /\ lba' = lba + FastBlock
    /\ Read(lba, FastBlock)
    /\ UNCHANGED <<policy, stage, ranges, session, retried>>

----------------------------------------------------------------------------
(* Trim, adaptive and targeted passes: the ranges are those that were      *)
(* deferred when the pass began, the cells those of now.                   *)

(* On to sector to, or to the next range. *)
MoveTo(to) ==
    IF to < First(ranges).end
    THEN lba' = to /\ UNCHANGED ranges
    ELSE ranges' = ranges \ {First(ranges)} /\ lba' = FirstLBA(ranges')

WorthRetry(c) == IsRetryableState(c.state) /\ c.attempts < policy[stage].limit

(* Mutant: a block whose budget is used up is not passed over. *)
RetrySkipStays ==
    /\ Running({"trim", "retry"}) /\ ranges # {}
    /\ ~WorthRetry(map[lba])
    /\ UNCHANGED vars

RetrySkip ==
    /\ Running({"trim", "retry"}) /\ ranges # {}
    /\ ~WorthRetry(map[lba])
    /\ MoveTo(ExtentEnd(map, lba))
    /\ UNCHANGED <<map, durable, policy, stage, pc, outcome, ghostVars>>

RetryBlock == Min(policy[stage].block, ExtentEnd(map, lba) - lba)

(* Mutant: the attempt is staged with the recovered data. *)
QueueRetryStaged ==
    /\ Running({"trim", "retry"}) /\ ranges # {}
    /\ WorthRetry(map[lba])
    /\ Put(BlockAt(lba, RetryBlock, "queued", ConfidenceNone,
                   (map[lba].attempts + 1) % (AttemptsMax + 1)), "read")
    /\ UNCHANGED <<durable, passVars, ghostVars>>

(* The attempt is durable before the read. *)
QueueRetry ==
    /\ Running({"trim", "retry"}) /\ ranges # {}
    /\ WorthRetry(map[lba])
    /\ Put(BlockAt(lba, RetryBlock, "queued", ConfidenceNone,
                   (map[lba].attempts + 1) % (AttemptsMax + 1)), "read")
    /\ durable' = map'
    /\ UNCHANGED <<passVars, ghostVars>>

(* Mutant: a block that fails is read again until its budget is gone. *)
RetryReadInsists(ok) ==
    /\ pc = "read"
    /\ IF ok
       THEN /\ Put(BlockAt(lba, RetryBlock, "read_unverified", ConfidenceSingleRead,
                           map[lba].attempts), "run")
            /\ durable' \in {durable, map'}
            /\ MoveTo(lba + RetryBlock)
       ELSE /\ Put(BlockAt(lba, RetryBlock, "io_error", ConfidenceNone,
                           map[lba].attempts), "run")
            /\ durable' = map'
            /\ UNCHANGED <<lba, ranges>>
    /\ Read(lba, RetryBlock)
    /\ retried' = [s \in Sectors |-> retried[s] + reads'[s] - reads[s]]
    /\ UNCHANGED <<policy, stage, session>>

RetryRead(ok) ==
    /\ pc = "read"
    /\ IF ok
       THEN /\ Put(BlockAt(lba, RetryBlock, "read_unverified", ConfidenceSingleRead,
                           map[lba].attempts), "run")
            /\ durable' \in {durable, map'}
       ELSE /\ Put(BlockAt(lba, RetryBlock, "io_error", ConfidenceNone,
                           map[lba].attempts), "run")
            /\ durable' = map'
    /\ MoveTo(lba + RetryBlock)
    /\ Read(lba, RetryBlock)
    /\ retried' = [s \in Sectors |-> retried[s] + reads'[s] - reads[s]]
    /\ UNCHANGED <<policy, stage, session>>

(* finalizeUnresolvedRanges gives up on one range after the other. *)
FinalizeRange ==
    /\ Running({"finalize"}) /\ ranges # {}
    /\ Put(BlockAt(lba, First(ranges).end - lba, "missing", ConfidenceNone,
                   map[lba].attempts), "run")
    /\ durable' = map'
    /\ MoveTo(First(ranges).end)
    /\ UNCHANGED <<policy, stage, ghostVars>>

----------------------------------------------------------------------------
StageDone ==
    IF policy[stage].kind = "fast" THEN lba >= CapacitySectors ELSE ranges = {}

(* The checkpoint between two passes; the run is complete after the last,  *)
(* or when the fast pass leaves nothing to retry.                          *)
FinishStage ==
    /\ Running({"fast", "trim", "retry", "finalize"})
    /\ StageDone
    /\ IF \/ stage = Len(policy)
          \/ policy[stage].kind = "fast" /\ UnresolvedSectors(map) = {}
       THEN EndRun("complete") /\ UNCHANGED reads
       ELSE /\ durable' = map
            /\ stage' = stage + 1
            /\ ranges' = StageRanges(policy[stage + 1], map)
            /\ lba' = FirstLBA(ranges')
            /\ reads' = [s \in Sectors |-> 0]
            /\ UNCHANGED <<map, policy, pc, outcome>>
    /\ UNCHANGED <<session, retried, due>>

(* The context is checked before and after every read; a retry that was    *)
(* queued stays queued.  Finalization is not interrupted.                  *)
Stop ==
    /\ "stop" \in Interruptions
    /\ \/ pc = "read"
       \/ Running({"fast", "trim", "retry"}) /\ ~StageDone
    /\ EndRun("canceled")
    /\ UNCHANGED ghostVars

(* A read fails for good: the device is gone or access was revoked. *)
SourceLost ==
    /\ "sourceLost" \in Interruptions
    /\ \/ pc = "read"
       \/ Running({"fast"}) /\ lba < CapacitySectors /\ map[lba] = Absent
    /\ EndRun("failed")
    /\ UNCHANGED ghostVars

Crash ==
    /\ "crash" \in Interruptions
    /\ pc # "off"
    /\ map' = durable
    /\ pc' = "off" /\ outcome' = "crashed"
    /\ UNCHANGED <<durable, passVars, ghostVars>>

PassStep ==
    \/ FastSkip \/ RetrySkip \/ QueueRetry \/ FinalizeRange \/ FinishStage
    \/ \E ok \in BOOLEAN : FastRead(ok) \/ RetryRead(ok)

(* All runs are over. *)
Finished == pc = "off" /\ session = MaxSessions /\ UNCHANGED vars

Next ==
    \/ \E method \in Methods, retry \in BOOLEAN : StartRun(method, retry)
    \/ PassStep
    \/ Stop \/ SourceLost \/ Crash
    \/ Finished

Spec == Init /\ [][Next]_vars

(* Reads are bounded by a deadline, so the passes go on. *)
FairSpec == Spec /\ WF_vars(PassStep)

----------------------------------------------------------------------------
(***************************************************************************)
(* Properties.                                                             *)
(***************************************************************************)

(* The map never refuses what a pass records: no pass records over a       *)
(* recovered sector, takes back an attempt or lets the counter wrap, for   *)
(* any order of successes, failures, stops, crashes, methods and retry     *)
(* cycles.                                                                 *)
PassesRecordLegally == outcome # "rejected"

(* A run that completes leaves a durable map without gaps or reads in      *)
(* flight; one that finalizes leaves nothing deferred.                     *)
CompleteCoversMedium ==
    outcome = "complete" =>
        /\ durable = map
        /\ \A s \in Sectors : map[s].state \notin {"absent", "queued"}
        /\ policy[Len(policy)].kind = "finalize" =>
             \A s \in Sectors : map[s].state \notin {"unknown", "io_error"}

(* A pass reads a sector at most once, although a block that fails stays   *)
(* worth a retry and the extents its ranges were taken from merge and      *)
(* split under it.                                                         *)
OneReadPerPass == \A s \in Sectors : reads[s] <= 1

(* No retry is forgotten: on top of the failed first read, every retry     *)
(* read of a sector is in the attempts a crash leaves it with, so          *)
(* restarting cannot extend the budget of a sector.                        *)
RetriesAreCounted ==
    \A s \in Sectors : retried[s] > 0 => retried[s] < durable[s].attempts

(* A retry cycle that completes has read every sector that was unresolved  *)
(* when it began, however unevenly attempts were spread, unless the        *)
(* counter was at its maximum.                                             *)
RetryCycleRereads == outcome = "complete" => due = {}

(* A run ends. *)
RunEnds == pc # "off" ~> pc = "off"
=============================================================================
