--------------------------- MODULE ContentIdentity ---------------------------
(***************************************************************************)
(* Recognising an inserted disc (package catalog): the collector reads a   *)
(* few planned sectors within a time budget, the lookup compares them with *)
(* the entries of the catalog within a budget of comparisons, and the      *)
(* match is turned into what the user may do.                              *)
(*                                                                         *)
(* A sample is told apart by whether it was readable and, for one of an    *)
(* earlier disc, whether its data is that of the disc inserted now.        *)
(***************************************************************************)
EXTENDS Integers, Sequences, FiniteSets, FiniteSetsExt

CONSTANTS MinimumStrongSamples,  \* matches that make a strong match
          MaxComparedSamples,    \* LookupBudget
          TotalBudget, ReadDeadline   \* time of a collection and of one read

ASSUME ContentIdentityAssumption ==
    /\ MinimumStrongSamples \in Nat \ {0} /\ MaxComparedSamples \in Nat \ {0}
    /\ TotalBudget \in Nat \ {0} /\ ReadDeadline \in Nat \ {0}

VARIABLES sectorCount,        \* of the inserted disc
          history,            \* Store.Entries
          samples,            \* the collected samples, by slot
          clock,              \* time since the collection began
          position,           \* entry the lookup is at; 0 while collecting
          compared,           \* samples compared so far
          best                \* LookupResult

identityVars == <<sectorCount, history, samples, clock, position, compared, best>>

(* Slots of a small disc whose sector has no slot yet are left out.        *)
SlotLBA(n, slot) == IF slot = 7 THEN n - 1 ELSE ((n - 1) * slot) \div 8

BuildSamplePlan(n) ==
    {slot \in 0 .. 7 : \A s \in 0 .. slot - 1 : SlotLBA(n, s) # SlotLBA(n, slot)}

(* An entry of the catalog: visible or hidden, of the same geometry and    *)
(* layout or not, and per slot the same data, other data or none.          *)
EntriesOf(n, states) ==
    [hidden : BOOLEAN, compatible : BOOLEAN, state : states, filesPresent : BOOLEAN,
     samples : [BuildSamplePlan(n) -> {"same", "other", "unavailable"}]]

EntryStates == {"observed", "in_progress", "stopped_resumable", "completed_verified",
                "completed", "completed_with_gaps", "failed", "merged"}

NoMatch == [match |-> "no", entry |-> 0, evidence |-> 0, exhausted |-> FALSE]

Rank == [no |-> 0, indeterminate |-> 1, probable |-> 2, strong |-> 3, conflict |-> 4]

----------------------------------------------------------------------------
(* Comparing the collected samples with those of an entry. *)

Planned == BuildSamplePlan(sectorCount)

Available(slot) == samples[slot] = "available"

(* BuildQuickContentID: only if every planned sample is available.         *)
QuickID == \A slot \in Planned : slot \in DOMAIN samples /\ Available(slot)

Common(e) == {slot \in Planned : Available(slot) /\ e.samples[slot] # "unavailable"}

Differing(e) == {slot \in Common(e) : e.samples[slot] = "other"}

SameQuickID(e) == QuickID /\ \A slot \in Planned : e.samples[slot] = "same"

(* Common samples in slot order, as many as the budget allows, up to and   *)
(* including the first that differs.                                       *)
ComparedSlots(e, budget) ==
    {slot \in Common(e) :
        /\ Cardinality({s \in Common(e) : s < slot}) < budget
        /\ \A s \in Differing(e) : slot <= s}

CompareContentIdentity(e, i, budget) ==
    LET slots == ComparedSlots(e, budget)
        n == Cardinality(slots)
        conflict == slots \cap Differing(e) # {}
        exhausted == ~conflict /\ n < Cardinality(Common(e))
    IN IF SameQuickID(e)
       THEN [match |-> "strong", entry |-> i, evidence |-> 0, exhausted |-> FALSE]
       ELSE [match |-> IF conflict THEN "conflict"
                       ELSE IF exhausted THEN "indeterminate"
                       ELSE IF n >= MinimumStrongSamples THEN "strong"
                       ELSE IF n >= 1 THEN "probable" ELSE "indeterminate",
             entry |-> i, evidence |-> n, exhausted |-> exhausted]

Telling == {"conflict", "strong", "probable"}

(* Mutant: of two results of one kind the later is taken. *)
selectLaterResult(current, candidate) ==
    IF Rank[candidate.match] >= 3 \/ candidate.match = current.match
    THEN candidate ELSE current

selectStrongerResult(current, candidate) ==
    IF \/ Rank[candidate.match] > Rank[current.match]
       \/ /\ candidate.match = current.match
          /\ \/ current.exhausted
             \/ candidate.match \in Telling /\ candidate.evidence > current.evidence
    THEN candidate ELSE current

Comparable(e) == ~e.hidden /\ e.compatible

----------------------------------------------------------------------------

StartIdentity(n, entries) ==
    /\ sectorCount = n
    /\ history = entries
    /\ samples = [slot \in {} |-> "available"]
    /\ clock = 0
    /\ position = 0
    /\ compared = 0
    /\ best = NoMatch

(* Any disc with sectors, and any history of discs with its plan.          *)
IdentityInit ==
    \E n \in Nat \ {0} : \E entries \in Seq(EntriesOf(n, EntryStates)) :
        StartIdentity(n, entries)

NextSlot == Min(Planned \ DOMAIN samples)

AddSample(sample) ==
    samples' = [slot \in DOMAIN samples \cup {NextSlot} |->
                  IF slot \in DOMAIN samples THEN samples[slot] ELSE sample]

(* The reader gives up at its deadline, which is cut to the time left; a   *)
(* failed read, a short one and a timeout are all unreadable samples.      *)
CollectSample ==
    /\ position = 0 /\ Planned # DOMAIN samples
    /\ clock < TotalBudget
    /\ LET deadline == Min({ReadDeadline, TotalBudget - clock})
       IN \E taken \in 0 .. deadline, sample \in {"available", "unreadable"} :
            /\ clock' = clock + taken
            /\ AddSample(sample)
    /\ UNCHANGED <<sectorCount, history, position, compared, best>>

SkipSample ==
    /\ position = 0 /\ Planned # DOMAIN samples
    /\ clock >= TotalBudget
    /\ AddSample("skipped")
    /\ UNCHANGED <<sectorCount, history, clock, position, compared, best>>

BeginLookup ==
    /\ position = 0 /\ Planned = DOMAIN samples
    /\ position' = 1
    /\ UNCHANGED <<sectorCount, history, samples, clock, compared, best>>

LookupDone == position > Len(history)

SkipEntry ==
    /\ position > 0 /\ ~LookupDone
    /\ ~Comparable(history[position])
    /\ position' = position + 1
    /\ UNCHANGED <<sectorCount, history, samples, clock, compared, best>>

(* The lookup returns at a conflict, and when the budget is used up.       *)
CompareEntry ==
    /\ position > 0 /\ ~LookupDone
    /\ Comparable(history[position])
    /\ LET result == CompareContentIdentity(history[position], position,
                                            MaxComparedSamples - compared)
           total == compared + result.evidence
           spent == result.exhausted \/ total >= MaxComparedSamples
           stronger == selectStrongerResult(best, result)
       IN /\ compared' = total
          /\ best' = [stronger EXCEPT !.exhausted = @ \/ (spent /\ stronger.match # "conflict")]
          /\ position' = IF spent \/ stronger.match = "conflict"
                         THEN Len(history) + 1 ELSE position + 1
    /\ UNCHANGED <<sectorCount, history, samples, clock>>

IdentityNext == CollectSample \/ SkipSample \/ BeginLookup \/ SkipEntry \/ CompareEntry

IdentitySpec == IdentityInit /\ [][IdentityNext]_identityVars

----------------------------------------------------------------------------
(* LookupPriorProcessing: what the match allows. *)

PriorProcessingKind ==
    LET e == history[best.entry]
    IN IF best.match = "strong"
       THEN IF ~e.filesPresent THEN "files_unavailable"
            ELSE IF e.state = "stopped_resumable" THEN "strong_resume"
            ELSE "strong_completed"
       ELSE IF best.match = "no" THEN "none" ELSE best.match

AutoResumeAllowed == PriorProcessingKind = "strong_resume"

----------------------------------------------------------------------------

(* What all samples together say of an entry, whatever order and budget.   *)
Evidence(e) ==
    LET n == Cardinality(Common(e))
    IN IF Differing(e) # {} THEN "conflict"
       ELSE IF SameQuickID(e) \/ n >= MinimumStrongSamples THEN "strong"
       ELSE IF n >= 1 THEN "probable" ELSE "indeterminate"

(* Lookup stops early, at a conflict or when a budget of time or of        *)
(* comparisons runs out; and yet: only an entry whose every common sample  *)
(* agrees is a strong match or resumed automatically, and unless the       *)
(* comparisons ran out the result is the strongest any entry would give    *)
(* ("conflict wins over every weaker result").  A collection that ran out  *)
(* of time has no quick id, and never takes longer than its budget.        *)
MatchIsJustified ==
    /\ clock <= TotalBudget
    /\ "skipped" \in {samples[slot] : slot \in DOMAIN samples} =>
         ~QuickID /\ clock = TotalBudget
    /\ position > 0 /\ LookupDone =>
        LET candidates == {i \in 1 .. Len(history) : Comparable(history[i])}
            found == {Evidence(history[i]) : i \in candidates}
        IN /\ best.match = "strong" => /\ best.entry \in candidates
                                       /\ Evidence(history[best.entry]) = "strong"
           /\ AutoResumeAllowed => "strong" \in found /\ history[best.entry].filesPresent
           /\ compared <= MaxComparedSamples
           /\ ~best.exhausted =>
                /\ candidates = {} => best.match = "no"
                /\ \A match \in found : Rank[match] <= Rank[best.match]
                /\ candidates # {} => best.match \in found
=============================================================================
