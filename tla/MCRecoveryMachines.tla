------------------------- MODULE MCRecoveryMachines -------------------------
(***************************************************************************)
(* The state machines that call no other part of the program, one per      *)
(* behaviour: each behaviour starts one of them on some input and leaves   *)
(* the others as they began.                                               *)
(***************************************************************************)
EXTENDS FastPass, TrimPass, AdaptivePass, ScrapePass, StopController, Merge, TLC

CONSTANT MaxBudget            \* bound on the scrape budgets

VARIABLE machine              \* which of them this behaviour runs

vars == <<machine, fastVars, trimVars, adaptiveVars, scrapeVars, stopVars, mergeVars>>

UnknownCell(n) == [state |-> "unknown", confidence |-> ConfidenceNone, attempts |-> n]

ReadCell == [state |-> "read_unverified", confidence |-> ConfidenceSingleRead,
             attempts |-> 1]

FastMaps == [Sectors -> {Absent, UnknownCell(0), UnknownCell(1), ReadCell}]

TrimTargets == [start : 0 .. 1, end : 1 .. CapacitySectors]

(* One or two unresolved extents of the medium. *)
AdaptiveExtents ==
    LET E == {e \in [start : Sectors, sectors : 1 .. CapacitySectors, attempts : 0 .. 1] :
                e.start + e.sectors <= CapacitySectors}
    IN {X \in {{e, f} : e, f \in E} :
          \A e, f \in X : e = f \/ e.start + e.sectors <= f.start
                                \/ f.start + f.sectors <= e.start}

ScrapeLists == {<<0>>, <<0, 1>>, <<1, 3>>}

ScrapeBudgets == [Prepared -> 0 .. MaxBudget]

NoTrim == [start |-> 0, end |-> 1]

NoBudget == [p \in Prepared |-> 0]

(* Captures of two sectors, each read once, verified by repeated reads or  *)
(* by a checksum, or reconstructed, with one of two contents, or lost.     *)
Claims == {[state |-> s.state, confidence |-> s.confidence, hash |-> h] :
             s \in {[state |-> "read_unverified", confidence |-> ConfidenceSingleRead],
                   [state |-> "verified", confidence |-> ConfidenceRepeatedSingleCapture],
                   [state |-> "verified", confidence |-> ConfidenceTrustedChecksum],
                   [state |-> "reconstructed", confidence |-> ConfidenceReconstructedChecksum]},
             h \in Hashes \ {"none"}}
          \cup {[state |-> "io_error", confidence |-> ConfidenceNone, hash |-> "none"]}

Extents(start, sectors) == {[start |-> start, sectors |-> sectors] @@ c : c \in Claims}

ExtentSets ==
    {{}} \cup {{e} : e \in Extents(0, 1) \cup Extents(1, 1) \cup Extents(0, 2)}
    \cup {{e, f} : e \in Extents(0, 1), f \in Extents(1, 1)}

CaptureOf(id, same, extents) == [id |-> id, sameContents |-> same, extents |-> extents]

MergeInputs ==
    {<<CaptureOf("a", TRUE, X), CaptureOf("b", TRUE, Y)>> : X, Y \in ExtentSets}
    \cup {<<CaptureOf("a", TRUE, {e}), CaptureOf("b", TRUE, {f}), CaptureOf(id, same, {g})>> :
             e \in Extents(0, 2), f, g \in Extents(1, 1), id \in {"a", "c"}, same \in BOOLEAN}
    \cup {<<>>}

Machine == {"fast", "trim", "adaptive", "scrape", "stop", "merge"}

Init ==
    /\ machine \in Machine
    /\ IF machine = "fast" THEN \E m \in FastMaps : StartFastPass(m)
                           ELSE StartFastPass(EmptyMap)
    /\ IF machine = "trim" THEN \E t \in TrimTargets : StartTrimPass(t)
                           ELSE StartTrimPass(NoTrim)
    /\ IF machine = "adaptive"
       THEN \E X \in AdaptiveExtents, head \in {0, CapacitySectors} : StartAdaptivePass(X, head)
       ELSE StartAdaptivePass({}, 0)
    /\ IF machine = "scrape"
       THEN \E l \in ScrapeLists, b \in ScrapeBudgets : StartScrapePass(l, b)
       ELSE StartScrapePass(<<>>, NoBudget)
    /\ StopInit
    /\ IF machine = "merge" THEN \E given \in MergeInputs : StartMerge(given)
                            ELSE StartMerge(<<>>)

Next ==
    /\ UNCHANGED machine
    /\ IF machine = "fast" THEN FastPassNext ELSE UNCHANGED fastVars
    /\ IF machine = "trim" THEN TrimPassNext ELSE UNCHANGED trimVars
    /\ IF machine = "adaptive" THEN AdaptivePassNext ELSE UNCHANGED adaptiveVars
    /\ IF machine = "scrape" THEN ScrapePassNext ELSE UNCHANGED scrapeVars
    /\ IF machine = "stop" THEN StopNext ELSE UNCHANGED stopVars
    /\ IF machine = "merge" THEN MergeNext ELSE UNCHANGED mergeVars

PassStep == machine \notin {"stop", "merge"} /\ Next

(* A caller that dispatches and resolves until the pass says it is done,   *)
(* and a writer that catches up.                                           *)
Spec == Init /\ [][Next]_vars /\ WF_vars(PassStep)

(* Every pass ends, whatever the reads return.  The scrape pass may stop   *)
(* short in one place only: it promised the last unit of a budget to two   *)
(* sectors and cannot resolve the second one's preparation.                *)
PassesEnd ==
    /\ machine = "fast" ~> fastMode = "done"
    /\ machine = "trim" ~> trimMode = "done"
    /\ machine = "adaptive" ~> adaptiveMode = "done"
    /\ machine = "scrape" ~> \/ scrapeQueue = <<>> /\ scrapeActive = "none"
                             \/ BudgetOvercommitted
=============================================================================
