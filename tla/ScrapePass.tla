----------------------------- MODULE ScrapePass -----------------------------
(***************************************************************************)
(* The scrape pass scheduler (recovery/scrape_pass.go): the last sectors,  *)
(* one at a time and in turn, each climbing a ladder of read groups        *)
(* (immediate, reverse, lower speed, reopen, reset) while the budgets of   *)
(* the groups last.                                                        *)
(*                                                                         *)
(* At most one of the four pending flags of a sector is set, so they are   *)
(* one field.  A group the drive or the user rules out (SpeedSupported,    *)
(* ResetEnabled) is a group without a budget.                              *)
(***************************************************************************)
EXTENDS Integers, Sequences

VARIABLES scrapeQueue,        \* Queue: [lba, group, reads, pending]
          scrapeBudget,       \* DelayBudget, SpeedBudget, ReopenBudget, ResetBudget
          scrapeSpeed,        \* CurrentSpeed
          scrapeActive,       \* kind of ActiveDecision, or "none"
          recoveredSectors,   \* RecoveredSectors
          failedSectors,      \* FailedSectors
          scrapeFailures      \* history: failed reads of each sector

scrapeVars == <<scrapeQueue, scrapeBudget, scrapeSpeed, scrapeActive,
                recoveredSectors, failedSectors, scrapeFailures>>

Prepared == {"delay", "set_speed", "reopen", "reset"}

(* The groups above the first two, and the preparation each of them needs. *)
Groups == <<"immediate", "reverse", "lower_speed", "reopen", "reset">>

Preparation == [lower_speed |-> "set_speed", reopen |-> "reopen", reset |-> "reset"]

ReadsPerGroup(group) == IF group \in {"reopen", "reset"} THEN 1 ELSE 2

Affordable(i) ==
    Groups[i] \in DOMAIN Preparation => scrapeBudget[Preparation[Groups[i]]] > 0

(* Mutant: the reads of a group are counted on in the next. *)
NextGroupCounting(sector) ==
    {[sector EXCEPT !.group = Groups[j],
                    !.pending = IF Groups[j] \in DOMAIN Preparation
                                THEN Preparation[Groups[j]] ELSE "none"] :
        j \in {j \in 1 .. Len(Groups) :
                 \E i \in 1 .. j - 1 :
                    /\ Groups[i] = sector.group
                    /\ Affordable(j)
                    /\ \A k \in i + 1 .. j - 1 : ~Affordable(k)}}

(* advanceScrapeSector, once a group is used up: the sectors it may become. *)
NextGroup(sector) ==
    {[sector EXCEPT !.group = Groups[j], !.reads = 0,
                    !.pending = IF Groups[j] \in DOMAIN Preparation
                                THEN Preparation[Groups[j]] ELSE "none"] :
        j \in {j \in 1 .. Len(Groups) :
                 \E i \in 1 .. j - 1 :
                    /\ Groups[i] = sector.group
                    /\ Affordable(j)
                    /\ \A k \in i + 1 .. j - 1 : ~Affordable(k)}}

RetryInGroup(sector) ==
    [sector EXCEPT !.reads = @ + 1,
                   !.pending = IF scrapeBudget["delay"] > 0 THEN "delay" ELSE "none"]

----------------------------------------------------------------------------

StartScrapePass(lbas, budget) ==
    /\ scrapeQueue = [i \in 1 .. Len(lbas) |->
                        [lba |-> lbas[i], group |-> "immediate", reads |-> 0,
                         pending |-> "none"]]
    /\ scrapeBudget = budget
    /\ scrapeSpeed = "auto"
    /\ scrapeActive = "none"
    /\ recoveredSectors = <<>>
    /\ failedSectors = <<>>
    /\ scrapeFailures = [s \in {lbas[i] : i \in 1 .. Len(lbas)} |-> 0]

(* Only a read waits for the writer. *)
DispatchScrapePass ==
    /\ scrapeActive = "none"
    /\ scrapeQueue # <<>>
    /\ scrapeActive' = IF Head(scrapeQueue).pending = "none"
                       THEN "read" ELSE Head(scrapeQueue).pending
    /\ UNCHANGED <<scrapeQueue, scrapeBudget, scrapeSpeed, recoveredSectors,
                   failedSectors, scrapeFailures>>

(* A preparation whose budget other sectors have used up meanwhile cannot  *)
(* be resolved: the call fails and leaves the decision active.             *)
ResolveScrapePreparation ==
    /\ scrapeActive \in Prepared
    /\ scrapeBudget[scrapeActive] > 0
    /\ scrapeBudget' = [scrapeBudget EXCEPT ![scrapeActive] = @ - 1]
    /\ scrapeSpeed' = IF scrapeActive = "set_speed" THEN "minimum" ELSE scrapeSpeed
    /\ scrapeQueue' = Append(Tail(scrapeQueue),
                             [Head(scrapeQueue) EXCEPT !.pending = "none"])
    /\ scrapeActive' = "none"
    /\ UNCHANGED <<recoveredSectors, failedSectors, scrapeFailures>>

ResolveScrapeSuccess ==
    /\ scrapeActive = "read"
    /\ scrapeActive' = "none"
    /\ scrapeQueue' = Tail(scrapeQueue)
    /\ recoveredSectors' = Append(recoveredSectors, Head(scrapeQueue).lba)
    /\ UNCHANGED <<scrapeBudget, scrapeSpeed, failedSectors, scrapeFailures>>

ResolveScrapeFailure ==
    /\ scrapeActive = "read"
    /\ scrapeActive' = "none"
    /\ LET sector == Head(scrapeQueue)
           last == sector.reads + 1 >= ReadsPerGroup(sector.group)
           later == IF last THEN NextGroup(sector) ELSE {RetryInGroup(sector)}
       IN /\ scrapeFailures' = [scrapeFailures EXCEPT ![sector.lba] = @ + 1]
          /\ \/ /\ later = {}
                /\ scrapeQueue' = Tail(scrapeQueue)
                /\ failedSectors' = Append(failedSectors, sector.lba)
             \/ \E next \in later :
                  /\ scrapeQueue' = Append(Tail(scrapeQueue), next)
                  /\ UNCHANGED failedSectors
    /\ UNCHANGED <<scrapeBudget, scrapeSpeed, recoveredSectors>>

ScrapePassNext ==
    \/ DispatchScrapePass
    \/ ResolveScrapePreparation
    \/ ResolveScrapeSuccess
    \/ ResolveScrapeFailure

(* The sectors of extents that do not overlap, in some order. *)
ScrapeOrders == {lbas \in Seq(Nat) :
                   \A i, j \in 1 .. Len(lbas) : lbas[i] = lbas[j] => i = j}

ScrapePassInit ==
    \E lbas \in ScrapeOrders, budget \in [Prepared -> Nat] : StartScrapePass(lbas, budget)

ScrapePassSpec == ScrapePassInit /\ [][ScrapePassNext]_scrapeVars

----------------------------------------------------------------------------

(* Places of a sector in a sequence of sector numbers. *)
Times(seq, s) == {i \in 1 .. Len(seq) : seq[i] = s}

QueuedLBAs == [i \in 1 .. Len(scrapeQueue) |-> scrapeQueue[i].lba]

(* However the sectors take turns, each of them is in exactly one place:   *)
(* waiting, recovered or given up; and one is given up only after the two  *)
(* immediate and the two reverse reads, and after at most eight in all.    *)
ScrapePassAccounts ==
    \A s \in DOMAIN scrapeFailures :
        /\ \E i \in 1 .. 3 :
             LET places == <<Times(QueuedLBAs, s), Times(recoveredSectors, s),
                             Times(failedSectors, s)>>
             IN /\ \E p \in places[i] : places[i] = {p}
                /\ \A j \in 1 .. 3 \ {i} : places[j] = {}
        /\ scrapeFailures[s] <= 8
        /\ Times(failedSectors, s) # {} => scrapeFailures[s] >= 4

(* Two sectors are promised the same last unit of a budget. *)
BudgetOvercommitted ==
    scrapeActive \in Prepared /\ scrapeBudget[scrapeActive] = 0
=============================================================================
