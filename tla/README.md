# DiscRescue: specifications and proofs

TLA+ modules about DiscRescue, a terminal program that recovers damaged CDs and
DVDs to an image file and keeps a recovery map (`.drmap`) beside it. Every
definition is translated from the Go source; `PROJECT.json` maps it to its
lines. Paths below are relative to `src/internal/` unless they say otherwise.

    tlc -workers 2 -config RecoveryStoreCrash.cfg MCRecoveryStore
    tlapm RecoveryStoreProofs.tla

## 1. The system

| Component | State it keeps | Operations | Specified in |
| --- | --- | --- | --- |
| Recovery map semantics, `mapfile/` | extents: state, confidence, attempts per sector; journal of numbered, checksummed records | apply an extent, validate a transition, replay, requeue | `SectorMap` |
| Map file and image, `recoverymap/`, `platform/recovery_persistence.go` | two files, extents in memory, staged records, next sequence number | persist, apply durably, checkpoint, flush, close, open | `RecoveryStore`, `DurableProgress` |
| Startup, `recoverymap/transaction.go`, `platform/recovery_map_*.go`, `recovery_output_*.go` | image and map on disk, tracked files of a start | look, create, truncate, write and sync the map, commit, roll back, resume | `Startup` |
| Passes, `platform/recovery_*_pass.go`, `recovery_strategy.go`, `recovery_retry.go`, `recovery_finalize.go` | cursor of the pass, ranges left, budget | fast, trim, adaptive and targeted passes, finalize, retry cycle | `RecoveryPasses` |
| Pure schedulers, `recovery/*_pass.go` | extents, cursors, queues, budgets, active request | dispatch, resolve, checkpoint | `FastPass`, `TrimPass`, `AdaptivePass`, `ScrapePass` |
| Session lifecycle, `recovery/lifecycle.go` | job state, stop intent, active read | start, begin and complete a read, request and force a stop, checkpointed, released | `Lifecycle` |
| Native jobs, `platform/recovery_job_*.go`, `recovery_run_*.go` | lifecycle, snapshot, context, timer, source | run, request stop, force stop, finish | `RecoveryJob` |
| Reopenable source, `recovery/cancelable_reader.go` | descriptor, deadline | read, interrupt, reopen, close | in part in `RecoveryJob` |
| Stop controller, `recovery/stop_controller.go` | lifecycle, timer, finalized flag | the same through hooks | `StopController` |
| Job coordinator, `coordinator/` | one job, pending effect, next token | twelve events in, effects out | `Coordinator` |
| User interface before a recovery, `app/update_media.go`, `update_drive.go`, `update_history.go`, ... | page, cursor, drives, selection, media, saved jobs, request numbers | keys, answers of discovery, inspection, lookup, target, eject | `AppSetup` |
| User interface during a recovery, `app/runtime_recovery_*.go`, `update_recovery.go` | page, remembered page, flags; active recovery and pending pause shared by commands | keys, commands, polls, messages | `AppRecovery` |
| Catalog of processed discs, `catalog/repository*.go`, `service.go`, `journal_apply.go`, `store_compact.go` | journal, lock file, index in memory | open, append, close, replay, compact | `CatalogStore` |
| Content identity, `catalog/sample_plan.go`, `collector.go`, `lookup.go` | samples of the disc, budgets, best match | plan, collect, compare, decide | `ContentIdentity` |
| Merge of captures, `merge/` | none | validate, segment, resolve, join | `Merge` |
| Device worker, `device/`; identity pass, `recovery/pass0.go`; outcome, image writer, shutdown plan | | | not modelled |
| Operating system access, integrity hashes, telemetry, test device, tools | | | not modelled |

How they interact. The setup pages find a drive, inspect its disc, look for
earlier work on it and check an output target, each by a request whose answer
comes from another goroutine. A start then gives a *job* with a handle; the
job's goroutine opens the drive, the image and the map and runs the *passes*.
A pass reads through a gate that asks the *lifecycle* and hands what it read
to the *persistence* layer, which writes the image and stages records of the
*map*. The interface polls the job for a snapshot every 100 ms and asks it to
stop by a call from another goroutine; a timer in the job, started by that
call, turns a read that does not return into an offer to force the stop. The
pure schedulers, the coordinator, the stop controller, the catalog repository
and the merge are packages of their own with tests; the program does not
connect them today, and nothing is claimed of how it would.

What is hard here:

- **Crashes.** Between any two writes or syncs the process may be killed or
  the power fail, and the next session has to resume from what is left.
- **Files shared by path.** Starts in several goroutines or processes look,
  create, fail and roll back on one path; catalogs share a journal and a lock.
- **Stops.** A stop may fall anywhere, and a read in the kernel cannot be
  taken back. Worker, caller and timer run under two different locks.
- **Budgets.** Attempts are counted in the map, across sessions; groups of
  sectors share seeks, speed changes and resets; a lookup and a collection end
  before they are through.
- **Lists taken before a pass** over extents that the pass itself splits, and
  cursors that jump over ranges of different kinds.
- **Late answers**, to effects in the coordinator, to requests of the setup
  pages, from pause, stop and poll commands.

`PROJECT.json` lists the hazards at their lines, with the properties that
guard them.

## 2. What makes each part correct

- *Map and image.* What the map claims is in the image, on the disk. Reported
  progress survives. A crash loses one batch. The memory of a session is what
  replay would give. A map that was established opens again.
- *Startup.* A committed start keeps its image and its map, whatever other
  starts do; a start that failed leaves nothing behind.
- *Passes.* Only legal changes are recorded; "Complete" means every sector was
  decided; a pass reads a sector at most once; no read goes uncounted and no
  attempt is lost; a retry cycle rereads what it should; a run ends.
- *Schedulers.* What a pass moves past was read or marked, never both and
  never twice; extents stay a partition; budgets are respected; a pass ends.
- *Stopping.* No read starts after a stop; the lifecycle never goes back; only
  the user cancels; a read that blocks is escalated; a finished job shows the
  end its run had; a stop ends.
- *Coordinator.* Every job it makes is valid; who waits for a checkpoint has
  one of its own pending; a late answer moves nothing; passes only advance.
- *Setup pages.* The media belong to the selected drive, "Finding drives" is
  always answered, what is offered was checked for the disc in the drive.
- *Recovery pages.* One recovery at a time; an active job is always polled; its
  end is reported when it is one, and reaches the user.
- *Catalog.* One writer; what was recorded is read back; compaction loses only
  what its bounds say; a match is backed by samples.
- *Merge.* The plan covers the disc once, and no claim beats a better one.

## 3. Modules and code

`SectorMap` (pure). A map is a function from sectors to a state, a confidence
and a number of attempts; the code keeps the same information as extents.
`ApplyExtent` and `ReplayJournal` are functions of it, and a record is whole or
a fragment of two kinds: one that is an incomplete tail, and one whose length
field would swallow what follows.

`RecoveryStore` EXTENDS `SectorMap`. One step is one system call with the
bookkeeping around it, so a crash can fall between any two. `image` and
`journal` are what the file system shows, `imageSynced` and `journalSynced`
what stable storage holds; a `Kill` keeps the first, a `PowerLoss` any state
between the two. `pc` walks the code path of `PersistRecovered`,
`ForceCheckpoint`, `Flush`, `ApplyExtent`, the deferred flush, `finish` and
`Close`. Which calls may fail is the constant `Faults`.
`DurableProgress` is the abstract promise it implements.

`Startup`: every system call of a start on a path is a step, of Linux or of the
other two systems, which differ in when the image is tracked. Starts interleave,
fail at each call, roll back by path and may be killed. `RecoveryStore` begins
where it ends.

`RecoveryPasses` EXTENDS `SectorMap`. A stage of a policy is one pass;
`ranges` is the list the code takes before the pass, `lba` the place in it. A
retry is queued and counted by one step and read by another, so a stop, a lost
source or a crash can fall in between. Two history variables count the reads of
each sector in the pass under way (`reads`) and name the sectors a retry cycle has
yet to read (`due`). It uses the map as something durable;
how that is done is the subject of `RecoveryStore`.

`FastPass`, `TrimPass`, `AdaptivePass`, `ScrapePass`: the four schedulers of
`recovery/`, one action for each dispatch and each way to resolve it; the
caller and the drive choose the outcome. History variables remember what was
read, since the schedulers do not.

`Lifecycle` (pure): every method of `recovery.Lifecycle` as an operator on the
record; a refused call leaves it unchanged. `RecoveryJob` and `StopController`
EXTEND it.

`RecoveryJob`: the worker is a `pc` that walks `run`, the pass loop and `finish`;
`RequestStop` is two steps, since the worker runs under the lifecycle's lock and
only `finish` needs the job's. The grace timers and the calls of `cancel` and
`Interrupt` that callers make after unlocking are steps of their own. `platform`
is the adapter: they differ in `FinishLifecycle` alone.

`StopController`: the mutex is released while a hook runs, so hooks are split
into a call and a return.

`Coordinator`: an event is an action, the set `issued` holds every asynchronous
effect published, and whoever executes them may answer any of them at any time.

`AppSetup`: a key is an action of the page, a request carries the number the
code gives it, and its answer is handled at any later time on any page, or
dropped when its number is not the current one of its kind. Ejects and starts
carry none. A disc's geometry is the drive and the inspection it came from.
Text is edited on the output page only (`Typing`): a late answer may leave that
page in the middle of it, and the keys of the page it leads to do not look at
the flag. The pages of a recovery are one page here, whose keys may leave it
remembered (`RecoveryKey`), so that Back from a list may lead to it.

`AppRecovery`: the pages during a recovery; those before it are one page,
"Setup". A command is a goroutine with one or more steps, and `flight` a bag of
the commands that run and the messages not yet handled. A force stop is three
steps: it takes the active job (`RunStopNow`), asks that job whether it can be
forced (`RunForceCheck`), and forces it (`RunForceStop`), whatever became of it in
between. The job is external, with what `RecoveryJob` shows of it: it may need
escalation once it was asked to stop, and it ends. A job that was escalated and
ends after all may still offer the force stop ("lingering"), until somebody
takes the offer; once the program has forgotten the job and no force stop is
about to ask it, the offer can be told by nobody, and `Forget` drops it, which
halves the states and changes no behaviour. Within a page the cursor is a free choice.

`CatalogStore`: processes with a repository each share the journal and the lock
file. An append is written, synced and applied in separate steps, so failures
and crashes fall in between; fragments in the journal are told apart by how a
reader meets them. `ContentIdentity`: a collection sample by sample, in which
each read takes its time or its deadline, and a lookup entry by entry. `Merge`:
validation, segments, candidates, resolution and joining as functions.

The `MC` modules are what TLC runs. `MCRecoveryMachines` and `MCBeforeRecovery`
hold parts that share no state; a behaviour runs one of them, from any of its
inputs, so their states add up rather than multiply. Definitions introduced by
"Mutant:" are not part of any specification: each is a plausible mistake in the
operation that follows it, and `PROJECT.json` says which property notices it.

## 4. The runs

Eight runs pass:

| Run | Bounds | States | Shows |
| --- | --- | --- | --- |
| `RecoveryStoreCrash` | 3 sectors, blocks and batches of 2, 3 entries, failing image syncs | 229 000 | `ReportedProgressSurvives`, `LossBounded`, `JournalReproducesMemory`, `CanceledSessionEnds` |
| `RecoveryStoreFaults` | 2 sectors, all other faults and torn writes | 904 000 | `ClaimsBacked`, `ImplementsDurableProgress` |
| `RecoveryJobStop` | 3 reads, 3 stop requests, both kinds of adapter | 181 000 | `CanceledByUser`, `NoReadAfterStop`, `LifecycleMonotonic`, `EndMatchesRun`, `BlockedReadEscalates`, `StopEnds` |
| `CoordinatorJobs` | 2 job ids, 2 runs, 8 tokens | 62 000 | `PendingMatchesState`, `PausedIsCheckpointed`, `StaleAnswersIgnored`, `PassesAdvance`, `StopRequestEnds` |
| `RecoveryPassesResume` | 3 sectors, all methods, 2 runs, counter up to 6 | 160 000 | `PassesRecordLegally`, `CompleteCoversMedium`, `OneReadPerPass`, `RetriesAreCounted`, `RetryCycleRereads`, `RunEnds` |
| `AppRecoveryFlow` | 2 jobs, keys while up to 2 commands are under way | 594 000 | `ActiveJobIsPolled`, `ReportsAreFinal`, `EndReachesUser` |
| `RecoveryMachines` | 5 sectors, clusters, skips, failure budgets and splits of 2, scrape budgets up to 2, 3 reads and stops, 2 captures of 2 sectors | 94 000 | `FastPassAccounts`, `TrimPassTakesOnlyRead`, `AdaptivePassPartitions`, `ScrapePassAccounts`, `FinalizedInOrder`, `MergeIsConservative`, `PassesEnd` |
| `BeforeRecovery` | 2 processes, 3 appends, a failure and a crash; discs of 1 and 3 sectors, 2 entries; 2 drives, 4 requests; 3 starts on 2 outputs with one map path | 853 000 | `OneWriter`, `RecordedSurvives`, `CompactionKeepsHistory`, `MatchIsJustified`, `DiscoveryIsAnswered`, `MediaFollowsSelection`, `StartKeepsPairs` |

Four more find a disagreement between the code and what the repository says of
it:

- `RecoveryStoreTornTail` (`MapReopens`). Replay ignores a torn final record,
  but `Store.Open` seeks to the end of the file and appends behind it. One more
  record and the map is rejected by the next `Open`. Power loss, resume, one
  record, resume.
- `RecoveryStoreImageSync` (`ClaimsBacked`). When the image cannot be synced,
  `ForceCheckpoint` gives up, and then `Close` journals the staged records.
- `AppRecoveryTwoJobs` (`OneRecoveryAtATime`). Enter twice on the review page,
  before the first job has answered, starts two recoveries of the same drive
  into the same image and map.
- `AppSetupStaleAnswer` (`InspectedBeforeResume`). Inspect a disc, go back, and
  a refresh finds no drive; the late lookup opens the page of earlier work for
  a drive that is gone.

Why the bounds are enough. *Store and passes.* Three sectors and blocks of two
let ranges split, merge, cover the end of the medium and be left of different
lengths, and let a batch overflow with a block half in it. Three journal entries
make a staged pair and one before it, and a record behind a torn one. Two runs
over a map give every pair of first run and resume, with a retry cycle as the
second; six is the budget of the deepest policy, so the counter is met at its
maximum as well as at its limit. *Jobs.* Three reads and three stops put a stop
before, in and after a read with two timers running. Two runs of the coordinator
give answers of the first during the second. Two jobs give the paused and
resumed job, the retried one and the one started over another. *Schedulers.*
Five sectors hold two clusters and a short one at the end; every map of absent,
unknown and read sectors, every target and every pair of extents is an initial
state, as are budgets with nothing, one and two units for two sectors.
*Merge.* Two captures disagree, agree, overlap by half or miss a sector; two is
also what independent agreement needs. *Before.* Two processes contend for the
lock, three appends put one before and one behind a compaction or a failed
one, and the bounds of entries and jobs (1) are exceeded by them. Three samples
may agree and differ in one disc, and a budget of three comparisons runs out
within the second entry. Four requests put a late answer of each kind behind
the one that replaced it; two drives let a selection change. Of three starts
two can contend for one output while the third has the sibling with the same
map path.

Lengths of journals and behaviours, tokens, reads, stops and requests are cut
off by guards; the deadlock that comes of it is why `CHECK_DEADLOCK FALSE`
stands in the configurations of the coordinator, the machines and what comes
before. These do stop when nobody calls them, too.

`AppRecovery` does not tell how a job ended, which makes no difference to any
handler. `BeforeRecovery` has no load of the catalog that
fails although the journal replays (`ReadFaults`): with one, the repository
that failed to load stays marked as mutable without the lock, and two writers
are possible (section 7). That is the premise of the theorem too.
The type invariants (`TypeOK` of the store, the coordinator, the job, the passes
and the recovery pages) have no run of their own: they are proved.

## 5. Fairness

- `RecoveryStore`: `SessionStep`, the session's own calls on its two files,
  happens: they are system calls on local files. Crashes and resumes are free.
- `RecoveryJob`: worker steps, calls callers have begun and grace timers happen,
  since goroutines that can run do. Nothing makes the user press a key. The
  device need not answer: `BlockedReadEscalates` holds without that, and
  `StopEnds` takes it as a premise, which is what the read deadline is for.
- `RecoveryPasses`: `PassStep`; reads return, since each has a deadline. That is
  a premise: at its deadline a read is interrupted and its source closed, but the
  reader still waits for a call the kernel does not give back
  (`recovery/cancelable_reader.go:83`), and such a run does not end. What then
  becomes of a stop is `BlockedReadEscalates`.
- `Coordinator`: the pending effect is answered in the end.
- `AppRecovery`: the commands of a pause and of a stop run on, ticks fire, polls
  report and messages are handled. The fairness of `Update` is for the messages
  that keep a poll going and, by itself, for those that report an end, so neither
  kind waits behind the other for ever: Bubble Tea receives from one channel,
  which serves senders in order. Keys, jobs, starts and force stops are not fair.
- The schedulers (`MCRecoveryMachines`): `PassStep`, a caller that dispatches and
  resolves until the pass says it is done. The stop controller and the merge
  have none. The catalog, the setup pages and the starts have none either:
  nothing is claimed of their progress.

## 6. Proofs

TLC checks the instances above; eight modules prove, for every value of the
constants and under the named assumptions that the modules declare on them,
every safety property and action property of the runs that pass:

| Module | Theorem | Property | Assumes |
| --- | --- | --- | --- |
| `RecoveryStoreProofs` | `TypeCorrect` | `TypeOK` of the store | |
| | `ClaimsAlwaysBacked` | `ClaimsBacked` | `"imageSync" \notin Faults` |
| | `ProgressIsDurable` | `ImplementsDurableProgress` | `"imageSync" \notin Faults` |
| | `ReportedProgressIsKept` | `ReportedProgressSurvives` | `MapIsWritten` |
| | `JournalIsTheMap` | `JournalReproducesMemory` | `MapIsWritten` |
| | `CrashLosesOneBatch` | `LossBounded` | `MapIsWritten` |
| | `EndedMapReopens` | `MapReopens` | `MapIsWritten` |
| `RecoveryPassesProofs` | `PassesTypeCorrect` | `TypeOK` of the passes | |
| | `RecordsAreLegal` | `PassesRecordLegally` | |
| | `CompleteRunsCoverMedium` | `CompleteCoversMedium` | |
| | `PassesReadOnce` | `OneReadPerPass` | |
| | `NoRetryForgotten` | `RetriesAreCounted` | |
| | `RetryCyclesReread` | `RetryCycleRereads` | |
| `CoordinatorProofs` | `JobInvariant`, `EveryJobValid` | `JobInv`, `JobValid` | |
| | `StopHasCheckpoint` | `PendingMatchesState` | |
| | `PauseIsDurable` | `PausedIsCheckpointed` | |
| | `StaleAnswersAreIgnored` | `StaleAnswersIgnored` | `ReuseIds = FALSE` |
| | `PassesNeverGoBack` | `PassesAdvance` | |
| `RecoveryJobProofs` | `JobTypeCorrect` | `TypeOK` of the job | |
| | `StoppedJobsReadNoMore` | `NoReadAfterStop` | |
| | `SessionsGoForward` | `LifecycleMonotonic` | |
| | `OnlyUsersCancel` | `CanceledByUser` | |
| | `EndsMatchRuns` | `EndMatchesRun` | |
| `AppRecoveryProofs` | `AppTypeCorrect` | `TypeOK` of the pages | |
| | `ActiveJobsArePolled` | `ActiveJobIsPolled` | |
| | `ReportedJobsAreOver` | `ReportsAreFinal` | |
| `BeforeRecoveryProofs` | `StartedPairsAreKept` | `StartKeepsPairs` | |
| | `DiscoveryIsNoDeadEnd` | `DiscoveryIsAnswered` | |
| | `GeometryIsOfSelection` | `MediaFollowsSelection` | |
| `PassProofs` | `TrimIsExact` | `TrimPassTakesOnlyRead` | |
| | `FastPassLeavesNothing` | `FastPassAccounts` | |
| | `AdaptivePassLosesNothing` | `AdaptivePassPartitions` | |
| | `ScrapePassLosesNothing` | `ScrapePassAccounts` | |
| | `FinalizationIsOrdered` | `FinalizedInOrder` | |
| | `MergesAreConservative` | `MergeIsConservative` | |
| `CatalogProofs` | `OneWriterAtATime` | `OneWriter` | `TRUE \notin ReadFaults` |
| | `RecordedEventsSurvive` | `RecordedSurvives` | `TRUE \notin ReadFaults` |
| | `CompactionIsLossless` | `CompactionKeepsHistory` | `TRUE \notin ReadFaults` |
| | `MatchesAreJustified` | `MatchIsJustified` | |

The assumptions exclude faults that break the property, and each is the
premise under which TLC checks it: `RecoveryStoreImageSync` is the
counterexample without the first. `MapIsWritten` is `Faults \cap {"mapWrite",
"mapSync", "tear"} = {}`: failed writes of the image and power loss stay, but a
map write that failed leaves the repeated records of section 7, and a torn one
is `RecoveryStoreTornTail`. `ReadFaults` and `ReuseIds` are explained in
section 4 and below. `SetupAssumption` (the path of a drive is not empty) is the
only assumption on constants of the setup pages.

*The store: claims.* `ClaimsBacked` is not inductive: the flush writes staged
records, so one has to know that what they claim is on the disk by then. The
invariant is `IInv == TypeOK /\ ClaimsBacked /\ WriteOrder`. `WriteOrder` says that
staged records claim sectors of the image; that these are synced between the
image sync and the end of the flush, and from then on to the closing of the map;
and that a durable append, which syncs no image, claims nothing and starts with
nothing staged. `JournalMoves` shows what each action does to the journal, from
which `ClaimsBacked` and the step of the refinement follow, and `WriteOrderStep`
goes through the actions again for the rest.

*The store: replay.* What replay computes is a function of the whole journal,
and what a step appends to is a prefix; the invariant `ReplayInv` therefore
speaks of every prefix of the log, the journal file and what is staged for it:
the log is legal record by record, it replays to the session's map, and each of
its prefixes down to the synced part has what was reported (`LogReplays`). One more
record then needs only the prefix before it, and a crash leaves a prefix, so
no induction over journals is needed. `BatchBounded` counts what only the session
knows, and `RecordWaits` says what a checkpoint on the way to a record leaves for
it.

*The native passes.* The invariant (`IInv` of `RecoveryPassesProofs`) ties the list
of ranges to the map: between reads nothing is queued, during one exactly its
block is (`QueuedIsBlock`); the ranges left are in order, the block stays in the
first (`RangesInOrder`), and what is left of a range is one extent with other
cells behind it (`RestIsExtent`), so that no range is read twice when extents
merge; the fast pass leaves nothing unmapped behind it (`StagesCover`); what the
pass has read lies behind its place, once (`ReadsFit`), retries are bounded by the
attempts of the map and of the durable one (`Counted`), and what is due in a retry
cycle lies ahead of the pass, or in a later one (`DueInTime`). A first version was not inductive: it did not say that a queued
retry is durable before its read, without which a crash would forget it.

*The coordinator.* `JobInv` is `TypeOK`, `JobValid`, `PendingMatchesState` and
`PausedIsCheckpointed` together; each needs the others, since a valid token is
what makes the checkpoint of a stop the job's own. For late answers `IssuedInv`
adds that the effect pending now is the only one issued with the job's token.
With `ReuseIds = TRUE`, a job started again under an old id counts its tokens from
one, and an answer of its earlier life is taken for a new one.

*The job.* All theorems come from one invariant and one statement of what
a step does, `GoodStep`. The invariant ties the lifecycle to the worker:
a read is active only while the worker waits for it (`LifeFollowsWorker`), an
end is reached only in the worker's last steps, nothing is stopping or canceled
before a stop was asked for (`NothingStopsUnasked`), and afterwards the lifecycle
is not running, which closes the gate of `BeginRead` (`GateClosed`) long before
the context is canceled. For what a finished job shows, `EndFits` says which
states each end of the run may leave, and `EndIsSettled` that they hold from
`finish` on and that a call which moves the lifecycle later brings the snapshot
up to it before it lets go of the job's mutex.

`LifecycleMonotonic` is about the native job. A stop controller asked to stop
again while it releases the device goes back to checkpointing, since
`RequestStop` treats that state as one of work (`recovery/lifecycle.go:108`); what
holds of it is `FinalizedInOrder`.

*The recovery pages.* `AppInv` is `TypeOK`, `ActiveJobIsPolled` and
`ReportsAreFinal`; here the properties are inductive together. A step moves the bag
of commands and messages in one of a few ways, each a lemma, and who carries
the poll of the active job is named in each case.

*Before the recovery.* What a rollback removes must be the start's own:
`ImagesOwned` (`O_EXCL` gives each image under construction one owner, which is no
committed one) and `MapOwned` (who would remove the map has made it for its own
image). `ImagesExplained` says who answers for every image that is there; with
nobody running this is the second half of `StartKeepsPairs`. For the setup pages
`SetupInv` says that numbers of requests are never given out twice, that the
inspection that is listened to is one of the selected drive, and that a
selected drive is listed.

*The schedulers and the stop controller.* Trim: the cursors stay apart and in the
target, the read under way is the one the state asks for (`TrimCursors`), and each
sector between the cursors has failed at most as often as the mode reached so
far explains (`TrimCounts`). Fast: what lies behind the cursor is settled
(`BehindCursor`), the read under way is of the first unknown sectors there are
(`ActiveIsNext`), and the mode falls back to single sectors, or ends, only where
that is right (`ModeFits`). That the next unknown sector exists is a least-number
argument from the well-foundedness of the naturals. Adaptive: queue, deferred
and active candidates partition the sectors, and probes are bounded by the
depth of a candidate (`Partitions`). Scrape: a sector is in one of three
sequences, once (`OnePlace`), and has failed as often as its rung of the ladder of
groups allows (`OnLadder`). Stop controller: a session that has come to its
checkpoint reads no more, and a finalization is claimed once (`StopInv`).

*The merge.* There is no step to preserve anything over; the theorem is about
the function. Between two boundaries every sector has the same candidates
(`SegmentIsUniform`), the resolution says of them what the strongest evidence says
(`ResolutionTells`, a lemma for each strength), and the segments joined to one agree
with its first (`JoinedSaySame`, a least counterexample instead of an induction
along the segments).

*The catalog: one writer.* That a writer holds the lock (`WriterHoldsLock`) is not
inductive, since a failed load leaves its mark: `MarkedInVain` adds that a marked
repository that is not open means a journal that does not replay and nobody
who could change it. Nothing else about replay is needed for it.

*The catalog: journal.* `JournalInv` adds what a writer's index and the journal have
to do with each other (`FollowsJournal`): the index is at the last number or one
behind it, and one behind with nothing pending only after a failure that has
cost no event yet. The recorded events that a power loss would not spare
(`Lost`) are at most the failures, and the numbers in the file have no gaps
(`Contiguous`). Which records replay applies is decided by their numbers, so the
last number counts them (`ReplayedToTheLast`), and cutting the journal behind a
snapshot leaves a tail that replays on it as the whole does
(`TruncationReplays`).

*The content identity.* `IdentityInv`: a result that is not final is the strongest
of what the entries looked at say, and all their samples were compared. The
proof found the arms of two `CASE` expressions of the model overlapping, where TLC
takes the first and the logic any; they are conditionals now, as in the code.

Only model-checked, since the prover does not reach it: liveness
(`CanceledSessionEnds`, `BlockedReadEscalates`, `StopEnds`, `StopRequestEnds`, `RunEnds`,
`EndReachesUser`, `PassesEnd`). The four runs that find a disagreement have no
theorem, of course, but for the premises under which `ClaimsBacked` and `MapReopens` do
hold. No module uses `RECURSIVE`.

## 7. Observations

Behaviour the models show, without a run of its own.

Map and image:

- A `Flush` whose writes succeed and whose sync fails keeps its records staged;
  a later flush writes them again, and the repeated sequence numbers make the
  map unreadable.
- If closing the map fails after a stop, the lifecycle says stopped for a
  session whose map was not saved.

Startup (the exceptions named `left` in `StartKeepsPairs`):

- Linux tracks the new image only after truncating and closing it. A
  truncation that fails, on a full disk say, leaves an image without a map, and
  so does a kill between the two creations: the path can then be neither
  started nor resumed.
- A start that opens a map another start has written and not yet synced loses
  both files when that sync fails, since a rollback removes by path; and
  `OpenOutput`, which creates without `O_EXCL`, makes a new image without a map.
- "disc" and "disc.iso" have one map path; with the second image there, the map
  of one is resumed on the image of the other. On Linux a resume does not
  compare the image's length with what the map claims.

Passes and schedulers:

- A retry is counted before its read, so a stop in between uses up an attempt.
- Balanced recovery may mark a range missing after four or five attempts: the
  offset of a retry cycle is that of the extent with the most attempts.
- In the fast and gentle methods the trim pass has a limit of one attempt, and
  after a fresh fast pass, whose failures count as one, it reads nothing.
- Sectors not yet in the map are always the end of the medium, so the fast pass
  never meets a later extent that would cut its block short.
- A device that cannot be opened again after a timed-out read fails every
  later read with an error that is not fatal, and the rest of the medium is
  recorded as unreadable (`recovery/cancelable_reader.go:87`).
- The scrape scheduler may promise the last unit of a budget to two sectors;
  the second can then never be resolved (`BudgetOvercommitted`). The adaptive
  one queues the half it has just read again, and with a threshold of one it
  meets an extent it cannot split. The scrape outcome matches any sector when
  its `SectorLBA` is 0.

Stopping:

- A read that completes just after the grace timer fired leaves the lifecycle in
  `awaiting_force_stop` for ever, although the job has ended and its checkpoint
  succeeded (`recovery/lifecycle.go:128`; ADR 0006 promises otherwise). Such a job
  still offers the force stop, and a late one takes it to `force_stopping`: these
  are exceptions of `EndMatchesRun`. In the
  stop controller nobody checkpoints then (`recovery/stop_controller.go:88`), and a
  failed hook leaves the session finalized and not stopped.
- On Linux `finish` does not call `Complete`: a completed recovery leaves the
  lifecycle running, and a late stop request takes it to checkpointing. The macOS
  and Windows adapters do call it. The errors of
  the lifecycle's methods are discarded there, and the snapshot's stop intent
  is the last one asked for while the lifecycle keeps the first.

User interface during a recovery:

- A job that fails while a pause is pending is shown as paused, "Progress
  saved." (`app/runtime_recovery_poll.go:31`).
- A poll that finds its job done clears the active recovery whatever that is by
  then (`app/runtime_recovery_poll.go:30`). When a second job was started over a
  first, the poll of the first makes the program forget the second while it
  runs: it is neither polled nor reported nor stopped by a key. Neither
  `ActiveJobIsPolled` nor `EndReachesUser` is about such a job, as it is not the
  active one any more; it takes two jobs, so `OneRecoveryAtATime` is what fails
  first.
- A force stop clears the pending pause before it knows whether the job accepts
  it (`app/runtime_recovery_effects.go:55`), so the end of a job that was asked to
  pause may be shown as a summary.
- A stop confirmed when the recovery is already paused shows the pausing page
  for good. Back may return to a page remembered long ago, such as the page of
  a recovery that is over. `q` on the details page quits without a question
  while a job runs. Two chains of polls after a pause can turn a paused page
  into a summary. A pause or stop that runs while a poll forgets the job
  dereferences nil. A late answer to a setup request, or an eject that ends,
  moves the page away from a running recovery, and Enter on the eject page
  then ejects what is selected.

Setup pages:

- The numbers of lookups, target checks and searches are not reset when the
  selection changes: besides `AppSetupStaleAnswer`, a late target answer takes the
  review page to the resume state of the drive before.
- Esc from the action page keeps the cursor, and Enter on the drive page then
  indexes the list of drives with it (`app/update_navigation.go:168`). "Choose
  another drive" and a refresh reset the cursor while the list highlights
  another row, and the eject key ejects the selected drive rather than the
  highlighted one. No media token is ever set, so its change is never noticed.

Catalog, identity and merge:

- A torn tail shorter than a record header is an error, although the format
  says to ignore it, and a writer appends behind the tail that is ignored. A
  failed sync leaves its record in the file, its number is used again, and the
  later record is skipped by replay. A job is added to an entry beyond what a
  reader accepts, and then the whole catalog does not open, nor does it when the
  journal has grown beyond 64 MiB. A failed load
  keeps `mutable` set without the lock. No stale lock is removed, no snapshot
  written, and the entry changes in memory before its append has succeeded.
- The lookup ends with its budget, before a conflict further on; a different
  geometry is no match where the documentation has a conflict. The slots of
  `recovery/pass0.go` and of `catalog/sample_plan.go` differ under one version
  number. A canceled collection makes the samples unreadable.
- No production code sets the hash the merge compares, a segment has the hash
  of its whole extent, joining segments ignores it, and captures with one id
  are not refused.

## 8. Not modelled

Layout and wording of the interface, formats of numbers and telemetry (no
lasting state); byte layout, checksums and decode limits of map and catalog,
except whether a record is whole and how many jobs an entry may have; ioctls,
SCSI and volume access of the three systems; hashing in `integrity/`; build and
release tools; the test device. The shutdown plan in `coordinator/shutdown.go` is
a constant that nothing executes. `recovery/pass0.go` is a plan and its
evaluation, one call each. The two mutexes of the cancelable reader are not
split into steps: `RecoveryJob` has its outcomes. `device/` (frames, supervisor,
restart decision) has no caller in the program; a model would have to invent
the loop that drives it. `recovery/outcome.go` and `image/` are tables and
helpers the native jobs do not use.

## 9. Plan

Models: `RecoveryPasses` over `RecoveryStore`, in place of its durable map;
extents as lists (merge, split, apply) against `SectorMap`; the device
supervisor, once something drives it.

Proofs: the premises under which `OneRecoveryAtATime` and `InspectedBeforeResume`
do hold (one Enter at a time, no stale answer), so that the findings are
complete; what of `JournalReproducesMemory` and `RecordedSurvives` is left when map
writes and loads of the catalog may fail; the lemmas of `SectorMap` on
`ApplyExtent` as a library for the models above.
