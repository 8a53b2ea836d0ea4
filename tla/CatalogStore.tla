---------------------------- MODULE CatalogStore ----------------------------
(***************************************************************************)
(* The local catalog of processed media (package catalog): repositories    *)
(* that share a journal file and a lock file, the service that appends to  *)
(* the journal, its replay, and the compaction of an index to a snapshot.  *)
(*                                                                         *)
(* A journal entry is a complete record or what a crash or a failed write  *)
(* left of one.  The index is a function from record ids; the position of  *)
(* an entry in the code's list decides nothing here.  Time is the number   *)
(* of appends begun so far.                                                *)
(***************************************************************************)
EXTENDS Integers, Sequences, FiniteSets, FiniteSetsExt

CONSTANTS Processes,          \* each with at most one repository at a time
          RecordIDs, JobIDs,
          ProcessingState,    \* states a job is recorded in
          MaxAppends,         \* bound on appends begun
          MaxFailures,        \* bound on failed writes and syncs
          MaxCrashes,         \* bound on process crashes and power losses
          ReadFaults,         \* may a load fail for a passing reason?
          MaxEntries, MaxJobRefsPerEntry,  \* Bounds of a compaction
          MaxCatalogJobsPerEntry           \* job references a reader accepts

ASSUME CatalogAssumption == "free" \notin Processes /\ "stale" \notin Processes

VARIABLES journal,            \* catalog.journal
          synced,             \* how many of its entries a power loss spares
          lock,               \* catalog.lock: free, its owner, or left behind
          repo,               \* each process's Repository
          recorded,           \* history: times of the appends reported recorded
          appends, failures, crashes

vars == <<journal, synced, lock, repo, recorded, appends, failures, crashes>>

NoEntry == [state |-> "none", jobs |-> <<>>, lastSeen |-> 0]

EmptyStore == [last |-> 0, entries |-> [id \in RecordIDs |-> NoEntry]]

NoAppend == [seq |-> 0]

NewRepository == [open |-> FALSE, mutable |-> FALSE, store |-> EmptyStore,
                  pending |-> NoAppend]

Record(seq, id, entry) ==
    [torn |-> FALSE, seq |-> seq, id |-> id, entry |-> entry]

(* A fragment shorter than a record header is an error even at the end of  *)
(* the file.  Behind a fragment, the next record's bytes are taken for its *)
(* missing part: they fail the check, or are too few and are ignored.      *)
Fragments == [torn : {TRUE}, short : BOOLEAN, swallows : BOOLEAN]

(* The writer encodes any number of job references, the reader has a limit. *)
Decodable(entry) == Len(entry.jobs) <= MaxCatalogJobsPerEntry

----------------------------------------------------------------------------
(* Replay. *)

Torn(j) == {i \in 1 .. Len(j) : j[i].torn}

(* Records a reader gets to, before the first fragment. *)
Readable(j) == {i \in 1 .. Len(j) : \A t \in Torn(j) : i < t}

(* Records that count: later than the snapshot and than those before them. *)
Applied(base, j) ==
    {i \in Readable(j) : /\ j[i].seq > base
                         /\ \A k \in Readable(j) : k < i => j[k].seq < j[i].seq}

ReplayFails(base, j) ==
    \/ \E t \in Torn(j) : /\ \A u \in Torn(j) : t <= u
                          /\ IF t = Len(j) THEN j[t].short ELSE ~j[t].swallows
    \/ \E i \in Applied(base, j) : ~Decodable(j[i].entry)
    \/ \E i \in Applied(base, j) :
         j[i].seq # base + 1 /\ ~\E k \in Applied(base, j) : j[k].seq = j[i].seq - 1

ReplayJournal(snapshot, j) ==
    LET A == Applied(snapshot.last, j)
        Of(id) == {i \in A : j[i].id = id}
    IN [last |-> snapshot.last + Cardinality(A),
        entries |-> [id \in RecordIDs |-> IF Of(id) = {} THEN snapshot.entries[id]
                                          ELSE j[Max(Of(id))].entry]]

----------------------------------------------------------------------------
(* Compaction: the snapshot of an index, and the rest of the journal.      *)

Known(store) == {id \in RecordIDs : store.entries[id] # NoEntry}

LastJobRefs(entry) ==
    LET n == Len(entry.jobs)
    IN [entry EXCEPT !.jobs = IF n <= MaxJobRefsPerEntry THEN @
                              ELSE SubSeq(@, n - MaxJobRefsPerEntry + 1, n)]

(* The MaxEntries entries seen last. *)
BuildSnapshotRecord(store) ==
    [store EXCEPT !.entries = [id \in RecordIDs |->
        IF Cardinality({o \in Known(store) :
             store.entries[o].lastSeen > store.entries[id].lastSeen}) < MaxEntries
        THEN LastJobRefs(store.entries[id]) ELSE NoEntry]]

(* Mutant: the record after the snapshot is cut off with those before it. *)
TruncateTooMuch(j, snapshot) ==
    SelectSeq(j, LAMBDA r : r.torn \/ r.seq > snapshot.last + 1)

TruncateJournalAfterSnapshot(j, snapshot) ==
    LET keep == {i \in 1 .. Len(j) : j[i].torn \/ j[i].seq > snapshot.last}
    IN IF keep = {} THEN <<>>
       ELSE LET first == Min(keep)
            IN IF j[first].torn /\ (IF first = Len(j) THEN ~j[first].short
                                                      ELSE j[first].swallows)
               THEN <<>> ELSE SubSeq(j, first, Len(j))

----------------------------------------------------------------------------

Init ==
    /\ journal = <<>>
    /\ synced = 0
    /\ lock = "free"
    /\ repo = [p \in Processes |-> NewRepository]
    /\ recorded = {}
    /\ appends = 0 /\ failures = 0 /\ crashes = 0

GetsLock(preferMutable) == preferMutable /\ lock = "free"

Open(p, preferMutable) ==
    LET mutable == repo[p].mutable \/ GetsLock(preferMutable)
    IN /\ ~repo[p].open
       /\ ~ReplayFails(0, journal)
       /\ repo' = [repo EXCEPT ![p] =
                     [open |-> TRUE, mutable |-> mutable, pending |-> NoAppend,
                      store |-> ReplayJournal(EmptyStore, journal)]]
       /\ lock' = IF GetsLock(preferMutable) THEN p ELSE lock
       /\ UNCHANGED <<journal, synced, recorded, appends, failures, crashes>>

(* A failed load gives the lock back, but the repository stays marked as   *)
(* mutable and may be opened again.                                        *)
OpenFails(p, preferMutable) ==
    /\ ~repo[p].open
    /\ ReplayFails(0, journal) \/ TRUE \in ReadFaults
    /\ repo' = [repo EXCEPT ![p].mutable = @ \/ GetsLock(preferMutable)]
    /\ UNCHANGED <<journal, synced, lock, recorded, appends, failures, crashes>>

Writable(p) == repo[p].open /\ repo[p].mutable

(* AppendEvent: write, sync, and only then apply in memory. *)
BeginAppend(p, id, entry) ==
    /\ Writable(p) /\ repo[p].pending = NoAppend
    /\ appends < MaxAppends
    /\ appends' = appends + 1
    /\ LET record == Record(repo[p].store.last + 1, id,
                            [entry EXCEPT !.lastSeen = appends + 1])
       IN \/ /\ journal' = Append(journal, record)
             /\ repo' = [repo EXCEPT ![p].pending = record]
             /\ UNCHANGED failures
          \/ /\ failures < MaxFailures
             /\ failures' = failures + 1
             /\ \E fragment \in Fragments : journal' = Append(journal, fragment)
             /\ UNCHANGED repo
    /\ UNCHANGED <<synced, lock, recorded, crashes>>

RecordObserved(p) ==
    \E id \in RecordIDs :
        /\ \A i \in 1 .. Len(journal) : ~journal[i].torn => journal[i].id # id
        /\ BeginAppend(p, id, [state |-> "observed", jobs |-> <<>>, lastSeen |-> 0])

RecordJobState(p) ==
    \E id \in Known(repo[p].store), job \in JobIDs, state \in ProcessingState :
        LET entry == repo[p].store.entries[id]
            linked == \E i \in 1 .. Len(entry.jobs) : entry.jobs[i] = job
        IN BeginAppend(p, id,
             [entry EXCEPT !.state = state,
                           !.jobs = IF linked THEN @ ELSE Append(@, job)])

(* Mutant: an append is reported before the file is synced. *)
FinishAppendUnsynced(p) ==
    /\ repo[p].pending # NoAppend
    /\ LET record == repo[p].pending
       IN /\ repo' = [repo EXCEPT ![p].pending = NoAppend,
                                  ![p].store.last = record.seq,
                                  ![p].store.entries[record.id] = record.entry]
          /\ recorded' = recorded \cup {record.entry.lastSeen}
    /\ UNCHANGED <<journal, synced, lock, appends, failures, crashes>>

FinishAppend(p) ==
    /\ repo[p].pending # NoAppend
    /\ LET record == repo[p].pending
       IN /\ repo' = [repo EXCEPT ![p].pending = NoAppend,
                                  ![p].store.last = record.seq,
                                  ![p].store.entries[record.id] = record.entry]
          /\ recorded' = recorded \cup {record.entry.lastSeen}
    /\ synced' = Len(journal)
    /\ UNCHANGED <<journal, lock, appends, failures, crashes>>

(* A failed sync: the record is in the file, but not in memory. *)
SyncFails(p) ==
    /\ repo[p].pending # NoAppend
    /\ failures < MaxFailures
    /\ failures' = failures + 1
    /\ repo' = [repo EXCEPT ![p].pending = NoAppend]
    /\ UNCHANGED <<journal, synced, lock, recorded, appends, crashes>>

(* Mutant: whoever closes removes the lock file. *)
CloseUnlocks(p) ==
    /\ repo[p].open /\ repo[p].pending = NoAppend
    /\ repo' = [repo EXCEPT ![p] = NewRepository]
    /\ lock' = "free"
    /\ UNCHANGED <<journal, synced, recorded, appends, failures, crashes>>

(* releaseLock removes the lock file only when this repository created it. *)
Close(p) ==
    /\ repo[p].open /\ repo[p].pending = NoAppend
    /\ repo' = [repo EXCEPT ![p] = NewRepository]
    /\ lock' = IF lock = p THEN "free" ELSE lock
    /\ UNCHANGED <<journal, synced, recorded, appends, failures, crashes>>

Crash(p) ==
    /\ crashes < MaxCrashes
    /\ crashes' = crashes + 1
    /\ repo[p].open
    /\ repo' = [repo EXCEPT ![p] = NewRepository]
    /\ lock' = IF lock = p THEN "stale" ELSE lock
    /\ UNCHANGED <<journal, synced, recorded, appends, failures>>

(* The unsynced end of the journal is kept, cut off, or cut in a record.   *)
PowerLoss ==
    /\ crashes < MaxCrashes
    /\ crashes' = crashes + 1
    /\ \E n \in synced .. Len(journal) :
         \/ journal' = SubSeq(journal, 1, n)
         \/ /\ n < Len(journal)
            /\ \E fragment \in Fragments :
                 journal' = Append(SubSeq(journal, 1, n), fragment)
    /\ synced' = Len(journal')
    /\ repo' = [p \in Processes |-> NewRepository]
    /\ lock' = IF lock = "free" THEN "free" ELSE "stale"
    /\ UNCHANGED <<recorded, appends, failures>>

(* The operator makes sure that the owner is gone. *)
RemoveStaleLock ==
    /\ lock = "stale"
    /\ lock' = "free"
    /\ UNCHANGED <<journal, synced, repo, recorded, appends, failures, crashes>>

Next ==
    \/ \E p \in Processes :
         \/ \E preferMutable \in BOOLEAN : Open(p, preferMutable) \/ OpenFails(p, preferMutable)
         \/ RecordObserved(p) \/ RecordJobState(p)
         \/ FinishAppend(p) \/ SyncFails(p)
         \/ Close(p) \/ Crash(p)
    \/ PowerLoss
    \/ RemoveStaleLock

Spec == Init /\ [][Next]_vars

----------------------------------------------------------------------------

(* "A repository has one writer or any number of read-only users": however *)
(* processes open, close and crash, and although a crashed writer's lock   *)
(* is removed by hand, no two repositories may append at the same time.    *)
OneWriter ==
    \A p, q \in Processes : Writable(p) /\ Writable(q) => p = q /\ lock = p

(* An append reported as recorded is found again by the next process that  *)
(* opens the catalog, whatever crashed since; after a failed sync, whose   *)
(* record stays in the file under a number that is used again, at most one *)
(* recorded event is lost for each failure.  The premise names what ends   *)
(* this within the model: a fragment in the file (see ReplayFails), and an *)
(* entry beyond a limit of the reader, as one with too many job            *)
(* references, which the service does write.  Outside the model is the     *)
(* limit on the size of the file, above which nothing of it is read.       *)
RecordedSurvives ==
    (\A i \in 1 .. Len(journal) : ~journal[i].torn /\ Decodable(journal[i].entry)) =>
        LET read == {journal[i].entry.lastSeen : i \in Applied(0, journal)}
        IN /\ ~ReplayFails(0, journal)
           /\ Cardinality(recorded \ read) <= failures

(* Compaction is safe at any moment and for any index that is loaded, also *)
(* one that is behind the journal: the truncated journal replays on the    *)
(* snapshot exactly as the whole one does; and the writer's own snapshot   *)
(* replays to its index, without the entries and jobs beyond the bounds.   *)
CompactionKeepsHistory ==
    \A p \in Processes : repo[p].open =>
        LET snapshot == BuildSnapshotRecord(repo[p].store)
            rest == TruncateJournalAfterSnapshot(journal, snapshot)
        IN ReplayFails(snapshot.last, journal) \/
             /\ ~ReplayFails(snapshot.last, rest)
             /\ ReplayJournal(snapshot, rest) = ReplayJournal(snapshot, journal)
             /\ Writable(p) /\ repo[p].pending = NoAppend /\ failures = 0 =>
                  ReplayJournal(snapshot, rest) = snapshot
=============================================================================
