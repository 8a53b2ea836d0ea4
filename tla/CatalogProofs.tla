---------------------------- MODULE CatalogProofs ----------------------------
(***************************************************************************)
(* Proofs about the catalog, for any number of processes, records, failed  *)
(* writes and crashes, as long as a catalog that replays is always loaded  *)
(* (ReadFaults):                                                           *)
(*   - the lock file keeps the catalog's writers apart; nothing is needed  *)
(*     for it about replay, compaction or the contents of the journal;     *)
(*   - what was reported as recorded is read back, but for one event for   *)
(*     each failed write, and compaction leaves what replays to the same.  *)
(* And, for any history and any budgets, what a lookup reports of an       *)
(* inserted disc is backed by its samples.                                 *)
(***************************************************************************)
EXTENDS CatalogStore, ContentIdentity, FiniteSetTheorems, FunctionTheorems,
        WellFoundedInduction, TLAPS

(* Repositories are records; what is in their indexes and records is of no *)
(* interest here.                                                          *)
Repositories(S) == [open : BOOLEAN, mutable : BOOLEAN, pending : S,
                    store : [last : S, entries : [RecordIDs -> S]]]

Shape == \E S : repo \in [Processes -> Repositories(S)]

(* A writer holds the lock. *)
WriterHoldsLock == \A p \in Processes : Writable(p) => lock = p

(* A repository that was marked as mutable and then failed to load: there  *)
(* is no writer, so the journal stays as it is and fails to load again.    *)
MarkedInVain ==
    \A p \in Processes : ~repo[p].open /\ repo[p].mutable =>
        /\ ReplayFails(0, journal)
        /\ \A q \in Processes : ~Writable(q)

LockInv == Shape /\ WriterHoldsLock /\ MarkedInVain

LEMMA Update ==
  ASSUME Shape, NEW p \in Processes, NEW T, NEW r \in Repositories(T),
         repo' = [repo EXCEPT ![p] = r]
  PROVE  /\ Shape' /\ repo'[p] = r
         /\ \A q \in Processes : q # p => repo'[q] = repo[q]
<1>1. PICK S : repo \in [Processes -> Repositories(S)]
  BY DEF Shape
<1>2. \A q \in Processes : repo[q] \in Repositories(S \cup T)
  BY <1>1 DEF Repositories
<1>3. r \in Repositories(S \cup T)
  BY DEF Repositories
<1>4. repo' \in [Processes -> Repositories(S \cup T)]
  BY <1>1, <1>2, <1>3
<1> QED BY <1>1, <1>4 DEF Shape

LEMMA ReplayShape ==
  ASSUME NEW snapshot, NEW j
  PROVE  \E S : ReplayJournal(snapshot, j) \in [last : S, entries : [RecordIDs -> S]]
<1> DEFINE A == Applied(snapshot.last, j)
           Of(id) == {i \in A : j[i].id = id}
           Entry(id) == IF Of(id) = {} THEN snapshot.entries[id] ELSE j[Max(Of(id))].entry
           last == snapshot.last + Cardinality(A)
           S == {last} \cup {Entry(id) : id \in RecordIDs}
<1>1. ReplayJournal(snapshot, j) = [last |-> last, entries |-> [id \in RecordIDs |-> Entry(id)]]
  BY DEF ReplayJournal
<1> HIDE DEF last, Entry
<1>2. last \in S /\ [id \in RecordIDs |-> Entry(id)] \in [RecordIDs -> S]
  OBVIOUS
<1> HIDE DEF S
<1> QED BY <1>1, <1>2

LEMMA NewRepositoryShape == \E S : NewRepository \in Repositories(S)
<1> DEFINE S == {0, NoEntry, NoAppend}
<1>1. EmptyStore \in [last : S, entries : [RecordIDs -> S]]
  BY DEF EmptyStore
<1>2. NewRepository \in Repositories(S)
  BY <1>1 DEF NewRepository, Repositories
<1> QED BY <1>2

(* A step that touches neither a mark nor the lock, and appends only for a *)
(* writer.                                                                 *)
LEMMA MarksStay ==
  ASSUME LockInv, Shape', lock' = lock,
         \A q \in Processes : /\ repo'[q].open = repo[q].open
                              /\ repo'[q].mutable = repo[q].mutable,
         journal' = journal \/ \E q \in Processes : Writable(q)
  PROVE  LockInv'
<1>1. \A q \in Processes : Writable(q)' = Writable(q)
  BY DEF Writable
<1>2. WriterHoldsLock'
  BY <1>1 DEF LockInv, WriterHoldsLock
<1>3. MarkedInVain'
  <2> SUFFICES ASSUME NEW p \in Processes, ~repo'[p].open, repo'[p].mutable
               PROVE  ReplayFails(0, journal') /\ \A q \in Processes : ~Writable(q)'
    BY DEF MarkedInVain
  <2>1. ReplayFails(0, journal) /\ \A q \in Processes : ~Writable(q)
    BY DEF LockInv, MarkedInVain
  <2> QED BY <1>1, <2>1
<1> QED BY <1>2, <1>3 DEF LockInv

(* A process whose repository is as new, whatever became of its lock. *)
LEMMA ProcessLeaves ==
  ASSUME LockInv, NEW p \in Processes, repo[p].open,
         repo' = [repo EXCEPT ![p] = NewRepository], journal' = journal,
         NEW l, lock' = IF lock = p THEN l ELSE lock
  PROVE  LockInv'
<1>1. /\ repo'[p] = NewRepository
      /\ \A q \in Processes : q # p => repo'[q] = repo[q]
  BY Update, NewRepositoryShape DEF LockInv
<1>2. Shape'
  BY Update, NewRepositoryShape DEF LockInv
<1>3. ~Writable(p)' /\ \A q \in Processes : q # p => Writable(q)' = Writable(q)
  BY <1>1 DEF Writable, NewRepository
<1>4. WriterHoldsLock'
  BY <1>3 DEF LockInv, WriterHoldsLock
<1>5. MarkedInVain'
  <2> SUFFICES ASSUME NEW q \in Processes, ~repo'[q].open, repo'[q].mutable
               PROVE  ReplayFails(0, journal') /\ \A r \in Processes : ~Writable(r)'
    BY DEF MarkedInVain
  <2>1. q # p
    BY <1>1 DEF NewRepository
  <2>2. ReplayFails(0, journal) /\ \A r \in Processes : ~Writable(r)
    BY <1>1, <2>1 DEF LockInv, MarkedInVain
  <2> QED BY <1>3, <2>2
<1> QED BY <1>2, <1>4, <1>5 DEF LockInv

LEMMA OpenStep ==
  ASSUME LockInv, NEW p \in Processes, NEW preferMutable \in BOOLEAN, Open(p, preferMutable)
  PROVE  LockInv'
<1> DEFINE mutable == repo[p].mutable \/ GetsLock(preferMutable)
           store == ReplayJournal(EmptyStore, journal)
           opened == [open |-> TRUE, mutable |-> mutable, pending |-> NoAppend,
                      store |-> store]
<1>1. /\ ~repo[p].open /\ ~ReplayFails(0, journal)
      /\ repo' = [repo EXCEPT ![p] = opened]
      /\ lock' = IF GetsLock(preferMutable) THEN p ELSE lock
      /\ journal' = journal
  BY DEF Open
<1>2. PICK S : store \in [last : S, entries : [RecordIDs -> S]]
  BY ReplayShape
<1>3. opened \in Repositories(S \cup {NoAppend})
  <2> HIDE DEF store
  <2>1. store \in [last : S \cup {NoAppend}, entries : [RecordIDs -> S \cup {NoAppend}]]
    BY <1>2
  <2>2. mutable \in BOOLEAN
    BY DEF Shape, LockInv, Repositories, GetsLock
  <2> HIDE DEF mutable
  <2> QED BY <2>1, <2>2 DEF Repositories
<1>4. /\ Shape' /\ repo'[p] = opened
      /\ \A q \in Processes : q # p => repo'[q] = repo[q]
  <2> HIDE DEF opened
  <2> QED BY <1>1, <1>3, Update, Zenon DEF LockInv
<1>5. repo'[p].open /\ repo'[p].mutable = mutable
  BY <1>4
<1>6. \A q \in Processes : ~(~repo[q].open /\ repo[q].mutable)
  BY <1>1 DEF LockInv, MarkedInVain
<1>7. mutable = GetsLock(preferMutable)
  BY <1>1, <1>6 DEF GetsLock
<1>8. GetsLock(preferMutable) => \A q \in Processes : ~Writable(q)
  BY CatalogAssumption DEF GetsLock, LockInv, WriterHoldsLock
<1>9. \A q \in Processes : q # p => Writable(q)' = Writable(q)
  BY <1>4 DEF Writable
<1>10. WriterHoldsLock'
  BY <1>1, <1>5, <1>7, <1>8, <1>9 DEF LockInv, WriterHoldsLock, Writable
<1>11. MarkedInVain'
  BY <1>4, <1>5, <1>6 DEF MarkedInVain
<1> QED BY <1>4, <1>10, <1>11 DEF LockInv

LEMMA OpenFailsStep ==
  ASSUME LockInv, TRUE \notin ReadFaults,
         NEW p \in Processes, NEW preferMutable \in BOOLEAN, OpenFails(p, preferMutable)
  PROVE  LockInv'
<1>1. /\ ~repo[p].open /\ ReplayFails(0, journal)
      /\ repo' = [repo EXCEPT ![p].mutable = @ \/ GetsLock(preferMutable)]
      /\ UNCHANGED <<journal, lock>>
  BY DEF OpenFails
<1>2. PICK S : repo \in [Processes -> Repositories(S)]
  BY DEF LockInv, Shape
<1>3. /\ Shape'
      /\ repo'[p].open = repo[p].open
      /\ repo'[p].mutable = (repo[p].mutable \/ GetsLock(preferMutable))
      /\ \A q \in Processes : q # p => repo'[q] = repo[q]
  <2> DEFINE marked == [repo[p] EXCEPT !.mutable = @ \/ GetsLock(preferMutable)]
  <2>1. GetsLock(preferMutable) \in BOOLEAN
    BY DEF GetsLock
  <2>2. /\ marked \in Repositories(S)
        /\ marked.open = repo[p].open
        /\ marked.mutable = (repo[p].mutable \/ GetsLock(preferMutable))
    BY <1>2, <2>1 DEF Repositories
  <2>3. repo' = [repo EXCEPT ![p] = marked]
    BY <1>1, <1>2
  <2> HIDE DEF marked
  <2> QED BY <2>2, <2>3, Update DEF LockInv
<1>4. \A q \in Processes : Writable(q)' = Writable(q)
  BY <1>1, <1>3 DEF Writable
<1>5. WriterHoldsLock'
  BY <1>1, <1>4 DEF LockInv, WriterHoldsLock
<1>6. MarkedInVain'
  <2> SUFFICES ASSUME NEW q \in Processes, ~repo'[q].open, repo'[q].mutable
               PROVE  \A r \in Processes : ~Writable(r)
    BY <1>1, <1>4 DEF MarkedInVain
  <2>1. CASE ~repo[q].open /\ repo[q].mutable
    BY <2>1 DEF LockInv, MarkedInVain
  <2>2. CASE lock = "free"
    BY <2>2, CatalogAssumption DEF LockInv, WriterHoldsLock
  <2> QED BY <1>3, <2>1, <2>2 DEF GetsLock
<1> QED BY <1>3, <1>5, <1>6 DEF LockInv

LEMMA PendingSet ==
  ASSUME LockInv, NEW p \in Processes, NEW record, repo' = [repo EXCEPT ![p].pending = record]
  PROVE  /\ Shape'
         /\ \A q \in Processes : /\ repo'[q].open = repo[q].open
                                 /\ repo'[q].mutable = repo[q].mutable
                                 /\ repo'[q].store = repo[q].store
         /\ repo'[p].pending = record
         /\ \A q \in Processes : q # p => repo'[q] = repo[q]
<1> DEFINE changed == [repo[p] EXCEPT !.pending = record]
<1>1. PICK S : repo \in [Processes -> Repositories(S)]
  BY DEF LockInv, Shape
<1>2. /\ changed \in Repositories(S \cup {record})
      /\ changed.open = repo[p].open /\ changed.mutable = repo[p].mutable
      /\ changed.store = repo[p].store /\ changed.pending = record
  BY <1>1 DEF Repositories
<1>3. repo' = [repo EXCEPT ![p] = changed]
  BY <1>1
<1> HIDE DEF changed
<1>4. /\ Shape' /\ repo'[p] = changed
      /\ \A q \in Processes : q # p => repo'[q] = repo[q]
  BY <1>2, <1>3, Update, Zenon DEF LockInv
<1> QED BY <1>2, <1>4

(* A record is appended, or a fragment of one, by a writer.                *)
LEMMA BeginAppendStep ==
  ASSUME LockInv, NEW p \in Processes, NEW id, NEW entry, BeginAppend(p, id, entry)
  PROVE  LockInv'
<1>1. Writable(p) /\ lock' = lock
  BY DEF BeginAppend
<1>2. repo' = repo \/ \E record : repo' = [repo EXCEPT ![p].pending = record]
  BY Zenon DEF BeginAppend
<1>3. CASE repo' = repo
  BY <1>1, <1>3, MarksStay DEF LockInv, Shape
<1>4. CASE \E record : repo' = [repo EXCEPT ![p].pending = record]
  BY <1>1, <1>4, PendingSet, MarksStay
<1> QED BY <1>2, <1>3, <1>4

(* What a finished append does to the repositories. *)
LEMMA FinishApplies ==
  ASSUME LockInv, NEW p \in Processes, FinishAppend(p)
  PROVE  /\ Shape'
         /\ repo'[p].open = repo[p].open /\ repo'[p].mutable = repo[p].mutable
         /\ repo'[p].pending = NoAppend
         /\ repo'[p].store.last = repo[p].pending.seq
         /\ \A q \in Processes : q # p => repo'[q] = repo[q]
<1> DEFINE record == repo[p].pending
           store == [last |-> record.seq,
                     entries |-> [repo[p].store.entries EXCEPT ![record.id] = record.entry]]
           applied == [open |-> repo[p].open, mutable |-> repo[p].mutable,
                       pending |-> NoAppend, store |-> store]
<1>1. PICK S : repo \in [Processes -> Repositories(S)]
  BY DEF LockInv, Shape
<1>2. repo' = [repo EXCEPT ![p].pending = NoAppend,
                           ![p].store.last = record.seq,
                           ![p].store.entries[record.id] = record.entry]
  BY DEF FinishAppend
<1>3. repo' = [repo EXCEPT ![p] = applied]
  <2> DEFINE old == repo[p].store
             step1 == [open |-> repo[p].open, mutable |-> repo[p].mutable,
                       pending |-> NoAppend, store |-> old]
             moved == [last |-> record.seq, entries |-> old.entries]
             step2 == [open |-> repo[p].open, mutable |-> repo[p].mutable,
                       pending |-> NoAppend, store |-> moved]
  <2>1. repo[p] \in Repositories(S)
    BY <1>1
  <2>2. [repo[p] EXCEPT !.pending = NoAppend] = step1
    BY <2>1 DEF Repositories
  <2>3. old = [last |-> old.last, entries |-> old.entries]
    BY <2>1 DEF Repositories
  <2>4. [old EXCEPT !.last = record.seq] = moved
    BY <2>3
  <2>5. [moved EXCEPT !.entries[record.id] = record.entry] = store
    OBVIOUS
  <2>6. [repo EXCEPT ![p].pending = NoAppend] = [repo EXCEPT ![p] = step1]
    <3> HIDE DEF step1
    <3> QED BY <1>1, <2>2
  <2>7. [[repo EXCEPT ![p] = step1] EXCEPT ![p].store.last = record.seq]
           = [repo EXCEPT ![p] = step2]
    <3>1. [step1 EXCEPT !.store.last = record.seq] = step2
      <4> HIDE DEF moved, old
      <4> QED BY <2>4
    <3> HIDE DEF step1, step2
    <3> QED BY <1>1, <3>1
  <2>8. [[repo EXCEPT ![p] = step2] EXCEPT ![p].store.entries[record.id] = record.entry]
           = [repo EXCEPT ![p] = applied]
    <3>1. [step2 EXCEPT !.store.entries[record.id] = record.entry] = applied
      <4> HIDE DEF moved, store
      <4> QED BY <2>5
    <3> HIDE DEF step2, applied
    <3> QED BY <1>1, <3>1
  <2>9. repo' = [[[repo EXCEPT ![p].pending = NoAppend] EXCEPT ![p].store.last = record.seq]
                   EXCEPT ![p].store.entries[record.id] = record.entry]
    BY <1>2
  <2> HIDE DEF step1, step2, applied, record
  <2> QED BY <2>6, <2>7, <2>8, <2>9
<1>4. \E T : applied \in Repositories(T)
  <2> DEFINE T == S \cup {NoAppend, record.seq, record.entry}
  <2>1. store \in [last : T, entries : [RecordIDs -> T]]
    <3>1. repo[p].store.entries \in [RecordIDs -> S]
      BY <1>1 DEF Repositories
    <3>2. [repo[p].store.entries EXCEPT ![record.id] = record.entry] \in [RecordIDs -> T]
      BY <3>1
    <3>3. record.seq \in T
      OBVIOUS
    <3> QED BY <3>2, <3>3
  <2>2. repo[p].open \in BOOLEAN /\ repo[p].mutable \in BOOLEAN
    BY <1>1 DEF Repositories
  <2> HIDE DEF store
  <2>3. applied \in Repositories(T)
    BY <2>1, <2>2 DEF Repositories
  <2> QED BY <2>3
<1>5. applied.open = repo[p].open /\ applied.mutable = repo[p].mutable
  OBVIOUS
<1> HIDE DEF applied
<1>6. /\ Shape' /\ repo'[p] = applied
      /\ \A q \in Processes : q # p => repo'[q] = repo[q]
  BY <1>3, <1>4, Update, Zenon DEF LockInv
<1>7. applied.pending = NoAppend /\ applied.store.last = record.seq
  BY DEF applied
<1> QED BY <1>5, <1>6, <1>7

(* An append is finished, or its sync fails. *)
LEMMA AppendEnds ==
  ASSUME LockInv, NEW p \in Processes, FinishAppend(p) \/ SyncFails(p)
  PROVE  LockInv'
<1>1. lock' = lock /\ journal' = journal
  BY DEF FinishAppend, SyncFails
<1>2. CASE FinishAppend(p)
  BY <1>1, <1>2, FinishApplies, MarksStay
<1>3. CASE SyncFails(p)
  <2>1. repo' = [repo EXCEPT ![p].pending = NoAppend]
    BY <1>3 DEF SyncFails
  <2> QED BY <1>1, <2>1, PendingSet, MarksStay
<1> QED BY <1>2, <1>3

LEMMA PowerLossStep == LockInv /\ PowerLoss => LockInv'
<1> SUFFICES ASSUME PowerLoss PROVE LockInv'
  OBVIOUS
<1>1. repo' = [p \in Processes |-> NewRepository]
  BY DEF PowerLoss
<1>2. Shape'
  BY <1>1, NewRepositoryShape DEF Shape
<1>3. \A p \in Processes : ~repo'[p].open /\ ~repo'[p].mutable
  BY <1>1 DEF NewRepository
<1> QED BY <1>2, <1>3 DEF LockInv, WriterHoldsLock, MarkedInVain, Writable

LEMMA RemoveStaleLockStep == LockInv /\ RemoveStaleLock => LockInv'
<1> SUFFICES ASSUME LockInv, RemoveStaleLock PROVE LockInv'
  OBVIOUS
<1>1. lock = "stale" /\ repo' = repo /\ journal' = journal
  BY DEF RemoveStaleLock
<1>2. \A q \in Processes : ~Writable(q) /\ Writable(q)' = Writable(q)
  BY <1>1, CatalogAssumption DEF LockInv, WriterHoldsLock, Writable
<1>3. Shape' /\ WriterHoldsLock'
  BY <1>1, <1>2 DEF LockInv, Shape, WriterHoldsLock
<1>4. MarkedInVain'
  BY <1>1, <1>2 DEF LockInv, MarkedInVain
<1> QED BY <1>3, <1>4 DEF LockInv

LEMMA LockInvInit == Init => LockInv
<1> SUFFICES ASSUME Init PROVE LockInv
  OBVIOUS
<1>1. repo = [p \in Processes |-> NewRepository]
  BY DEF Init
<1>2. Shape
  BY <1>1, NewRepositoryShape DEF Shape
<1>3. \A p \in Processes : ~repo[p].open /\ ~repo[p].mutable
  BY <1>1 DEF NewRepository
<1> QED BY <1>2, <1>3 DEF LockInv, WriterHoldsLock, MarkedInVain, Writable

LEMMA LockInvStep ==
  ASSUME TRUE \notin ReadFaults
  PROVE  LockInv /\ [Next]_vars => LockInv'
<1> SUFFICES ASSUME LockInv, [Next]_vars PROVE LockInv'
  OBVIOUS
<1>1. ASSUME NEW p \in Processes, NEW preferMutable \in BOOLEAN,
             Open(p, preferMutable) \/ OpenFails(p, preferMutable)
      PROVE  LockInv'
  BY <1>1, OpenStep, OpenFailsStep
<1>2. ASSUME NEW p \in Processes, RecordObserved(p) \/ RecordJobState(p)
      PROVE  LockInv'
  <2>1. \E id, entry : BeginAppend(p, id, entry)
    BY <1>2 DEF RecordObserved, RecordJobState
  <2> QED BY <2>1, BeginAppendStep
<1>3. ASSUME NEW p \in Processes, FinishAppend(p) \/ SyncFails(p)
      PROVE  LockInv'
  BY <1>3, AppendEnds
<1>4. ASSUME NEW p \in Processes, Close(p)
      PROVE  LockInv'
  BY <1>4, ProcessLeaves DEF Close
<1>5. ASSUME NEW p \in Processes, Crash(p)
      PROVE  LockInv'
  BY <1>5, ProcessLeaves DEF Crash
<1>6. CASE UNCHANGED vars
  <2>1. /\ lock' = lock /\ journal' = journal /\ repo' = repo
    BY <1>6 DEF vars
  <2>2. Shape'
    BY <2>1 DEF LockInv, Shape
  <2> QED BY <2>1, <2>2, MarksStay
<1> QED BY <1>1, <1>2, <1>3, <1>4, <1>5, <1>6, PowerLossStep, RemoveStaleLockStep DEF Next

(* For any number of processes, however they open, append, close and       *)
(* crash, and although a crashed writer's lock is removed by hand: at most *)
(* one repository may append, and it holds the lock.  A load that fails on *)
(* a journal that replays would break this (OpenFails).                    *)
THEOREM OneWriterAtATime ==
  ASSUME TRUE \notin ReadFaults
  PROVE  Spec => []OneWriter
<1>1. LockInv => OneWriter
  BY DEF LockInv, WriterHoldsLock, OneWriter
<1> QED BY <1>1, LockInvInit, LockInvStep, PTL DEF Spec

----------------------------------------------------------------------------
(* Sets of numbers have a least and a greatest one. *)

Less == {pair \in Nat \X Nat : pair[1] < pair[2]}

LEMMA LeastNumber ==
  ASSUME NEW T \in SUBSET Nat, T # {}
  PROVE  \E m \in T : \A n \in T : m <= n
<1>1. IsWellFoundedOn(Less, Nat)
  BY NatLessThanWellFounded DEF OpToRel, Less
<1>2. PICK m \in T : \A n \in T : <<n, m>> \notin Less
  BY <1>1, WFMin
<1>3. ASSUME NEW n \in T PROVE m <= n
  <2>1. <<n, m>> \notin Less /\ n \in Nat /\ m \in Nat
    BY <1>2
  <2>2. <<n, m>> \in Nat \X Nat /\ <<n, m>>[1] = n /\ <<n, m>>[2] = m
    BY <2>1
  <2>3. ~(n < m)
    BY <2>1, <2>2 DEF Less
  <2> QED BY <2>1, <2>3
<1> QED BY <1>3

LEMMA GreatestNumber ==
  ASSUME NEW n \in Nat, NEW T \in SUBSET (1 .. n), T # {}
  PROVE  \E m \in T : \A k \in T : k <= m
<1> DEFINE Mirror == {x \in Nat : \E k \in T : x = n - k}
<1>1. PICK k0 \in T : TRUE
  OBVIOUS
<1>2. n - k0 \in Mirror
  BY <1>1
<1>3. Mirror # {} /\ Mirror \in SUBSET Nat
  BY <1>2
<1>4. PICK x \in Mirror : \A y \in Mirror : x <= y
  <2> HIDE DEF Mirror
  <2> QED BY <1>3, LeastNumber
<1>5. PICK m \in T : x = n - m
  BY <1>4
<1>6. ASSUME NEW k \in T PROVE k <= m
  <2>1. n - k \in Mirror
    OBVIOUS
  <2>2. x <= n - k
    BY <1>4, <2>1
  <2> QED BY <1>5, <2>2
<1> QED BY <1>6

----------------------------------------------------------------------------
(* The journal as a sequence of numbered records and of fragments. *)

JournalShape(j) ==
    /\ \E S : j \in Seq(S)
    /\ \A i \in 1 .. Len(j) : /\ j[i].torn \in BOOLEAN
                              /\ ~j[i].torn => j[i].seq \in Nat \ {0}

(* Without the fragments at and behind its first, a journal is read as its *)
(* beginning is: what is behind a record does not matter to it.            *)
LEMMA ReadableFacts ==
  ASSUME NEW j, JournalShape(j)
  PROVE  /\ Len(j) \in Nat
         /\ Torn(j) \subseteq 1 .. Len(j)
         /\ Readable(j) \subseteq 1 .. Len(j)
         /\ \A i \in Readable(j) : /\ i \in 1 .. Len(j)
                                   /\ i \in Nat /\ ~j[i].torn /\ j[i].seq \in Nat \ {0}
                                   /\ \A k \in 1 .. i : k \in Readable(j)
         /\ \A i \in 1 .. Len(j) : (\A k \in 1 .. i : ~j[k].torn) <=> i \in Readable(j)
<1>1. Len(j) \in Nat
  BY DEF JournalShape
<1>2. ASSUME NEW i \in Readable(j)
      PROVE  /\ i \in 1 .. Len(j) /\ i \in Nat /\ ~j[i].torn /\ j[i].seq \in Nat \ {0}
             /\ \A k \in 1 .. i : k \in Readable(j)
  <2>1. i \in 1 .. Len(j) /\ \A t \in Torn(j) : i < t
    BY DEF Readable
  <2>2. ~j[i].torn
    BY <1>1, <2>1 DEF Torn, JournalShape
  <2>3. \A k \in 1 .. i : k \in Readable(j)
    BY <1>1, <2>1 DEF Readable, Torn
  <2> QED BY <1>1, <2>1, <2>2, <2>3 DEF JournalShape
<1>3. ASSUME NEW i \in 1 .. Len(j)
      PROVE  (\A k \in 1 .. i : ~j[k].torn) <=> i \in Readable(j)
  <2>1. ASSUME \A k \in 1 .. i : ~j[k].torn PROVE i \in Readable(j)
    BY <1>1, <2>1 DEF Readable, Torn
  <2>2. ASSUME i \in Readable(j), NEW k \in 1 .. i PROVE ~j[k].torn
    BY <1>2, <2>2
  <2> QED BY <2>1, <2>2
<1> QED BY <1>1, <1>2, <1>3 DEF Torn, Readable

LEMMA AppliedFacts ==
  ASSUME NEW j, JournalShape(j), NEW base \in Nat
  PROVE  /\ Applied(base, j) \subseteq Readable(j)
         /\ \A i \in Applied(base, j) : j[i].seq > base
         /\ \A i, k \in Applied(base, j) : k < i => j[k].seq < j[i].seq
BY DEF Applied

(* Two journals that begin in the same way are read in the same way, as    *)
(* far as that goes.                                                       *)
Agree(j, k, n) == n \in 0 .. Len(j) /\ n \in 0 .. Len(k) /\ \A i \in 1 .. n : j[i] = k[i]

LEMMA AgreeingJournals ==
  ASSUME NEW j, NEW k, JournalShape(j), JournalShape(k), NEW n \in Nat, Agree(j, k, n)
  PROVE  \A i \in 1 .. n : /\ i \in Readable(j) <=> i \in Readable(k)
                           /\ i \in Applied(0, j) <=> i \in Applied(0, k)
<1> SUFFICES ASSUME NEW i \in 1 .. n
             PROVE  /\ i \in Readable(j) <=> i \in Readable(k)
                    /\ i \in Applied(0, j) <=> i \in Applied(0, k)
  OBVIOUS
<1>1. Len(j) \in Nat /\ Len(k) \in Nat
  BY ReadableFacts
<1>2. \A m \in 1 .. n : m \in 1 .. Len(j) /\ m \in 1 .. Len(k) /\ j[m] = k[m]
  BY <1>1 DEF Agree
<1>3. \A m \in 1 .. n : m \in Readable(j) <=> m \in Readable(k)
  <2> SUFFICES ASSUME NEW m \in 1 .. n PROVE m \in Readable(j) <=> m \in Readable(k)
    OBVIOUS
  <2>1. \A x \in 1 .. m : j[x] = k[x]
    BY <1>2
  <2>2. m \in Readable(j) <=> \A x \in 1 .. m : ~j[x].torn
    BY <1>2, ReadableFacts
  <2>3. m \in Readable(k) <=> \A x \in 1 .. m : ~k[x].torn
    BY <1>2, ReadableFacts
  <2> QED BY <2>1, <2>2, <2>3
<1>4. i \in Applied(0, j) <=>
        i \in Readable(j) /\ j[i].seq > 0 /\ \A x \in 1 .. i - 1 : x \in Readable(j) => j[x].seq < j[i].seq
  <2>1. \A x \in Readable(j) : x \in Nat /\ x >= 1
    BY ReadableFacts
  <2> QED BY <2>1 DEF Applied
<1>5. i \in Applied(0, k) <=>
        i \in Readable(k) /\ k[i].seq > 0 /\ \A x \in 1 .. i - 1 : x \in Readable(k) => k[x].seq < k[i].seq
  <2>1. \A x \in Readable(k) : x \in Nat /\ x >= 1
    BY ReadableFacts
  <2> QED BY <2>1 DEF Applied
<1>6. \A x \in 1 .. i - 1 : x \in 1 .. n
  OBVIOUS
<1> QED BY <1>2, <1>3, <1>4, <1>5, <1>6

(* The first record with a number as high as that of a readable one counts. *)
LEMMA FirstOfItsSize ==
  ASSUME NEW j, JournalShape(j), NEW base \in Nat, NEW i \in Readable(j), j[i].seq > base
  PROVE  \E m \in Applied(base, j) : m <= i /\ j[m].seq >= j[i].seq
<1> DEFINE T == {n \in 1 .. i : j[n].seq >= j[i].seq}
<1>1. i \in Nat \ {0} /\ j[i].seq \in Nat /\ \A k \in 1 .. i : k \in Readable(j)
  BY ReadableFacts
<1>2. i \in T
  BY <1>1
<1>3. PICK m \in T : \A n \in T : m <= n
  <2>1. T \in SUBSET Nat /\ T # {}
    BY <1>2
  <2> HIDE DEF T
  <2> QED BY <2>1, LeastNumber
<1>4. m \in 1 .. i /\ j[m].seq >= j[i].seq /\ m \in Readable(j) /\ j[m].seq \in Nat
  BY <1>1, <1>3, ReadableFacts
<1>5. ASSUME NEW k \in Readable(j), k < m PROVE j[k].seq < j[m].seq
  <2>1. k \in 1 .. i /\ k \in Nat /\ m \in Nat /\ j[k].seq \in Nat
    BY <1>4, <1>5, ReadableFacts
  <2>2. k \notin T
    BY <1>3, <1>5, <2>1
  <2> QED BY <1>1, <1>4, <2>1, <2>2
<1>6. m \in Applied(base, j)
  BY <1>1, <1>4, <1>5 DEF Applied
<1> QED BY <1>4, <1>6

LEMMA AppliedFinite ==
  ASSUME NEW j, JournalShape(j), NEW base \in Nat
  PROVE  IsFiniteSet(Applied(base, j)) /\ Cardinality(Applied(base, j)) \in Nat
<1>1. Applied(base, j) \subseteq 1 .. Len(j) /\ Len(j) \in Nat
  BY AppliedFacts, ReadableFacts
<1>2. IsFiniteSet(1 .. Len(j))
  <2>1. 1 \in Int /\ Len(j) \in Int
    BY <1>1
  <2> QED BY <2>1, FS_Interval, Zenon
<1> QED BY <1>1, <1>2, FS_Subset, FS_CardinalityType

(* The index that a journal replays to has the highest number of those     *)
(* that are read: the numbers that count are one after the other.          *)
LEMMA ReplayedToTheLast ==
  ASSUME NEW j, JournalShape(j), ~ReplayFails(0, j)
  PROVE  LET c == Cardinality(Applied(0, j))
         IN /\ c \in Nat
            /\ \A i \in Readable(j) : j[i].seq <= c
            /\ c = 0 \/ \E i \in Readable(j) : j[i].seq >= c
<1> DEFINE A == Applied(0, j)
           c == Cardinality(A)
<1>1. /\ A \subseteq Readable(j) /\ A \subseteq 1 .. Len(j) /\ Len(j) \in Nat
      /\ \A i \in A : i \in Nat /\ j[i].seq \in Nat \ {0}
      /\ \A i, k \in A : k < i => j[k].seq < j[i].seq
  BY AppliedFacts, ReadableFacts
<1>2. IsFiniteSet(A) /\ c \in Nat
  BY AppliedFinite
<1>3. \A i \in A : j[i].seq = 1 \/ \E k \in A : j[k].seq = j[i].seq - 1
  BY DEF ReplayFails
<1>4. \A i \in Readable(j) : \E m \in A : j[m].seq >= j[i].seq
  <2> SUFFICES ASSUME NEW i \in Readable(j) PROVE \E m \in A : j[m].seq >= j[i].seq
    OBVIOUS
  <2>1. j[i].seq > 0
    BY ReadableFacts
  <2> QED BY <2>1, FirstOfItsSize
<1> HIDE DEF A
<1>5. CASE A = {}
  <2>1. Readable(j) = {}
    BY <1>4, <1>5
  <2>2. c = 0
    BY <1>5, FS_EmptySet
  <2> QED BY <1>2, <2>1, <2>2 DEF A
<1>6. CASE A # {}
  <2>1. PICK M \in A : \A k \in A : k <= M
    BY <1>1, <1>6, GreatestNumber
  <2> DEFINE top == j[M].seq
  <2>2. top \in Nat \ {0} /\ \A k \in A : j[k].seq <= top
    BY <1>1, <2>1
  <2>3. ASSUME NEW u \in 1 .. top PROVE \E k \in A : j[k].seq = u
    <3> DEFINE V == {v \in Nat : v >= u /\ \E k \in A : j[k].seq = v}
    <3>1. top \in V
      BY <2>1, <2>2
    <3>2. PICK v \in V : \A w \in V : v <= w
      <4>1. V \in SUBSET Nat /\ V # {}
        BY <3>1
      <4> HIDE DEF V
      <4> QED BY <4>1, LeastNumber
    <3>3. PICK k \in A : j[k].seq = v
      BY <3>2
    <3>4. CASE v = u
      BY <3>3, <3>4
    <3>5. CASE v > u
      <4>1. PICK n \in A : j[n].seq = v - 1
        BY <1>3, <3>3, <3>5
      <4>2. v - 1 \in V
        BY <3>2, <3>5, <4>1
      <4> QED BY <3>2, <4>2
    <3> QED BY <3>2, <3>4, <3>5
  <2>4. c = top
    <3> DEFINE f == [k \in A |-> j[k].seq]
    <3>1. f \in [A -> 1 .. top]
      BY <1>1, <2>2
    <3>2. \A a, b \in A : f[a] = f[b] => a = b
      BY <1>1
    <3>3. \A t \in 1 .. top : \E s \in A : f[s] = t
      BY <2>3
    <3> HIDE DEF f, top
    <3>4. f \in Bijection(A, 1 .. top)
      BY <3>1, <3>2, <3>3, Fun_IsBij
    <3>5. Cardinality(1 .. top) = c
      BY <1>2, <3>4, FS_Bijection DEF ExistsBijection
    <3>6. Cardinality(1 .. top) = top
      <4>1. 1 \in Int /\ top \in Int /\ ~(1 > top)
        BY <2>2 DEF top
      <4>2. Cardinality(1 .. top) = IF 1 > top THEN 0 ELSE top - 1 + 1
        BY <4>1, FS_Interval
      <4> QED BY <4>1, <4>2
    <3> QED BY <3>5, <3>6
  <2>5. \A i \in Readable(j) : j[i].seq <= top
    <3> SUFFICES ASSUME NEW i \in Readable(j) PROVE j[i].seq <= top
      OBVIOUS
    <3>1. PICK m \in A : j[m].seq >= j[i].seq
      BY <1>4
    <3>2. j[i].seq \in Nat /\ j[m].seq \in Nat /\ j[m].seq <= top
      BY <1>1, <2>2, ReadableFacts
    <3> QED BY <2>2, <3>1, <3>2
  <2>6. M \in Readable(j) /\ top >= top
    BY <1>1, <2>1, <2>2
  <2> HIDE DEF c
  <2> QED BY <1>2, <2>4, <2>5, <2>6 DEF A, c
<1> QED BY <1>5, <1>6

(* Numbers that go up by one at most replay.                               *)
Contiguous(j) ==
    \A i \in Readable(j) :
        j[i].seq = 1 \/ \E k \in Readable(j) : k < i /\ j[k].seq >= j[i].seq - 1

LEMMA ContiguousReplays ==
  ASSUME NEW j, JournalShape(j), Contiguous(j), NEW i \in Applied(0, j), j[i].seq # 1
  PROVE  \E k \in Applied(0, j) : j[k].seq = j[i].seq - 1
<1>1. i \in Readable(j) /\ j[i].seq \in Nat \ {0} /\ i \in Nat
  BY AppliedFacts, ReadableFacts
<1>2. PICK k \in Readable(j) : k < i /\ j[k].seq >= j[i].seq - 1
  BY <1>1 DEF Contiguous
<1>3. j[k].seq \in Nat \ {0} /\ j[k].seq > 0 /\ k \in Nat
  BY <1>2, ReadableFacts
<1>4. PICK m \in Applied(0, j) : m <= k /\ j[m].seq >= j[k].seq
  BY <1>2, <1>3, FirstOfItsSize
<1>5. m \in Readable(j) /\ m \in Nat /\ j[m].seq \in Nat
  BY <1>4, AppliedFacts, ReadableFacts
<1>6. j[m].seq < j[i].seq
  BY <1>1, <1>2, <1>3, <1>4, <1>5 DEF Applied
<1> QED BY <1>1, <1>2, <1>3, <1>4, <1>5, <1>6

(* A journal without some of its beginning, in which nothing is torn and   *)
(* everything is older than the snapshot.                                  *)
TailOf(j, r, d, base) ==
    /\ d \in Nat /\ Len(r) \in Nat /\ Len(j) = Len(r) + d
    /\ \A i \in 1 .. Len(r) : r[i] = j[i + d]
    /\ \A k \in 1 .. d : ~j[k].torn /\ j[k].seq <= base

LEMMA TailIsRead ==
  ASSUME NEW j, NEW r, NEW d, NEW base \in Nat, JournalShape(j), TailOf(j, r, d, base)
  PROVE  /\ Torn(j) = {i + d : i \in Torn(r)}
         /\ Applied(base, j) = {i + d : i \in Applied(base, r)}
         /\ \A i \in 1 .. Len(r) : i + d \in 1 .. Len(j) /\ r[i] = j[i + d]
<1>1. /\ Len(j) \in Nat /\ Len(r) \in Nat /\ d \in Nat /\ Len(j) = Len(r) + d
      /\ \A i \in 1 .. Len(r) : i + d \in 1 .. Len(j) /\ r[i] = j[i + d]
  BY DEF TailOf
<1>2. \A k \in 1 .. d : ~j[k].torn /\ j[k].seq <= base
  BY DEF TailOf
<1>3. \A m \in 1 .. Len(j) : m \in 1 .. d \/ \E i \in 1 .. Len(r) : m = i + d
  <2> SUFFICES ASSUME NEW m \in 1 .. Len(j), m \notin 1 .. d
               PROVE  \E i \in 1 .. Len(r) : m = i + d
    OBVIOUS
  <2>1. m - d \in 1 .. Len(r) /\ m = (m - d) + d
    BY <1>1
  <2> QED BY <2>1
<1>4. \A i \in 1 .. Len(r) : i \in Torn(r) <=> i + d \in Torn(j)
  BY <1>1 DEF Torn
<1>5. \A k \in 1 .. d : k \notin Torn(j)
  BY <1>2 DEF Torn
<1>6. Torn(j) = {i + d : i \in Torn(r)}
  <2>1. Torn(j) \subseteq 1 .. Len(j) /\ Torn(r) \subseteq 1 .. Len(r)
    BY DEF Torn
  <2> QED BY <1>3, <1>4, <1>5, <2>1
<1>7. \A i \in 1 .. Len(r) : i \in Readable(r) <=> i + d \in Readable(j)
  <2>1. Torn(r) \subseteq 1 .. Len(r)
    BY DEF Torn
  <2> SUFFICES ASSUME NEW i \in 1 .. Len(r)
               PROVE  i \in Readable(r) <=> i + d \in Readable(j)
    OBVIOUS
  <2>2. (\A t \in Torn(r) : i < t) <=> (\A u \in Torn(j) : i + d < u)
    <3>1. ASSUME \A t \in Torn(r) : i < t, NEW u \in Torn(j) PROVE i + d < u
      <4>1. PICK t \in Torn(r) : u = t + d
        BY <1>6
      <4> QED BY <1>1, <2>1, <3>1, <4>1
    <3>2. ASSUME \A u \in Torn(j) : i + d < u, NEW t \in Torn(r) PROVE i < t
      <4>1. t + d \in Torn(j)
        BY <1>6
      <4>2. i + d < t + d
        BY <3>2, <4>1
      <4> QED BY <1>1, <2>1, <4>2
    <3> QED BY <3>1, <3>2
  <2> QED BY <1>1, <2>2 DEF Readable
<1>8. \A i \in 1 .. Len(r) : i \in Applied(base, r) <=> i + d \in Applied(base, j)
  <2> SUFFICES ASSUME NEW i \in 1 .. Len(r)
               PROVE  i \in Applied(base, r) <=> i + d \in Applied(base, j)
    OBVIOUS
  <2>1. r[i] = j[i + d] /\ i + d \in 1 .. Len(j) /\ i \in Nat
    BY <1>1
  <2>2. Readable(r) \subseteq 1 .. Len(r) /\ Readable(j) \subseteq 1 .. Len(j)
    BY DEF Readable
  <2>3. ASSUME i \in Applied(base, r) PROVE i + d \in Applied(base, j)
    <3>1. /\ i \in Readable(r) /\ r[i].seq > base
          /\ \A k \in Readable(r) : k < i => r[k].seq < r[i].seq
      BY <2>3 DEF Applied
    <3>2. i + d \in Readable(j) /\ j[i + d].seq \in Nat
      BY <1>7, <3>1, ReadableFacts
    <3>3. ASSUME NEW k \in Readable(j), k < i + d PROVE j[k].seq < j[i + d].seq
      <4>1. k \in 1 .. Len(j) /\ j[k].seq \in Nat
        BY <2>2, ReadableFacts
      <4>2. CASE k \in 1 .. d
        BY <1>2, <2>1, <3>1, <3>2, <4>1, <4>2
      <4>3. CASE k \notin 1 .. d
        <5>1. PICK m \in 1 .. Len(r) : k = m + d
          BY <1>3, <4>1, <4>3
        <5>2. m \in Readable(r) /\ m < i
          BY <1>1, <1>7, <3>3, <5>1
        <5> QED BY <1>1, <2>1, <3>1, <5>1, <5>2
      <4> QED BY <4>2, <4>3
    <3> QED BY <2>1, <3>1, <3>2, <3>3 DEF Applied
  <2>4. ASSUME i + d \in Applied(base, j) PROVE i \in Applied(base, r)
    <3>1. /\ i + d \in Readable(j) /\ j[i + d].seq > base
          /\ \A k \in Readable(j) : k < i + d => j[k].seq < j[i + d].seq
      BY <2>4 DEF Applied
    <3>2. ASSUME NEW k \in Readable(r), k < i PROVE r[k].seq < r[i].seq
      <4>1. k \in 1 .. Len(r) /\ k + d \in Readable(j) /\ k + d < i + d
        BY <1>1, <1>7, <2>2, <3>2
      <4> QED BY <1>1, <2>1, <3>1, <4>1
    <3> QED BY <1>7, <2>1, <3>1, <3>2 DEF Applied
  <2> QED BY <2>3, <2>4
<1>9. Applied(base, j) = {i + d : i \in Applied(base, r)}
  <2>1. Applied(base, r) \subseteq 1 .. Len(r) /\ Applied(base, j) \subseteq 1 .. Len(j)
    BY DEF Applied, Readable
  <2>2. \A k \in 1 .. d : k \notin Applied(base, j)
    <3> SUFFICES ASSUME NEW k \in 1 .. d, k \in Applied(base, j) PROVE FALSE
      OBVIOUS
    <3>1. j[k].seq > base /\ j[k].seq \in Nat
      BY AppliedFacts, ReadableFacts
    <3> QED BY <1>2, <3>1
  <2> QED BY <1>3, <1>8, <2>1, <2>2
<1> QED BY <1>1, <1>6, <1>9

LEMMA MaxExists ==
  ASSUME NEW n \in Nat, NEW T \in SUBSET (1 .. n), T # {}
  PROVE  Max(T) \in T /\ \A k \in T : k <= Max(T)
<1>1. PICK m \in T : \A k \in T : m >= k
  BY GreatestNumber
<1> QED BY <1>1 DEF Max

LEMMA TailReplays ==
  ASSUME NEW j, NEW r, NEW d, NEW snapshot, snapshot.last \in Nat,
         JournalShape(j), TailOf(j, r, d, snapshot.last),
         ~ReplayFails(snapshot.last, j)
  PROVE  /\ ~ReplayFails(snapshot.last, r)
         /\ ReplayJournal(snapshot, r) = ReplayJournal(snapshot, j)
<1> DEFINE base == snapshot.last
           A == Applied(base, j)
           B == Applied(base, r)
<1>1. /\ d \in Nat /\ Len(r) \in Nat /\ Len(j) = Len(r) + d
      /\ Torn(j) = {i + d : i \in Torn(r)}
      /\ A = {i + d : i \in B}
      /\ \A i \in 1 .. Len(r) : i + d \in 1 .. Len(j) /\ r[i] = j[i + d]
  <2>1. d \in Nat /\ Len(r) \in Nat /\ Len(j) = Len(r) + d
    BY DEF TailOf
  <2>2. base \in Nat /\ JournalShape(j) /\ TailOf(j, r, d, base)
    OBVIOUS
  <2> HIDE DEF base
  <2>3. /\ Torn(j) = {i + d : i \in Torn(r)}
        /\ A = {i + d : i \in B}
        /\ \A i \in 1 .. Len(r) : i + d \in 1 .. Len(j) /\ r[i] = j[i + d]
    BY ONLY <2>2, TailIsRead DEF A, B
  <2> QED BY ONLY <2>1, <2>3
<1>2. /\ Torn(r) \subseteq 1 .. Len(r) /\ B \subseteq 1 .. Len(r)
      /\ A \subseteq 1 .. Len(j) /\ Len(j) \in Nat
  BY <1>1 DEF Torn, Applied, Readable
<1>3. ~ReplayFails(base, r)
  <2>1. ASSUME NEW t \in Torn(r), \A u \in Torn(r) : t <= u,
               IF t = Len(r) THEN r[t].short ELSE ~r[t].swallows
        PROVE  FALSE
    <3>1. t + d \in Torn(j) /\ \A u \in Torn(j) : t + d <= u
      BY <1>1, <1>2, <2>1
    <3>2. t \in 1 .. Len(r)
      BY <1>2
    <3>3. r[t] = j[t + d]
      BY <1>1, <3>2
    <3>4. t = Len(r) <=> t + d = Len(j)
      <4>1. t \in Nat
        BY <3>2
      <4>2. Len(r) \in Nat /\ d \in Nat /\ Len(j) = Len(r) + d
        BY <1>1
      <4> QED BY <4>1, <4>2
    <3> QED BY <2>1, <3>1, <3>3, <3>4 DEF ReplayFails
  <2>2. ASSUME NEW i \in B, ~Decodable(r[i].entry) PROVE FALSE
    <3>1. i + d \in A /\ r[i] = j[i + d]
      BY <1>1, <1>2
    <3> QED BY <2>2, <3>1 DEF ReplayFails
  <2>3. ASSUME NEW i \in B, r[i].seq # base + 1, ~\E k \in B : r[k].seq = r[i].seq - 1
        PROVE  FALSE
    <3>1. i + d \in A /\ r[i] = j[i + d]
      BY <1>1, <1>2
    <3>2. PICK m \in A : j[m].seq = j[i + d].seq - 1
      BY <2>3, <3>1 DEF ReplayFails
    <3>3. PICK k \in B : m = k + d
      BY <1>1
    <3>4. r[k] = j[m]
      BY <1>1, <1>2, <3>3
    <3> QED BY <2>3, <3>1, <3>2, <3>4
  <2> HIDE DEF B
  <2> QED BY <2>1, <2>2, <2>3 DEF ReplayFails, B
<1>4. Cardinality(B) = Cardinality(A)
  <2> DEFINE f == [i \in B |-> i + d]
  <2>1. f \in [B -> A]
    BY <1>1
  <2>2. \A a, b \in B : f[a] = f[b] => a = b
    BY <1>1, <1>2
  <2>3. \A t \in A : \E s \in B : f[s] = t
    BY <1>1
  <2> HIDE DEF f, A, B
  <2>4. f \in Bijection(B, A)
    BY <2>1, <2>2, <2>3, Fun_IsBij
  <2>5. IsFiniteSet(B)
    <3>1. 1 \in Int /\ Len(r) \in Int
      BY <1>1
    <3>2. IsFiniteSet(1 .. Len(r))
      BY <3>1, FS_Interval, Zenon
    <3> QED BY <1>2, <3>2, FS_Subset
  <2> QED BY <2>4, <2>5, FS_Bijection DEF ExistsBijection
<1> DEFINE OfJ(id) == {i \in A : j[i].id = id}
           OfR(id) == {i \in B : r[i].id = id}
           EntryJ(id) == IF OfJ(id) = {} THEN snapshot.entries[id] ELSE j[Max(OfJ(id))].entry
           EntryR(id) == IF OfR(id) = {} THEN snapshot.entries[id] ELSE r[Max(OfR(id))].entry
<1>5. ASSUME NEW id PROVE EntryR(id) = EntryJ(id)
  <2> HIDE DEF A, B
  <2>1. OfJ(id) = {i + d : i \in OfR(id)}
    <3>1. ASSUME NEW m \in OfJ(id) PROVE \E i \in OfR(id) : m = i + d
      <4>1. PICK i \in B : m = i + d
        BY <1>1
      <4> QED BY <1>1, <1>2, <4>1
    <3>2. ASSUME NEW i \in OfR(id) PROVE i + d \in OfJ(id)
      BY <1>1, <1>2
    <3> QED BY <3>1, <3>2
  <2>2. OfR(id) \in SUBSET (1 .. Len(r)) /\ OfJ(id) \in SUBSET (1 .. Len(j))
    BY <1>2
  <2> HIDE DEF OfJ, OfR
  <2>3. CASE OfR(id) = {}
    BY <2>1, <2>3
  <2>4. CASE OfR(id) # {}
    <3>1. OfJ(id) # {}
      BY <2>1, <2>4
    <3>2. Max(OfR(id)) \in OfR(id) /\ \A k \in OfR(id) : k <= Max(OfR(id))
      BY <1>1, <2>2, <2>4, MaxExists
    <3>3. Max(OfJ(id)) \in OfJ(id) /\ \A k \in OfJ(id) : k <= Max(OfJ(id))
      BY <1>2, <2>2, <3>1, MaxExists
    <3>4. Max(OfJ(id)) = Max(OfR(id)) + d
      <4>1. Max(OfR(id)) + d \in OfJ(id)
        BY <2>1, <3>2
      <4>2. PICK k \in OfR(id) : Max(OfJ(id)) = k + d
        BY <2>1, <3>3
      <4>3. k <= Max(OfR(id)) /\ Max(OfR(id)) + d <= Max(OfJ(id))
        BY <3>2, <3>3, <4>1
      <4> QED BY <1>1, <2>2, <3>2, <4>2, <4>3
    <3>5. Max(OfR(id)) \in 1 .. Len(r)
      BY <2>2, <3>2
    <3> QED BY <1>1, <2>4, <3>1, <3>4, <3>5
  <2> QED BY <2>3, <2>4
<1>6. /\ ReplayJournal(snapshot, j) =
           [last |-> base + Cardinality(A), entries |-> [id \in RecordIDs |-> EntryJ(id)]]
      /\ ReplayJournal(snapshot, r) =
           [last |-> base + Cardinality(B), entries |-> [id \in RecordIDs |-> EntryR(id)]]
  BY DEF ReplayJournal
<1> HIDE DEF A, B, EntryJ, EntryR
<1> QED BY <1>3, <1>4, <1>5, <1>6

(* Nothing in the journal counts: it replays to the snapshot.              *)
LEMMA NothingNew ==
  ASSUME NEW j, NEW snapshot, snapshot.last \in Nat, Applied(snapshot.last, j) = {}
  PROVE  ReplayJournal(snapshot, j) =
           [last |-> snapshot.last, entries |-> [id \in RecordIDs |-> snapshot.entries[id]]]
<1>1. Cardinality({}) = 0
  BY FS_EmptySet
<1>2. ASSUME NEW id PROVE {i \in Applied(snapshot.last, j) : j[i].id = id} = {}
  OBVIOUS
<1> QED BY <1>1, <1>2 DEF ReplayJournal

(* Compaction: what is left of the journal replays on the snapshot as all  *)
(* of it does.                                                             *)
LEMMA TruncationReplays ==
  ASSUME NEW j, NEW snapshot, snapshot.last \in Nat, JournalShape(j),
         ~ReplayFails(snapshot.last, j)
  PROVE  LET rest == TruncateJournalAfterSnapshot(j, snapshot)
         IN /\ ~ReplayFails(snapshot.last, rest)
            /\ ReplayJournal(snapshot, rest) = ReplayJournal(snapshot, j)
<1> DEFINE keep == {i \in 1 .. Len(j) : j[i].torn \/ j[i].seq > snapshot.last}
           first == Min(keep)
           dropped == j[first].torn /\ (IF first = Len(j) THEN ~j[first].short
                                                          ELSE j[first].swallows)
           rest == TruncateJournalAfterSnapshot(j, snapshot)
<1>1. rest = IF keep = {} THEN <<>>
             ELSE IF dropped THEN <<>> ELSE SubSeq(j, first, Len(j))
  BY DEF TruncateJournalAfterSnapshot
<1>2. Len(j) \in Nat
  BY ReadableFacts
<1>3. keep # {} => first \in keep /\ \A k \in keep : first <= k
  <2> SUFFICES ASSUME keep # {} PROVE first \in keep /\ \A k \in keep : first <= k
    OBVIOUS
  <2>1. keep \in SUBSET Nat
    OBVIOUS
  <2> HIDE DEF keep
  <2>2. PICK m \in keep : \A k \in keep : m <= k
    BY <2>1, LeastNumber
  <2> QED BY <2>2 DEF Min
<1> HIDE DEF first, rest
<1>4. CASE keep = {} \/ dropped
  <2>1. rest = <<>>
    BY <1>1, <1>4
  <2>2. Applied(snapshot.last, j) = {}
    <3> SUFFICES ASSUME NEW i \in Applied(snapshot.last, j) PROVE FALSE
      OBVIOUS
    <3>1. i \in Readable(j) /\ i \in 1 .. Len(j) /\ j[i].seq > snapshot.last
      BY AppliedFacts, ReadableFacts
    <3>2. i \in keep
      BY <3>1
    <3>3. first \in 1 .. Len(j) /\ first <= i /\ j[first].torn
      BY <1>3, <1>4, <3>2
    <3>4. first \in Torn(j)
      BY <3>3 DEF Torn
    <3>5. i < first
      BY <3>1, <3>4 DEF Readable
    <3> QED BY <3>1, <3>3, <3>5
  <2>3. Applied(snapshot.last, rest) = {} /\ Torn(rest) = {}
    BY <2>1 DEF Applied, Readable, Torn
  <2>4. ~ReplayFails(snapshot.last, rest)
    BY <2>3 DEF ReplayFails
  <2>5. ReplayJournal(snapshot, rest) = ReplayJournal(snapshot, j)
    BY <2>2, <2>3, NothingNew
  <2> QED BY <2>4, <2>5 DEF rest
<1>5. CASE keep # {} /\ ~dropped
  <2> DEFINE d == first - 1
  <2>1. rest = SubSeq(j, first, Len(j))
    BY <1>1, <1>5
  <2>2. first \in 1 .. Len(j) /\ \A k \in keep : first <= k
    BY <1>3, <1>5
  <2>3. /\ Len(rest) = Len(j) - d /\ d \in Nat /\ Len(rest) \in Nat
        /\ \A i \in 1 .. Len(rest) : rest[i] = j[i + d]
    <3>1. PICK S : j \in Seq(S)
      BY DEF JournalShape
    <3> QED BY <1>2, <2>1, <2>2, <3>1
  <2>4. ASSUME NEW k \in 1 .. d PROVE ~j[k].torn /\ j[k].seq <= snapshot.last
    <3>1. k \in 1 .. Len(j) /\ k \notin keep
      BY <1>2, <2>2
    <3>2. ~j[k].torn /\ ~(j[k].seq > snapshot.last)
      BY <3>1
    <3>3. j[k].seq \in Nat
      BY <3>1, <3>2 DEF JournalShape
    <3> QED BY <3>2, <3>3
  <2>5. TailOf(j, rest, d, snapshot.last)
    <3>1. Len(j) = Len(rest) + d
      BY <1>2, <2>3
    <3> HIDE DEF d
    <3> QED BY <2>3, <2>4, <3>1 DEF TailOf
  <2> QED BY <2>5, TailReplays DEF rest
<1> QED BY <1>4, <1>5

----------------------------------------------------------------------------
(* What the writers know of the journal, and what a power loss spares. *)

(* No fragment among the first n records of the journal.                   *)
Whole(n) == \A i \in 1 .. n : ~journal[i].torn

ReadUpTo(n) == {journal[i].entry.lastSeen : i \in {k \in Applied(0, journal) : k <= n}}

(* Recorded events that are not read back from what a power loss spares; a *)
(* fragment in there ends all promises.                                    *)
Lost == IF Whole(synced) THEN recorded \ ReadUpTo(synced) ELSE {}

FilesFit ==
    /\ JournalShape(journal) /\ Contiguous(journal)
    /\ synced \in 0 .. Len(journal)
    /\ IsFiniteSet(recorded) /\ failures \in Nat

(* A writer's index is at the last number in the journal, or one behind    *)
(* it: while an append is pending, or since one failed, which leaves a     *)
(* failure that has cost no event yet.                                     *)
FollowsJournal(r) ==
    LET last == r.store.last IN
    /\ \A i \in Readable(journal) : journal[i].seq <= last + 1
    /\ Whole(Len(journal)) => last = 0 \/ \E i \in Readable(journal) : journal[i].seq >= last
    /\ r.pending = NoAppend =>
         ((\E i \in Readable(journal) : journal[i].seq > last) => Cardinality(Lost) < failures)
    /\ r.pending # NoAppend =>
         /\ Len(journal) # 0 /\ journal[Len(journal)] = r.pending
         /\ r.pending.seq = last + 1
         /\ Whole(Len(journal)) =>
              Len(journal) \in Applied(0, journal) \/ Cardinality(Lost) < failures

Fits(r) ==
    /\ r.store.last \in Nat
    /\ r.pending # NoAppend => r.open /\ r.mutable
    /\ r.open /\ r.mutable => FollowsJournal(r)

JournalInv ==
    /\ LockInv /\ FilesFit
    /\ Cardinality(Lost) <= failures
    /\ \A p \in Processes : Fits(repo[p])

LEMMA LostFinite ==
  ASSUME FilesFit
  PROVE  IsFiniteSet(Lost) /\ Cardinality(Lost) \in Nat
<1>1. Lost \subseteq recorded
  BY DEF Lost
<1> QED BY <1>1, FS_Subset, FS_CardinalityType DEF FilesFit

(* A writer is alone; everybody else is at rest.                           *)
Idle(r) == r.store.last \in Nat /\ r.pending = NoAppend /\ ~(r.open /\ r.mutable)

LEMMA OthersAreIdle ==
  ASSUME JournalInv, NEW p \in Processes, Writable(p), NEW q \in Processes, q # p
  PROVE  Idle(repo[q])
<1>1. ~Writable(q)
  BY DEF JournalInv, LockInv, WriterHoldsLock
<1> QED BY <1>1 DEF JournalInv, Fits, Idle, Writable

LEMMA IdleFits ==
  ASSUME NEW p \in Processes, Idle(repo'[p])
  PROVE  Fits(repo[p])'
BY DEF Idle, Fits

(* A step that leaves the files and the counts alone.                      *)
LEMMA FilesStay ==
  ASSUME JournalInv, LockInv', UNCHANGED <<journal, synced, recorded, failures>>,
         \A q \in Processes : Fits(repo'[q])
  PROVE  JournalInv'
<1>1. FilesFit' /\ Lost' = Lost
  BY DEF JournalInv, FilesFit, Lost, Whole, ReadUpTo
<1>2. ASSUME NEW q \in Processes PROVE Fits(repo[q])'
  <2>1. Fits(repo'[q])
    OBVIOUS
  <2> QED BY <1>1, <2>1 DEF Fits, FollowsJournal, Whole
<1> QED BY <1>1, <1>2 DEF JournalInv

LEMMA NewRepositoryFits == Fits(NewRepository)
BY DEF NewRepository, Fits, EmptyStore

(* What was lost stays so, and no more is: the journal keeps its synced    *)
(* beginning.                                                              *)
LEMMA LostShrinks ==
  ASSUME JournalInv, JournalShape(journal'), NEW n \in Nat, Agree(journal, journal', n),
         synced <= n, synced' \in 0 .. Len(journal'), synced <= synced', recorded' = recorded
  PROVE  Cardinality(Lost') <= Cardinality(Lost) /\ Cardinality(Lost') \in Nat
<1>1. /\ Len(journal) \in Nat /\ Len(journal') \in Nat /\ synced \in Nat /\ synced' \in Nat
      /\ JournalShape(journal)
  BY ReadableFacts DEF JournalInv, FilesFit
<1>2. /\ n \in 0 .. Len(journal) /\ n \in 0 .. Len(journal')
      /\ \A i \in 1 .. n : journal[i] = journal'[i]
  BY DEF Agree
<1>3. \A i \in 1 .. n : i \in Applied(0, journal) <=> i \in Applied(0, journal')
  BY <1>1, AgreeingJournals
<1>4. Lost' \subseteq Lost
  <2>1. CASE Whole(synced)'
    <3>1. Whole(synced)
      BY <1>1, <1>2, <2>1 DEF Whole
    <3>2. ReadUpTo(synced) \subseteq ReadUpTo(synced)'
      <4> SUFFICES ASSUME NEW i \in Applied(0, journal), i <= synced
                   PROVE  journal[i].entry.lastSeen \in ReadUpTo(synced)'
        BY DEF ReadUpTo
      <4>1. i \in 1 .. n
        BY <1>1, ReadableFacts DEF Applied
      <4>2. i \in Applied(0, journal') /\ journal'[i] = journal[i] /\ i <= synced'
        BY <1>1, <1>2, <1>3, <4>1
      <4> QED BY <4>2 DEF ReadUpTo
    <3> QED BY <2>1, <3>1, <3>2 DEF Lost
  <2>2. CASE ~Whole(synced)'
    BY <2>2 DEF Lost
  <2> QED BY <2>1, <2>2
<1>5. IsFiniteSet(Lost)
  BY LostFinite DEF JournalInv
<1> QED BY <1>4, <1>5, FS_Subset, FS_CardinalityType

(* A journal cut behind n records, with a fragment at its end or without.  *)
LEMMA CutContiguous ==
  ASSUME NEW j, NEW k, JournalShape(j), JournalShape(k), NEW n \in Nat, Agree(j, k, n),
         Contiguous(j), Readable(k) \subseteq 1 .. n
  PROVE  Contiguous(k)
<1>1. \A i \in 1 .. n : (i \in Readable(j) <=> i \in Readable(k)) /\ j[i] = k[i]
  BY AgreeingJournals DEF Agree
<1> SUFFICES ASSUME NEW i \in Readable(k), k[i].seq # 1
             PROVE  \E m \in Readable(k) : m < i /\ k[m].seq >= k[i].seq - 1
  BY DEF Contiguous
<1>2. i \in 1 .. n /\ i \in Readable(j) /\ j[i] = k[i]
  BY <1>1
<1>3. PICK m \in Readable(j) : m < i /\ j[m].seq >= j[i].seq - 1
  BY <1>2 DEF Contiguous
<1>4. m \in Nat /\ m >= 1
  BY ReadableFacts
<1>5. m \in 1 .. n
  BY <1>2, <1>3, <1>4
<1> QED BY <1>1, <1>2, <1>3, <1>5

(* A record or a fragment at the end.                                      *)
Extends(j, k, x) ==
  k = Append(j, x) /\ x.torn \in BOOLEAN /\ (~x.torn => x.seq \in Nat \ {0})

LEMMA Appended ==
  ASSUME NEW j, JournalShape(j), NEW k, NEW x, Extends(j, k, x)
  PROVE  /\ JournalShape(k) /\ Agree(j, k, Len(j))
         /\ Len(k) = Len(j) + 1 /\ k[Len(k)] = x
         /\ \A i \in Readable(k) : i \in Readable(j) \/ (i = Len(k) /\ ~x.torn)
         /\ \A i \in Readable(j) : i \in Readable(k) /\ k[i] = j[i]
<1>0. k = Append(j, x) /\ x.torn \in BOOLEAN /\ (~x.torn => x.seq \in Nat \ {0})
  BY DEF Extends
<1>1. PICK S : j \in Seq(S)
  BY DEF JournalShape
<1>2. /\ k \in Seq(S \cup {x}) /\ Len(k) = Len(j) + 1 /\ Len(j) \in Nat
      /\ \A i \in 1 .. Len(j) : k[i] = j[i]
      /\ k[Len(j) + 1] = x
  <2>1. j \in Seq(S \cup {x}) /\ x \in S \cup {x}
    BY <1>1
  <2> QED BY <1>0, <2>1
<1>3. JournalShape(k)
  <2>1. ASSUME NEW i \in 1 .. Len(k)
        PROVE  k[i].torn \in BOOLEAN /\ (~k[i].torn => k[i].seq \in Nat \ {0})
    <3>1. CASE i \in 1 .. Len(j)
      BY <1>2, <3>1 DEF JournalShape
    <3>2. CASE i = Len(j) + 1
      BY <1>0, <1>2, <3>2
    <3> QED BY <1>2, <3>1, <3>2
  <2> QED BY <1>2, <2>1 DEF JournalShape
<1>4. Agree(j, k, Len(j))
  BY <1>2 DEF Agree
<1>5. \A i \in 1 .. Len(j) : i \in Readable(j) <=> i \in Readable(k)
  BY <1>2, <1>3, <1>4, AgreeingJournals
<1>6. ASSUME NEW i \in Readable(k) PROVE i \in Readable(j) \/ (i = Len(k) /\ ~x.torn)
  <2>1. i \in 1 .. Len(k) /\ ~k[i].torn
    BY <1>3, <1>6, ReadableFacts
  <2>2. CASE i \in 1 .. Len(j)
    BY ONLY <1>5, <1>6, <2>2
  <2>3. CASE i = Len(j) + 1
    BY <1>2, <2>1, <2>3
  <2> QED BY <1>2, <2>1, <2>2, <2>3
<1>7. ASSUME NEW i \in Readable(j) PROVE i \in Readable(k) /\ k[i] = j[i]
  <2>1. i \in 1 .. Len(j)
    BY <1>7, ReadableFacts
  <2> QED BY <1>2, <1>5, <1>7, <2>1
<1> QED BY <1>2, <1>3, <1>4, <1>6, <1>7

----------------------------------------------------------------------------
(* The steps. *)

LEMMA OpenFollows ==
  ASSUME JournalInv, LockInv', NEW p \in Processes, NEW preferMutable \in BOOLEAN,
         Open(p, preferMutable)
  PROVE  JournalInv'
<1> DEFINE mutable == repo[p].mutable \/ GetsLock(preferMutable)
           store == ReplayJournal(EmptyStore, journal)
           opened == [open |-> TRUE, mutable |-> mutable, pending |-> NoAppend,
                      store |-> store]
<1>1. /\ ~ReplayFails(0, journal)
      /\ repo' = [repo EXCEPT ![p] = opened]
      /\ UNCHANGED <<journal, synced, recorded, failures>>
  BY DEF Open
<1>2. /\ repo'[p] = opened
      /\ \A q \in Processes : q # p => repo'[q] = repo[q]
  <2>1. DOMAIN repo = Processes
    BY DEF JournalInv, LockInv, Shape
  <2> HIDE DEF opened
  <2> QED BY <1>1, <2>1
<1>3. store.last = Cardinality(Applied(0, journal))
  <2>1. Cardinality(Applied(0, journal)) \in Nat
    BY AppliedFinite DEF JournalInv, FilesFit
  <2>2. store.last = 0 + Cardinality(Applied(0, journal))
    BY DEF ReplayJournal, EmptyStore
  <2> QED BY <2>1, <2>2
<1>4. /\ store.last \in Nat
      /\ \A i \in Readable(journal) : journal[i].seq <= store.last
      /\ store.last = 0 \/ \E i \in Readable(journal) : journal[i].seq >= store.last
  BY <1>1, <1>3, ReplayedToTheLast DEF JournalInv, FilesFit
<1>5. \A i \in Readable(journal) : journal[i].seq \in Nat
  BY ReadableFacts DEF JournalInv, FilesFit
<1>6. opened.store.last = store.last /\ opened.pending = NoAppend /\ opened.open
  OBVIOUS
<1> HIDE DEF opened, store
<1>7. FollowsJournal(opened)
  <2>1. \A i \in Readable(journal) :
          journal[i].seq <= store.last + 1 /\ ~(journal[i].seq > store.last)
    BY <1>4, <1>5
  <2> QED BY <1>4, <1>6, <2>1 DEF FollowsJournal
<1>8. Fits(opened)
  BY <1>4, <1>6, <1>7 DEF Fits, opened
<1> QED BY <1>1, <1>2, <1>8, FilesStay DEF JournalInv

LEMMA OpenFailsFollows ==
  ASSUME JournalInv, LockInv', NEW p \in Processes, NEW preferMutable \in BOOLEAN,
         OpenFails(p, preferMutable)
  PROVE  JournalInv'
<1>1. /\ ~repo[p].open
      /\ repo' = [repo EXCEPT ![p].mutable = @ \/ GetsLock(preferMutable)]
      /\ UNCHANGED <<journal, synced, recorded, failures>>
  BY DEF OpenFails
<1>2. PICK S : repo \in [Processes -> Repositories(S)]
  BY DEF JournalInv, LockInv, Shape
<1>3. /\ repo'[p].open = repo[p].open /\ repo'[p].pending = repo[p].pending
      /\ repo'[p].store = repo[p].store
      /\ \A q \in Processes : q # p => repo'[q] = repo[q]
  BY <1>1, <1>2 DEF Repositories
<1>4. Fits(repo'[p])
  BY <1>1, <1>3 DEF JournalInv, Fits
<1> QED BY <1>1, <1>3, <1>4, FilesStay DEF JournalInv

LEMMA LeavingFollows ==
  ASSUME JournalInv, LockInv', NEW p \in Processes, Close(p) \/ Crash(p)
  PROVE  JournalInv'
<1>1. /\ repo' = [repo EXCEPT ![p] = NewRepository]
      /\ UNCHANGED <<journal, synced, recorded, failures>>
  BY DEF Close, Crash
<1>2. /\ repo'[p] = NewRepository
      /\ \A q \in Processes : q # p => repo'[q] = repo[q]
  <2>1. DOMAIN repo = Processes
    BY DEF JournalInv, LockInv, Shape
  <2> QED BY <1>1, <2>1
<1> QED BY <1>1, <1>2, NewRepositoryFits, FilesStay DEF JournalInv

LEMMA PowerLossFollows ==
  ASSUME JournalInv, LockInv', PowerLoss
  PROVE  JournalInv'
<1>1. /\ repo' = [p \in Processes |-> NewRepository]
      /\ synced' = Len(journal') /\ recorded' = recorded /\ failures' = failures
  BY DEF PowerLoss
<1>2. PICK n \in synced .. Len(journal) :
        \/ journal' = SubSeq(journal, 1, n)
        \/ \E fragment \in Fragments : journal' = Append(SubSeq(journal, 1, n), fragment)
  BY DEF PowerLoss
<1>3. JournalShape(journal) /\ Len(journal) \in Nat /\ synced \in Nat /\ n \in Nat
  BY <1>2, ReadableFacts DEF JournalInv, FilesFit
<1> DEFINE cut == SubSeq(journal, 1, n)
<1>4. Len(cut) = n /\ \A i \in 1 .. n : cut[i] = journal[i]
  <2>1. PICK S : journal \in Seq(S)
    BY <1>3 DEF JournalShape
  <2>2. n \in 0 .. Len(journal)
    BY <1>2, <1>3
  <2> QED BY <2>1, <2>2
<1>5. JournalShape(cut)
  <2>1. PICK S : journal \in Seq(S)
    BY <1>3 DEF JournalShape
  <2>2. cut \in Seq(S)
    BY <1>2, <1>3, <2>1
  <2>3. \A i \in 1 .. Len(cut) : i \in 1 .. Len(journal)
    BY <1>2, <1>3, <1>4
  <2> HIDE DEF cut
  <2> QED BY <1>3, <1>4, <2>2, <2>3 DEF JournalShape
<1> HIDE DEF cut
<1>6. /\ JournalShape(journal') /\ Agree(journal, journal', n)
      /\ Readable(journal') \subseteq 1 .. n
  <2>1. CASE journal' = cut
    <3>1. Readable(cut) \subseteq 1 .. Len(cut)
      BY <1>5, ReadableFacts
    <3> QED BY <1>2, <1>3, <1>4, <1>5, <2>1, <3>1 DEF Agree
  <2>2. ASSUME NEW fragment \in Fragments, journal' = Append(cut, fragment)
        PROVE  /\ JournalShape(journal') /\ Agree(journal, journal', n)
               /\ Readable(journal') \subseteq 1 .. n
    <3>1. fragment.torn = TRUE
      BY DEF Fragments
    <3>5. Extends(cut, journal', fragment)
      BY <2>2, <3>1 DEF Extends
    <3>2. /\ JournalShape(journal') /\ Agree(cut, journal', Len(cut))
          /\ Len(journal') = Len(cut) + 1
          /\ \A i \in Readable(journal') : i \in Readable(cut)
      BY <1>5, <3>1, <3>5, Appended
    <3>3. Agree(journal, journal', n)
      BY <1>2, <1>3, <1>4, <3>2 DEF Agree
    <3>4. Readable(cut) \subseteq 1 .. n
      BY <1>4, <1>5, ReadableFacts
    <3> QED BY <3>2, <3>3, <3>4
  <2> QED BY <1>2, <2>1, <2>2 DEF cut
<1>7. Len(journal') \in Nat /\ n <= Len(journal')
  BY <1>3, <1>6, ReadableFacts DEF Agree
<1>8. Contiguous(journal')
  BY <1>3, <1>6, CutContiguous DEF JournalInv, FilesFit
<1>9. FilesFit'
  BY <1>1, <1>6, <1>7, <1>8 DEF JournalInv, FilesFit
<1>10. Cardinality(Lost') <= Cardinality(Lost) /\ Cardinality(Lost') \in Nat
  <2>1. synced <= n /\ synced <= synced' /\ synced' \in 0 .. Len(journal')
    BY <1>1, <1>2, <1>3, <1>7
  <2> QED BY <1>1, <1>3, <1>6, <2>1, LostShrinks
<1>11. Cardinality(Lost') <= failures'
  BY <1>1, <1>10, LostFinite DEF JournalInv, FilesFit
<1>12. ASSUME NEW p \in Processes PROVE Fits(repo[p])'
  <2>1. Idle(repo'[p])
    BY <1>1 DEF Idle, NewRepository, EmptyStore
  <2> QED BY <2>1, IdleFits
<1> QED BY <1>9, <1>11, <1>12 DEF JournalInv

LEMMA BeginAppendFollows ==
  ASSUME JournalInv, LockInv', NEW p \in Processes, NEW id, NEW entry, BeginAppend(p, id, entry)
  PROVE  JournalInv'
<1> DEFINE last == repo[p].store.last
           record == Record(last + 1, id, [entry EXCEPT !.lastSeen = appends + 1])
<1>1. /\ Writable(p) /\ repo[p].pending = NoAppend
      /\ UNCHANGED <<synced, recorded>>
      /\ \/ /\ journal' = Append(journal, record)
            /\ repo' = [repo EXCEPT ![p].pending = record]
            /\ failures' = failures
         \/ /\ failures' = failures + 1
            /\ \E fragment \in Fragments : journal' = Append(journal, fragment)
            /\ repo' = repo
  BY Zenon DEF BeginAppend
<1>2. record.torn = FALSE /\ record.seq = last + 1
  BY DEF Record
<1> HIDE DEF record
<1>3. /\ last \in Nat /\ FollowsJournal(repo[p])
      /\ JournalShape(journal) /\ Contiguous(journal) /\ Len(journal) \in Nat
      /\ synced \in 0 .. Len(journal) /\ failures \in Nat
      /\ Cardinality(Lost) \in Nat /\ Cardinality(Lost) <= failures
  BY <1>1, ReadableFacts, LostFinite DEF JournalInv, FilesFit, Fits, Writable
<1>4. ASSUME NEW x, Extends(journal, journal', x)
      PROVE  /\ JournalShape(journal') /\ Agree(journal, journal', Len(journal))
             /\ Len(journal') = Len(journal) + 1 /\ journal'[Len(journal')] = x
             /\ \A i \in Readable(journal') : i \in Readable(journal) \/ (i = Len(journal') /\ ~x.torn)
             /\ \A i \in Readable(journal) : i \in Readable(journal') /\ journal'[i] = journal[i]
             /\ Cardinality(Lost') <= Cardinality(Lost) /\ Cardinality(Lost') \in Nat
             /\ synced' \in 0 .. Len(journal')
  <2>1. /\ JournalShape(journal') /\ Agree(journal, journal', Len(journal))
        /\ Len(journal') = Len(journal) + 1 /\ journal'[Len(journal')] = x
        /\ \A i \in Readable(journal') : i \in Readable(journal) \/ (i = Len(journal') /\ ~x.torn)
        /\ \A i \in Readable(journal) : i \in Readable(journal') /\ journal'[i] = journal[i]
    BY <1>3, <1>4, Appended
  <2>2. synced <= Len(journal) /\ synced <= synced' /\ synced' \in 0 .. Len(journal')
    BY <1>1, <1>3, <2>1
  <2>3. Cardinality(Lost') <= Cardinality(Lost) /\ Cardinality(Lost') \in Nat
    BY <1>1, <1>3, <2>1, <2>2, LostShrinks
  <2> QED BY <2>1, <2>2, <2>3
<1>5. CASE /\ journal' = Append(journal, record)
           /\ repo' = [repo EXCEPT ![p].pending = record]
           /\ failures' = failures
  <2>1. /\ JournalShape(journal') /\ Agree(journal, journal', Len(journal))
        /\ Len(journal') = Len(journal) + 1 /\ journal'[Len(journal')] = record
        /\ \A i \in Readable(journal') : i \in Readable(journal) \/ i = Len(journal')
        /\ \A i \in Readable(journal) : i \in Readable(journal') /\ journal'[i] = journal[i]
        /\ Cardinality(Lost') <= Cardinality(Lost) /\ Cardinality(Lost') \in Nat
        /\ synced' \in 0 .. Len(journal')
    <3>1. last + 1 \in Nat \ {0}
      <4>1. last \in Nat
        BY <1>3
      <4> HIDE DEF last
      <4> QED BY <4>1
    <3> HIDE DEF last
    <3>2. Extends(journal, journal', record)
      BY <1>2, <1>5, <3>1 DEF Extends
    <3> QED BY <1>4, <3>2
  <2>2. /\ repo'[p].open = repo[p].open /\ repo'[p].mutable = repo[p].mutable
        /\ repo'[p].store = repo[p].store /\ repo'[p].pending = record
        /\ \A q \in Processes : q # p => repo'[q] = repo[q]
    BY <1>5, PendingSet DEF JournalInv
  <2>3. record # NoAppend
    BY <1>2, <1>3 DEF NoAppend
  <2>4. Len(journal') \in Readable(journal') => Whole(Len(journal)) /\ Len(journal) \in Nat
    BY <1>3, <2>1, ReadableFacts DEF Whole, Agree
  <2>5. Whole(Len(journal))' => Len(journal') \in Readable(journal') /\ Whole(Len(journal))
    BY <1>3, <2>1, ReadableFacts DEF Whole, Agree
  <2>6. Contiguous(journal')
    <3> SUFFICES ASSUME NEW i \in Readable(journal'), journal'[i].seq # 1
                 PROVE  \E m \in Readable(journal') : m < i /\ journal'[m].seq >= journal'[i].seq - 1
      BY DEF Contiguous
    <3>1. CASE i \in Readable(journal)
      <4>1. PICK m \in Readable(journal) : m < i /\ journal[m].seq >= journal[i].seq - 1
        BY <1>3, <2>1, <3>1 DEF Contiguous
      <4> QED BY <2>1, <3>1, <4>1
    <3>2. CASE i = Len(journal')
      <4>1. Whole(Len(journal)) /\ journal'[i].seq = last + 1
        BY <1>2, <2>1, <2>4, <3>2
      <4>2. PICK m \in Readable(journal) : journal[m].seq >= last
        BY <1>3, <4>1 DEF FollowsJournal
      <4>3. m \in Nat /\ m <= Len(journal) /\ journal[m].seq \in Nat
        BY <1>3, ReadableFacts
      <4>4. m \in Readable(journal') /\ journal'[m].seq >= last
        BY <2>1, <4>2
      <4>5. m < i
        BY <1>3, <2>1, <3>2, <4>3
      <4>6. journal'[i].seq - 1 = last
        BY <1>3, <4>1
      <4> HIDE DEF last
      <4> QED BY <4>4, <4>5, <4>6
    <3> QED BY <2>1, <3>1, <3>2
  <2>7. FilesFit'
    BY <1>1, <1>5, <2>1, <2>6 DEF JournalInv, FilesFit
  <2>8. FollowsJournal(repo[p])'
    <3>1. ASSUME NEW i \in Readable(journal') PROVE journal'[i].seq <= last + 1
      <4>1. CASE i \in Readable(journal)
        BY <1>3, <2>1, <4>1 DEF FollowsJournal
      <4>2. CASE i = Len(journal')
        BY <1>2, <1>3, <2>1, <4>2
      <4> QED BY <2>1, <4>1, <4>2
    <3>2. Whole(Len(journal))' => \E i \in Readable(journal') : journal'[i].seq >= last
      BY <1>2, <1>3, <2>1, <2>5
    <3>3. Len(journal') # 0
      BY <1>3, <2>1
    <3>4. ASSUME Whole(Len(journal))'
          PROVE  Len(journal') \in Applied(0, journal') \/ Cardinality(Lost') < failures'
      <4>1. CASE \E i \in Readable(journal) : journal[i].seq > last
        <5>1. Cardinality(Lost) < failures
          BY <1>1, <1>3, <4>1 DEF FollowsJournal
        <5> QED BY <1>3, <1>5, <2>1, <5>1
      <4>2. CASE ~\E i \in Readable(journal) : journal[i].seq > last
        <5>1. \A k \in Readable(journal') : k < Len(journal') => journal'[k].seq < last + 1
          <6> SUFFICES ASSUME NEW k \in Readable(journal'), k < Len(journal')
                       PROVE  journal'[k].seq < last + 1
            OBVIOUS
          <6>1. k \in Readable(journal) /\ journal[k].seq \in Nat
            BY <1>3, <2>1, ReadableFacts
          <6>2. ~(journal[k].seq > last) /\ journal'[k] = journal[k]
            BY <2>1, <4>2, <6>1
          <6>3. last \in Nat
            BY <1>3
          <6> HIDE DEF last
          <6> QED BY <6>1, <6>2, <6>3
        <5> QED BY <1>2, <1>3, <2>1, <2>5, <3>4, <5>1 DEF Applied
      <4> QED BY <4>1, <4>2
    <3> QED BY <1>2, <2>1, <2>2, <2>3, <3>1, <3>2, <3>3, <3>4 DEF FollowsJournal
  <2>9. Fits(repo[p])'
    BY <1>1, <1>3, <2>2, <2>8 DEF Fits, Writable
  <2>10. ASSUME NEW q \in Processes, q # p PROVE Fits(repo[q])'
    BY <1>1, <2>2, <2>10, OthersAreIdle, IdleFits
  <2>11. Cardinality(Lost') <= failures'
    BY <1>3, <1>5, <2>1
  <2> QED BY <2>7, <2>9, <2>10, <2>11 DEF JournalInv
<1>6. ASSUME NEW fragment \in Fragments, failures' = failures + 1,
             journal' = Append(journal, fragment), repo' = repo
      PROVE  JournalInv'
  <2>1. fragment.torn = TRUE /\ Extends(journal, journal', fragment)
    BY <1>6 DEF Fragments, Extends
  <2>2. /\ JournalShape(journal') /\ Agree(journal, journal', Len(journal))
        /\ Len(journal') = Len(journal) + 1 /\ journal'[Len(journal')] = fragment
        /\ \A i \in Readable(journal') : i \in Readable(journal)
        /\ \A i \in Readable(journal) : i \in Readable(journal') /\ journal'[i] = journal[i]
        /\ Cardinality(Lost') <= Cardinality(Lost) /\ Cardinality(Lost') \in Nat
        /\ synced' \in 0 .. Len(journal')
    BY <1>4, <2>1
  <2>3. Contiguous(journal')
    <3>1. Readable(journal') \subseteq 1 .. Len(journal)
      BY <1>3, <2>2, ReadableFacts
    <3> QED BY <1>3, <2>2, <3>1, CutContiguous
  <2>4. FilesFit'
    BY <1>1, <1>3, <1>6, <2>2, <2>3 DEF JournalInv, FilesFit
  <2>5. ~Whole(Len(journal))'
    BY <1>3, <2>1, <2>2 DEF Whole
  <2>6. Cardinality(Lost') < failures' /\ Cardinality(Lost') <= failures'
    BY <1>3, <1>6, <2>2
  <2>7. FollowsJournal(repo[p])'
    <3>1. \A i \in Readable(journal') : journal'[i].seq <= last + 1
      BY <1>3, <2>2 DEF FollowsJournal
    <3> QED BY <1>1, <1>6, <2>5, <2>6, <3>1 DEF FollowsJournal
  <2>8. Fits(repo[p])'
    BY <1>1, <1>3, <1>6, <2>7 DEF Fits, Writable
  <2>9. ASSUME NEW q \in Processes, q # p PROVE Fits(repo[q])'
    BY <1>1, <1>6, <2>9, OthersAreIdle, IdleFits
  <2> QED BY <2>4, <2>6, <2>8, <2>9 DEF JournalInv
<1> QED BY <1>1, <1>5, <1>6

LEMMA FinishAppendFollows ==
  ASSUME JournalInv, LockInv', NEW p \in Processes, FinishAppend(p)
  PROVE  JournalInv'
<1> DEFINE record == repo[p].pending
           last == repo[p].store.last
           seen == record.entry.lastSeen
<1>1. /\ record # NoAppend /\ recorded' = recorded \cup {seen} /\ synced' = Len(journal)
      /\ UNCHANGED <<journal, failures>>
  BY DEF FinishAppend
<1>2. /\ Writable(p) /\ last \in Nat /\ FollowsJournal(repo[p])
      /\ JournalShape(journal) /\ Contiguous(journal) /\ Len(journal) \in Nat
      /\ synced \in 0 .. Len(journal) /\ failures \in Nat /\ IsFiniteSet(recorded)
      /\ Cardinality(Lost) \in Nat /\ Cardinality(Lost) <= failures /\ IsFiniteSet(Lost)
  BY <1>1, ReadableFacts, LostFinite DEF JournalInv, FilesFit, Fits, Writable
<1>3. /\ Len(journal) # 0 /\ journal[Len(journal)] = record /\ record.seq = last + 1
      /\ Whole(Len(journal)) =>
           Len(journal) \in Applied(0, journal) \/ Cardinality(Lost) < failures
      /\ \A i \in Readable(journal) : journal[i].seq <= last + 1
  BY <1>1, <1>2 DEF FollowsJournal
<1>4. /\ repo'[p].open = repo[p].open /\ repo'[p].mutable = repo[p].mutable
      /\ repo'[p].pending = NoAppend /\ repo'[p].store.last = last + 1
      /\ \A q \in Processes : q # p => repo'[q] = repo[q]
  BY <1>3, FinishApplies DEF JournalInv
<1>5. FilesFit'
  <2>1. IsFiniteSet(recorded')
    BY <1>1, <1>2, FS_AddElement
  <2>2. synced' \in 0 .. Len(journal')
    BY <1>1, <1>2
  <2> QED BY <1>1, <1>2, <2>1, <2>2 DEF FilesFit
<1>6. Cardinality(Lost') <= failures' /\ Cardinality(Lost') \in Nat
  <2>1. CASE ~Whole(Len(journal))
    <3>1. Lost' = {}
      BY <1>1, <2>1 DEF Lost, Whole
    <3> QED BY <1>1, <1>2, <3>1, FS_EmptySet
  <2>2. CASE Whole(Len(journal))
    <3> DEFINE all == {journal[i].entry.lastSeen : i \in Applied(0, journal)}
    <3>1. Lost' = (recorded \cup {seen}) \ all
      <4>1. \A i \in Applied(0, journal) : i <= Len(journal)
        BY <1>2, ReadableFacts, AppliedFacts
      <4>2. ReadUpTo(synced)' = all
        BY <1>1, <4>1 DEF ReadUpTo
      <4>3. Whole(synced)'
        BY <1>1, <2>2 DEF Whole
      <4> QED BY <1>1, <4>2, <4>3 DEF Lost
    <3>2. Lost = recorded \ ReadUpTo(synced) /\ ReadUpTo(synced) \subseteq all
      <4>1. Whole(synced)
        BY <1>2, <2>2 DEF Whole
      <4> QED BY <4>1 DEF Lost, ReadUpTo
    <3> HIDE DEF seen
    <3>3. CASE Len(journal) \in Applied(0, journal)
      <4>1. seen \in all
        BY <1>3, <3>3 DEF seen
      <4>2. Lost' \subseteq Lost
        BY <3>1, <3>2, <4>1
      <4>3. Cardinality(Lost') <= Cardinality(Lost) /\ Cardinality(Lost') \in Nat
        BY <1>2, <4>2, FS_Subset, FS_CardinalityType
      <4> QED BY <1>1, <1>2, <4>3
    <3>4. CASE Cardinality(Lost) < failures
      <4>1. Lost' \subseteq Lost \cup {seen}
        BY <3>1, <3>2
      <4>2. /\ IsFiniteSet(Lost \cup {seen})
            /\ Cardinality(Lost \cup {seen}) <= Cardinality(Lost) + 1
            /\ Cardinality(Lost \cup {seen}) \in Nat
        <5>1. /\ IsFiniteSet(Lost \cup {seen})
              /\ Cardinality(Lost \cup {seen}) =
                   IF seen \in Lost THEN Cardinality(Lost) ELSE Cardinality(Lost) + 1
          BY <1>2, FS_AddElement
        <5> QED BY <1>2, <5>1
      <4>3. Cardinality(Lost') <= Cardinality(Lost \cup {seen}) /\ Cardinality(Lost') \in Nat
        BY <4>1, <4>2, FS_Subset, FS_CardinalityType
      <4> QED BY <1>1, <1>2, <3>4, <4>2, <4>3
    <3> QED BY <1>3, <2>2, <3>3, <3>4
  <2> QED BY <2>1, <2>2
<1>7. FollowsJournal(repo[p])'
  <2>1. ASSUME NEW i \in Readable(journal')
        PROVE  journal'[i].seq <= last + 1 + 1 /\ ~(journal'[i].seq > last + 1)
    <3>1. journal[i].seq \in Nat /\ journal[i].seq <= last + 1
      BY <1>1, <1>2, <1>3, ReadableFacts
    <3>2. journal'[i] = journal[i] /\ last \in Nat
      BY <1>1, <1>2
    <3> HIDE DEF last
    <3> QED BY <3>1, <3>2
  <2>2. Whole(Len(journal))' => \E i \in Readable(journal') : journal'[i].seq >= last + 1
    <3>1. Whole(Len(journal)) => Len(journal) \in Readable(journal)
      BY <1>2, <1>3, ReadableFacts DEF Whole
    <3> QED BY <1>1, <1>2, <1>3, <3>1 DEF Whole
  <2> QED BY <1>4, <2>1, <2>2 DEF FollowsJournal
<1>8. Fits(repo[p])'
  BY <1>2, <1>4, <1>7 DEF Fits, Writable
<1>9. ASSUME NEW q \in Processes, q # p PROVE Fits(repo[q])'
  BY <1>2, <1>4, <1>9, OthersAreIdle, IdleFits
<1> QED BY <1>5, <1>6, <1>8, <1>9 DEF JournalInv

LEMMA SyncFailsFollows ==
  ASSUME JournalInv, LockInv', NEW p \in Processes, SyncFails(p)
  PROVE  JournalInv'
<1>1. /\ repo[p].pending # NoAppend /\ failures' = failures + 1
      /\ repo' = [repo EXCEPT ![p].pending = NoAppend]
      /\ UNCHANGED <<journal, synced, recorded>>
  BY DEF SyncFails
<1>2. /\ Writable(p) /\ FollowsJournal(repo[p]) /\ failures \in Nat
      /\ Cardinality(Lost) \in Nat /\ Cardinality(Lost) <= failures
  BY <1>1, LostFinite DEF JournalInv, FilesFit, Fits, Writable
<1>3. /\ repo'[p].open = repo[p].open /\ repo'[p].mutable = repo[p].mutable
      /\ repo'[p].store = repo[p].store /\ repo'[p].pending = NoAppend
      /\ \A q \in Processes : q # p => repo'[q] = repo[q]
  BY <1>1, PendingSet DEF JournalInv
<1>4. FilesFit' /\ Lost' = Lost
  BY <1>1, <1>2 DEF JournalInv, FilesFit, Lost, Whole, ReadUpTo
<1>5. Cardinality(Lost') < failures' /\ Cardinality(Lost') <= failures'
  BY <1>1, <1>2, <1>4
<1>6. Fits(repo[p])'
  <2>1. FollowsJournal(repo[p])'
    BY <1>1, <1>2, <1>3, <1>5 DEF FollowsJournal, Whole
  <2> QED BY <1>3, <2>1 DEF Fits, JournalInv
<1>7. ASSUME NEW q \in Processes, q # p PROVE Fits(repo[q])'
  BY <1>2, <1>3, <1>7, OthersAreIdle, IdleFits
<1> QED BY <1>4, <1>5, <1>6, <1>7 DEF JournalInv

LEMMA JournalInvInit == Init => JournalInv
<1> SUFFICES ASSUME Init PROVE JournalInv
  OBVIOUS
<1>1. journal = <<>> /\ synced = 0 /\ recorded = {} /\ failures = 0
  BY DEF Init
<1>2. JournalShape(journal)
  <2>1. <<>> \in Seq({}) /\ Len(<<>>) = 0
    OBVIOUS
  <2> QED BY <1>1, <2>1 DEF JournalShape
<1>3. Readable(journal) = {}
  BY <1>1 DEF Readable
<1>4. FilesFit
  BY <1>1, <1>2, <1>3, FS_EmptySet DEF FilesFit, Contiguous
<1>5. Lost = {} /\ Cardinality({}) = 0
  BY <1>1, FS_EmptySet DEF Lost
<1>6. \A p \in Processes : Fits(repo[p])
  BY NewRepositoryFits DEF Init
<1> QED BY <1>1, <1>4, <1>5, <1>6, LockInvInit DEF JournalInv

LEMMA JournalInvStep ==
  ASSUME TRUE \notin ReadFaults
  PROVE  JournalInv /\ [Next]_vars => JournalInv'
<1> SUFFICES ASSUME JournalInv, [Next]_vars PROVE JournalInv'
  OBVIOUS
<1>1. LockInv'
  BY LockInvStep DEF JournalInv
<1>2. ASSUME NEW p \in Processes, NEW preferMutable \in BOOLEAN,
             Open(p, preferMutable) \/ OpenFails(p, preferMutable)
      PROVE  JournalInv'
  BY <1>1, <1>2, OpenFollows, OpenFailsFollows
<1>3. ASSUME NEW p \in Processes, RecordObserved(p) \/ RecordJobState(p)
      PROVE  JournalInv'
  <2>1. \E id, entry : BeginAppend(p, id, entry)
    BY <1>3 DEF RecordObserved, RecordJobState
  <2> QED BY <1>1, <2>1, BeginAppendFollows
<1>4. ASSUME NEW p \in Processes, FinishAppend(p) \/ SyncFails(p)
      PROVE  JournalInv'
  BY <1>1, <1>4, FinishAppendFollows, SyncFailsFollows
<1>5. ASSUME NEW p \in Processes, Close(p) \/ Crash(p)
      PROVE  JournalInv'
  BY <1>1, <1>5, LeavingFollows
<1>6. CASE PowerLoss
  BY <1>1, <1>6, PowerLossFollows
<1>7. CASE RemoveStaleLock
  <2>1. UNCHANGED <<journal, synced, recorded, failures, repo>>
    BY <1>7 DEF RemoveStaleLock
  <2> QED BY <1>1, <2>1, FilesStay DEF JournalInv
<1>8. CASE UNCHANGED vars
  <2>1. UNCHANGED <<journal, synced, recorded, failures, repo>>
    BY <1>8 DEF vars
  <2> QED BY <1>1, <2>1, FilesStay DEF JournalInv
<1> QED BY <1>2, <1>3, <1>4, <1>5, <1>6, <1>7, <1>8 DEF Next

(* For any number of processes, records, failures and crashes: what was    *)
(* reported as recorded is read back from a journal without fragments, and *)
(* at most one event is lost for each failed write or sync (FinishAppend,  *)
(* SyncFails, PowerLoss).                                                  *)
THEOREM RecordedEventsSurvive ==
  ASSUME TRUE \notin ReadFaults
  PROVE  Spec => []RecordedSurvives
<1>1. JournalInv => RecordedSurvives
  <2> SUFFICES ASSUME JournalInv,
                      \A i \in 1 .. Len(journal) : ~journal[i].torn /\ Decodable(journal[i].entry)
               PROVE  /\ ~ReplayFails(0, journal)
                      /\ Cardinality(recorded \ {journal[i].entry.lastSeen :
                                                   i \in Applied(0, journal)}) <= failures
    BY DEF RecordedSurvives
  <2>1. /\ JournalShape(journal) /\ Contiguous(journal) /\ Len(journal) \in Nat
        /\ synced \in 0 .. Len(journal) /\ failures \in Nat
        /\ IsFiniteSet(Lost) /\ Cardinality(Lost) \in Nat /\ Cardinality(Lost) <= failures
    BY ReadableFacts, LostFinite DEF JournalInv, FilesFit
  <2>2. Torn(journal) = {}
    BY DEF Torn
  <2>3. \A i \in Applied(0, journal) : Decodable(journal[i].entry)
    BY <2>1, AppliedFacts, ReadableFacts
  <2>4. \A i \in Applied(0, journal) :
          journal[i].seq = 1 \/ \E k \in Applied(0, journal) : journal[k].seq = journal[i].seq - 1
    BY <2>1, ContiguousReplays
  <2>5. ~ReplayFails(0, journal)
    BY <2>2, <2>3, <2>4 DEF ReplayFails
  <2> DEFINE missing == recorded \ {journal[i].entry.lastSeen : i \in Applied(0, journal)}
  <2>6. missing \subseteq Lost
    <3>1. Whole(synced)
      BY <2>1 DEF Whole
    <3> QED BY <3>1 DEF Lost, ReadUpTo
  <2> HIDE DEF missing
  <2>7. Cardinality(missing) <= Cardinality(Lost) /\ Cardinality(missing) \in Nat
    BY <2>1, <2>6, FS_Subset, FS_CardinalityType
  <2>8. Cardinality(missing) <= failures
    BY <2>1, <2>7
  <2> QED BY <2>5, <2>8 DEF missing
<1> QED BY <1>1, JournalInvInit, JournalInvStep, PTL DEF Spec

(* For any number of processes, records, failures and crashes, and for     *)
(* every index that is loaded, also one that is behind the journal: what   *)
(* compaction leaves of the journal replays on the snapshot as all of it   *)
(* does, and the snapshot of the writer replays to itself                  *)
(* (BuildSnapshotRecord, TruncateJournalAfterSnapshot).                    *)
THEOREM CompactionIsLossless ==
  ASSUME TRUE \notin ReadFaults
  PROVE  Spec => []CompactionKeepsHistory
<1>1. JournalInv => CompactionKeepsHistory
  <2> SUFFICES ASSUME JournalInv, NEW p \in Processes, repo[p].open
               PROVE  LET snapshot == BuildSnapshotRecord(repo[p].store)
                          rest == TruncateJournalAfterSnapshot(journal, snapshot)
                      IN ReplayFails(snapshot.last, journal) \/
                           /\ ~ReplayFails(snapshot.last, rest)
                           /\ ReplayJournal(snapshot, rest) = ReplayJournal(snapshot, journal)
                           /\ Writable(p) /\ repo[p].pending = NoAppend /\ failures = 0 =>
                                ReplayJournal(snapshot, rest) = snapshot
    BY DEF CompactionKeepsHistory
  <2> DEFINE store == repo[p].store
             snapshot == BuildSnapshotRecord(store)
             rest == TruncateJournalAfterSnapshot(journal, snapshot)
             Kept(id) == IF Cardinality({o \in Known(store) :
                              store.entries[o].lastSeen > store.entries[id].lastSeen}) < MaxEntries
                         THEN LastJobRefs(store.entries[id]) ELSE NoEntry
  <2>1. PICK S : repo \in [Processes -> Repositories(S)]
    BY DEF JournalInv, LockInv, Shape
  <2>2. store = [last |-> store.last, entries |-> store.entries]
    BY <2>1 DEF Repositories
  <2>3. snapshot = [last |-> store.last, entries |-> [id \in RecordIDs |-> Kept(id)]]
    <3>1. snapshot = [store EXCEPT !.entries = [id \in RecordIDs |-> Kept(id)]]
      BY DEF BuildSnapshotRecord
    <3> HIDE DEF Kept, snapshot, store
    <3> QED BY <2>2, <3>1
  <2> HIDE DEF snapshot, Kept
  <2>4. /\ snapshot.last = store.last /\ snapshot.last \in Nat
        /\ snapshot = [last |-> snapshot.last,
                       entries |-> [id \in RecordIDs |-> snapshot.entries[id]]]
    <3>1. store.last \in Nat
      BY DEF JournalInv, Fits
    <3> QED BY <2>3, <3>1
  <2> SUFFICES ASSUME ~ReplayFails(snapshot.last, journal)
               PROVE  /\ ~ReplayFails(snapshot.last, rest)
                      /\ ReplayJournal(snapshot, rest) = ReplayJournal(snapshot, journal)
                      /\ Writable(p) /\ repo[p].pending = NoAppend /\ failures = 0 =>
                           ReplayJournal(snapshot, rest) = snapshot
    BY DEF snapshot
  <2>5. JournalShape(journal)
    BY DEF JournalInv, FilesFit
  <2>6. /\ ~ReplayFails(snapshot.last, rest)
        /\ ReplayJournal(snapshot, rest) = ReplayJournal(snapshot, journal)
    BY <2>4, <2>5, TruncationReplays
  <2>7. ASSUME Writable(p), repo[p].pending = NoAppend, failures = 0
        PROVE  ReplayJournal(snapshot, journal) = snapshot
    <3>1. Cardinality(Lost) \in Nat /\ FollowsJournal(repo[p])
      BY <2>7, LostFinite DEF JournalInv, Fits, Writable
    <3>2. ~\E i \in Readable(journal) : journal[i].seq > store.last
      BY <2>7, <3>1 DEF FollowsJournal
    <3>3. Applied(snapshot.last, journal) = {}
      BY <2>4, <3>2 DEF Applied
    <3> QED BY <2>4, <3>3, NothingNew
  <2> HIDE DEF rest
  <2> QED BY <2>6, <2>7
<1> QED BY <1>1, JournalInvInit, JournalInvStep, PTL DEF Spec

----------------------------------------------------------------------------
(* The lookup: what is known of the result after the entries it has been   *)
(* at.  A result that is not final is the strongest of what their samples  *)
(* say, all of which were compared.                                        *)
Strengths == {"no", "indeterminate", "probable", "strong", "conflict"}

Results == [match : Strengths, entry : Nat, evidence : Nat, exhausted : BOOLEAN]

IdentityTypeOK ==
    /\ history \in Seq(EntriesOf(sectorCount, EntryStates))
    /\ DOMAIN samples \subseteq Planned
    /\ clock \in 0 .. TotalBudget
    /\ position \in Nat
    /\ compared \in 0 .. MaxComparedSamples
    /\ best \in Results

(* A sample is left out only when no time is left. *)
SkippedWhenLate ==
    \A slot \in DOMAIN samples : samples[slot] = "skipped" => clock = TotalBudget

Candidate(i) == i \in 1 .. Len(history) /\ Comparable(history[i])

(* The result is the strongest of what the entries before k say.           *)
StrongestBefore(k, result) ==
    /\ \A i \in 1 .. k - 1 : Candidate(i) => Rank[Evidence(history[i])] <= Rank[result.match]
    /\ \/ result.match = "no" /\ \A i \in 1 .. k - 1 : ~Candidate(i)
       \/ \E i \in 1 .. k - 1 : Candidate(i) /\ Evidence(history[i]) = result.match

StrongIsBacked(result) ==
    result.match = "strong" =>
        Candidate(result.entry) /\ Evidence(history[result.entry]) = "strong"

LookupFits ==
    /\ ~LookupDone => compared < MaxComparedSamples
    /\ best.exhausted \/ best.match = "conflict" => LookupDone
    /\ StrongIsBacked(best)
    /\ ~best.exhausted => StrongestBefore(position, best)

IdentityInv == IdentityTypeOK /\ SkippedWhenLate /\ LookupFits

LEMMA Ranks ==
  /\ \A m \in Strengths : Rank[m] \in 0 .. 4
  /\ Rank["no"] = 0 /\ Rank["indeterminate"] = 1 /\ Rank["probable"] = 2
  /\ Rank["strong"] = 3 /\ Rank["conflict"] = 4
BY DEF Strengths, Rank

LEMMA PlanIsSmall ==
  /\ Planned \subseteq 0 .. 7
  /\ \A S \in SUBSET Planned : IsFiniteSet(S) /\ Cardinality(S) \in Nat
<1>1. Planned \subseteq 0 .. 7
  BY DEF Planned, BuildSamplePlan
<1>2. IsFiniteSet(0 .. 7)
  <2>1. 0 \in Int /\ 7 \in Int
    OBVIOUS
  <2> QED BY <2>1, FS_Interval, Zenon
<1>3. ASSUME NEW S \in SUBSET Planned PROVE IsFiniteSet(S) /\ Cardinality(S) \in Nat
  BY <1>1, <1>2, FS_Subset, FS_CardinalityType
<1> QED BY <1>1, <1>3

(* No more samples are compared than the budget has left.                  *)
LEMMA BudgetIsKept ==
  ASSUME NEW e, NEW b \in Nat
  PROVE  Cardinality(ComparedSlots(e, b)) <= b
<1> DEFINE slots == ComparedSlots(e, b)
           Before(m) == {s \in Common(e) : s < m}
<1>1. slots \subseteq Common(e) /\ Common(e) \subseteq Planned
  BY DEF ComparedSlots, Common
<1>2. CASE slots = {}
  BY <1>2, FS_EmptySet
<1>3. CASE slots # {}
  <2> DEFINE T == {n \in 0 .. 7 : \E s \in slots : n = 7 - s}
  <2>1. slots \subseteq 0 .. 7
    BY <1>1, PlanIsSmall
  <2>2. T \in SUBSET Nat /\ T # {}
    <3>1. PICK s \in slots : s \in 0 .. 7
      BY <1>3, <2>1
    <3>2. 7 - s \in T
      <4> HIDE DEF slots
      <4> QED BY <3>1
    <3> QED BY <3>2
  <2>3. PICK n \in T : \A k \in T : n <= k
    <3> HIDE DEF T
    <3> QED BY <2>2, LeastNumber
  <2>4. PICK m \in slots : n = 7 - m
    BY <2>3
  <2>5. \A s \in slots : s <= m
    <3> SUFFICES ASSUME NEW s \in slots PROVE s <= m
      OBVIOUS
    <3> HIDE DEF slots
    <3>1. 7 - s \in T
      BY <2>1
    <3>2. n <= 7 - s
      BY <2>3, <3>1
    <3> QED BY <2>1, <2>4, <3>2
  <2>6. slots \subseteq Before(m) \cup {m}
    BY <1>1, <2>1, <2>5, PlanIsSmall
  <2>7. Cardinality(Before(m)) < b
    BY DEF ComparedSlots
  <2>8. Before(m) \in SUBSET Planned
    BY <1>1
  <2> HIDE DEF Before, slots
  <2>9. IsFiniteSet(Before(m)) /\ Cardinality(Before(m)) \in Nat
    BY <2>8, PlanIsSmall
  <2>10. /\ IsFiniteSet(Before(m) \cup {m})
         /\ Cardinality(Before(m) \cup {m}) <= Cardinality(Before(m)) + 1
         /\ Cardinality(Before(m) \cup {m}) \in Nat
    <3>1. /\ IsFiniteSet(Before(m) \cup {m})
          /\ Cardinality(Before(m) \cup {m}) =
               IF m \in Before(m) THEN Cardinality(Before(m)) ELSE Cardinality(Before(m)) + 1
      BY <2>9, FS_AddElement
    <3> QED BY <2>9, <3>1
  <2>11. Cardinality(slots) <= Cardinality(Before(m) \cup {m}) /\ Cardinality(slots) \in Nat
    BY <1>1, <2>6, <2>10, FS_Subset, PlanIsSmall
  <2> QED BY <2>7, <2>9, <2>10, <2>11 DEF slots
<1> QED BY <1>2, <1>3

(* What a comparison with an entry reports: within its budget, and the     *)
(* evidence of all samples unless it had to stop.                          *)
LEMMA ComparisonFits ==
  ASSUME NEW e, NEW i \in Nat, NEW b \in Nat
  PROVE  LET r == CompareContentIdentity(e, i, b)
         IN /\ r \in Results /\ r.entry = i /\ r.evidence <= b
            /\ r.match # "no"
            /\ r.match = "strong" => Evidence(e) = "strong"
            /\ r.match = "conflict" => ~r.exhausted
            /\ ~r.exhausted => r.match = Evidence(e)
<1> DEFINE slots == ComparedSlots(e, b)
           n == Cardinality(slots)
           all == Cardinality(Common(e))
           conflict == slots \cap Differing(e) # {}
           exhausted == ~conflict /\ n < all
           r == CompareContentIdentity(e, i, b)
           told == IF conflict THEN "conflict"
                   ELSE IF exhausted THEN "indeterminate"
                   ELSE IF n >= MinimumStrongSamples THEN "strong"
                   ELSE IF n >= 1 THEN "probable" ELSE "indeterminate"
<1>1. /\ slots \subseteq Common(e) /\ Common(e) \subseteq Planned
      /\ Differing(e) \subseteq Common(e)
  BY DEF ComparedSlots, Common, Differing
<1>2. n \in Nat /\ all \in Nat /\ n <= all /\ (n = all => slots = Common(e))
  <2> HIDE DEF slots
  <2> QED BY <1>1, PlanIsSmall, FS_Subset
<1>3. n <= b
  BY BudgetIsKept
<1>4. r = IF SameQuickID(e)
          THEN [match |-> "strong", entry |-> i, evidence |-> 0, exhausted |-> FALSE]
          ELSE [match |-> told, entry |-> i, evidence |-> n, exhausted |-> exhausted]
  BY DEF CompareContentIdentity
<1>5. conflict => Differing(e) # {}
  OBVIOUS
<1>6. ~conflict /\ ~exhausted => Differing(e) = {} /\ n = all
  <2> HIDE DEF slots
  <2> QED BY <1>1, <1>2
<1>7. SameQuickID(e) => Differing(e) = {}
  BY DEF SameQuickID, Differing, Common
<1>8. /\ Differing(e) # {} => Evidence(e) = "conflict"
      /\ Differing(e) = {} /\ (SameQuickID(e) \/ all >= MinimumStrongSamples)
           => Evidence(e) = "strong"
      /\ Differing(e) = {} /\ ~SameQuickID(e) /\ ~(all >= MinimumStrongSamples)
           => Evidence(e) = IF all >= 1 THEN "probable" ELSE "indeterminate"
  BY DEF Evidence
<1>9. /\ conflict => told = "conflict"
      /\ exhausted => told = "indeterminate"
      /\ ~conflict /\ ~exhausted =>
           told = IF n >= MinimumStrongSamples THEN "strong"
                  ELSE IF n >= 1 THEN "probable" ELSE "indeterminate"
  <2> HIDE DEF n, all
  <2> QED OBVIOUS
<1>10. conflict \in BOOLEAN /\ exhausted \in BOOLEAN /\ (exhausted => ~conflict)
  OBVIOUS
<1> HIDE DEF n, all, conflict, exhausted, told, r, slots
<1>11. CASE SameQuickID(e)
  <2>1. r = [match |-> "strong", entry |-> i, evidence |-> 0, exhausted |-> FALSE]
    BY <1>4, <1>11
  <2>2. Evidence(e) = "strong"
    BY <1>7, <1>8, <1>11
  <2>3. r \in Results
    BY <2>1 DEF Results, Strengths
  <2> QED BY <2>1, <2>2, <2>3 DEF r
<1>12. CASE ~SameQuickID(e)
  <2>1. r = [match |-> told, entry |-> i, evidence |-> n, exhausted |-> exhausted]
    BY <1>4, <1>12
  <2>2. ASSUME ~conflict, ~exhausted
        PROVE  told = Evidence(e) /\ told \in Strengths \ {"no"}
    <3>1. Differing(e) = {} /\ n = all
      BY <1>6, <2>2
    <3> QED BY <1>2, <1>8, <1>9, <1>12, <2>2, <3>1, ContentIdentityAssumption DEF Strengths
  <2>3. /\ conflict => told = "conflict" /\ Evidence(e) = "conflict"
        /\ exhausted => told = "indeterminate"
    BY <1>5, <1>8, <1>9
  <2>4. /\ told \in Strengths /\ told # "no"
        /\ told = "strong" => Evidence(e) = "strong"
        /\ told = "conflict" => ~exhausted
        /\ ~exhausted => told = Evidence(e)
    BY <1>10, <2>2, <2>3 DEF Strengths
  <2>5. r \in Results
    BY <1>2, <1>10, <2>1, <2>4 DEF Results
  <2> QED BY <1>3, <2>1, <2>4, <2>5 DEF r
<1> QED BY <1>11, <1>12

LEMMA StrongerResult ==
  ASSUME NEW current \in Results, NEW candidate \in Results
  PROVE  LET s == selectStrongerResult(current, candidate)
         IN \/ s = current /\ Rank[candidate.match] <= Rank[current.match]
            \/ s = candidate /\ Rank[current.match] <= Rank[candidate.match]
BY Ranks DEF Results, selectStrongerResult

LEMMA IdentityInvInit == IdentityInit => IdentityInv
<1> SUFFICES ASSUME NEW n \in Nat \ {0}, NEW entries \in Seq(EntriesOf(n, EntryStates)),
                    StartIdentity(n, entries)
             PROVE  IdentityInv
  BY DEF IdentityInit
<1>1. IdentityTypeOK
  <2>1. NoMatch \in Results
    BY DEF NoMatch, Results, Strengths
  <2>2. samples = [slot \in {} |-> "available"]
    BY DEF StartIdentity
  <2> QED BY <2>1, <2>2, ContentIdentityAssumption DEF StartIdentity, IdentityTypeOK
<1>2. SkippedWhenLate
  BY DEF StartIdentity, SkippedWhenLate
<1>3. LookupFits
  BY ContentIdentityAssumption, Ranks
  DEF StartIdentity, LookupFits, NoMatch, StrongIsBacked, StrongestBefore
<1> QED BY <1>1, <1>2, <1>3 DEF IdentityInv

(* A collected or skipped sample: the lookup has not begun.                *)
LEMMA SampleStep ==
  ASSUME IdentityInv, CollectSample \/ SkipSample
  PROVE  IdentityInv'
<1>1. /\ position = 0 /\ Planned # DOMAIN samples
      /\ UNCHANGED <<sectorCount, history, position, compared, best>>
  BY DEF CollectSample, SkipSample
<1>2. PICK sample : AddSample(sample) /\ (sample = "skipped" => clock' = TotalBudget)
  <2>1. CASE CollectSample
    BY <2>1 DEF CollectSample
  <2>2. CASE SkipSample
    <3>1. clock' = TotalBudget
      BY <2>2, ContentIdentityAssumption DEF SkipSample, IdentityInv, IdentityTypeOK
    <3> QED BY <2>2, <3>1 DEF SkipSample
  <2> QED BY <2>1, <2>2
<1>3. clock' \in clock .. TotalBudget
  <2>1. CASE CollectSample
    <3> DEFINE deadline == Min({ReadDeadline, TotalBudget - clock})
    <3>1. clock < TotalBudget /\ clock \in Nat
      BY <2>1 DEF CollectSample, IdentityInv, IdentityTypeOK
    <3>2. deadline \in Nat /\ deadline <= TotalBudget - clock
      BY <3>1, ContentIdentityAssumption DEF Min
    <3>3. PICK taken \in 0 .. deadline : clock' = clock + taken
      BY <2>1 DEF CollectSample
    <3> HIDE DEF deadline
    <3> QED BY <3>1, <3>2, <3>3, ContentIdentityAssumption
  <2>2. CASE SkipSample
    BY <2>2, ContentIdentityAssumption DEF SkipSample, IdentityInv, IdentityTypeOK
  <2> QED BY <2>1, <2>2
<1>4. NextSlot \in Planned
  <2> DEFINE T == Planned \ DOMAIN samples
  <2>1. T # {} /\ T \in SUBSET Nat
    <3>1. 0 .. 7 \subseteq Nat
      OBVIOUS
    <3> QED BY <1>1, <3>1, PlanIsSmall DEF IdentityInv, IdentityTypeOK
  <2>2. \E m \in T : \A k \in T : m <= k
    <3> HIDE DEF T
    <3> QED BY <2>1, LeastNumber
  <2> QED BY <2>2 DEF NextSlot, Min
<1>5. /\ DOMAIN samples' = DOMAIN samples \cup {NextSlot}
      /\ \A slot \in DOMAIN samples' :
           samples'[slot] = IF slot \in DOMAIN samples THEN samples[slot] ELSE sample
  BY <1>2 DEF AddSample
<1>6. Planned' = Planned
  BY <1>1 DEF Planned
<1>7. IdentityTypeOK'
  BY <1>1, <1>3, <1>4, <1>5, <1>6, ContentIdentityAssumption DEF IdentityInv, IdentityTypeOK
<1>8. SkippedWhenLate'
  BY <1>2, <1>3, <1>5, ContentIdentityAssumption
  DEF IdentityInv, IdentityTypeOK, SkippedWhenLate
<1>9. LookupFits'
  <2>1. ~LookupDone /\ ~best.exhausted /\ best.match # "conflict" /\ best.match = "no"
    <3>1. ~LookupDone
      BY <1>1 DEF LookupDone, IdentityInv, IdentityTypeOK
    <3>2. ~best.exhausted /\ best.match # "conflict"
      BY <3>1 DEF IdentityInv, LookupFits
    <3>3. best.match = "no"
      BY <1>1, <3>2 DEF IdentityInv, LookupFits, StrongestBefore
    <3> QED BY <3>1, <3>2, <3>3
  <2>2. StrongestBefore(position, best)'
    BY <1>1, <2>1 DEF StrongestBefore
  <2> QED BY <1>1, <2>1, <2>2 DEF LookupFits, LookupDone, StrongIsBacked, IdentityInv
<1> QED BY <1>7, <1>8, <1>9 DEF IdentityInv

(* What the samples say of an entry does not change during the lookup.     *)
LEMMA EvidenceStays ==
  ASSUME UNCHANGED <<sectorCount, history, samples>>
  PROVE  /\ Planned' = Planned
         /\ \A e : Evidence(e)' = Evidence(e)
         /\ \A i : Candidate(i)' = Candidate(i)
<1>1. Planned' = Planned
  BY DEF Planned
<1>2. ASSUME NEW e PROVE Evidence(e)' = Evidence(e)
  BY <1>1 DEF Evidence, Common, Differing, SameQuickID, QuickID, Available
<1>3. \A i : Candidate(i)' = Candidate(i)
  BY DEF Candidate
<1> QED BY <1>1, <1>2, <1>3

(* The lookup goes on without a comparison.                                *)
LEMMA PassingStep ==
  ASSUME IdentityInv, BeginLookup \/ SkipEntry
  PROVE  IdentityInv'
<1>1. /\ UNCHANGED <<sectorCount, history, samples, clock, compared, best>>
      /\ position' = position + 1 /\ ~LookupDone
      /\ ~Candidate(position)
  BY DEF BeginLookup, SkipEntry, Candidate, IdentityInv, IdentityTypeOK, LookupDone
<1>2. /\ Planned' = Planned
      /\ \A e : Evidence(e)' = Evidence(e)
      /\ \A i : Candidate(i)' = Candidate(i)
  BY <1>1, EvidenceStays
<1>3. IdentityTypeOK' /\ SkippedWhenLate'
  BY <1>1, <1>2 DEF IdentityInv, IdentityTypeOK, SkippedWhenLate
<1>4. LookupFits'
  <2>1. ~best.exhausted /\ best.match # "conflict"
    BY <1>1 DEF IdentityInv, LookupFits
  <2>2. StrongestBefore(position, best) /\ position \in Nat
    BY <2>1 DEF IdentityInv, LookupFits, IdentityTypeOK
  <2>3. StrongestBefore(position, best)'
    <3>1. \A i \in 1 .. position' - 1 : Candidate(i) => i \in 1 .. position - 1
      BY <1>1, <2>2
    <3>2. \A i \in 1 .. position - 1 : i \in 1 .. position' - 1
      BY <1>1, <2>2
    <3> QED BY <1>1, <1>2, <2>2, <3>1, <3>2 DEF StrongestBefore
  <2>4. StrongIsBacked(best)'
    BY <1>1, <1>2 DEF IdentityInv, LookupFits, StrongIsBacked
  <2> QED BY <1>1, <2>1, <2>3, <2>4 DEF IdentityInv, LookupFits, LookupDone
<1> QED BY <1>3, <1>4 DEF IdentityInv

LEMMA CompareStep ==
  ASSUME IdentityInv, CompareEntry
  PROVE  IdentityInv'
<1> DEFINE e == history[position]
           r == CompareContentIdentity(e, position, MaxComparedSamples - compared)
           total == compared + r.evidence
           spent == r.exhausted \/ total >= MaxComparedSamples
           s == selectStrongerResult(best, r)
           final == spent /\ s.match # "conflict"
<1>1. /\ UNCHANGED <<sectorCount, history, samples, clock>>
      /\ compared' = total
      /\ best' = [s EXCEPT !.exhausted = @ \/ final]
      /\ position' = IF spent \/ s.match = "conflict" THEN Len(history) + 1 ELSE position + 1
      /\ ~LookupDone /\ Candidate(position)
  BY DEF CompareEntry, Candidate, LookupDone, IdentityInv, IdentityTypeOK
<1>2. /\ Planned' = Planned
      /\ \A x : Evidence(x)' = Evidence(x)
      /\ \A i : Candidate(i)' = Candidate(i)
  BY <1>1, EvidenceStays
<1>3. /\ position \in 1 .. Len(history) /\ Len(history) \in Nat
      /\ compared \in Nat /\ MaxComparedSamples - compared \in Nat
      /\ best \in Results
  BY <1>1, ContentIdentityAssumption DEF Candidate, IdentityInv, IdentityTypeOK
<1>4. /\ r \in Results /\ r.entry = position /\ r.evidence <= MaxComparedSamples - compared
      /\ r.match # "no"
      /\ r.match = "strong" => Evidence(e) = "strong"
      /\ r.match = "conflict" => ~r.exhausted
      /\ ~r.exhausted => r.match = Evidence(e)
  <2>1. position \in Nat
    BY <1>3
  <2>2. MaxComparedSamples - compared \in Nat
    BY <1>3
  <2> HIDE DEF e
  <2> QED BY <2>1, <2>2, ComparisonFits, Zenon
<1>5. \/ s = best /\ Rank[r.match] <= Rank[best.match]
      \/ s = r /\ Rank[best.match] <= Rank[r.match]
  BY <1>3, <1>4, StrongerResult
<1>6. /\ ~best.exhausted /\ best.match # "conflict"
      /\ StrongIsBacked(best) /\ StrongestBefore(position, best)
  BY <1>1 DEF IdentityInv, LookupFits
<1> HIDE DEF e, r, s
<1>7. s \in Results /\ spent \in BOOLEAN /\ final \in BOOLEAN /\ total \in Nat
  <2>1. r.exhausted \in BOOLEAN /\ r.evidence \in Nat
    BY <1>4 DEF Results
  <2>2. s \in Results
    BY <1>3, <1>4, <1>5
  <2> QED BY <1>3, <2>1, <2>2
<1>8. total <= MaxComparedSamples
  BY <1>3, <1>4, ContentIdentityAssumption DEF Results
<1>9. s.exhausted => final
  BY <1>4, <1>5, <1>6 DEF Results
<1> HIDE DEF spent, final, total
<1>10. best' = [match |-> s.match, entry |-> s.entry, evidence |-> s.evidence,
               exhausted |-> s.exhausted \/ final]
  BY <1>1, <1>7 DEF Results
<1>11. /\ best'.match = s.match /\ best'.entry = s.entry /\ best'.exhausted = final
       /\ best' \in Results
  BY <1>7, <1>9, <1>10 DEF Results
<1>12. IdentityTypeOK'
  BY <1>1, <1>2, <1>3, <1>7, <1>8, <1>11, ContentIdentityAssumption
  DEF IdentityInv, IdentityTypeOK
<1>13. SkippedWhenLate'
  BY <1>1 DEF IdentityInv, SkippedWhenLate
<1>14. spent \/ s.match = "conflict" => LookupDone'
  BY <1>1, <1>3 DEF LookupDone
<1>15. ~LookupDone' => compared' < MaxComparedSamples
  BY <1>1, <1>7, <1>8, <1>14, ContentIdentityAssumption DEF spent
<1>16. best'.exhausted \/ best'.match = "conflict" => LookupDone'
  BY <1>11, <1>14 DEF final
<1>17. StrongIsBacked(best)'
  <2>1. ASSUME s.match = "strong" PROVE Candidate(s.entry) /\ Evidence(history[s.entry]) = "strong"
    BY <1>1, <1>4, <1>5, <1>6, <2>1 DEF StrongIsBacked, e
  <2> QED BY <1>1, <1>2, <1>11, <2>1 DEF StrongIsBacked
<1>18. ASSUME ~best'.exhausted PROVE StrongestBefore(position, best)'
  <2>1. ~final
    BY <1>11, <1>18
  <2>2. ~r.exhausted => r.match = Evidence(e)
    BY <1>4
  <2>3. Rank[best.match] <= Rank[s.match] /\ Rank[r.match] <= Rank[s.match]
        /\ Rank[s.match] \in 0 .. 4 /\ Rank[r.match] \in 0 .. 4 /\ Rank[best.match] \in 0 .. 4
    BY <1>3, <1>4, <1>5, <1>7, Ranks DEF Results
  <2>4. CASE s.match = "conflict"
    <3>1. s = r /\ Evidence(e) = "conflict"
      BY <1>4, <1>5, <1>6, <2>4
    <3>2. \A x : Evidence(x) \in Strengths
      BY DEF Evidence, Strengths
    <3>3. \A i \in 1 .. position' - 1 : Rank[Evidence(history[i])] <= Rank["conflict"]
      BY <3>2, Ranks
    <3>4. position \in 1 .. position' - 1
      BY <1>1, <1>3, <2>4
    <3> QED BY <1>1, <1>2, <1>11, <2>4, <3>1, <3>3, <3>4 DEF StrongestBefore, e
  <2>5. CASE s.match # "conflict"
    <3>1. ~spent /\ ~r.exhausted /\ position' = position + 1
      BY <1>1, <2>1, <2>5 DEF spent, final
    <3>2. r.match = Evidence(e)
      BY <1>4, <3>1
    <3>3. ASSUME NEW i \in 1 .. position' - 1, Candidate(i)
          PROVE  Rank[Evidence(history[i])] <= Rank[s.match]
      <4>1. CASE i = position
        BY <2>3, <3>2, <4>1 DEF e
      <4>2. CASE i # position
        <5>1. i \in 1 .. position - 1
          BY <1>3, <3>1, <4>2
        <5>2. Rank[Evidence(history[i])] <= Rank[best.match]
          BY <1>6, <3>3, <5>1 DEF StrongestBefore
        <5>3. Rank[Evidence(history[i])] \in 0 .. 4
          BY Ranks DEF Evidence, Strengths
        <5> QED BY <2>3, <5>2, <5>3
      <4> QED BY <4>1, <4>2
    <3>4. \E i \in 1 .. position' - 1 : Candidate(i) /\ Evidence(history[i]) = s.match
      <4>1. CASE s = r
        BY <1>1, <1>3, <3>1, <3>2, <4>1 DEF e
      <4>2. CASE s = best /\ s # r
        <5>1. Rank[r.match] <= Rank[best.match]
          BY <1>5, <4>2
        <5>2. best.match # "no"
          BY <1>4, <5>1, Ranks DEF Results, Strengths
        <5>3. \E i \in 1 .. position - 1 : Candidate(i) /\ Evidence(history[i]) = best.match
          BY <1>6, <5>2 DEF StrongestBefore
        <5> QED BY <1>3, <3>1, <4>2, <5>3
      <4> QED BY <1>5, <4>1, <4>2
    <3> QED BY <1>1, <1>2, <1>11, <3>3, <3>4 DEF StrongestBefore
  <2> QED BY <2>4, <2>5
<1>19. LookupFits'
  BY <1>15, <1>16, <1>17, <1>18 DEF LookupFits
<1> QED BY <1>12, <1>13, <1>19 DEF IdentityInv

LEMMA IdentityInvStep == IdentityInv /\ [IdentityNext]_identityVars => IdentityInv'
<1> SUFFICES ASSUME IdentityInv, [IdentityNext]_identityVars PROVE IdentityInv'
  OBVIOUS
<1>1. CASE UNCHANGED identityVars
  <2>1. UNCHANGED <<sectorCount, history, samples, clock, position, compared, best>>
    BY <1>1 DEF identityVars
  <2>2. /\ Planned' = Planned
        /\ \A e : Evidence(e)' = Evidence(e)
        /\ \A i : Candidate(i)' = Candidate(i)
    BY <2>1, EvidenceStays
  <2>3. StrongestBefore(position, best)' = StrongestBefore(position, best)
    BY <2>1, <2>2 DEF StrongestBefore
  <2>4. StrongIsBacked(best)' = StrongIsBacked(best) /\ LookupDone' = LookupDone
    BY <2>1, <2>2 DEF StrongIsBacked, LookupDone
  <2> QED BY <2>1, <2>2, <2>3, <2>4
          DEF IdentityInv, IdentityTypeOK, SkippedWhenLate, LookupFits
<1> QED BY <1>1, SampleStep, PassingStep, CompareStep DEF IdentityNext

(* For any disc, any history of earlier discs, any samples and any budgets *)
(* of time and of comparisons: a strong match is backed by every sample it *)
(* has in common with the disc, a lookup that was not cut short reports    *)
(* the strongest of what any entry would give, and a collection neither    *)
(* exceeds its time nor makes an identifier of samples it left out.        *)
THEOREM MatchesAreJustified == IdentitySpec => []MatchIsJustified
<1>1. IdentityInv => MatchIsJustified
  <2> SUFFICES ASSUME IdentityInv PROVE MatchIsJustified
    OBVIOUS
  <2> DEFINE candidates == {i \in 1 .. Len(history) : Comparable(history[i])}
             found == {Evidence(history[i]) : i \in candidates}
  <2>1. clock <= TotalBudget
    BY ContentIdentityAssumption DEF IdentityInv, IdentityTypeOK
  <2>2. "skipped" \in {samples[slot] : slot \in DOMAIN samples} =>
          ~QuickID /\ clock = TotalBudget
    BY DEF IdentityInv, IdentityTypeOK, SkippedWhenLate, QuickID, Available
  <2>3. ASSUME position > 0, LookupDone
        PROVE  /\ best.match = "strong" => /\ best.entry \in candidates
                                           /\ Evidence(history[best.entry]) = "strong"
               /\ AutoResumeAllowed => "strong" \in found /\ history[best.entry].filesPresent
               /\ compared <= MaxComparedSamples
               /\ ~best.exhausted =>
                    /\ candidates = {} => best.match = "no"
                    /\ \A match \in found : Rank[match] <= Rank[best.match]
                    /\ candidates # {} => best.match \in found
    <3>1. \A i : Candidate(i) <=> i \in candidates
      BY DEF Candidate
    <3>2. best.match = "strong" => /\ best.entry \in candidates
                                   /\ Evidence(history[best.entry]) = "strong"
      BY DEF IdentityInv, LookupFits, StrongIsBacked, Candidate
    <3>3. AutoResumeAllowed => "strong" \in found /\ history[best.entry].filesPresent
      <4> SUFFICES ASSUME AutoResumeAllowed
                   PROVE  "strong" \in found /\ history[best.entry].filesPresent
        OBVIOUS
      <4>1. best.match \in Strengths
        BY DEF IdentityInv, IdentityTypeOK, Results
      <4>2. best.match = "strong" /\ history[best.entry].filesPresent
        BY <4>1 DEF AutoResumeAllowed, PriorProcessingKind, Strengths
      <4> QED BY <3>2, <4>2
    <3>4. compared <= MaxComparedSamples
      BY ContentIdentityAssumption DEF IdentityInv, IdentityTypeOK
    <3>5. ASSUME ~best.exhausted
          PROVE  /\ candidates = {} => best.match = "no"
                 /\ \A match \in found : Rank[match] <= Rank[best.match]
                 /\ candidates # {} => best.match \in found
      <4>1. StrongestBefore(position, best)
        BY <3>5 DEF IdentityInv, LookupFits
      <4>2. \A i : Candidate(i) => i \in 1 .. position - 1
        BY <2>3 DEF Candidate, LookupDone, IdentityInv, IdentityTypeOK
      <4> HIDE DEF candidates
      <4> QED BY <3>1, <4>1, <4>2 DEF StrongestBefore
    <3> QED BY <3>2, <3>3, <3>4, <3>5
  <2> QED BY <2>1, <2>2, <2>3 DEF MatchIsJustified
<1> QED BY <1>1, IdentityInvInit, IdentityInvStep, PTL DEF IdentitySpec

============================================================================
