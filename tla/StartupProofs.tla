------------------------------ MODULE StartupProofs ------------------------------
(***************************************************************************)
(* StartupIngestion implements KnowledgeBase, for any number of sources,   *)
(* runs that overlap, and deletions.  A source that no two workers were at *)
(* work on at once is ingested no more often than it must be, and one that *)
(* is marked is searchable.                                                *)
(***************************************************************************)
EXTENDS StartupIngestion, FiniteSetTheorems, TLAPS

USE ConcurrencyAssumption, MaxDocsAssumption, NoDocAssumption

AtWork(r, s) == worker[r][s].pc \in Working

\* A run is under way as long as a worker of it is.
RunInv == \A r \in Runs : UnderWay(r) <=> \E s \in Sources : worker[r][s].pc # "idle"

\* There is room for what the workers may yet create.
RoomInv == Cardinality(Busy) <= MaxDocs - clock

\* The rows are numbered without gaps, each belongs to a source, and the chunks are
\* those of the completed ones.
RowInv ==
  \A d \in Docs :
    /\ document[d].status # "none" <=> d <= clock
    /\ Exists(d) => document[d].source \in Sources
    /\ d \in chunked <=> document[d].status = "completed"

\* A deletion has found a row, which may be deleted meanwhile, and knows its source.
DeletionInv ==
  \A x \in Deletions : deletion[x].pc = "found" =>
    /\ deletion[x].target \in Docs
    /\ document[deletion[x].target].status # "none"
    /\ deletion[x].source \in Sources
    /\ Exists(deletion[x].target) =>
         deletion[x].source = document[deletion[x].target].source

IInv == TypeOK /\ RunInv /\ RoomInv /\ RowInv /\ DeletionInv

-----------------------------------------------------------------------------
(* Counting the workers *)

LEMMA BusyType ==
  /\ IsFiniteSet(Busy) /\ Cardinality(Busy) \in Nat
  /\ \A r \in Runs : IsFiniteSet(InSemaphore(r)) /\ Cardinality(InSemaphore(r)) \in Nat
<1>1. IsFiniteSet(Runs \X Sources)
  BY FiniteAssumption, FS_Product
<1>2. IsFiniteSet(Busy) /\ Cardinality(Busy) \in Nat
  BY <1>1, FS_Subset, FS_CardinalityType DEF Busy
<1>3. \A r \in Runs : IsFiniteSet(InSemaphore(r)) /\ Cardinality(InSemaphore(r)) \in Nat
  BY FiniteAssumption, FS_Subset, FS_CardinalityType DEF InSemaphore
<1> QED
  BY <1>2, <1>3

\* A worker that does not get a permit takes none from another.
LEMMA PermitsKept ==
  ASSUME TypeOK, \A r \in Runs : InSemaphore(r)' \subseteq InSemaphore(r)
  PROVE  \A r \in Runs : Cardinality(InSemaphore(r)') <= Concurrency
<1> SUFFICES ASSUME NEW r \in Runs PROVE Cardinality(InSemaphore(r)') <= Concurrency
  OBVIOUS
<1>1. IsFiniteSet(InSemaphore(r)) /\ Cardinality(InSemaphore(r)) <= Concurrency
  BY BusyType DEF TypeOK
<1>2. /\ IsFiniteSet(InSemaphore(r)')
      /\ Cardinality(InSemaphore(r)') <= Cardinality(InSemaphore(r))
  BY <1>1, FS_Subset
<1>3. Cardinality(InSemaphore(r)') \in Nat /\ Cardinality(InSemaphore(r)) \in Nat
  BY <1>1, <1>2, FS_CardinalityType
<1> QED
  BY <1>1, <1>2, <1>3

WorkerType ==
  [pc : {"idle", "waiting", "downloading", "ingesting"},
   ingested : BOOLEAN, hash : Hashes \cup {NoHash}, content : Hashes \cup {NoHash}]

\* A worker that ends, with or without its siblings, makes room for one document.
LEMMA EndFrees ==
  ASSUME TypeOK, RunInv, NEW r \in Runs, NEW s \in Sources, worker[r][s].pc # "idle",
         Commits(r, s)
  PROVE  /\ Cardinality(Busy') <= Cardinality(Busy) - 1
         /\ Cardinality(Busy) \in Nat \ {0} /\ Cardinality(Busy') \in Nat
         /\ \A q \in Runs : InSemaphore(q)' \subseteq InSemaphore(q)
         /\ worker'[r][s] = Idle
         /\ \A q \in Runs, u \in Sources : worker'[q][u] \in {worker[q][u], Idle}
         /\ worker' \in [Runs -> [Sources -> WorkerType]]
         /\ run' \in [Runs -> {"ended", "killed", "scheduled", "orphaned", "manual"}]
         /\ RunInv'
<1>1. /\ worker \in [Runs -> [Sources -> WorkerType]]
      /\ Idle \in WorkerType
  BY DEF TypeOK, WorkerType, Idle
<1>2. \/ worker' = [worker EXCEPT ![r][s] = Idle]
      \/ worker' = [worker EXCEPT ![r] = [t \in Sources |-> Idle]]
  BY DEF Commits, Returns, Raises
<1>3. /\ worker'[r][s] = Idle
      /\ \A q \in Runs, u \in Sources : worker'[q][u] \in {worker[q][u], Idle}
      /\ worker' \in [Runs -> [Sources -> WorkerType]]
  <2> HIDE DEF WorkerType, Idle
  <2> QED
    BY <1>1, <1>2
<1>4. Busy' \subseteq Busy \ {<<r, s>>} /\ <<r, s>> \in Busy
  BY <1>3 DEF Busy, Idle
<1>5. \A q \in Runs : InSemaphore(q)' \subseteq InSemaphore(q)
  BY <1>3 DEF InSemaphore, Idle, Working
<1>6. /\ IsFiniteSet(Busy \ {<<r, s>>})
      /\ Cardinality(Busy \ {<<r, s>>}) = Cardinality(Busy) - 1
  BY <1>4, BusyType, FS_RemoveElement
<1>7. /\ Cardinality(Busy') <= Cardinality(Busy) - 1
      /\ Cardinality(Busy') \in Nat /\ Cardinality(Busy) # 0
  BY <1>4, <1>6, BusyType, FS_Subset, FS_CardinalityType, FS_EmptySet
<1>8. run' \in [Runs -> {"ended", "killed", "scheduled", "orphaned", "manual"}]
  BY DEF TypeOK, Commits, Returns, Raises
<1>9. RunInv'
  <2>1. UnderWay(r)
    BY DEF RunInv
  <2>2. ASSUME NEW q \in Runs \ {r}
        PROVE  run'[q] = run[q] /\ worker'[q] = worker[q]
    BY <1>1, <1>2 DEF Commits, Returns, Raises, TypeOK
  <2>3. UnderWay(r)' <=> \E u \in Sources : worker'[r][u].pc # "idle"
    <3>1. CASE worker' = [worker EXCEPT ![r][s] = Idle] /\ (Returns(r, s) \/ run[r] # "manual")
      <4>1. \A u \in Sources : worker'[r][u] = IF u = s THEN Idle ELSE worker[r][u]
        BY <1>1, <3>1
      <4>2. (\E u \in Sources : worker'[r][u].pc # "idle")
              <=> \E u \in Sources \ {s} : worker[r][u].pc # "idle"
        BY <4>1 DEF Idle
      <4>3. UnderWay(r)' <=> \E u \in Sources \ {s} : worker[r][u].pc # "idle"
        BY <2>1, <3>1 DEF Commits, Returns, Raises, UnderWay, TypeOK
      <4> QED
        BY <4>2, <4>3
    <3>2. CASE run[r] = "manual" /\ ~Returns(r, s)
      <4>1. /\ worker' = [worker EXCEPT ![r] = [t \in Sources |-> Idle]]
            /\ run' = [run EXCEPT ![r] = "killed"]
        BY <3>2 DEF Commits, Raises
      <4>2. run'[r] = "killed" /\ \A u \in Sources : worker'[r][u].pc = "idle"
        BY <4>1 DEF TypeOK, Idle
      <4> QED
        BY <4>2 DEF UnderWay
    <3> QED
      BY <3>1, <3>2 DEF Commits, Returns, Raises
  <2> QED
    BY <2>2, <2>3 DEF RunInv, UnderWay
<1> QED
  BY <1>3, <1>5, <1>7, <1>8, <1>9, BusyType

LEMMA StartHasRoom ==
  ASSUME TypeOK, NEW r \in Runs, NEW by \in {"scheduled", "manual"}, StartRun(r, by)
  PROVE  /\ Cardinality(Busy') <= MaxDocs - clock
         /\ \A q \in Runs : InSemaphore(q)' \subseteq InSemaphore(q)
<1> DEFINE new == {r} \X Sources
<1>1. Busy' \subseteq Busy \cup new
  BY DEF Busy, StartRun, TypeOK
<1>2. /\ IsFiniteSet({r}) /\ Cardinality({r}) = 1
      /\ IsFiniteSet(Sources) /\ Cardinality(Sources) \in Nat
  BY FiniteAssumption, FS_Singleton, FS_CardinalityType
<1>3. IsFiniteSet(new) /\ Cardinality(new) = Cardinality(Sources)
  <2>1. IsFiniteSet(new) /\ Cardinality(new) = 1 * Cardinality(Sources)
    BY <1>2, FS_Product
  <2> QED
    BY <1>2, <2>1
<1>4. /\ IsFiniteSet(Busy \cup new)
      /\ Cardinality(Busy \cup new) =
           Cardinality(Busy) + Cardinality(new) - Cardinality(Busy \cap new)
  <2> HIDE DEF new
  <2> QED
    BY <1>3, BusyType, FS_Union
<1>5. Cardinality(Busy \cap new) \in Nat
  <2>1. IsFiniteSet(Busy \cap new)
    BY BusyType, FS_Subset
  <2> QED
    BY <2>1, FS_CardinalityType
<1>6. /\ Cardinality(Busy') <= Cardinality(Busy \cup new)
      /\ Cardinality(Busy') \in Nat /\ Cardinality(Busy \cup new) \in Nat
  BY <1>1, <1>4, FS_Subset, FS_CardinalityType
<1>7. /\ MaxDocs - clock >= Cardinality(Busy) + Cardinality(Sources)
      /\ MaxDocs - clock \in Int /\ Cardinality(Busy) \in Nat
  BY BusyType DEF StartRun, RoomForARun, TypeOK
<1>8. \A q \in Runs : InSemaphore(q)' \subseteq InSemaphore(q)
  BY DEF InSemaphore, StartRun, Idle, Working, TypeOK
<1> QED
  BY <1>2, <1>3, <1>4, <1>5, <1>6, <1>7, <1>8

-----------------------------------------------------------------------------
LEMMA InitIInv == Init => IInv
<1> SUFFICES ASSUME Init PROVE IInv
  OBVIOUS
<1>1. Busy = {} /\ \A r \in Runs : InSemaphore(r) = {}
  BY DEF Init, Busy, InSemaphore, Idle, Working
<1>2. \A r \in Runs : Cardinality(InSemaphore(r)) <= Concurrency
  BY <1>1, FS_EmptySet
<1>3. TypeOK
  BY <1>2, HashAssumption DEF Init, TypeOK, Idle, NoRow
<1>4. RoomInv
  BY <1>1, FS_EmptySet DEF Init, RoomInv
<1>5. RowInv /\ DeletionInv
  BY DEF Init, RowInv, DeletionInv, Exists, NoRow, Docs
<1>6. RunInv
  BY DEF Init, RunInv, UnderWay, Idle
<1> QED
  BY <1>3, <1>4, <1>5, <1>6 DEF IInv

\* A step of a worker that ends without writing a row.
LEMMA EndKeeps ==
  ASSUME IInv, NEW r \in Runs, NEW s \in Sources, worker[r][s].pc # "idle", Commits(r, s),
         UNCHANGED <<remote, rowVars, deletion, historyVars>>
  PROVE  IInv'
<1> USE EndFrees DEF IInv
<1>1. \A q \in Runs : Cardinality(InSemaphore(q)') <= Concurrency
  BY PermitsKept
<1>2. TypeOK'
  BY <1>1 DEF TypeOK, WorkerType, rowVars, historyVars, countVars
<1>3. RoomInv'
  BY DEF RoomInv, TypeOK, rowVars
<1>4. RowInv' /\ DeletionInv'
  BY DEF RowInv, DeletionInv, Exists, rowVars
<1> QED
  BY <1>2, <1>3, <1>4

LEMMA KillKeeps ==
  ASSUME IInv, NEW gone \in SUBSET Runs, Kill(gone)
  PROVE  IInv'
<1>1. \A q \in Runs, u \in Sources :
        worker'[q][u] = IF q \in gone THEN Idle ELSE worker[q][u]
  BY DEF Kill
<1>2. /\ Busy' \subseteq Busy
      /\ \A q \in Runs : InSemaphore(q)' \subseteq InSemaphore(q)
  BY <1>1 DEF Busy, InSemaphore, Idle, Working
<1>3. \A q \in Runs : Cardinality(InSemaphore(q)') <= Concurrency
  BY <1>2, PermitsKept DEF IInv
<1>4. TypeOK'
  BY <1>3 DEF IInv, TypeOK, Kill, Idle, rowVars, historyVars, countVars
<1>5. IsFiniteSet(Busy') /\ Cardinality(Busy') <= Cardinality(Busy)
  BY <1>2, BusyType, FS_Subset
<1>6. RoomInv'
  BY <1>5, BusyType, FS_CardinalityType DEF Kill, IInv, RoomInv, TypeOK, rowVars
<1>7. RowInv' /\ DeletionInv'
  BY DEF Kill, IInv, RowInv, DeletionInv, Exists, rowVars
<1>8. RunInv'
  BY <1>1 DEF Kill, IInv, RunInv, UnderWay, Idle
<1> QED
  BY <1>4, <1>6, <1>7, <1>8 DEF IInv

LEMMA DieKeeps ==
  ASSUME IInv, SchedulerDies \/ \E r \in Runs : Die(r)
  PROVE  IInv'
BY KillKeeps DEF SchedulerDies, Die

LEMMA StartKeeps ==
  ASSUME IInv, NEW r \in Runs, NEW by \in {"scheduled", "manual"}, StartRun(r, by)
  PROVE  IInv'
<1>1. \A q \in Runs : Cardinality(InSemaphore(q)') <= Concurrency
  BY StartHasRoom, PermitsKept DEF IInv
<1>2. TypeOK'
  BY <1>1 DEF IInv, TypeOK, StartRun, Idle, rowVars, historyVars, countVars
<1>3. RoomInv'
  BY StartHasRoom DEF StartRun, IInv, RoomInv, TypeOK, rowVars
<1>4. RowInv' /\ DeletionInv'
  BY DEF StartRun, IInv, RowInv, DeletionInv, Exists, rowVars
<1>5. RunInv'
  <2>1. /\ run'[r] = by /\ \A u \in Sources : worker'[r][u].pc = "waiting"
        /\ \A q \in Runs \ {r} : run'[q] = run[q] /\ worker'[q] = worker[q]
    BY DEF StartRun, IInv, TypeOK
  <2> QED
    BY <2>1, NonEmptyAssumption DEF IInv, RunInv, UnderWay
<1> QED
  BY <1>2, <1>3, <1>4, <1>5 DEF IInv

LEMMA AcquireKeeps ==
  ASSUME IInv, NEW r \in Runs, NEW s \in Sources, Acquire(r, s)
  PROVE  IInv'
<1> USE DEF Acquire, Reads
<1>0. /\ \A q \in Runs, u \in Sources :
           worker'[q][u].pc = IF q = r /\ u = s THEN "downloading" ELSE worker[q][u].pc
      /\ worker[r][s].pc = "waiting"
  BY DEF IInv, TypeOK
<1>1. Busy' = Busy
  BY <1>0 DEF Busy
<1>2. InSemaphore(r)' = InSemaphore(r) \cup {s}
  BY <1>0 DEF InSemaphore, Working
<1>3. \A q \in Runs \ {r} : InSemaphore(q)' = InSemaphore(q)
  BY <1>0 DEF InSemaphore
<1>4. Cardinality(InSemaphore(r)') <= Concurrency
  <2>1. Cardinality(InSemaphore(r)) \in Nat /\ Cardinality(InSemaphore(r)) < Concurrency
    BY BusyType
  <2> DEFINE S == InSemaphore(r)
  <2>2. IsFiniteSet(S)
    BY BusyType
  <2>3. /\ IsFiniteSet(S \cup {s})
        /\ Cardinality(S \cup {s}) = IF s \in S THEN Cardinality(S) ELSE Cardinality(S) + 1
    <3> HIDE DEF S
    <3> QED
      BY <2>2, FS_AddElement
  <2> QED
    BY <1>2, <2>1, <2>3
<1>5. \A q \in Runs : Cardinality(InSemaphore(q)') <= Concurrency
  BY <1>3, <1>4 DEF IInv, TypeOK
<1>6. TypeOK'
  BY <1>5 DEF IInv, TypeOK, rowVars, countVars
<1>7. RoomInv' /\ RowInv' /\ DeletionInv'
  BY <1>1 DEF IInv, RoomInv, RowInv, DeletionInv, Exists, rowVars
<1>8. RunInv'
  BY <1>0 DEF IInv, RunInv, UnderWay
<1> QED
  BY <1>6, <1>7, <1>8 DEF IInv

\* What a download that finds other content does to the workers.
LEMMA DownloadStep ==
  ASSUME TypeOK, NEW r \in Runs, NEW s \in Sources, Download(r, s), ~Returns(r, s)
  PROVE  /\ worker' \in [Runs -> [Sources -> WorkerType]]
         /\ \A q \in Runs, u \in Sources : q # r \/ u # s => worker'[q][u] = worker[q][u]
         /\ worker[r][s].pc = "downloading" /\ worker'[r][s].pc = "ingesting"
         /\ worker'[r][s].content = remote[s] /\ remote[s] \in Hashes
         /\ worker'[r][s].ingested = worker[r][s].ingested
         /\ worker'[r][s].hash = worker[r][s].hash
         /\ ~worker[r][s].ingested \/ worker[r][s].hash # remote[s]
         /\ UNCHANGED run
<1>1. /\ worker \in [Runs -> [Sources -> WorkerType]] /\ remote[s] \in Hashes
      /\ worker[r][s] \in WorkerType
  BY DEF TypeOK, WorkerType
<1>2. /\ worker' = [worker EXCEPT ![r][s].pc = "ingesting", ![r][s].content = remote[s]]
      /\ worker[r][s].pc = "downloading"
      /\ ~worker[r][s].ingested \/ worker[r][s].hash # remote[s]
      /\ UNCHANGED run
  BY DEF Download
<1> DEFINE w == [worker[r][s] EXCEPT !.pc = "ingesting", !.content = remote[s]]
<1>3. /\ w \in WorkerType /\ w.pc = "ingesting" /\ w.content = remote[s]
      /\ w.ingested = worker[r][s].ingested /\ w.hash = worker[r][s].hash
  BY <1>1 DEF WorkerType
<1>4. worker' = [worker EXCEPT ![r][s] = w]
  BY <1>1, <1>2
<1>5. /\ worker' \in [Runs -> [Sources -> WorkerType]] /\ worker'[r][s] = w
      /\ \A q \in Runs, u \in Sources : q # r \/ u # s => worker'[q][u] = worker[q][u]
  <2> HIDE DEF w, WorkerType
  <2> QED
    BY <1>1, <1>3, <1>4
<1> QED
  BY <1>1, <1>2, <1>3, <1>5

LEMMA DownloadKeeps ==
  ASSUME IInv, NEW r \in Runs, NEW s \in Sources, Download(r, s)
  PROVE  IInv'
<1>1. CASE Returns(r, s)
  BY <1>1, EndKeeps DEF Download, Commits
<1>2. CASE ~Returns(r, s)
  <2> USE DEF IInv
  <2>0. /\ worker' \in [Runs -> [Sources -> WorkerType]]
        /\ \A q \in Runs, u \in Sources : q # r \/ u # s => worker'[q][u] = worker[q][u]
        /\ worker[r][s].pc = "downloading" /\ worker'[r][s].pc = "ingesting"
        /\ UNCHANGED <<run, remote, rowVars, deletion, historyVars>>
    BY <1>2, DownloadStep DEF Download
  <2>1. Busy' = Busy /\ \A q \in Runs : InSemaphore(q)' \subseteq InSemaphore(q)
    BY <2>0 DEF Busy, InSemaphore, Working
  <2>2. \A q \in Runs : Cardinality(InSemaphore(q)') <= Concurrency
    BY <2>1, PermitsKept
  <2>3. TypeOK'
    BY <2>0, <2>2 DEF TypeOK, WorkerType, rowVars, historyVars, countVars
  <2>4. RoomInv' /\ RowInv' /\ DeletionInv'
    BY <2>0, <2>1 DEF RoomInv, RowInv, DeletionInv, Exists, rowVars
  <2>5. RunInv'
    BY <2>0 DEF RunInv, UnderWay
  <2> QED
    BY <2>3, <2>4, <2>5
<1> QED
  BY <1>1, <1>2

LEMMA AddsDocument ==
  ASSUME TypeOK, NEW r \in Runs, NEW s \in Sources,
         DownloadFails(r, s) \/ Complete(r, s) \/ Fail(r, s)
  PROVE  \E st \in {"completed", "failed"}, h \in Hashes \cup {NoHash} :
           /\ AddDocument(s, st, h)
           /\ chunked' = IF st = "completed" THEN chunked \cup {clock + 1} ELSE chunked
<1>1. worker[r][s].content \in Hashes \cup {NoHash}
  BY DEF TypeOK
<1>2. CASE DownloadFails(r, s)
  BY <1>2 DEF DownloadFails
<1>3. CASE Complete(r, s)
  BY <1>1, <1>3 DEF Complete
<1>4. CASE Fail(r, s)
  BY <1>1, <1>4 DEF Fail
<1> QED
  BY <1>2, <1>3, <1>4

\* The worker's document appears, in its turn.
LEMMA AddKeeps ==
  ASSUME IInv, NEW r \in Runs, NEW s \in Sources, worker[r][s].pc # "idle",
         DownloadFails(r, s) \/ Complete(r, s) \/ Fail(r, s)
  PROVE  /\ IInv'
         /\ clock + 1 \in Docs
<1>1. Commits(r, s) /\ UNCHANGED <<remote, deletion, changes, resets, overlapped>>
  BY DEF DownloadFails, Complete, Fail, historyVars, countVars
<1>2. /\ \A q \in Runs : Cardinality(InSemaphore(q)') <= Concurrency
      /\ Cardinality(Busy') <= Cardinality(Busy) - 1
      /\ Cardinality(Busy) \in Nat \ {0} /\ Cardinality(Busy') \in Nat
      /\ worker' \in [Runs -> [Sources -> WorkerType]]
      /\ run' \in [Runs -> {"ended", "killed", "scheduled", "orphaned", "manual"}]
      /\ RunInv'
  BY <1>1, EndFrees, PermitsKept DEF IInv
<1>3. clock + 1 \in Docs
  BY <1>2 DEF IInv, RoomInv, TypeOK, Docs
<1>4. PICK st \in {"completed", "failed"}, h \in Hashes \cup {NoHash} :
        /\ AddDocument(s, st, h)
        /\ chunked' = IF st = "completed" THEN chunked \cup {clock + 1} ELSE chunked
  BY AddsDocument DEF IInv
<1>5. /\ isIngested' \in [Sources -> BOOLEAN]
      /\ hash' \in [Sources -> Hashes \cup {NoHash}]
      /\ ingestions' \in [Sources -> Nat]
  <2>1. CASE DownloadFails(r, s) \/ Fail(r, s)
    BY <2>1 DEF DownloadFails, Fail, IInv, TypeOK, historyVars, countVars
  <2>2. CASE Complete(r, s)
    <3>1. isIngested' = isIngested \/ isIngested' = [isIngested EXCEPT ![s] = TRUE]
      BY <2>2 DEF Complete, IInv, TypeOK
    <3>2. isIngested' \in [Sources -> BOOLEAN]
      BY <3>1 DEF IInv, TypeOK
    <3>3. worker[r][s].content \in Hashes \cup {NoHash}
      BY DEF IInv, TypeOK
    <3>4. hash' \in [Sources -> Hashes \cup {NoHash}]
      BY <2>2, <3>3 DEF Complete, IInv, TypeOK
    <3>5. ingestions' \in [Sources -> Nat]
      BY <2>2 DEF Complete, IInv, TypeOK
    <3> QED
      BY <3>2, <3>4, <3>5
  <2> QED
    BY <2>1, <2>2
<1>6. TypeOK'
  BY <1>1, <1>2, <1>3, <1>4, <1>5 DEF IInv, TypeOK, WorkerType, AddDocument, Docs
<1>7. RoomInv'
  BY <1>2, <1>4 DEF IInv, RoomInv, TypeOK, AddDocument
<1>8. RowInv'
  BY <1>3, <1>4 DEF IInv, RowInv, Exists, TypeOK, AddDocument, Docs
<1>9. DeletionInv'
  BY <1>1, <1>3, <1>4 DEF IInv, DeletionInv, RowInv, Exists, TypeOK, AddDocument, Docs
<1> QED
  BY <1>2, <1>3, <1>6, <1>7, <1>8, <1>9 DEF IInv

LEMMA AroundKeeps ==
  ASSUME IInv,
         \/ \E s \in Sources : ContentChanges(s)
         \/ \E x \in Deletions : DeleteDocument(x) \/ \E d \in Docs : FindDocument(x, d)
  PROVE  IInv'
<1>1. UNCHANGED <<run, worker, clock>>
  BY DEF ContentChanges, DeleteDocument, FindDocument, rowVars, jobVars
<1>2. /\ \A r \in Runs : Cardinality(InSemaphore(r)') <= Concurrency
      /\ RoomInv' /\ RunInv'
  BY <1>1 DEF IInv, TypeOK, RoomInv, InSemaphore, Busy, RunInv, UnderWay
<1>3. ASSUME NEW s \in Sources, ContentChanges(s) PROVE IInv'
  <2>1. TypeOK'
    BY <1>1, <1>2, <1>3 DEF ContentChanges, IInv, TypeOK, rowVars
  <2>2. RowInv' /\ DeletionInv'
    BY <1>3 DEF ContentChanges, IInv, RowInv, DeletionInv, Exists, rowVars
  <2> QED
    BY <1>2, <2>1, <2>2 DEF IInv
<1>4. ASSUME NEW x \in Deletions, NEW d \in Docs, FindDocument(x, d) PROVE IInv'
  <2>1. document[d].status # "none" /\ document[d].source \in Sources
    BY <1>4 DEF FindDocument, Exists, IInv, RowInv
  <2>2. TypeOK'
    BY <1>1, <1>2, <1>4, <2>1 DEF FindDocument, IInv, TypeOK, rowVars, historyVars, countVars
  <2>3. RowInv'
    BY <1>4 DEF FindDocument, IInv, RowInv, Exists, rowVars
  <2>4. DeletionInv'
    BY <1>4, <2>1 DEF FindDocument, IInv, TypeOK, DeletionInv, Exists, rowVars
  <2> QED
    BY <1>2, <2>2, <2>3, <2>4 DEF IInv
<1>5. ASSUME NEW x \in Deletions, DeleteDocument(x) PROVE IInv'
  <2>1. /\ deletion[x].target \in Docs
        /\ document[deletion[x].target].status # "none"
        /\ deletion[x].source \in Sources
    BY <1>5 DEF DeleteDocument, IInv, DeletionInv
  <2>2. \A d \in Docs :
          IF d = deletion[x].target
            THEN document'[d].status = "deleted"
            ELSE document'[d] = document[d]
    BY <1>5, <2>1 DEF DeleteDocument, NoRow, IInv, TypeOK
  <2>3. TypeOK'
    <3>1. /\ document' = [document EXCEPT ![deletion[x].target] = [NoRow EXCEPT !.status = "deleted"]]
          /\ isIngested' = [isIngested EXCEPT ![deletion[x].source] = FALSE]
          /\ resets' = [resets EXCEPT ![deletion[x].source] = @ + 1]
          /\ deletion' = [deletion EXCEPT ![x] =
                            [pc |-> "done", target |-> NoDoc, source |-> NoDoc]]
          /\ chunked' \subseteq chunked
          /\ UNCHANGED <<remote, hash, clock, changes, ingestions, overlapped>>
      BY <1>5 DEF DeleteDocument
    <3>2. /\ isIngested' \in [Sources -> BOOLEAN] /\ resets' \in [Sources -> Nat]
          /\ chunked' \in SUBSET Docs
      BY <2>1, <3>1 DEF IInv, TypeOK
    <3>3. document' \in [Docs -> [status : {"none", "completed", "failed", "deleted"},
                           source : Sources \cup {NoDoc}, hash : Hashes \cup {NoHash}]]
      <4> DEFINE Row == [status : {"none", "completed", "failed", "deleted"},
                         source : Sources \cup {NoDoc}, hash : Hashes \cup {NoHash}]
      <4>1. document \in [Docs -> Row]
        BY DEF IInv, TypeOK
      <4>2. [NoRow EXCEPT !.status = "deleted"] \in Row
        BY DEF NoRow
      <4>3. document' \in [Docs -> Row]
        <5> HIDE DEF Row
        <5> QED
          BY <3>1, <4>1, <4>2
      <4> QED
        BY <4>3
    <3>4. deletion' \in [Deletions -> [pc : {"idle", "found", "done"},
                           target : Docs \cup {NoDoc}, source : Sources \cup {NoDoc}]]
      BY <3>1 DEF IInv, TypeOK
    <3> QED
      BY <1>1, <1>2, <3>1, <3>2, <3>3, <3>4 DEF IInv, TypeOK
  <2>4. RowInv'
    BY <1>5, <2>1, <2>2 DEF DeleteDocument, IInv, RowInv, Exists
  <2>5. DeletionInv'
    BY <1>5, <2>1, <2>2 DEF DeleteDocument, IInv, TypeOK, DeletionInv, Exists
  <2> QED
    BY <1>2, <2>3, <2>4, <2>5 DEF IInv
<1> QED
  BY <1>3, <1>4, <1>5

LEMMA WorkKeeps ==
  ASSUME IInv, NEW r \in Runs, NEW s \in Sources, Work(r, s)
  PROVE  IInv'
<1>1. CASE RecheckFails(r, s) \/ Crash(r, s)
  BY <1>1, EndKeeps DEF RecheckFails, Crash, Commits, Working
<1>2. CASE DownloadFails(r, s) \/ Complete(r, s) \/ Fail(r, s)
  <2>1. worker[r][s].pc # "idle"
    BY <1>2 DEF DownloadFails, Complete, Fail
  <2> QED
    BY <1>2, <2>1, AddKeeps
<1> QED
  BY <1>1, <1>2, AcquireKeeps, DownloadKeeps DEF Work

LEMMA NextIInv == IInv /\ [Next]_vars => IInv'
<1> SUFFICES ASSUME IInv, [Next]_vars PROVE IInv'
  OBVIOUS
<1>1. CASE UNCHANGED vars
  BY <1>1 DEF vars, rowVars, jobVars, historyVars, countVars, IInv, TypeOK, RoomInv, RowInv,
              DeletionInv, Exists, RunInv, UnderWay, InSemaphore, Busy
<1> QED
  BY <1>1, StartKeeps, DieKeeps, WorkKeeps, AroundKeeps DEF Next

LEMMA SpecIInv == Spec => []IInv
BY InitIInv, NextIInv, PTL DEF Spec

\* Every variable has its type, and no run works on more sources than it has permits.
THEOREM TypeCorrect == Spec => []TypeOK
<1>1. IInv => TypeOK
  BY DEF IInv
<1> QED
  BY <1>1, SpecIInv, PTL

-----------------------------------------------------------------------------
(* Refinement: the job, however its runs overlap, and the deletions do to the rows an *)
(* action of KnowledgeBase or nothing.                                                *)

LEMMA InitRefines == Init => KB!Init
BY DEF Init, KB!Init, NoRow, Docs

LEMMA AddRefines ==
  ASSUME IInv, NEW r \in Runs, NEW s \in Sources,
         DownloadFails(r, s) \/ Complete(r, s) \/ Fail(r, s)
  PROVE  KB!Next
<1>1. clock + 1 \in Docs /\ clock \in Nat
  <2>1. worker[r][s].pc # "idle"
    BY DEF DownloadFails, Complete, Fail
  <2> QED
    BY <2>1, AddKeeps DEF IInv, TypeOK
<1>2. PICK st \in {"completed", "failed"}, h \in Hashes \cup {NoHash} :
        /\ AddDocument(s, st, h)
        /\ chunked' = IF st = "completed" THEN chunked \cup {clock + 1} ELSE chunked
  BY AddsDocument DEF IInv
<1>3. document[clock + 1].status = "none"
  BY <1>1 DEF IInv, RowInv
<1>4. \A d \in Docs : document'[d].status = IF d = clock + 1 THEN st ELSE document[d].status
  BY <1>1, <1>2 DEF AddDocument, IInv, TypeOK
<1>5. \A d \in Docs : d <= clock' <=> d <= clock \/ d = clock + 1
  BY <1>1, <1>2 DEF AddDocument, Docs
<1>6. clock' = clock + 1
  BY <1>2 DEF AddDocument
<1>7. KB!Create(clock + 1, NoKey, NoDoc, st)
  BY <1>1, <1>2, <1>3, <1>4, <1>5, <1>6 DEF KB!Create
<1> QED
  BY <1>1, <1>7 DEF KB!Next, KB!RowStatus

LEMMA DeleteRefines ==
  ASSUME IInv, NEW x \in Deletions, DeleteDocument(x)
  PROVE  [KB!Next]_(KB!vars)
<1>1. PICK d \in Docs : d = deletion[x].target /\ document[d].status # "none"
  BY DEF DeleteDocument, IInv, DeletionInv
<1>2. CASE Exists(d)
  <2>1. KB!Delete(d)
    BY <1>1, <1>2 DEF DeleteDocument, NoRow, Exists, KB!Delete, KB!Exists, KB!RowStatus, IInv,
                      TypeOK
  <2> QED
    BY <1>1, <2>1 DEF KB!Next
<1>3. CASE ~Exists(d)
  <2>1. document[d].status = "deleted" /\ d \notin chunked
    BY <1>1, <1>3 DEF Exists, IInv, TypeOK, RowInv
  <2>2. \A e \in Docs : document'[e].status = document[e].status
    BY <1>1, <2>1 DEF DeleteDocument, NoRow, IInv, TypeOK
  <2>3. chunked' = chunked /\ clock' = clock
    BY <1>1, <2>1 DEF DeleteDocument
  <2> QED
    BY <2>2, <2>3 DEF KB!vars
<1> QED
  BY <1>2, <1>3

LEMMA NextRefines == IInv /\ [Next]_vars => [KB!Next]_(KB!vars)
<1> SUFFICES ASSUME IInv, [Next]_vars PROVE [KB!Next]_(KB!vars)
  OBVIOUS
<1>1. UNCHANGED rowVars => UNCHANGED KB!vars
  BY DEF rowVars, KB!vars
<1>2. ASSUME NEW r \in Runs, NEW s \in Sources, Work(r, s) PROVE [KB!Next]_(KB!vars)
  BY <1>1, <1>2, AddRefines DEF Work, Acquire, Reads, RecheckFails, Download, Crash
<1>3. CASE \/ SchedulerDies
           \/ \E r \in Runs : Die(r) \/ \E by \in {"scheduled", "manual"} : StartRun(r, by)
           \/ \E s \in Sources : ContentChanges(s)
           \/ \E x \in Deletions, d \in Docs : FindDocument(x, d)
  BY <1>1, <1>3 DEF StartRun, Die, SchedulerDies, Kill, ContentChanges, FindDocument
<1>4. CASE UNCHANGED vars
  BY <1>1, <1>4 DEF vars
<1> QED
  BY <1>2, <1>3, <1>4, DeleteRefines DEF Next

\* Nothing half-ingested is ever committed and nothing deleted comes back, in any number
\* of overlapping runs that fail and die as they will.
THEOREM Implements == Spec => ImplementsKnowledgeBase
<1>1. Spec => KB!Spec
  BY InitRefines, SpecIInv, NextRefines, PTL DEF Spec, KB!Spec
<1> QED
  BY <1>1 DEF ImplementsKnowledgeBase

-----------------------------------------------------------------------------
(* What one step does *)

LEMMA WorkerStep ==
  ASSUME IInv, [Next]_vars, NEW r \in Runs, NEW s \in Sources
  PROVE  \/ worker'[r][s] = worker[r][s]
         \/ worker'[r][s] = Idle
         \/ ~UnderWay(r) /\ worker[r][s].pc = "idle" /\ worker'[r][s].pc = "waiting"
         \/ Acquire(r, s)
         \/ Download(r, s) /\ ~Returns(r, s)
<1> USE DEF IInv
<1>1. ASSUME NEW q \in Runs, NEW u \in Sources, worker[q][u].pc # "idle", Commits(q, u)
      PROVE  worker'[r][s] \in {worker[r][s], Idle}
  BY <1>1, EndFrees
<1>2. ASSUME NEW q \in Runs, NEW u \in Sources, Acquire(q, u), ~Acquire(r, s)
      PROVE  worker'[r][s] = worker[r][s]
  <2>1. q # r \/ u # s
    BY <1>2
  <2> QED
    BY <1>2, <2>1 DEF Acquire, Reads, TypeOK
<1>3. ASSUME NEW q \in Runs, NEW u \in Sources, Download(q, u), ~Returns(q, u),
             ~(Download(r, s) /\ ~Returns(r, s))
      PROVE  worker'[r][s] = worker[r][s]
  <2>1. q # r \/ u # s
    BY <1>3
  <2> QED
    BY <1>3, <2>1, DownloadStep
<1>4. ASSUME NEW q \in Runs, NEW u \in Sources, Work(q, u),
             ~Acquire(q, u), ~(Download(q, u) /\ ~Returns(q, u))
      PROVE  worker[q][u].pc # "idle" /\ Commits(q, u)
  BY <1>4 DEF Work, RecheckFails, DownloadFails, Download, Complete, Fail, Crash, Commits, Working
<1>5. ASSUME NEW q \in Runs, NEW by \in {"scheduled", "manual"}, StartRun(q, by)
      PROVE  \/ worker'[r][s] = worker[r][s]
             \/ ~UnderWay(r) /\ worker[r][s].pc = "idle" /\ worker'[r][s].pc = "waiting"
  BY <1>5 DEF StartRun, RunInv, TypeOK
<1>6. ASSUME NEW gone \in SUBSET Runs, Kill(gone)
      PROVE  worker'[r][s] \in {worker[r][s], Idle}
  BY <1>6 DEF Kill
<1>7. CASE SchedulerDies \/ \E q \in Runs : Die(q)
  BY <1>6, <1>7 DEF SchedulerDies, Die
<1>8. CASE \/ \E u \in Sources : ContentChanges(u)
           \/ \E x \in Deletions : DeleteDocument(x) \/ \E d \in Docs : FindDocument(x, d)
           \/ UNCHANGED vars
  BY <1>8 DEF ContentChanges, DeleteDocument, FindDocument, jobVars, vars
<1> QED
  BY <1>1, <1>2, <1>3, <1>4, <1>5, <1>7, <1>8 DEF Next

Completed(d, s) == document[d].status = "completed" /\ document[d].source = s

\* A source is ingested, or reset with a document, or its content changes, or nothing
\* happens to it.
LEMMA SourceStep ==
  ASSUME IInv, [Next]_vars, NEW s \in Sources
  PROVE  \/ \E r \in Runs : Complete(r, s)
         \/ /\ isIngested'[s] = FALSE /\ resets'[s] = resets[s] + 1
            /\ hash'[s] = hash[s] /\ remote'[s] = remote[s]
            /\ changes'[s] = changes[s] /\ ingestions'[s] = ingestions[s]
         \/ /\ isIngested'[s] = isIngested[s] /\ resets'[s] = resets[s]
            /\ hash'[s] = hash[s] /\ ingestions'[s] = ingestions[s]
            /\ \/ changes'[s] = changes[s] + 1
               \/ changes'[s] = changes[s] /\ remote'[s] = remote[s]
            /\ \A d \in Docs : Completed(d, s) => document'[d] = document[d]
<1> DEFINE Kept == /\ isIngested'[s] = isIngested[s] /\ resets'[s] = resets[s]
                   /\ hash'[s] = hash[s] /\ ingestions'[s] = ingestions[s]
                   /\ \/ changes'[s] = changes[s] + 1
                      \/ changes'[s] = changes[s] /\ remote'[s] = remote[s]
                   /\ \A d \in Docs : Completed(d, s) => document'[d] = document[d]
<1>1. ASSUME NEW r \in Runs, NEW u \in Sources,
             DownloadFails(r, u) \/ Complete(r, u) \/ Fail(r, u), ~Complete(r, s)
      PROVE  Kept
  <2>1. clock + 1 \in Docs /\ document[clock + 1].status = "none"
    <3>1. worker[r][u].pc # "idle"
      BY <1>1 DEF DownloadFails, Complete, Fail
    <3>2. clock + 1 \in Docs
      BY <1>1, <3>1, AddKeeps
    <3> QED
      BY <3>2 DEF IInv, TypeOK, RowInv
  <2>2. \A d \in Docs : Completed(d, s) => document'[d] = document[d]
    BY <1>1, <2>1 DEF Completed, DownloadFails, Complete, Fail, AddDocument, IInv, TypeOK
  <2>3. /\ isIngested'[s] = isIngested[s] /\ hash'[s] = hash[s] /\ resets' = resets
        /\ ingestions'[s] = ingestions[s] /\ changes' = changes /\ remote' = remote
    BY <1>1 DEF DownloadFails, Complete, Fail, IInv, TypeOK, historyVars, countVars
  <2> QED
    BY <2>2, <2>3
<1>2. ASSUME NEW x \in Deletions, DeleteDocument(x)
      PROVE  \/ Kept
             \/ /\ isIngested'[s] = FALSE /\ resets'[s] = resets[s] + 1
                /\ hash'[s] = hash[s] /\ remote'[s] = remote[s]
                /\ changes'[s] = changes[s] /\ ingestions'[s] = ingestions[s]
  <2>1. /\ deletion[x].target \in Docs /\ deletion[x].source \in Sources
        /\ Exists(deletion[x].target) =>
             deletion[x].source = document[deletion[x].target].source
    BY <1>2 DEF DeleteDocument, IInv, DeletionInv
  <2>2. UNCHANGED <<hash, remote, changes, ingestions>>
    BY <1>2 DEF DeleteDocument
  <2>3. CASE deletion[x].source = s
    BY <1>2, <2>2, <2>3 DEF DeleteDocument, IInv, TypeOK
  <2>4. CASE deletion[x].source # s
    <3>1. isIngested'[s] = isIngested[s] /\ resets'[s] = resets[s]
      BY <1>2, <2>4 DEF DeleteDocument, IInv, TypeOK
    <3>2. \A d \in Docs : Completed(d, s) => document'[d] = document[d]
      BY <1>2, <2>1, <2>4 DEF DeleteDocument, Completed, Exists, IInv, TypeOK
    <3> QED
      BY <2>2, <3>1, <3>2
  <2> QED
    BY <2>3, <2>4
<1>3. ASSUME UNCHANGED <<remote, rowVars, countVars>> PROVE Kept
  BY <1>3 DEF rowVars, countVars
<1>4. ASSUME NEW r \in Runs, NEW u \in Sources, Work(r, u), ~Complete(r, s) PROVE Kept
  <2>1. CASE Acquire(r, u) \/ RecheckFails(r, u) \/ Download(r, u) \/ Crash(r, u)
    BY <1>3, <2>1 DEF Acquire, Reads, RecheckFails, Download, Crash, historyVars
  <2> QED
    BY <1>1, <1>4, <2>1 DEF Work
<1>5. CASE \/ SchedulerDies
           \/ \E r \in Runs : Die(r) \/ \E by \in {"scheduled", "manual"} : StartRun(r, by)
           \/ \E x \in Deletions, d \in Docs : FindDocument(x, d)
           \/ UNCHANGED vars
  BY <1>3, <1>5 DEF StartRun, Die, SchedulerDies, Kill, FindDocument, vars, historyVars
<1>6. ASSUME NEW u \in Sources, ContentChanges(u) PROVE Kept
  BY <1>6 DEF ContentChanges, IInv, TypeOK, rowVars
<1> QED
  BY <1>2, <1>4, <1>5, <1>6 DEF Next

\* Only a worker that gets a permit can overlap with another.
LEMMA OverlapStep ==
  ASSUME [Next]_vars, NEW s \in Sources, s \notin overlapped'
  PROVE  /\ s \notin overlapped
         /\ \A r \in Runs : Acquire(r, s) => \A q \in Runs \ {r} : ~AtWork(q, s)
<1>1. ASSUME NEW r \in Runs, NEW u \in Sources, Acquire(r, u)
      PROVE  /\ overlapped \subseteq overlapped'
             /\ u = s => \A q \in Runs \ {r} : ~AtWork(q, s)
  BY <1>1 DEF Acquire, Reads, AtWork
<1>2. ASSUME NEW r \in Runs, NEW u \in Sources, Work(r, u), ~Acquire(r, u)
      PROVE  overlapped' = overlapped
  BY <1>2 DEF Work, RecheckFails, DownloadFails, Download, Complete, Fail, Crash, historyVars
<1>3. ASSUME \/ SchedulerDies
             \/ \E r \in Runs : Die(r) \/ \E by \in {"scheduled", "manual"} : StartRun(r, by)
             \/ \E u \in Sources : ContentChanges(u)
             \/ \E x \in Deletions : DeleteDocument(x) \/ \E d \in Docs : FindDocument(x, d)
             \/ UNCHANGED vars
      PROVE  overlapped' = overlapped
  BY <1>3 DEF StartRun, Die, SchedulerDies, Kill, ContentChanges, DeleteDocument, FindDocument,
              vars, historyVars
<1> QED
  BY <1>1, <1>2, <1>3 DEF Next

-----------------------------------------------------------------------------
(* Sources that no two workers were at work on at once *)

AloneInv ==
  \A s \in Sources \ overlapped, q, r \in Runs : AtWork(q, s) /\ AtWork(r, s) => q = r

\* What the worker of a source has read of it is what its row says, except that a
\* deletion may have reset it.
ReadInv ==
  \A s \in Sources \ overlapped, r \in Runs : AtWork(r, s) =>
    /\ worker[r][s].hash = hash[s]
    /\ isIngested[s] => worker[r][s].ingested

One(b) == IF b THEN 1 ELSE 0

\* How often the source may yet be ingested before its content changes or a deletion
\* resets it.
Owed(s) ==
  IF ~isIngested[s] THEN 1 ELSE One(hash[s] # remote[s])
OwedTo(w, s) ==
  CASE w.pc = "downloading" /\ w.ingested -> One(~isIngested[s]) + One(hash[s] # remote[s])
    [] w.pc = "ingesting" ->
         1 + One(IF w.ingested /\ ~isIngested[s] THEN TRUE ELSE w.content # remote[s])
    [] OTHER -> Owed(s)

NoOther(r, s) == \A q \in Runs \ {r} : ~AtWork(q, s)
Paid(r, s) == ingestions[s] + OwedTo(worker[r][s], s) <= 1 + changes[s] + resets[s]

\* The ingestions that were, and those that are owed to the one worker there may be, are
\* paid for.
PaidInv == \A s \in Sources \ overlapped, r \in Runs : NoOther(r, s) => Paid(r, s)

LEMMA AloneKeeps ==
  ASSUME IInv, AloneInv, [Next]_vars
  PROVE  AloneInv'
<1> SUFFICES ASSUME NEW s \in Sources, s \notin overlapped',
                    NEW q \in Runs, NEW r \in Runs, AtWork(q, s)', AtWork(r, s)', q # r
             PROVE  FALSE
  BY DEF AloneInv
<1>1. \A p \in Runs : AtWork(p, s)' => AtWork(p, s) \/ Acquire(p, s)
  BY WorkerStep, DownloadStep DEF AtWork, Working, Idle, IInv
<1>2. ASSUME NEW p \in Runs, NEW o \in Runs \ {p}, Acquire(p, s), AtWork(o, s)' PROVE FALSE
  <2>1. worker'[o][s] = worker[o][s]
    BY <1>2 DEF Acquire, Reads, IInv, TypeOK
  <2> QED
    BY <1>2, <2>1, OverlapStep DEF AtWork
<1>3. AtWork(q, s) /\ AtWork(r, s)
  BY <1>1, <1>2
<1> QED
  BY <1>3, OverlapStep DEF AloneInv

LEMMA ReadKeeps ==
  ASSUME IInv, AloneInv, ReadInv, [Next]_vars
  PROVE  ReadInv'
<1> SUFFICES ASSUME NEW s \in Sources, s \notin overlapped', NEW r \in Runs, AtWork(r, s)'
             PROVE  /\ worker'[r][s].hash = hash'[s]
                    /\ isIngested'[s] => worker'[r][s].ingested
  BY DEF ReadInv
<1>1. CASE Acquire(r, s)
  BY <1>1 DEF Acquire, Reads, rowVars, IInv, TypeOK
<1>2. CASE ~Acquire(r, s)
  <2>1. /\ AtWork(r, s)
        /\ worker'[r][s].hash = worker[r][s].hash
        /\ worker'[r][s].ingested = worker[r][s].ingested
    BY <1>2, WorkerStep, DownloadStep DEF AtWork, Working, Idle, IInv
  <2>2. ASSUME NEW q \in Runs, Complete(q, s) PROVE FALSE
    <3>1. q = r
      BY <2>1, <2>2, OverlapStep DEF Complete, AtWork, Working, AloneInv
    <3> QED
      BY <2>2, <3>1, EndFrees DEF Complete, AtWork, Working, Idle, IInv
  <2>3. hash'[s] = hash[s] /\ (isIngested'[s] => isIngested[s])
    BY <2>2, SourceStep
  <2> QED
    BY <2>1, <2>3, OverlapStep DEF ReadInv
<1> QED
  BY <1>1, <1>2

\* A step pays for what it makes owed to the only worker there may be.
LEMMA PaidStep ==
  ASSUME IInv, ReadInv, [Next]_vars, NEW s \in Sources, s \notin overlapped,
         NEW r \in Runs, NoOther(r, s), Paid(r, s)
  PROVE  Paid(r, s)'
<1> DEFINE w == worker[r][s]
<1>0. /\ ingestions[s] + OwedTo(w, s) <= 1 + changes[s] + resets[s]
      /\ ingestions[s] \in Nat /\ changes[s] \in Nat /\ resets[s] \in Nat
      /\ isIngested[s] \in BOOLEAN /\ w.ingested \in BOOLEAN
      /\ w.pc \in {"downloading", "ingesting"} =>
           w.hash = hash[s] /\ (isIngested[s] => w.ingested)
  BY DEF Paid, IInv, TypeOK, ReadInv, AtWork, Working
<1> SUFFICES ingestions'[s] + OwedTo(worker[r][s], s)' <= 1 + changes'[s] + resets'[s]
  BY DEF Paid
<1> USE DEF OwedTo, Owed, One
<1>1. ASSUME NEW q \in Runs, Complete(q, s)
      PROVE  ingestions'[s] + OwedTo(worker[r][s], s)' <= 1 + changes'[s] + resets'[s]
  <2>1. q = r
    BY <1>1 DEF Complete, NoOther, AtWork, Working
  <2>2. worker'[r][s].pc = "idle"
    BY <1>1, <2>1, EndFrees DEF Complete, Idle, IInv
  <2>3. /\ w.pc = "ingesting" /\ w.hash = hash[s]
        /\ ingestions'[s] = ingestions[s] + 1
        /\ hash'[s] = w.content
        /\ isIngested'[s] = IF w.ingested THEN isIngested[s] ELSE TRUE
        /\ UNCHANGED <<remote, changes, resets>>
    BY <1>0, <1>1, <2>1 DEF Complete, IInv, TypeOK
  <2> QED
    BY <1>0, <2>2, <2>3
<1>2. CASE Acquire(r, s)
  <2>1. worker'[r][s].pc = "downloading" /\ worker'[r][s].ingested = isIngested[s]
    BY <1>2 DEF Acquire, Reads, IInv, TypeOK
  <2>2. UNCHANGED <<remote, rowVars, countVars>> /\ worker[r][s].pc = "waiting"
    BY <1>2 DEF Acquire, Reads
  <2> QED
    BY <1>0, <2>1, <2>2 DEF rowVars, countVars
<1>3. CASE Download(r, s) /\ ~Returns(r, s)
  <2>1. /\ w.pc = "downloading" /\ worker'[r][s].pc = "ingesting"
        /\ worker'[r][s].content = remote[s]
        /\ worker'[r][s].ingested = w.ingested
        /\ ~w.ingested \/ w.hash # remote[s]
    BY <1>3, DownloadStep DEF IInv
  <2>2. UNCHANGED <<remote, rowVars, countVars>>
    BY <1>3 DEF Download, historyVars
  <2> QED
    BY <1>0, <2>1, <2>2 DEF rowVars, countVars
<1>4. CASE worker'[r][s] = w \/ worker'[r][s].pc \in {"idle", "waiting"}
  <2>1. OwedTo(worker'[r][s], s) <= OwedTo(w, s)
    BY <1>0, <1>4
  <2> DEFINE v == worker'[r][s]
  <2>2. v.ingested \in BOOLEAN /\ ingestions[s] + OwedTo(v, s) <= 1 + changes[s] + resets[s]
    <3>1. v.ingested \in BOOLEAN
      BY NextIInv DEF IInv, TypeOK
    <3> QED
      BY <1>0, <2>1, <3>1
  <2>3. CASE \E q \in Runs : Complete(q, s)
    BY <1>1, <2>3
  <2>4. CASE /\ isIngested'[s] = FALSE /\ resets'[s] = resets[s] + 1
             /\ hash'[s] = hash[s] /\ remote'[s] = remote[s]
             /\ changes'[s] = changes[s] /\ ingestions'[s] = ingestions[s]
    BY <1>0, <2>2, <2>4
  <2>5. CASE /\ isIngested'[s] = isIngested[s] /\ resets'[s] = resets[s]
             /\ hash'[s] = hash[s] /\ ingestions'[s] = ingestions[s]
             /\ \/ changes'[s] = changes[s] + 1
                \/ changes'[s] = changes[s] /\ remote'[s] = remote[s]
    BY <1>0, <2>2, <2>5
  <2> QED
    BY <2>3, <2>4, <2>5, SourceStep
<1> QED
  BY <1>2, <1>3, <1>4, WorkerStep DEF Idle

LEMMA PaidKeeps ==
  ASSUME IInv, AloneInv, ReadInv, PaidInv, [Next]_vars
  PROVE  PaidInv'
<1> SUFFICES ASSUME NEW s \in Sources, s \notin overlapped', NEW r \in Runs, NoOther(r, s)'
             PROVE  Paid(r, s)'
  BY DEF PaidInv
<1>1. s \notin overlapped
  BY OverlapStep
<1>2. CASE NoOther(r, s)
  BY <1>1, <1>2, PaidStep DEF PaidInv
<1>3. ASSUME NEW q \in Runs \ {r}, AtWork(q, s) PROVE Paid(r, s)'
  <2>1. NoOther(q, s) /\ ~AtWork(r, s)
    BY <1>1, <1>3 DEF AloneInv, NoOther
  <2>2. Paid(q, s)'
    BY <1>1, <2>1, PaidStep DEF PaidInv
  <2>3. ~AtWork(q, s)'
    BY <1>3 DEF NoOther
  <2>4. ~AtWork(r, s)'
    <3>1. ~Acquire(r, s)
      BY <1>3, OverlapStep
    <3> QED
      BY <2>1, <3>1, WorkerStep, DownloadStep DEF AtWork, Working, Idle, IInv
  <2>5. OwedTo(worker[r][s], s)' = Owed(s)' /\ OwedTo(worker[q][s], s)' = Owed(s)'
    BY <2>3, <2>4 DEF OwedTo, AtWork, Working
  <2> QED
    BY <2>2, <2>5 DEF Paid
<1> QED
  BY <1>2, <1>3 DEF NoOther

LEMMA SpecAlone == Spec => [](IInv /\ AloneInv /\ ReadInv /\ PaidInv)
<1>1. Init => AloneInv /\ ReadInv /\ PaidInv
  BY DEF Init, Idle, AtWork, Working, AloneInv, ReadInv, PaidInv, Paid, OwedTo, Owed, One
<1>2. IInv /\ AloneInv /\ ReadInv /\ PaidInv /\ [Next]_vars
        => IInv' /\ AloneInv' /\ ReadInv' /\ PaidInv'
  BY NextIInv, AloneKeeps, ReadKeeps, PaidKeeps
<1> QED
  BY <1>1, <1>2, InitIInv, PTL DEF Spec

\* However runs fail, die, leave workers behind and meet, a source that no two workers
\* were at work on at once is ingested once, and again only for a change of its content
\* or a deletion that reset it.
THEOREM NeedlessNever == Spec => []NeedlessOnlyByOverlap
<1>1. IInv /\ AloneInv /\ PaidInv => NeedlessOnlyByOverlap
  <2> SUFFICES ASSUME IInv, AloneInv, PaidInv, NEW s \in Sources \ overlapped
               PROVE  Justified(s)
    BY DEF NeedlessOnlyByOverlap
  <2>1. PICK r \in Runs : NoOther(r, s)
    <3>1. CASE \E q \in Runs : AtWork(q, s)
      BY <3>1 DEF AloneInv, NoOther
    <3>2. CASE \A q \in Runs : ~AtWork(q, s)
      BY <3>2, NonEmptyAssumption DEF NoOther
    <3> QED
      BY <3>1, <3>2
  <2>2. Paid(r, s)
    BY <2>1 DEF PaidInv
  <2>3. OwedTo(worker[r][s], s) \in Nat
    BY DEF OwedTo, Owed, One
  <2> QED
    BY <2>2, <2>3 DEF Paid, Justified, IInv, TypeOK
<1> QED
  BY <1>1, SpecAlone, PTL

-----------------------------------------------------------------------------
(* Whatever overlaps *)

\* The content of a source's hash is there until a reset, whether it is marked or not:
\* a worker that read the hash marks the source later without writing it again.
HashInv ==
  \A s \in Sources : hash[s] # NoHash /\ resets[s] = 0 =>
    \E d \in Docs : Completed(d, s) /\ document[d].hash = hash[s]

\* A hash, once written, is never NULL again, so no worker has read one that is.
KnownInv ==
  \A s \in Sources :
    /\ isIngested[s] => hash[s] # NoHash
    /\ \A r \in Runs :
         /\ worker[r][s].pc = "ingesting" => worker[r][s].content \in Hashes
         /\ AtWork(r, s) /\ hash[s] = NoHash => worker[r][s].hash = NoHash /\ ~worker[r][s].ingested

MarkInv == IngestedIsSearchable /\ HashInv /\ KnownInv

\* A worker that completes leaves a document of its content, which is the source's hash
\* unless it had read that very hash, and the row has another one by now.
LEMMA CompleteFinds ==
  ASSUME IInv, MarkInv, ReadInv, NEW r \in Runs, NEW s \in Sources, Complete(r, s)
  PROVE  /\ hash'[s] # NoHash
         /\ \E d \in Docs : Completed(d, s)'
         /\ s \notin overlapped \/ resets'[s] = 0 =>
              \E d \in Docs : Completed(d, s)' /\ document'[d].hash = hash'[s]
<1> DEFINE content == worker[r][s].content
<1>1. clock + 1 \in Docs /\ document[clock + 1].status = "none"
  <2>1. clock + 1 \in Docs
    BY AddKeeps DEF Complete
  <2> QED
    BY <2>1 DEF IInv, TypeOK, RowInv
<1>2. /\ document'[clock + 1] = [status |-> "completed", source |-> s, hash |-> content]
      /\ resets' = resets
      /\ hash'[s] = IF worker[r][s].hash = content THEN hash[s] ELSE content
  BY <1>1 DEF Complete, AddDocument, IInv, TypeOK
<1>3. \A d \in Docs : Completed(d, s) => document'[d] = document[d]
  BY <1>1 DEF Complete, AddDocument, Completed, IInv, TypeOK
<1>4. content \in Hashes /\ AtWork(r, s)
  BY DEF Complete, MarkInv, KnownInv, AtWork, Working
<1>5. CASE worker[r][s].hash = content
  <2>1. hash[s] # NoHash /\ hash'[s] = hash[s]
    BY <1>2, <1>4, <1>5, HashAssumption DEF MarkInv, KnownInv
  <2>2. resets[s] = 0 => \E d \in Docs : Completed(d, s)' /\ document'[d].hash = hash[s]
    BY <1>3, <2>1 DEF MarkInv, HashInv, Completed
  <2>3. s \notin overlapped => content = hash[s]
    BY <1>4, <1>5 DEF ReadInv
  <2> QED
    BY <1>1, <1>2, <2>1, <2>2, <2>3 DEF Completed
<1>6. CASE worker[r][s].hash # content
  BY <1>1, <1>2, <1>4, <1>6, HashAssumption DEF Completed
<1> QED
  BY <1>5, <1>6

LEMMA KnownKeeps ==
  ASSUME IInv, MarkInv, ReadInv, [Next]_vars
  PROVE  KnownInv'
<1> SUFFICES ASSUME NEW s \in Sources
             PROVE  /\ isIngested'[s] => hash'[s] # NoHash
                    /\ \A r \in Runs :
                         /\ worker'[r][s].pc = "ingesting" => worker'[r][s].content \in Hashes
                         /\ AtWork(r, s)' /\ hash'[s] = NoHash
                              => worker'[r][s].hash = NoHash /\ ~worker'[r][s].ingested
  BY DEF KnownInv
<1>1. isIngested'[s] => hash'[s] # NoHash
  BY SourceStep, CompleteFinds DEF MarkInv, KnownInv
<1>2. hash'[s] = NoHash => hash[s] = NoHash
  BY SourceStep, CompleteFinds
<1>3. ASSUME NEW r \in Runs
      PROVE  /\ worker'[r][s].pc = "ingesting" => worker'[r][s].content \in Hashes
             /\ AtWork(r, s)' /\ hash'[s] = NoHash
                  => worker'[r][s].hash = NoHash /\ ~worker'[r][s].ingested
  <2>1. CASE Acquire(r, s)
    <3>1. /\ worker'[r][s].pc = "downloading"
          /\ worker'[r][s].hash = hash[s] /\ worker'[r][s].ingested = isIngested[s]
      BY <2>1 DEF Acquire, Reads, IInv, TypeOK
    <3> QED
      BY <1>2, <3>1 DEF MarkInv, KnownInv
  <2>2. CASE Download(r, s) /\ ~Returns(r, s)
    BY <1>2, <2>2, DownloadStep DEF IInv, MarkInv, KnownInv, AtWork, Working
  <2>3. CASE worker'[r][s] = worker[r][s] \/ worker'[r][s].pc \in {"idle", "waiting"}
    BY <1>2, <2>3 DEF MarkInv, KnownInv, AtWork, Working
  <2> QED
    BY <2>1, <2>2, <2>3, WorkerStep DEF Idle
<1> QED
  BY <1>1, <1>3

LEMMA MarkKeeps ==
  ASSUME IInv, MarkInv, ReadInv, [Next]_vars
  PROVE  MarkInv'
<1>1. ASSUME NEW s \in Sources
      PROVE  /\ isIngested'[s] => \E d \in Docs : Completed(d, s)'
             /\ hash'[s] # NoHash /\ resets'[s] = 0 =>
                  \E d \in Docs : Completed(d, s)' /\ document'[d].hash = hash'[s]
             /\ isIngested'[s] /\ (s \notin overlapped' \/ resets'[s] = 0) =>
                  \E d \in Docs : Completed(d, s)' /\ document'[d].hash = hash'[s]
  <2>1. s \notin overlapped' => s \notin overlapped
    BY OverlapStep
  <2>2. CASE \E r \in Runs : Complete(r, s)
    BY <2>1, <2>2, CompleteFinds
  <2>3. CASE isIngested'[s] = FALSE /\ resets'[s] = resets[s] + 1
    BY <2>3 DEF IInv, TypeOK
  <2>4. CASE /\ isIngested'[s] = isIngested[s] /\ hash'[s] = hash[s] /\ resets'[s] = resets[s]
             /\ \A d \in Docs : Completed(d, s) => document'[d] = document[d]
    BY <2>1, <2>4 DEF MarkInv, IngestedIsSearchable, HashInv, Completed
  <2> QED
    BY <2>2, <2>3, <2>4, SourceStep
<1>2. IngestedIsSearchable'
  <2> SUFFICES ASSUME NEW s \in Sources, isIngested'[s]
               PROVE  \E d \in Docs :
                        /\ document'[d].status = "completed"
                        /\ document'[d].source = s
                        /\ s \notin overlapped' \/ resets'[s] = 0 => document'[d].hash = hash'[s]
    BY DEF IngestedIsSearchable
  <2>1. CASE s \notin overlapped' \/ resets'[s] = 0
    BY <1>1, <2>1 DEF Completed
  <2>2. CASE ~(s \notin overlapped' \/ resets'[s] = 0)
    BY <1>1, <2>2 DEF Completed
  <2> QED
    BY <2>1, <2>2
<1>3. HashInv'
  BY <1>1 DEF HashInv
<1> QED
  BY <1>2, <1>3, KnownKeeps DEF MarkInv

\* A source that is marked as ingested is searchable: in the content it is marked with,
\* unless two workers overlapped on it and a deletion reset it, and in some content then.
THEOREM MarkedIsSearchable == Spec => []IngestedIsSearchable
<1> DEFINE Inv == IInv /\ AloneInv /\ ReadInv /\ PaidInv
<1>1. Init => MarkInv
  BY DEF Init, Idle, MarkInv, IngestedIsSearchable, HashInv, KnownInv, AtWork, Working
<1>2. Inv /\ MarkInv /\ [Next]_vars => MarkInv'
  BY MarkKeeps
<1>3. MarkInv => IngestedIsSearchable
  BY DEF MarkInv
<1> QED
  <2> HIDE DEF Inv
  <2>1. Spec => []Inv
    BY SpecAlone DEF Inv
  <2> QED
    BY <1>1, <1>2, <1>3, <2>1, PTL DEF Spec

-----------------------------------------------------------------------------
(* What a step may do to a batch *)

WorkerStage == [waiting |-> 1, downloading |-> 2, ingesting |-> 3, idle |-> 4]

\* Every worker of a run under way only goes on towards its end, and one that waits is
\* not ended but with its run, which is then killed.
BatchAdvances ==
  \A r \in Runs : UnderWay(r) =>
    \A s \in Sources :
      /\ \/ UNCHANGED worker[r][s].pc
         \/ WorkerStage[worker[r][s].pc] < WorkerStage[worker'[r][s].pc]
      /\ worker[r][s].pc = "waiting" /\ worker'[r][s].pc = "idle" => run'[r] = "killed"

\* A worker that waits is ended only with its run.
LEMMA WaitingKilled ==
  ASSUME IInv, [Next]_vars, NEW r \in Runs, NEW s \in Sources,
         worker[r][s].pc = "waiting", worker'[r][s].pc = "idle"
  PROVE  run'[r] = "killed"
<1> USE DEF IInv
<1>1. ASSUME NEW q \in Runs, NEW u \in Sources, Commits(q, u), worker[q][u].pc # "waiting"
      PROVE  run'[r] = "killed"
  <2>1. q # r \/ u # s
    BY <1>1
  <2>2. ASSUME worker' = [worker EXCEPT ![q][u] = Idle] PROVE worker'[r][s] = worker[r][s]
    <3>1. worker \in [Runs -> [Sources -> WorkerType]]
      BY DEF TypeOK, WorkerType
    <3> HIDE DEF TypeOK, WorkerType, Idle
    <3> QED
      BY <2>1, <2>2, <3>1
  <2>3. /\ worker' = [worker EXCEPT ![q] = [t \in Sources |-> Idle]]
        /\ run' = [run EXCEPT ![q] = "killed"]
    BY <1>1, <2>2 DEF Commits, Returns, Raises
  <2>4. q = r
    BY <2>3 DEF TypeOK
  <2> QED
    BY <2>3, <2>4 DEF TypeOK
<1>2. ASSUME NEW q \in Runs, NEW u \in Sources, Work(q, u)
      PROVE  \/ Commits(q, u) /\ worker[q][u].pc # "waiting"
             \/ Acquire(q, u)
             \/ Download(q, u) /\ ~Returns(q, u)
  BY <1>2 DEF Work, RecheckFails, DownloadFails, Download, Complete, Fail, Crash, Commits, Working
<1>3. ASSUME NEW q \in Runs, NEW u \in Sources, Acquire(q, u) PROVE FALSE
  BY <1>3 DEF Acquire, Reads, TypeOK
<1>4. ASSUME NEW q \in Runs, NEW u \in Sources, Download(q, u), ~Returns(q, u) PROVE FALSE
  <2>1. worker'[r][s] = worker[r][s] \/ worker'[r][s].pc = "ingesting"
    BY <1>4, DownloadStep
  <2> QED
    BY <2>1
<1>5. ASSUME NEW gone \in SUBSET Runs, Kill(gone) PROVE run'[r] = "killed"
  BY <1>5 DEF Kill
<1>6. CASE SchedulerDies \/ \E q \in Runs : Die(q)
  BY <1>5, <1>6 DEF SchedulerDies, Die
<1>7. ASSUME NEW q \in Runs, NEW by \in {"scheduled", "manual"}, StartRun(q, by) PROVE FALSE
  BY <1>7 DEF StartRun, TypeOK
<1>8. CASE \/ \E u \in Sources : ContentChanges(u)
           \/ \E x \in Deletions : DeleteDocument(x) \/ \E d \in Docs : FindDocument(x, d)
           \/ UNCHANGED vars
  BY <1>8 DEF ContentChanges, DeleteDocument, FindDocument, jobVars, vars
<1> QED
  BY <1>1, <1>2, <1>3, <1>4, <1>6, <1>7, <1>8 DEF Next

LEMMA BatchStep ==
  ASSUME IInv, [Next]_vars
  PROVE  BatchAdvances
<1> SUFFICES ASSUME NEW r \in Runs, UnderWay(r), NEW s \in Sources
             PROVE  /\ \/ UNCHANGED worker[r][s].pc
                       \/ WorkerStage[worker[r][s].pc] < WorkerStage[worker'[r][s].pc]
                    /\ worker[r][s].pc = "waiting" /\ worker'[r][s].pc = "idle"
                         => run'[r] = "killed"
  BY DEF BatchAdvances
<1>1. CASE worker'[r][s].pc = worker[r][s].pc
  BY <1>1
<1>2. CASE Acquire(r, s)
  BY <1>2 DEF Acquire, Reads, WorkerStage, IInv, TypeOK
<1>3. CASE Download(r, s) /\ ~Returns(r, s)
  BY <1>3, DownloadStep DEF WorkerStage, IInv
<1>4. CASE worker'[r][s] = Idle /\ worker[r][s].pc # "idle"
  <2>1. WorkerStage[worker[r][s].pc] < WorkerStage[worker'[r][s].pc]
    BY <1>4 DEF WorkerStage, Idle, IInv, TypeOK
  <2>2. worker[r][s].pc = "waiting" => run'[r] = "killed"
    BY <1>4, WaitingKilled DEF Idle
  <2> QED
    BY <2>1, <2>2
<1>5. \/ worker'[r][s] = worker[r][s] \/ worker'[r][s] = Idle
      \/ Acquire(r, s) \/ (Download(r, s) /\ ~Returns(r, s))
  BY WorkerStep
<1>6. worker[r][s].pc = "idle" /\ worker'[r][s] = Idle => worker'[r][s].pc = worker[r][s].pc
  BY DEF Idle
<1> QED
  BY <1>1, <1>2, <1>3, <1>4, <1>5, <1>6

\* The safety half of BatchEnds: each source is worked on once per run, by a worker that
\* takes at most three steps, and a worker that raises takes the permit from no other,
\* however runs overlap, fail and die.
THEOREM BatchesGoOn == Spec => [][BatchAdvances]_vars
<1>1. IInv /\ [Next]_vars => [BatchAdvances]_vars
  BY BatchStep
<1> QED
  BY <1>1, SpecIInv, PTL DEF Spec
=============================================================================
