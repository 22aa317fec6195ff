----------------------------- MODULE StartupIngestion -----------------------------
(***************************************************************************)
(* The startup ingestion job (app/jobs/run_initial_ingestion.py), which    *)
(* the scheduler fires and an operator may run by hand, against DELETE     *)
(* /api/opr/knowledge/{id} of the documents it creates.                    *)
(*                                                                         *)
(* A worker is one _process_source call.  Everything it writes is in one   *)
(* transaction, so its document appears with the status it ends with; what *)
(* makes its steps interleave is that it reads the source row first and    *)
(* writes it, from what it read, after a download and a graph run.         *)
(*                                                                         *)
(* An exception that leaves a worker leaves gather too, which cancels      *)
(* nothing: APScheduler takes the run for ended while its other workers go *)
(* on in the scheduler's loop, where the next firing may meet them.  A run *)
(* by hand ends there, and asyncio.run cancels its other workers.          *)
(***************************************************************************)
EXTENDS Integers, FiniteSets

CONSTANTS
  Sources,      \* rows of knowledge_sources; no code adds or removes one
  Runs,         \* invocations of the job that may be under way at the same time;
                \* one that is over stands for a later one
  Deletions,    \* requests to delete
  Hashes,       \* SHA-256 of the contents a source may have
  FirstHash,    \* the one every source serves at first: those of two sources are never
                \* compared
  NoHash,       \* NULL, for a hash
  NoKey, NoDoc, \* as in KnowledgeBase
  Concurrency,  \* INGESTION_CONCURRENCY
  MaxDocs,      \* bound on the documents ever created
  MaxChanges    \* bound on the changes of a source's content

ASSUME HashAssumption == FirstHash \in Hashes /\ NoHash \notin Hashes
ASSUME ConcurrencyAssumption == Concurrency \in Nat \ {0}
ASSUME MaxDocsAssumption == MaxDocs \in Nat
ASSUME FiniteAssumption == IsFiniteSet(Sources) /\ IsFiniteSet(Runs)
\* A run with no source would be over at once.
ASSUME NonEmptyAssumption == Sources # {} /\ Runs # {}

\* Documents are numbered in the order they are created in.
Docs == 1..MaxDocs

ASSUME NoDocAssumption == NoDoc \notin Docs

VARIABLES
  remote,      \* per source: the content its URL serves
  isIngested,  \* knowledge_sources.is_ingested
  hash,        \* knowledge_sources.content_hash
  document,    \* per document: its row's status, its source, and what was ingested
  clock,       \* how many documents were ever created
  chunked,     \* documents with rows in knowledge_chunks
  run,         \* per run: who started it, or how it ended
  worker,      \* per run and source: where the worker is, and what it has read
  deletion,    \* per deletion request: its progress, its target and that one's source
  changes,     \* history: how often each source's content changed
  resets,      \* history: how often a deletion reset each source
  ingestions,  \* history: how often each source was ingested
  overlapped   \* history: sources that two workers ever worked on at once

rowVars == <<isIngested, hash, document, clock, chunked>>
jobVars == <<run, worker>>
countVars == <<changes, resets, ingestions>>
historyVars == <<countVars, overlapped>>
vars == <<remote, rowVars, jobVars, deletion, historyVars>>

Idle == [pc |-> "idle", ingested |-> FALSE, hash |-> NoHash, content |-> NoHash]
NoRow == [status |-> "none", source |-> NoDoc, hash |-> NoHash]
Exists(d) == document[d].status \in {"completed", "failed"}

Init ==
  /\ remote = [s \in Sources |-> FirstHash]
  /\ isIngested = [s \in Sources |-> FALSE]
  /\ hash = [s \in Sources |-> NoHash]
  /\ document = [d \in Docs |-> NoRow]
  /\ clock = 0
  /\ chunked = {}
  /\ run = [r \in Runs |-> "ended"]
  /\ worker = [r \in Runs |-> [s \in Sources |-> Idle]]
  /\ deletion = [x \in Deletions |-> [pc |-> "idle", target |-> NoDoc, source |-> NoDoc]]
  /\ changes = [s \in Sources |-> 0]
  /\ resets = [s \in Sources |-> 0]
  /\ ingestions = [s \in Sources |-> 0]
  /\ overlapped = {}

-----------------------------------------------------------------------------
UnderWay(r) == run[r] \in {"scheduled", "orphaned", "manual"}
Working == {"downloading", "ingesting"}
InSemaphore(r) == {s \in Sources : worker[r][s].pc \in Working}
Busy == {p \in Runs \X Sources : worker[p[1]][p[2]].pc # "idle"}

\* Room, under MaxDocs, for what every worker may create.
RoomForARun == MaxDocs - clock >= Cardinality(Busy) + Cardinality(Sources)

\* list_all, then gather: one worker per source.  max_instances=1 holds a firing back
\* while APScheduler sees one at work; nothing holds back a run by hand.
StartRun(r, by) ==
  /\ ~UnderWay(r)
  /\ by = "scheduled" => \A q \in Runs : run[q] # "scheduled"
  /\ RoomForARun
  /\ run' = [run EXCEPT ![r] = by]
  /\ worker' = [worker EXCEPT ![r] = [s \in Sources |-> [Idle EXCEPT !.pc = "waiting"]]]
  /\ UNCHANGED <<remote, rowVars, deletion, historyVars>>

\* The worker has a permit of its run's semaphore and reads the source row.
Reads(r, s) ==
  /\ worker' = [worker EXCEPT ![r][s] =
       [pc |-> "downloading", ingested |-> isIngested[s], hash |-> hash[s], content |-> NoHash]]
  /\ overlapped' = overlapped \cup
       IF \E q \in Runs \ {r} : worker[q][s].pc \in Working THEN {s} ELSE {}
  /\ UNCHANGED <<remote, rowVars, run, deletion, countVars>>

\* Mutant: the semaphore is one permit short.
AcquireOneShort(r, s) ==
  /\ worker[r][s].pc = "waiting"
  /\ Cardinality(InSemaphore(r)) < Concurrency - 1
  /\ Reads(r, s)

\* Mutant: no semaphore.
AcquireUnbounded(r, s) == worker[r][s].pc = "waiting" /\ Reads(r, s)

\* async with semaphore
Acquire(r, s) ==
  /\ worker[r][s].pc = "waiting"
  /\ Cardinality(InSemaphore(r)) < Concurrency
  /\ Reads(r, s)

\* The worker returns its outcome; gather returns with the last one.
Returns(r, s) ==
  /\ worker' = [worker EXCEPT ![r][s] = Idle]
  /\ run' = [run EXCEPT ![r] =
               IF \A t \in Sources \ {s} : worker[r][t].pc = "idle" THEN "ended" ELSE @]

\* An exception leaves the worker, and gather.
Raises(r, s) ==
  \/ /\ run[r] # "manual"
     /\ worker' = [worker EXCEPT ![r][s] = Idle]
     /\ run' = [run EXCEPT ![r] =
          IF \A t \in Sources \ {s} : worker[r][t].pc = "idle" THEN "ended" ELSE "orphaned"]
  \/ /\ run[r] = "manual"
     /\ worker' = [worker EXCEPT ![r] = [t \in Sources |-> Idle]]
     /\ run' = [run EXCEPT ![r] = "killed"]

\* After a COMMIT whose answer is lost the worker does not return: see Crash.
Commits(r, s) == Returns(r, s) \/ Raises(r, s)

\* A document appears, in the status it has when its transaction commits.
AddDocument(s, status, h) ==
  /\ clock' = clock + 1
  /\ document' = [document EXCEPT ![clock + 1] =
                    [status |-> status, source |-> s, hash |-> h]]

\* A source that was ingested before is left alone: "check_failed".
RecheckFails(r, s) ==
  /\ worker[r][s].pc = "downloading"
  /\ worker[r][s].ingested
  /\ Returns(r, s)
  /\ UNCHANGED <<remote, rowVars, deletion, historyVars>>

\* _record_failed_document, for one that was not.
DownloadFails(r, s) ==
  /\ worker[r][s].pc = "downloading"
  /\ ~worker[r][s].ingested
  /\ AddDocument(s, "failed", NoHash)
  /\ Commits(r, s)
  /\ UNCHANGED <<remote, isIngested, hash, chunked, deletion, historyVars>>

\* Unchanged content is skipped, by what the worker read of the source; other content
\* goes through the graph.
Download(r, s) ==
  /\ worker[r][s].pc = "downloading"
  /\ \/ /\ worker[r][s].ingested
        /\ worker[r][s].hash = remote[s]
        /\ Returns(r, s)
     \/ /\ ~worker[r][s].ingested \/ worker[r][s].hash # remote[s]
        /\ worker' = [worker EXCEPT ![r][s].pc = "ingesting", ![r][s].content = remote[s]]
        /\ UNCHANGED run
  /\ UNCHANGED <<remote, rowVars, deletion, historyVars>>

\* Mutant: the source is marked, but its hash is not.
CompleteForgetsHash(r, s) ==
  /\ worker[r][s].pc = "ingesting"
  /\ AddDocument(s, "completed", worker[r][s].content)
  /\ chunked' = chunked \cup {clock + 1}
  /\ isIngested' = [isIngested EXCEPT ![s] = TRUE]
  /\ ingestions' = [ingestions EXCEPT ![s] = @ + 1]
  /\ Commits(r, s)
  /\ UNCHANGED <<remote, hash, deletion, changes, resets, overlapped>>

\* The graph succeeds: document, chunks and source are committed together.  The ORM
\* writes only the columns whose value differs from the one the worker read.
Complete(r, s) ==
  LET w == worker[r][s] IN
  /\ w.pc = "ingesting"
  /\ AddDocument(s, "completed", w.content)
  /\ chunked' = chunked \cup {clock + 1}
  /\ isIngested' = [isIngested EXCEPT ![s] = IF w.ingested THEN @ ELSE TRUE]
  /\ hash' = [hash EXCEPT ![s] = IF w.hash = w.content THEN @ ELSE w.content]
  /\ ingestions' = [ingestions EXCEPT ![s] = @ + 1]
  /\ Commits(r, s)
  /\ UNCHANGED <<remote, deletion, changes, resets, overlapped>>

\* Mutant: what was stored before the failure stays.
FailKeepsChunks(r, s) ==
  /\ worker[r][s].pc = "ingesting"
  /\ AddDocument(s, "failed", NoHash)
  /\ chunked' = chunked \cup {clock + 1}
  /\ Commits(r, s)
  /\ UNCHANGED <<remote, isIngested, hash, deletion, historyVars>>

\* A node reports a failure: the failed document is committed, the source is unchanged.
Fail(r, s) ==
  /\ worker[r][s].pc = "ingesting"
  /\ AddDocument(s, "failed", NoHash)
  /\ Commits(r, s)
  /\ UNCHANGED <<remote, isIngested, hash, chunked, deletion, historyVars>>

\* The database fails a statement of the worker or its COMMIT, or an exception leaves the
\* graph: nothing is written.  The handler of the latter does not return an outcome as it
\* means to: its rollback has expired the source row it then reads for the log.
Crash(r, s) ==
  /\ worker[r][s].pc \in Working
  /\ Raises(r, s)
  /\ UNCHANGED <<remote, rowVars, deletion, historyVars>>

\* A process ends, and every open transaction of its runs: one run by hand, or whatever
\* the scheduler's loop has.
Kill(gone) ==
  /\ run' = [r \in Runs |-> IF r \in gone THEN "killed" ELSE run[r]]
  /\ worker' = [r \in Runs |-> IF r \in gone THEN [s \in Sources |-> Idle] ELSE worker[r]]
  /\ UNCHANGED <<remote, rowVars, deletion, historyVars>>

Die(r) == run[r] = "manual" /\ Kill({r})

SchedulerDies ==
  LET gone == {r \in Runs : run[r] \in {"scheduled", "orphaned"}}
  IN gone # {} /\ Kill(gone)

(* ---- around the job ---- *)

\* Someone publishes another version.
ContentChanges(s) ==
  /\ changes[s] < MaxChanges
  /\ \E h \in Hashes \ {remote[s]} : remote' = [remote EXCEPT ![s] = h]
  /\ changes' = [changes EXCEPT ![s] = @ + 1]
  /\ UNCHANGED <<rowVars, jobVars, deletion, resets, ingestions, overlapped>>

FindDocument(x, d) ==
  /\ deletion[x].pc = "idle"
  /\ Exists(d)
  /\ deletion' = [deletion EXCEPT ![x] =
                    [pc |-> "found", target |-> d, source |-> document[d].source]]
  /\ UNCHANGED <<remote, rowVars, jobVars, historyVars>>

\* Mutant: the source row is forgotten.
DeleteKeepsSource(x) ==
  LET d == deletion[x].target
      s == deletion[x].source IN
  /\ deletion[x].pc = "found"
  /\ document' = [document EXCEPT ![d] = [NoRow EXCEPT !.status = "deleted"]]
  /\ chunked' = chunked \ {d}
  /\ resets' = [resets EXCEPT ![s] = @ + 1]
  /\ deletion' = [deletion EXCEPT ![x] = [pc |-> "done", target |-> NoDoc, source |-> NoDoc]]
  /\ UNCHANGED <<remote, isIngested, hash, clock, jobVars, changes, ingestions, overlapped>>

\* The document and its chunks go, and its source is reset; one that another request
\* has deleted meanwhile matches no row, and its source is reset again.
DeleteDocument(x) ==
  LET d == deletion[x].target
      s == deletion[x].source IN
  /\ deletion[x].pc = "found"
  /\ document' = [document EXCEPT ![d] = [NoRow EXCEPT !.status = "deleted"]]
  /\ chunked' = chunked \ {d}
  /\ isIngested' = [isIngested EXCEPT ![s] = FALSE]
  /\ resets' = [resets EXCEPT ![s] = @ + 1]
  /\ deletion' = [deletion EXCEPT ![x] = [pc |-> "done", target |-> NoDoc, source |-> NoDoc]]
  /\ UNCHANGED <<remote, hash, clock, jobVars, changes, ingestions, overlapped>>

-----------------------------------------------------------------------------
Work(r, s) ==
  \/ Acquire(r, s)
  \/ RecheckFails(r, s) \/ DownloadFails(r, s) \/ Download(r, s)
  \/ Complete(r, s) \/ Fail(r, s) \/ Crash(r, s)

Next ==
  \/ \E r \in Runs : Die(r) \/ \E by \in {"scheduled", "manual"} : StartRun(r, by)
  \/ SchedulerDies
  \/ \E r \in Runs, s \in Sources : Work(r, s)
  \/ \E s \in Sources : ContentChanges(s)
  \/ \E x \in Deletions : DeleteDocument(x) \/ \E d \in Docs : FindDocument(x, d)

Spec == Init /\ [][Next]_vars

\* Downloads time out and calls of Bedrock end, so a worker with a permit always
\* gets on; nothing else is obliged to happen.
FairSpec == Spec /\ \A r \in Runs, s \in Sources : WF_vars(Work(r, s))

-----------------------------------------------------------------------------
(* Properties                                                              *)

\* Every variable has its type, and a run works on Concurrency sources at most.
TypeOK ==
  /\ remote \in [Sources -> Hashes]
  /\ isIngested \in [Sources -> BOOLEAN]
  /\ hash \in [Sources -> Hashes \cup {NoHash}]
  /\ document \in [Docs -> [status : {"none", "completed", "failed", "deleted"},
                            source : Sources \cup {NoDoc}, hash : Hashes \cup {NoHash}]]
  /\ clock \in 0..MaxDocs
  /\ chunked \in SUBSET Docs
  /\ run \in [Runs -> {"ended", "killed", "scheduled", "orphaned", "manual"}]
  /\ worker \in [Runs -> [Sources ->
       [pc : {"idle", "waiting", "downloading", "ingesting"},
        ingested : BOOLEAN, hash : Hashes \cup {NoHash}, content : Hashes \cup {NoHash}]]]
  /\ deletion \in [Deletions -> [pc : {"idle", "found", "done"},
                                 target : Docs \cup {NoDoc}, source : Sources \cup {NoDoc}]]
  /\ changes \in [Sources -> Nat]
  /\ resets \in [Sources -> Nat]
  /\ ingestions \in [Sources -> Nat]
  /\ overlapped \subseteq Sources
  /\ \A r \in Runs : Cardinality(InSemaphore(r)) <= Concurrency

KB == INSTANCE KnowledgeBase WITH
  Keys <- {},
  status <- [d \in Docs |-> document[d].status],
  key <- [d \in Docs |-> NoKey],
  supersededBy <- [d \in Docs |-> NoDoc],
  created <- [d \in Docs |-> IF d <= clock THEN d ELSE 0],
  inDoubt <- {}

\* The job, its failures and deletions only ever do to the rows what KnowledgeBase
\* allows: no half-ingested document is ever committed, and none comes back.
ImplementsKnowledgeBase == KB!Spec

\* A source marked as ingested has a completed document, and of the content it is marked
\* with, unless two workers overlapped on it and a deletion reset it.  A run skips the
\* source on the strength of that mark alone, so without the document the content would
\* stay out of the knowledge base until it changes.
IngestedIsSearchable ==
  \A s \in Sources : isIngested[s] =>
    \E d \in Docs :
      /\ document[d].status = "completed"
      /\ document[d].source = s
      /\ s \notin overlapped \/ resets[s] = 0 => document[d].hash = hash[s]

Justified(s) == ingestions[s] <= 1 + changes[s] + resets[s]

\* A source is ingested once, and again only for a change of its content or a deletion
\* that reset it, unless two workers were at work on it at once: neither failures, nor
\* runs that die, nor the scheduler's next firing beside the workers that a raising one
\* left behind make a second document of the same content by themselves.
NeedlessOnlyByOverlap == \A s \in Sources : s \notin overlapped => Justified(s)

\* The same without the exception: running the job any number of times duplicates
\* nothing (docs/IMPLEMENTATION_PLAN.md, Phase 6; ingestion_scheduler.py of runs that
\* overlap).
NoNeedlessIngestion == \A s \in Sources : Justified(s)

\* The batch goes on whatever a source runs into: a worker that waits for the semaphore
\* gets it, and the run ends, unless its process dies or, run by hand, a worker raises.
BatchEnds ==
  \A r \in Runs :
    /\ \A s \in Sources :
         worker[r][s].pc = "waiting" ~> worker[r][s].pc = "downloading" \/ run[r] = "killed"
    /\ UnderWay(r) ~> ~UnderWay(r)
=============================================================================
