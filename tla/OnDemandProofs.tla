----------------------------- MODULE OnDemandProofs -----------------------------
(***************************************************************************)
(* The invariants of KnowledgeBase; and OnDemandIngestion, which           *)
(* implements it and inherits them, for any number of uploads, deletions,  *)
(* keys and contents.                                                      *)
(***************************************************************************)
EXTENDS OnDemandIngestion, TLAPS

-----------------------------------------------------------------------------
(* The abstract specification *)

USE NoDocAssumption DEF KB!RowStatus, KB!Status, KB!Exists

\* Rows are ranked by creation, so that a row created now is newer than every other.
ClockBoundsRows == \A d \in Uploads : created[d] <= clock

KBInv ==
  /\ KB!TypeOK
  /\ ClockBoundsRows
  /\ KB!UniqueKeys
  /\ KB!SupersededByNewer
  /\ KB!SearchableIsCompleted

LEMMA KBInit == KB!Init => KBInv
BY DEF KB!Init, KBInv, KB!TypeOK, ClockBoundsRows, KB!UniqueKeys, KB!SupersededByNewer,
       KB!SearchableIsCompleted

LEMMA CreateKeeps ==
  ASSUME KBInv, NEW d \in Uploads, NEW k \in Keys \cup {NoKey},
         NEW old \in Uploads \cup {NoDoc}, NEW s \in KB!RowStatus, KB!Create(d, k, old, s)
  PROVE  KBInv'
<1> USE DEF KBInv, KB!TypeOK, KB!Create
<1>1. KB!TypeOK'
  OBVIOUS
<1>2. ClockBoundsRows'
  BY DEF ClockBoundsRows
<1>3. KB!UniqueKeys'
  BY DEF KB!UniqueKeys, KB!KeyInUse
<1>4. KB!SupersededByNewer'
  <2> SUFFICES ASSUME NEW e \in Uploads, supersededBy'[e] # NoDoc
               PROVE  /\ KB!Exists(e)'
                      /\ KB!Exists(supersededBy[e])'
                      /\ created'[e] < created'[supersededBy'[e]]
    BY DEF KB!SupersededByNewer
  <2>1. CASE e = old
    <3>1. supersededBy'[e] = d /\ e # d /\ KB!Exists(e)
      BY <2>1
    <3> QED
      BY <3>1 DEF ClockBoundsRows
  <2>2. CASE e # old
    <3>1. supersededBy'[e] = supersededBy[e] /\ KB!Exists(e) /\ KB!Exists(supersededBy[e])
      BY <2>2 DEF KB!SupersededByNewer
    <3>2. e # d /\ supersededBy[e] # d /\ supersededBy[e] \in Uploads
      BY <3>1, <2>2
    <3> QED
      BY <3>1, <3>2 DEF KB!SupersededByNewer
  <2> QED
    BY <2>1, <2>2
<1>5. KB!SearchableIsCompleted'
  BY DEF KB!SearchableIsCompleted
<1> QED
  BY <1>1, <1>2, <1>3, <1>4, <1>5

LEMMA SettleKeeps ==
  ASSUME KBInv, NEW d \in Uploads, NEW s \in {"completed", "failed"}, KB!Settle(d, s)
  PROVE  KBInv'
<1> USE DEF KBInv, KB!TypeOK, KB!Settle
<1>1. KB!TypeOK' /\ ClockBoundsRows'
  BY DEF ClockBoundsRows
<1>2. \A e \in Uploads : KB!Exists(e)' <=> KB!Exists(e)
  OBVIOUS
<1>3. KB!UniqueKeys'
  BY <1>2 DEF KB!UniqueKeys
<1>4. KB!SupersededByNewer'
  BY <1>2 DEF KB!SupersededByNewer
<1>5. KB!SearchableIsCompleted'
  BY DEF KB!SearchableIsCompleted
<1> QED
  BY <1>1, <1>3, <1>4, <1>5

LEMMA DistrustKeeps ==
  ASSUME KBInv, NEW d \in Uploads, KB!Distrust(d)
  PROVE  KBInv'
<1> USE DEF KBInv, KB!TypeOK, KB!Distrust
<1>1. KB!TypeOK' /\ ClockBoundsRows'
  BY DEF ClockBoundsRows
<1>2. \A e \in Uploads : KB!Exists(e)' <=> KB!Exists(e)
  OBVIOUS
<1>3. KB!UniqueKeys'
  BY <1>2 DEF KB!UniqueKeys
<1>4. KB!SupersededByNewer'
  BY <1>2 DEF KB!SupersededByNewer
<1>5. KB!SearchableIsCompleted'
  BY DEF KB!SearchableIsCompleted
<1> QED
  BY <1>1, <1>3, <1>4, <1>5

LEMMA DeleteKeeps ==
  ASSUME KBInv, NEW d \in Uploads, KB!Delete(d)
  PROVE  KBInv'
<1> USE DEF KBInv, KB!TypeOK, KB!Delete
<1>1. KB!TypeOK' /\ ClockBoundsRows'
  BY DEF ClockBoundsRows
<1>2. \A e \in Uploads : KB!Exists(e)' <=> KB!Exists(e) /\ e # d
  OBVIOUS
<1>3. KB!UniqueKeys'
  BY <1>2 DEF KB!UniqueKeys
<1>4. KB!SupersededByNewer'
  BY <1>2 DEF KB!SupersededByNewer
<1>5. KB!SearchableIsCompleted'
  BY DEF KB!SearchableIsCompleted
<1> QED
  BY <1>1, <1>3, <1>4, <1>5

LEMMA KBNext == KBInv /\ [KB!Next]_(KB!vars) => KBInv'
<1> SUFFICES ASSUME KBInv, [KB!Next]_(KB!vars) PROVE KBInv'
  OBVIOUS
<1>1. CASE KB!Next
  BY <1>1, CreateKeeps, SettleKeeps, DistrustKeeps, DeleteKeeps DEF KB!Next
<1>2. CASE UNCHANGED KB!vars
  BY <1>2 DEF KB!vars, KBInv, KB!TypeOK, ClockBoundsRows, KB!UniqueKeys, KB!SupersededByNewer,
              KB!SearchableIsCompleted
<1> QED
  BY <1>1, <1>2

\* Keys stay unique, superseded_by pointers never dangle or close a cycle, and search
\* finds the completed documents and none but those that once were, whatever is created,
\* settled, distrusted and deleted.
THEOREM Consistent == KB!Spec => []KBInv
BY KBInit, KBNext, PTL DEF KB!Spec

HIDE DEF KB!RowStatus, KB!Status, KB!Exists

-----------------------------------------------------------------------------
(* The implementation *)

USE NoKeyAssumption, RequestedAssumption
USE DEF Request, UploadPc, TaskPc, DeletionPc, RowStatus, Exists, ActiveTask,
        ActiveUpload, ActiveDeletion

\* An upload has no row, job or task before the step that creates them all.
UploadInv ==
  \A r \in Uploads :
    /\ status[r] = "none" => task[r] = "none" /\ job[r] = "none"
    /\ upload[r].pc \in {"idle"} \cup ActiveUpload => status[r] = "none"

\* Until a task commits its document is still queued, unless it was deleted; from
\* store_vectors to the commit the lock keeps it from being deleted. A task that crashed
\* may have committed without hearing of it.
TaskInv ==
  \A r \in Uploads :
    /\ task[r] \in ActiveTask => status[r] # "none"
    /\ task[r] \in {"scheduled", "processing", "failing", "stored"} =>
         status[r] \in {"queued", "deleted"}
    /\ task[r] = "stored" => status[r] = "queued"
    /\ task[r] = "recoveringJob" => status[r] = "deleted"

\* The chunks of a document come with its completion and go with its row.
ChunkInv ==
  \A r \in Uploads :
    /\ status[r] = "completed" => r \in chunked
    /\ r \in chunked => status[r] \in {"completed", "failed"}

\* A deletion that holds its document's lock holds it alone; one that is done has
\* deleted it, or found it deleted.
DeletionInv ==
  \A x \in Deletions :
    LET d == deletion[x].target IN
    /\ deletion[x].pc \in {"found", "locked", "done"} => d \in Uploads
    /\ deletion[x].pc = "found" => status[d] # "none"
    /\ deletion[x].pc = "locked" =>
         /\ Exists(d)
         /\ task[d] # "stored"
         /\ \A y \in Deletions : deletion[y].pc = "locked" /\ deletion[y].target = d => y = x
    /\ deletion[x].pc = "done" => status[d] = "deleted"

IInv == TypeOK /\ UploadInv /\ TaskInv /\ ChunkInv /\ DeletionInv /\ JobAgrees

-----------------------------------------------------------------------------
LEMMA InitIInv == Init => IInv
BY DEF Init, At, IInv, TypeOK, UploadInv, TaskInv, ChunkInv, DeletionInv, JobAgrees

\* Steps of a request that write no row.
LEMMA RequestKeeps ==
  ASSUME IInv, NEW r \in Uploads, NEW pc \in UploadPc,
         upload[r].pc \in {"idle"} \cup ActiveUpload, upload' \in [Uploads -> [pc : UploadPc,
             key : Keys \cup {NoKey}, content : Contents \cup {NoContent},
             old : Uploads \cup {NoDoc}]],
         upload'[r].pc = pc, \A q \in Uploads \ {r} : upload'[q] = upload[q],
         UNCHANGED <<rowVars, task, deletion>>
  PROVE  IInv'
BY DEF IInv, TypeOK, UploadInv, TaskInv, ChunkInv, DeletionInv, JobAgrees, rowVars

LEMMA ServeUploadKeeps ==
  ASSUME IInv, NEW r \in Uploads, ServeUpload(r)
  PROVE  IInv'
<1>1. CASE CheckSuperseded(r)
  <2>1. /\ upload'[r].pc \in {"ready", "refused"}
        /\ upload[r].pc \in {"idle"} \cup ActiveUpload
        /\ \A q \in Uploads \ {r} : upload'[q] = upload[q]
        /\ UNCHANGED <<rowVars, task, deletion>>
    BY <1>1 DEF CheckSuperseded, At, IInv, TypeOK
  <2>2. upload' \in [Uploads -> [pc : UploadPc, key : Keys \cup {NoKey},
                      content : Contents \cup {NoContent}, old : Uploads \cup {NoDoc}]]
    BY <1>1 DEF CheckSuperseded, At, IInv, TypeOK
  <2> QED
    BY <2>1, <2>2, RequestKeeps
<1>2. CASE CreateFails(r)
  BY <1>2, RequestKeeps DEF CreateFails, At, IInv, TypeOK
<1>3. CASE CreateDocument(r)
  <2> USE <1>3 DEF CreateDocument
  <2>1. TypeOK'
    BY DEF IInv, TypeOK, At
  <2>2. status[r] = "none" /\ task[r] = "none"
    BY DEF IInv, UploadInv
  <2>3. UploadInv' /\ TaskInv' /\ ChunkInv'
    BY <2>2 DEF IInv, TypeOK, UploadInv, TaskInv, ChunkInv, At
  <2>4. DeletionInv'
    BY <2>2 DEF IInv, TypeOK, DeletionInv
  <2>5. JobAgrees'
    BY <2>2 DEF IInv, TypeOK, JobAgrees
  <2> QED
    BY <2>1, <2>3, <2>4, <2>5 DEF IInv
<1> QED
  BY <1>1, <1>2, <1>3 DEF ServeUpload

\* Steps of a task that write no row it will commit.
LEMMA TaskMovesKeeps ==
  ASSUME IInv, NEW r \in Uploads, NEW to \in TaskPc \ {"none"},
         task[r] \in ActiveTask, task' = [task EXCEPT ![r] = to],
         to = "stored" => Exists(r) /\ ~DeletionHolds(r),
         to = "recoveringJob" => ~Exists(r),
         to \notin {"ended", "lost", "crashed", "recovering", "recoveringJob"} =>
           to # "scheduled" /\ task[r] \in {"scheduled", "processing"},
         UNCHANGED <<upload, rowVars, deletion>>
  PROVE  IInv'
BY DEF IInv, TypeOK, UploadInv, TaskInv, ChunkInv, DeletionInv, JobAgrees,
       DeletionHolds, rowVars

\* Steps of a task that settle its document and its job alike.
LEMMA TaskSettlesKeeps ==
  ASSUME IInv, NEW r \in Uploads, NEW s \in {"completed", "failed"},
         NEW to \in {"ended", "crashed"},
         Exists(r), task' = [task EXCEPT ![r] = to],
         status' = [status EXCEPT ![r] = s], job' = [job EXCEPT ![r] = s],
         chunked' = IF s = "completed" THEN chunked \cup {r} ELSE chunked,
         UNCHANGED <<upload, columnVars, jobDocument, deletion>>
  PROVE  IInv'
BY DEF IInv, TypeOK, UploadInv, TaskInv, ChunkInv, DeletionInv, JobAgrees, columnVars

LEMMA RunTaskKeeps ==
  ASSUME IInv, NEW r \in Uploads, RunTask(r)
  PROVE  IInv'
<1>1. CASE StartTask(r) \/ PipelineFails(r) \/ StoreVectors(r) \/ Crash(r) \/ Recover(r)
           \/ StartFails(r) \/ RecoveryFails(r)
  BY <1>1, TaskMovesKeeps
     DEF StartTask, StartFails, PipelineFails, StoreVectors, Crash, Recover, RecoveryFails, TaskMoves
<1>2. CASE Complete(r)
  BY <1>2, TaskSettlesKeeps DEF Complete, TaskCommits, TaskMoves, IInv, TaskInv
<1>3. CASE Fail(r)
  BY <1>3, TaskSettlesKeeps DEF Fail, TaskCommits, TaskMoves, IInv, TaskInv
<1>4. CASE MarkBothFailed(r) /\ Exists(r)
  BY <1>4, TaskSettlesKeeps DEF MarkBothFailed, TaskMoves, IInv, TaskInv
<1>5. CASE MarkBothFailed(r) /\ ~Exists(r)
  BY <1>5, TaskMovesKeeps DEF MarkBothFailed, TaskMoves, rowVars, columnVars
<1>6. CASE MarkJobFailed(r)
  <2>1. status[r] = "deleted"
    BY <1>6 DEF MarkJobFailed, TaskMoves, IInv, TaskInv
  <2> QED
    BY <1>6, <2>1 DEF MarkJobFailed, TaskMoves, IInv, TypeOK, UploadInv, TaskInv,
                      ChunkInv, DeletionInv, JobAgrees, columnVars
<1> QED
  BY <1>1, <1>2, <1>3, <1>4, <1>5, <1>6 DEF RunTask

LEMMA DeletionKeeps ==
  ASSUME IInv, NEW x \in Deletions,
         (\E d \in Uploads : FindDocument(x, d)) \/ ServeDeletion(x)
  PROVE  IInv'
<1>1. CASE \E d \in Uploads : FindDocument(x, d)
  BY <1>1 DEF FindDocument, IInv, TypeOK, UploadInv, TaskInv, ChunkInv, DeletionInv, JobAgrees,
              rowVars
<1>2. CASE LockDocument(x)
  <2>1. TypeOK'
    BY <1>2 DEF LockDocument, DeletionMoves, IInv, TypeOK, rowVars
  <2>2. UploadInv' /\ TaskInv' /\ ChunkInv' /\ JobAgrees'
    BY <1>2 DEF LockDocument, IInv, UploadInv, TaskInv, ChunkInv, JobAgrees, rowVars
  <2>3. DeletionInv'
    BY <1>2 DEF LockDocument, DeletionMoves, DeleteBlocked, TaskKeepsDocument,
                DeletionHolds, IInv, TypeOK, DeletionInv, rowVars
  <2> QED
    BY <2>1, <2>2, <2>3 DEF IInv
<1>3. CASE DeletionAborted(x)
  <2>1. /\ deletion' = [deletion EXCEPT ![x] = [pc |-> "failed", target |-> NoDoc]]
        /\ UNCHANGED <<upload, rowVars, task>>
    BY <1>3 DEF DeletionAborted, DeletionEnds
  <2>2. TypeOK'
    BY <2>1 DEF IInv, TypeOK, DeletionPc, rowVars
  <2>3. UploadInv' /\ TaskInv' /\ ChunkInv' /\ JobAgrees'
    BY <2>1 DEF IInv, UploadInv, TaskInv, ChunkInv, JobAgrees, rowVars
  <2>4. DeletionInv'
    BY <2>1 DEF IInv, TypeOK, DeletionInv, rowVars
  <2> QED
    BY <2>2, <2>3, <2>4 DEF IInv
<1>4. CASE Cascade(x)
  <2> DEFINE d == deletion[x].target
  <2> USE <1>4 DEF Cascade
  <2>0. PICK to \in {"done", "failed"}, t \in {d, NoDoc} :
          /\ deletion[x].pc = "locked"
          /\ deletion' = [deletion EXCEPT ![x] = [pc |-> to, target |-> t]]
          /\ to = "done" => t = d
    BY DEF DeletionMoves, DeletionEnds, IInv, TypeOK
  <2>1. d \in Uploads /\ Exists(d) /\ task[d] # "stored"
    BY <2>0 DEF IInv, DeletionInv
  <2>2. TypeOK'
    BY <2>0, <2>1 DEF IInv, TypeOK
  <2>3. UploadInv' /\ TaskInv' /\ ChunkInv'
    BY <2>1 DEF IInv, TypeOK, UploadInv, TaskInv, ChunkInv
  <2>4. DeletionInv'
    BY <2>0, <2>1 DEF IInv, TypeOK, DeletionInv
  <2>5. JobAgrees'
    BY <2>1 DEF IInv, TypeOK, JobAgrees
  <2> QED
    BY <2>2, <2>3, <2>4, <2>5 DEF IInv
<1> QED
  BY <1>1, <1>2, <1>3, <1>4 DEF ServeDeletion

LEMMA RestartKeeps ==
  ASSUME IInv, Restart
  PROVE  IInv'
BY DEF Restart, At, IInv, TypeOK, UploadInv, TaskInv, ChunkInv, DeletionInv, JobAgrees, rowVars

LEMMA NextIInv == IInv /\ [Next]_vars => IInv'
<1> SUFFICES ASSUME IInv, [Next]_vars PROVE IInv'
  OBVIOUS
<1>1. ASSUME NEW r \in Uploads, NEW q \in Requested[r], CheckKey(r, q) PROVE IInv'
  <2>1. /\ upload'[r].pc \in {"keyChecked", "replayed", "refused"}
        /\ upload[r].pc \in {"idle"} \cup ActiveUpload
        /\ \A u \in Uploads \ {r} : upload'[u] = upload[u]
        /\ UNCHANGED <<rowVars, task, deletion>>
    BY <1>1 DEF CheckKey, At, IInv, TypeOK
  <2>2. upload' \in [Uploads -> [pc : UploadPc, key : Keys \cup {NoKey},
                      content : Contents \cup {NoContent}, old : Uploads \cup {NoDoc}]]
    BY <1>1 DEF CheckKey, At, IInv, TypeOK
  <2> QED
    BY <2>1, <2>2, RequestKeeps
<1>2. CASE UNCHANGED vars
  BY <1>2 DEF vars, rowVars, IInv, TypeOK, UploadInv, TaskInv, ChunkInv, DeletionInv, JobAgrees
<1> QED
  BY <1>1, <1>2, ServeUploadKeeps, RunTaskKeeps, DeletionKeeps, RestartKeeps DEF Next

LEMMA SpecIInv == Spec => []IInv
BY InitIInv, NextIInv, PTL DEF Spec

-----------------------------------------------------------------------------
(* Refinement: the initial rows are KnowledgeBase's, and every step does to *)
(* them one of its actions or nothing.                                      *)

LEMMA InitRefines == Init => KB!Init
BY DEF Init, KB!Init, inDoubt

LEMMA RowsUntouched ==
  ASSUME UNCHANGED <<status, key, supersededBy, created, clock, chunked>>,
         \A d \in chunked : task'[d] = "ended" <=> task[d] = "ended"
  PROVE  [KB!Next]_(KB!vars)
BY DEF KB!vars, inDoubt

LEMMA CreateRefines ==
  ASSUME IInv, NEW r \in Uploads, CreateDocument(r)
  PROVE  KB!Next
<1>1. /\ upload[r].key \in Keys \cup {NoKey}
      /\ upload[r].old \in Uploads \cup {NoDoc}
      /\ status[r] = "none"
  BY DEF IInv, TypeOK, UploadInv, CreateDocument
<1>2. inDoubt' = inDoubt
  BY <1>1 DEF CreateDocument, inDoubt, IInv, TypeOK, ChunkInv
<1>3. KB!Create(r, upload[r].key, upload[r].old, "queued")
  BY <1>1, <1>2 DEF CreateDocument, UniqueIndexViolated, SupersededGone, WithKey, KB!Create,
              KB!KeyInUse, KB!Exists, KB!RowStatus
<1> QED
  BY <1>1, <1>3 DEF KB!Next, KB!RowStatus

LEMMA SettleRefines ==
  ASSUME IInv, NEW r \in Uploads, Complete(r) \/ Fail(r)
  PROVE  KB!Next
<1>1. status[r] = "queued" /\ r \notin chunked
  BY DEF Complete, Fail, TaskCommits, TaskMoves, IInv, TaskInv, ChunkInv
<1>2. CASE Complete(r)
  <2>1. inDoubt' \in {inDoubt, inDoubt \cup {r}}
    BY <1>1, <1>2 DEF Complete, TaskCommits, TaskMoves, inDoubt, IInv, TypeOK
  <2>2. KB!Settle(r, "completed")
    BY <1>1, <1>2, <2>1 DEF Complete, columnVars, KB!Settle
  <2> QED
    BY <2>2 DEF KB!Next
<1>3. CASE Fail(r)
  <2>1. inDoubt' = inDoubt
    BY <1>1, <1>3 DEF Fail, TaskCommits, TaskMoves, inDoubt, IInv, TypeOK
  <2>2. KB!Settle(r, "failed")
    BY <1>1, <1>3, <2>1 DEF Fail, columnVars, KB!Settle
  <2> QED
    BY <2>2 DEF KB!Next
<1> QED
  BY <1>2, <1>3

\* The recovery settles a document that its task left queued, or takes the completion
\* its task did not hear of for a crash.
LEMMA RecoveryRefines ==
  ASSUME IInv, NEW r \in Uploads, MarkBothFailed(r), Exists(r)
  PROVE  [KB!Next]_(KB!vars)
<1> USE DEF MarkBothFailed, TaskMoves, columnVars
<1>1. inDoubt' = inDoubt
  BY DEF inDoubt, IInv, TypeOK, ChunkInv
<1>2. CASE status[r] = "queued"
  <2>1. KB!Settle(r, "failed")
    BY <1>1, <1>2 DEF KB!Settle
  <2> QED
    BY <2>1 DEF KB!Next
<1>3. CASE status[r] = "completed"
  <2>1. r \in inDoubt
    BY <1>3 DEF inDoubt, IInv, ChunkInv
  <2>2. KB!Distrust(r)
    BY <1>1, <1>3, <2>1 DEF KB!Distrust
  <2> QED
    BY <2>2 DEF KB!Next
<1>4. CASE status[r] = "failed"
  BY <1>1, <1>4 DEF KB!vars, IInv, TypeOK
<1> QED
  BY <1>2, <1>3, <1>4

LEMMA CascadeRefines ==
  ASSUME IInv, NEW x \in Deletions, Cascade(x)
  PROVE  KB!Next
<1>1. deletion[x].target \in Uploads /\ Exists(deletion[x].target)
  BY DEF Cascade, DeletionMoves, DeletionEnds, IInv, DeletionInv
<1>2. inDoubt' = inDoubt \ {deletion[x].target}
  BY <1>1 DEF Cascade, inDoubt, IInv, TypeOK
<1>3. KB!Delete(deletion[x].target)
  BY <1>1, <1>2 DEF Cascade, KB!Delete, KB!Exists, KB!RowStatus
<1> QED
  BY <1>1, <1>3 DEF KB!Next

LEMMA NextRefines == IInv /\ [Next]_vars => [KB!Next]_(KB!vars)
<1> SUFFICES ASSUME IInv, [Next]_vars PROVE [KB!Next]_(KB!vars)
  OBVIOUS
<1> USE RowsUntouched DEF rowVars, columnVars
<1>1. CASE \E r \in Uploads : \E q \in Requested[r] : CheckKey(r, q)
  BY <1>1 DEF CheckKey
<1>2. CASE \E r \in Uploads : ServeUpload(r)
  BY <1>2, CreateRefines DEF ServeUpload, CheckSuperseded, CreateFails
<1>3. ASSUME NEW r \in Uploads, RunTask(r) PROVE [KB!Next]_(KB!vars)
  <2>1. CASE StartTask(r) \/ PipelineFails(r) \/ StoreVectors(r) \/ Crash(r)
             \/ Recover(r) \/ StartFails(r) \/ RecoveryFails(r)
    BY <2>1 DEF StartTask, StartFails, PipelineFails, StoreVectors, Crash, Recover, RecoveryFails,
                TaskMoves, IInv, TypeOK
  <2>2. CASE MarkJobFailed(r) \/ (MarkBothFailed(r) /\ ~Exists(r))
    <3>1. r \notin chunked
      BY <2>2 DEF MarkJobFailed, MarkBothFailed, TaskMoves, IInv, TaskInv, ChunkInv
    <3> QED
      BY <2>2, <3>1 DEF MarkJobFailed, MarkBothFailed, TaskMoves, IInv, TypeOK
  <2> QED
    BY <1>3, <2>1, <2>2, SettleRefines, RecoveryRefines DEF RunTask
<1>4. CASE \E x \in Deletions, d \in Uploads : FindDocument(x, d)
  BY <1>4 DEF FindDocument
<1>5. CASE \E x \in Deletions : ServeDeletion(x)
  BY <1>5, CascadeRefines DEF ServeDeletion, LockDocument, DeletionAborted
<1>6. CASE Restart
  BY <1>6 DEF Restart, IInv, TypeOK
<1>7. CASE UNCHANGED vars
  BY <1>7 DEF vars
<1> QED
  BY <1>1, <1>2, <1>3, <1>4, <1>5, <1>6, <1>7 DEF Next

\* Uploads, tasks, deletions and restarts only ever do to the rows what KnowledgeBase
\* allows: a document settles once, unless the answer to its task's COMMIT was lost, and
\* a deleted one never comes back.
THEOREM Implements == Spec => ImplementsKnowledgeBase
<1>1. Spec => KB!Spec
  BY InitRefines, SpecIInv, NextRefines, PTL DEF Spec, KB!Spec
<1> QED
  BY <1>1 DEF ImplementsKnowledgeBase

-----------------------------------------------------------------------------
\* What KnowledgeBase guarantees of the rows holds of these rows.
LEMMA Inherited == Spec => []KBInv
BY Implements, Consistent, PTL DEF ImplementsKnowledgeBase

-----------------------------------------------------------------------------
\* Every variable has its type, in particular no job is ever stored as "processing".
THEOREM TypeCorrect == Spec => []TypeOK
<1>1. IInv => TypeOK
  BY DEF IInv
<1> QED
  BY <1>1, SpecIInv, PTL

\* A document and its job always have the same status.
THEOREM JobsAgree == Spec => []JobAgrees
<1>1. IInv => JobAgrees
  BY DEF IInv
<1> QED
  BY <1>1, SpecIInv, PTL

\* An Idempotency-Key names at most one document.
THEOREM KeysUnique == Spec => []UniqueKeys
<1>1. KBInv => UniqueKeys
  BY DEF KBInv, UniqueKeys
<1> QED
  BY <1>1, Inherited, PTL

\* No superseded_by pointer dangles or goes back in time, so none closes a cycle.
THEOREM SupersessionSound == Spec => []SupersededByNewer
<1>1. KBInv => SupersededByNewer
  BY DEF KBInv, SupersededByNewer
<1> QED
  BY <1>1, Inherited, PTL

\* Chunks are searchable of the completed documents, and of those marked failed because
\* their task did not hear that it completed them.
THEOREM SearchSound == Spec => []SearchableIsCompleted
<1>1. KBInv => SearchableIsCompleted
  BY DEF KBInv, SearchableIsCompleted
<1> QED
  BY <1>1, Inherited, PTL

\* A deletion that answered 200 left no trace of its document, and none comes back.
THEOREM DeletionSound == Spec => []DeletedMeansGone
<1>1. IInv /\ KBInv => DeletedMeansGone
  <2> SUFFICES ASSUME IInv, KBInv, NEW x \in Deletions, deletion[x].pc = "done"
               PROVE  LET d == deletion[x].target
                      IN /\ status[d] = "deleted"
                         /\ d \notin chunked
                         /\ \A e \in Uploads : supersededBy[e] # d /\ jobDocument[e] # d
    BY DEF DeletedMeansGone
  <2> DEFINE d == deletion[x].target
  <2>1. d \in Uploads /\ status[d] = "deleted"
    BY DEF IInv, DeletionInv
  <2>2. d \notin chunked
    BY <2>1 DEF KBInv, KB!SearchableIsCompleted
  <2>3. \A e \in Uploads : supersededBy[e] # d
    BY <2>1 DEF KBInv, KB!SupersededByNewer, KB!Exists, KB!RowStatus
  <2>4. \A e \in Uploads : jobDocument[e] # d
    BY <2>1 DEF IInv, JobAgrees
  <2> QED
    BY <2>1, <2>2, <2>3, <2>4
<1> QED
  BY <1>1, SpecIInv, Inherited, PTL
-----------------------------------------------------------------------------
(* What liveness rests on *)

\* A document that is queued has a task that will settle it, or one that was lost.
QueuedIsOwed ==
  \A r \in Uploads : status[r] = "queued" => task[r] \in ActiveTask \cup {"lost"}

TaskStage == [none |-> 0, scheduled |-> 1, processing |-> 2, failing |-> 3, stored |-> 3,
              crashed |-> 4, recovering |-> 5, recoveringJob |-> 5, ended |-> 6, lost |-> 6]

TasksAdvance ==
  \A r \in Uploads : UNCHANGED task[r] \/ TaskStage[task[r]] < TaskStage[task'[r]]

\* Where a task can be lost: with the answer to the upload's COMMIT, before its try, in its
\* recovery, or with every other task of the process.
LossHasPlace ==
  \A r \in Uploads : task'[r] = "lost" /\ task[r] # "lost" =>
    \/ task[r] \in {"none", "scheduled", "crashed", "recovering", "recoveringJob"}
    \/ \A u \in Uploads : task'[u] \notin ActiveTask

\* The cascade of deletion x must update a row that deletion y has locked.
WaitsFor(x, y) ==
  /\ deletion[x].pc = "locked" /\ deletion[y].pc = "locked"
  /\ supersededBy[deletion[y].target] = deletion[x].target

\* Deletions wait for those of older documents only, and a deletion for no task but its
\* own document's, which has not come to its COMMIT: who waits in a circle is two.
CirclesAreOfTwo ==
  \A x \in Deletions :
    /\ \A y \in Deletions :
         WaitsFor(x, y) => created[deletion[y].target] < created[deletion[x].target]
    /\ deletion[x].pc = "locked" /\ CascadeBlocked(deletion[x].target) =>
         \/ task[deletion[x].target] \in {"processing", "failing"}
         \/ \E y \in Deletions : WaitsFor(x, y)

\* A task moves alone, unless the process dies.
LEMMA TaskStep ==
  ASSUME IInv, [Next]_vars, NEW r \in Uploads
  PROVE  \/ task'[r] = task[r] /\ (status'[r] = "queued" => status[r] = "queued")
         \/ task[r] = "none" /\ task'[r] \in {"scheduled", "lost"}
         \/ task[r] \in ActiveTask /\ task'[r] = "lost"
         \/ RunTask(r)
<1> USE DEF IInv, TypeOK
<1>1. ASSUME NEW u \in Uploads, ServeUpload(u)
      PROVE  \/ task'[r] = task[r] /\ (status'[r] = "queued" => status[r] = "queued")
             \/ task[r] = "none" /\ task'[r] \in {"scheduled", "lost"}
  <2>1. CASE CreateDocument(u)
    <3>1. task[u] = "none"
      BY <2>1 DEF CreateDocument, UploadInv
    <3> QED
      BY <2>1, <3>1 DEF CreateDocument
  <2>2. CASE CheckSuperseded(u) \/ CreateFails(u)
    BY <2>2 DEF CheckSuperseded, CreateFails, rowVars
  <2> QED
    BY <1>1, <2>1, <2>2 DEF ServeUpload
<1>2. ASSUME NEW u \in Uploads \ {r}, RunTask(u)
      PROVE  task'[r] = task[r] /\ status'[r] = status[r]
  BY <1>2 DEF RunTask, StartTask, StartFails, PipelineFails, StoreVectors, Complete, Fail, Crash,
              Recover, MarkBothFailed, MarkJobFailed, RecoveryFails, TaskMoves, TaskCommits, rowVars
<1>3. ASSUME NEW x \in Deletions, ServeDeletion(x)
      PROVE  task'[r] = task[r] /\ (status'[r] = "queued" => status[r] = "queued")
  BY <1>3 DEF ServeDeletion, LockDocument, Cascade, DeletionAborted, rowVars
<1>4. CASE Restart
  BY <1>4 DEF Restart, rowVars
<1>5. CASE \/ \E u \in Uploads : \E q \in Requested[u] : CheckKey(u, q)
           \/ \E x \in Deletions, d \in Uploads : FindDocument(x, d)
           \/ UNCHANGED vars
  BY <1>5 DEF CheckKey, FindDocument, vars, rowVars
<1> QED
  BY <1>1, <1>2, <1>3, <1>4, <1>5 DEF Next

\* What the task of a document makes of the two.
LEMMA OwnStep ==
  ASSUME IInv, NEW r \in Uploads, RunTask(r)
  PROVE  /\ TaskStage[task[r]] < TaskStage[task'[r]]
         /\ status'[r] = "queued" => status[r] = "queued" /\ task'[r] \in ActiveTask \cup {"lost"}
<1> USE DEF IInv, TypeOK, TaskStage
<1>1. CASE StartTask(r) \/ PipelineFails(r) \/ StoreVectors(r) \/ Crash(r)
  BY <1>1 DEF StartTask, PipelineFails, StoreVectors, Crash, TaskMoves, rowVars
<1>2. CASE StartFails(r) \/ Recover(r) \/ RecoveryFails(r)
  BY <1>2 DEF StartFails, Recover, RecoveryFails, TaskMoves, rowVars
<1>3. CASE Complete(r) \/ Fail(r)
  BY <1>3 DEF Complete, Fail, TaskCommits, TaskMoves
<1>4. CASE MarkBothFailed(r)
  BY <1>4 DEF MarkBothFailed, TaskMoves
<1>5. CASE MarkJobFailed(r)
  BY <1>5 DEF MarkJobFailed, TaskMoves, TaskInv
<1> QED
  BY <1>1, <1>2, <1>3, <1>4, <1>5 DEF RunTask

\* A queued document has a task, or its recovery, that has yet to settle it, or that task was
\* lost; neither a deletion nor a task that has ended leaves one queued.
THEOREM QueuedOwed == Spec => []QueuedIsOwed
<1>1. Init => QueuedIsOwed
  BY DEF Init, QueuedIsOwed
<1>2. ASSUME IInv, QueuedIsOwed, [Next]_vars PROVE QueuedIsOwed'
  <2> SUFFICES ASSUME NEW r \in Uploads, status'[r] = "queued"
               PROVE  task'[r] \in ActiveTask \cup {"lost"}
    BY DEF QueuedIsOwed
  <2>1. CASE RunTask(r)
    BY <1>2, <2>1, OwnStep
  <2>2. CASE ~RunTask(r)
    BY <1>2, <2>2, TaskStep DEF QueuedIsOwed
  <2> QED
    BY <2>1, <2>2
<1> QED
  BY <1>1, <1>2, SpecIInv, PTL DEF Spec

\* Inside the try no exception loses a task: only the end of the process does.  So beside it,
\* a document can stay queued for good only by an upload's COMMIT that was not answered, by an
\* exception before the try, or by one in the recovery.
THEOREM LostOutsideTry == Spec => [][LossHasPlace]_vars
<1>1. ASSUME IInv, [Next]_vars PROVE LossHasPlace
  <2> SUFFICES ASSUME NEW r \in Uploads, task'[r] = "lost", task[r] # "lost",
                      task[r] \notin {"none", "scheduled", "crashed", "recovering",
                                     "recoveringJob"}
               PROVE  \A u \in Uploads : task'[u] \notin ActiveTask
    BY DEF LossHasPlace
  <2> USE DEF IInv, TypeOK
  <2>1. ~RunTask(r)
    BY <1>1
       DEF RunTask, StartTask, StartFails, PipelineFails, StoreVectors, Complete, Fail, Crash,
           Recover, MarkBothFailed, MarkJobFailed, RecoveryFails, TaskMoves, TaskCommits
  <2>2. ASSUME NEW u \in Uploads \ {r}, RunTask(u) PROVE FALSE
    BY <1>1, <2>2
       DEF RunTask, StartTask, StartFails, PipelineFails, StoreVectors, Complete, Fail, Crash,
           Recover, MarkBothFailed, MarkJobFailed, RecoveryFails, TaskMoves, TaskCommits
  <2>3. ASSUME NEW u \in Uploads, ServeUpload(u) PROVE FALSE
    BY <1>1, <2>3 DEF ServeUpload, CheckSuperseded, CreateDocument, CreateFails, UploadInv
  <2>4. ~UNCHANGED task
    OBVIOUS
  <2>5. Restart
    BY <1>1, <2>1, <2>2, <2>3, <2>4
       DEF Next, CheckKey, FindDocument, ServeDeletion, LockDocument, Cascade, DeletionAborted,
           vars
  <2> QED
    BY <2>5 DEF Restart, ActiveTask
<1>2. IInv /\ [Next]_vars => [LossHasPlace]_vars
  BY <1>1
<1> QED
  BY <1>2, SpecIInv, PTL DEF Spec

\* A task goes through its two sessions once, whatever fails and however often the process
\* restarts, and one that has ended or is lost never starts again.
THEOREM TasksRunOnce == Spec => [][TasksAdvance]_vars
<1>1. ASSUME IInv, [Next]_vars PROVE TasksAdvance
  <2> SUFFICES ASSUME NEW r \in Uploads
               PROVE  UNCHANGED task[r] \/ TaskStage[task[r]] < TaskStage[task'[r]]
    BY DEF TasksAdvance
  <2>1. CASE RunTask(r)
    BY <1>1, <2>1, OwnStep
  <2>2. CASE ~RunTask(r)
    BY <1>1, <2>2, TaskStep DEF TaskStage
  <2> QED
    BY <2>1, <2>2
<1>2. IInv /\ [Next]_vars => [TasksAdvance]_vars
  BY <1>1
<1> QED
  BY <1>2, SpecIInv, PTL DEF Spec

\* Locks are taken in an order that leaves one deadlock: a document's task and its deletion,
\* one with the job's row and the other with the document's.
THEOREM DeadlocksAreOfTwo == Spec => []CirclesAreOfTwo
<1>1. IInv /\ KBInv => CirclesAreOfTwo
  <2> SUFFICES ASSUME IInv, KBInv, NEW x \in Deletions, deletion[x].pc = "locked"
               PROVE  /\ \A y \in Deletions : WaitsFor(x, y) =>
                           created[deletion[y].target] < created[deletion[x].target]
                      /\ CascadeBlocked(deletion[x].target) =>
                           \/ task[deletion[x].target] \in {"processing", "failing"}
                           \/ \E y \in Deletions : WaitsFor(x, y)
    BY DEF CirclesAreOfTwo, WaitsFor
  <2>1. ASSUME NEW y \in Deletions, WaitsFor(x, y)
        PROVE  created[deletion[y].target] < created[deletion[x].target]
    <3>1. deletion[x].target \in Uploads /\ deletion[y].target \in Uploads
      BY <2>1 DEF WaitsFor, IInv, DeletionInv
    <3> QED
      BY <2>1, <3>1, NoDocAssumption DEF WaitsFor, KBInv, KB!SupersededByNewer
  <2>2. task[deletion[x].target] # "stored"
    BY DEF IInv, DeletionInv
  <2> QED
    BY <2>1, <2>2 DEF CascadeBlocked, TaskHoldsJob, DeletionHolds, WaitsFor
<1> QED
  BY <1>1, SpecIInv, Inherited, PTL
=============================================================================
