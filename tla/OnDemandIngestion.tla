---------------------------- MODULE OnDemandIngestion ----------------------------
(***************************************************************************)
(* POST /api/opr/ingest, its background task, and DELETE                   *)
(* /api/opr/knowledge/{id} (app/services/ingestion_service.py), over       *)
(* PostgreSQL at READ COMMITTED.                                           *)
(*                                                                         *)
(* The variables hold committed rows.  What a transaction has written but  *)
(* not committed is known from where its owner is, and so are its row      *)
(* locks.  An upload writes all its rows without waiting for anything but  *)
(* its first two reads, so its writes and its commit are one step; the     *)
(* background task and the deletion hold locks while they wait for each    *)
(* other, so theirs are several.                                           *)
(*                                                                         *)
(* A document is named by the upload that creates it.                      *)
(***************************************************************************)
EXTENDS Integers

CONSTANTS
  Uploads,    \* requests to ingest; a client's retry is another request
  Deletions,  \* requests to delete
  Keys,       \* Idempotency-Key values
  Contents,   \* what content_hash tells apart
  Requested,  \* what each upload may ask for: a set of requests for each
  NoKey,      \* the header is absent
  NoContent,  \* NULL, for a content hash
  NoDoc       \* NULL, for a document id

ASSUME NoKeyAssumption == NoKey \notin Keys
ASSUME NoDocAssumption == NoDoc \notin Uploads

\* A request: its key, its content, and the document it supersedes.
Request == [key : Keys \cup {NoKey}, content : Contents, old : Uploads \cup {NoDoc}]

ASSUME RequestedAssumption == Requested \in [Uploads -> SUBSET Request]

VARIABLES
  upload,        \* per upload request: its progress, and its parameters while served
  status,        \* knowledge_documents.status; "none" before the row, "deleted" after
  key,           \* knowledge_documents.idempotency_key
  content,       \* knowledge_documents.content_hash
  supersededBy,  \* knowledge_documents.superseded_by_document_id
  created,       \* rank of knowledge_documents.created_at
  clock,         \* how many documents were ever created
  chunked,       \* documents with rows in knowledge_chunks
  job,           \* ingestion_jobs.status of the upload's job; "none" before the row
  jobDocument,   \* ingestion_jobs.document_id of the upload's job
  task,          \* per upload: where its background task is
  deletion       \* per deletion request: its progress and its target

rowVars == <<status, key, content, supersededBy, created, clock, chunked, job, jobDocument>>
columnVars == <<key, content, supersededBy, created, clock>>
vars == <<upload, rowVars, task, deletion>>

\* An upload ends accepted, with the original document of its key, with a 4xx, or with
\* a 500 or a dropped connection; a deletion with a 200, a 404, or failed likewise.
UploadPc == {"idle", "keyChecked", "ready", "accepted", "replayed", "refused", "failed"}
TaskPc == {"none", "scheduled", "processing", "failing", "stored", "crashed",
           "recovering", "recoveringJob", "ended", "lost"}
DeletionPc == {"idle", "found", "locked",
               "done", "notFound", "failed"}

RowStatus == {"queued", "completed", "failed"}
Exists(d) == status[d] \in RowStatus

-----------------------------------------------------------------------------
(* Row locks, by what their holders have written and not committed.        *)

\* The task updates its job first, then inserts chunks, whose foreign key keeps the
\* document from being deleted; the deletion locks the document, then the job that
\* points at it.
TaskHoldsJob(d) == task[d] \in {"processing", "failing", "stored"}
TaskKeepsDocument(d) == task[d] = "stored"
DeletionHolds(d) ==
  \E x \in Deletions : deletion[x].pc = "locked" /\ deletion[x].target = d

\* DELETE conflicts with every other lock on the row.
DeleteBlocked(d) == TaskKeepsDocument(d) \/ DeletionHolds(d)

\* Its ON DELETE SET NULL must update these rows.
CascadeBlocked(d) ==
  \/ jobDocument[d] = d /\ TaskHoldsJob(d)
  \/ \E e \in Uploads : supersededBy[e] = d /\ DeletionHolds(e)

-----------------------------------------------------------------------------
\* A request that is not being served has no parameters left.
At(pc) == [pc |-> pc, key |-> NoKey, content |-> NoContent, old |-> NoDoc]

Init ==
  /\ upload = [r \in Uploads |-> At("idle")]
  /\ status = [d \in Uploads |-> "none"]
  /\ key = [d \in Uploads |-> NoKey]
  /\ content = [d \in Uploads |-> NoContent]
  /\ supersededBy = [d \in Uploads |-> NoDoc]
  /\ created = [d \in Uploads |-> 0]
  /\ clock = 0
  /\ chunked = {}
  /\ job = [d \in Uploads |-> "none"]
  /\ jobDocument = [d \in Uploads |-> NoDoc]
  /\ task = [d \in Uploads |-> "none"]
  /\ deletion = [x \in Deletions |-> [pc |-> "idle", target |-> NoDoc]]

(* ---- POST /api/opr/ingest ---- *)

\* get_by_idempotency_key.
WithKey(k) == {d \in Uploads : k # NoKey /\ Exists(d) /\ key[d] = k}

\* The request arrives and its key is looked up: the same content is answered with the
\* original document, another is a conflict, and an unused key lets the request go on.
CheckKey(r, q) ==
  /\ upload[r].pc = "idle"
  /\ \/ /\ WithKey(q.key) = {}
        /\ upload' = [upload EXCEPT ![r] = [pc |-> "keyChecked", key |-> q.key,
                                            content |-> q.content, old |-> q.old]]
     \/ /\ \E d \in WithKey(q.key) : content[d] = q.content
        /\ upload' = [upload EXCEPT ![r] = At("replayed")]
     \/ /\ \E d \in WithKey(q.key) : content[d] # q.content
        /\ upload' = [upload EXCEPT ![r] = At("refused")]
  /\ UNCHANGED <<rowVars, task, deletion>>

\* The document to supersede must exist, if there is one.
CheckSuperseded(r) ==
  /\ upload[r].pc = "keyChecked"
  /\ upload' = [upload EXCEPT ![r] =
                  IF upload[r].old = NoDoc \/ Exists(upload[r].old)
                    THEN [@ EXCEPT !.pc = "ready"] ELSE At("refused")]
  /\ UNCHANGED <<rowVars, task, deletion>>

\* The unique index on idempotency_key, the last word on a key looked up earlier.
\* Mutant: no such index.
NoUniqueIndex(r) == FALSE
UniqueIndexViolated(r) == WithKey(upload[r].key) # {}

\* The old document is gone by the time it is updated: no row matches.
SupersededGone(r) == upload[r].old # NoDoc /\ ~Exists(upload[r].old)

\* Document, pointer from the superseded one, and job, in one transaction; the task is
\* scheduled before anything else runs. When the answer to COMMIT is lost the client gets
\* a 500, and the rows are there, but no task is ever scheduled for them.
CreateDocument(r) ==
  /\ upload[r].pc = "ready"
  /\ ~UniqueIndexViolated(r)
  /\ ~SupersededGone(r)
  /\ upload[r].old # NoDoc => ~DeletionHolds(upload[r].old)
  /\ status' = [status EXCEPT ![r] = "queued"]
  /\ supersededBy' = [d \in Uploads |-> IF d = upload[r].old THEN r ELSE supersededBy[d]]
  /\ created' = [created EXCEPT ![r] = clock + 1]
  /\ clock' = clock + 1
  /\ job' = [job EXCEPT ![r] = "queued"]
  /\ jobDocument' = [jobDocument EXCEPT ![r] = r]
  /\ key' = [key EXCEPT ![r] = upload[r].key]
  /\ content' = [content EXCEPT ![r] = upload[r].content]
  /\ \/ /\ upload' = [upload EXCEPT ![r] = At("accepted")]
        /\ task' = [task EXCEPT ![r] = "scheduled"]
     \/ /\ upload' = [upload EXCEPT ![r] = At("failed")]
        /\ task' = [task EXCEPT ![r] = "lost"]
  /\ UNCHANGED <<chunked, deletion>>

\* IntegrityError or StaleDataError at flush: nothing is kept, the client gets a 500.
CreateFails(r) ==
  /\ upload[r].pc = "ready"
  /\ UniqueIndexViolated(r) \/ SupersededGone(r)
  /\ upload' = [upload EXCEPT ![r] = At("failed")]
  /\ UNCHANGED <<rowVars, task, deletion>>

(* ---- the background task ---- *)

TaskMoves(r, from, to) ==
  /\ task[r] = from
  /\ task' = [task EXCEPT ![r] = to]

\* The task's COMMIT takes effect, and ends it when it is answered. An answer that is lost
\* is to the task like any other exception.
TaskCommits(r, from) ==
  \E to \in {"ended", "crashed"} : TaskMoves(r, from, to)

\* job.status = "processing" is flushed, never committed: only the lock shows.
\* Mutant: it is committed.
StartTaskCommits(r) ==
  /\ TaskMoves(r, "scheduled", "processing")
  /\ job' = [job EXCEPT ![r] = "processing"]
  /\ UNCHANGED <<upload, status, columnVars, chunked, jobDocument, deletion>>

StartTask(r) ==
  /\ TaskMoves(r, "scheduled", "processing")
  /\ UNCHANGED <<upload, rowVars, deletion>>

\* The session cannot be opened, or the job cannot be read or updated: that comes before
\* the try, so the exception ends the task and no recovery follows.
StartFails(r) ==
  /\ TaskMoves(r, "scheduled", "lost")
  /\ UNCHANGED <<upload, rowVars, deletion>>

\* A node of the graph reports a failure, before or in store_vectors.
PipelineFails(r) ==
  /\ TaskMoves(r, "processing", "failing")
  /\ UNCHANGED <<upload, rowVars, deletion>>

\* store_vectors inserts the chunks: their foreign key needs the document's row.
\* Mutant: no foreign key.
StoreVectorsWithoutForeignKey(r) ==
  /\ TaskMoves(r, "processing", "stored")
  /\ UNCHANGED <<upload, rowVars, deletion>>

StoreVectors(r) ==
  /\ ~DeletionHolds(r)
  /\ Exists(r)
  /\ TaskMoves(r, "processing", "stored")
  /\ UNCHANGED <<upload, rowVars, deletion>>

\* update_ingestion_status after a success, then the commit.
Complete(r) ==
  /\ TaskCommits(r, "stored")
  /\ status' = [status EXCEPT ![r] = "completed"]
  /\ job' = [job EXCEPT ![r] = "completed"]
  /\ chunked' = chunked \cup {r}
  /\ UNCHANGED <<upload, columnVars, jobDocument, deletion>>

\* update_ingestion_status after a failure, then the commit.
Fail(r) ==
  /\ ~DeletionHolds(r)
  /\ Exists(r)
  /\ TaskCommits(r, "failing")
  /\ status' = [status EXCEPT ![r] = "failed"]
  /\ job' = [job EXCEPT ![r] = "failed"]
  /\ UNCHANGED <<upload, columnVars, chunked, jobDocument, deletion>>

\* An exception leaves the graph and the transaction is rolled back: one no node
\* catches, a foreign key or an update that finds the document gone, or, for a task
\* that waits for a deletion, a deadlock or a statement timeout.
Crash(r) ==
  /\ \/ TaskMoves(r, "processing", "crashed")
     \/ TaskMoves(r, "stored", "crashed")
     \/ /\ ~Exists(r) \/ DeletionHolds(r)
        /\ TaskMoves(r, "failing", "crashed")
  /\ UNCHANGED <<upload, rowVars, deletion>>

\* Mutant: the except branch rolls back and no more.
RecoverNothing(r) ==
  /\ TaskMoves(r, "crashed", "ended")
  /\ UNCHANGED <<upload, rowVars, deletion>>

\* The failure session reads the document and the job.
Recover(r) ==
  /\ TaskMoves(r, "crashed", IF Exists(r) THEN "recovering" ELSE "recoveringJob")
  /\ UNCHANGED <<upload, rowVars, deletion>>

\* It found the document: both are marked failed, unless the document is gone by now,
\* when its update raises out of the task and the job keeps its status.
\* Mutant: only the document is marked.
MarkDocumentOnly(r) ==
  /\ ~DeletionHolds(r)
  /\ TaskMoves(r, "recovering", "ended")
  /\ status' = IF Exists(r) THEN [status EXCEPT ![r] = "failed"] ELSE status
  /\ UNCHANGED <<upload, columnVars, chunked, job, jobDocument, deletion>>

MarkBothFailed(r) ==
  /\ ~DeletionHolds(r)
  /\ TaskMoves(r, "recovering", "ended")
  /\ status' = IF Exists(r) THEN [status EXCEPT ![r] = "failed"] ELSE status
  /\ job' = IF Exists(r) THEN [job EXCEPT ![r] = "failed"] ELSE job
  /\ UNCHANGED <<upload, columnVars, chunked, jobDocument, deletion>>

\* It did not: the job alone is marked failed.
MarkJobFailed(r) ==
  /\ TaskMoves(r, "recoveringJob", "ended")
  /\ job' = [job EXCEPT ![r] = "failed"]
  /\ UNCHANGED <<upload, status, columnVars, chunked, jobDocument, deletion>>

\* The failure session fails itself, as it may when the database is what made the task
\* crash: nothing is marked.
RecoveryFails(r) ==
  /\ task[r] \in {"crashed", "recovering", "recoveringJob"}
  /\ task' = [task EXCEPT ![r] = "lost"]
  /\ UNCHANGED <<upload, rowVars, deletion>>

(* ---- DELETE /api/opr/knowledge/{id} ---- *)

DeletionMoves(x, from, to) ==
  /\ deletion[x].pc = from
  /\ deletion' = [deletion EXCEPT ![x].pc = to]

DeletionEnds(x, from, to) ==
  /\ deletion[x].pc = from
  /\ deletion' = [deletion EXCEPT ![x] = [pc |-> to, target |-> NoDoc]]

\* The document is read, or there is none: 404.
FindDocument(x, d) ==
  /\ deletion[x].pc = "idle"
  /\ deletion' = [deletion EXCEPT ![x] =
                    IF Exists(d) THEN [pc |-> "found", target |-> d]
                                 ELSE [pc |-> "notFound", target |-> NoDoc]]
  /\ UNCHANGED <<upload, rowVars, task>>

\* DELETE locks the row; one deleted meanwhile matches nothing, which is no error.
LockDocument(x) ==
  /\ DeletionMoves(x, "found", IF Exists(deletion[x].target) THEN "locked" ELSE "done")
  /\ ~DeleteBlocked(deletion[x].target)
  /\ UNCHANGED <<upload, rowVars, task>>

\* The foreign keys' actions, then the commit.
\* The answer to the COMMIT may be lost: a 500, though the document is gone.
Cascade(x) ==
  LET d == deletion[x].target IN
  /\ DeletionMoves(x, "locked", "done") \/ DeletionEnds(x, "locked", "failed")
  /\ ~CascadeBlocked(d)
  /\ status' = [status EXCEPT ![d] = "deleted"]
  /\ chunked' = chunked \ {d}
  /\ supersededBy' = [e \in Uploads |-> IF e = d \/ supersededBy[e] = d
                                          THEN NoDoc ELSE supersededBy[e]]
  /\ jobDocument' = [jobDocument EXCEPT ![d] = NoDoc]
  /\ UNCHANGED <<upload, key, content, created, clock, job, task>>

\* A deletion that waits is the deadlock's victim or runs into the statement timeout.
DeletionAborted(x) ==
  LET d == deletion[x].target IN
  /\ \/ DeletionEnds(x, "found", "failed") /\ DeleteBlocked(d)
     \/ DeletionEnds(x, "locked", "failed") /\ CascadeBlocked(d)
  /\ UNCHANGED <<upload, rowVars, task>>

(* ---- the process dies: open transactions are gone, and nothing resumes ---- *)

ActiveUpload == {"keyChecked", "ready"}
ActiveTask == {"scheduled", "processing", "failing", "stored", "crashed", "recovering",
               "recoveringJob"}
ActiveDeletion == {"found", "locked"}

Restart ==
  /\ \/ \E r \in Uploads : upload[r].pc \in ActiveUpload \/ task[r] \in ActiveTask
     \/ \E x \in Deletions : deletion[x].pc \in ActiveDeletion
  /\ upload' = [r \in Uploads |-> IF upload[r].pc \in ActiveUpload
                                    THEN At("failed") ELSE upload[r]]
  /\ task' = [r \in Uploads |-> IF task[r] \in ActiveTask THEN "lost" ELSE task[r]]
  /\ deletion' = [x \in Deletions |-> IF deletion[x].pc \in ActiveDeletion
                                        THEN [pc |-> "failed", target |-> NoDoc]
                                        ELSE deletion[x]]
  /\ UNCHANGED rowVars

-----------------------------------------------------------------------------
ServeUpload(r) == CheckSuperseded(r) \/ CreateDocument(r) \/ CreateFails(r)

RunTask(r) ==
  \/ StartTask(r) \/ StartFails(r)
  \/ PipelineFails(r) \/ StoreVectors(r) \/ Complete(r) \/ Fail(r)
  \/ Crash(r) \/ Recover(r) \/ MarkBothFailed(r) \/ MarkJobFailed(r) \/ RecoveryFails(r)

ServeDeletion(x) == LockDocument(x) \/ Cascade(x) \/ DeletionAborted(x)

Next ==
  \/ \E r \in Uploads :
       \/ \E q \in Requested[r] : CheckKey(r, q)
       \/ ServeUpload(r) \/ RunTask(r)
  \/ \E x \in Deletions, d \in Uploads : FindDocument(x, d)
  \/ \E x \in Deletions : ServeDeletion(x)
  \/ Restart

Spec == Init /\ [][Next]_vars

\* While the process lives the event loop runs its tasks, and PostgreSQL grants a free
\* lock or ends the wait.  No fairness for clients, nor for Restart.
FairSpec ==
  /\ Spec
  /\ \A r \in Uploads : WF_vars(ServeUpload(r)) /\ WF_vars(RunTask(r))
  /\ \A x \in Deletions : WF_vars(ServeDeletion(x))

-----------------------------------------------------------------------------
(* Properties                                                              *)

\* Every variable has its type; no job is ever stored as "processing".
TypeOK ==
  /\ upload \in [Uploads -> [pc : UploadPc, key : Keys \cup {NoKey},
                             content : Contents \cup {NoContent},
                             old : Uploads \cup {NoDoc}]]
  /\ key \in [Uploads -> Keys \cup {NoKey}]
  /\ content \in [Uploads -> Contents \cup {NoContent}]
  /\ status \in [Uploads -> RowStatus \cup {"none", "deleted"}]
  /\ supersededBy \in [Uploads -> Uploads \cup {NoDoc}]
  /\ created \in [Uploads -> Nat]
  /\ clock \in Nat
  /\ chunked \in SUBSET Uploads
  /\ job \in [Uploads -> RowStatus \cup {"none"}]
  /\ jobDocument \in [Uploads -> Uploads \cup {NoDoc}]
  /\ task \in [Uploads -> TaskPc]
  /\ deletion \in [Deletions -> [pc : DeletionPc, target : Uploads \cup {NoDoc}]]

\* Documents whose task did not hear that it completed them.
inDoubt == {d \in chunked : task[d] # "ended" \/ status[d] = "failed"}

KB == INSTANCE KnowledgeBase WITH Docs <- Uploads

\* Uploads, tasks, deletions and restarts, however they interleave, only ever do to the
\* rows what KnowledgeBase allows: in particular a document settles once, unless the
\* answer to the COMMIT that settled it was lost, and a deleted one never comes back,
\* though its task may still be running.
ImplementsKnowledgeBase == KB!Spec

\* An Idempotency-Key names at most one document, though two requests may both have
\* found the key unused.
UniqueKeys == KB!UniqueKeys

\* No superseded_by pointer dangles or goes back in time, though a document may be
\* deleted, or superseded again, while an upload that supersedes it is under way.
SupersededByNewer == KB!SupersededByNewer

\* A chat turn finds chunks of the documents listed as completed, and of those that were
\* marked failed because the COMMIT that completed them was not answered.
SearchableIsCompleted == KB!SearchableIsCompleted

\* A document and the job that ingests it always tell the same story, whichever of the
\* two sessions of the task wrote it; the job outlives the document, unlinked.
JobAgrees ==
  \A d \in Uploads :
    /\ Exists(d) => job[d] = status[d] /\ jobDocument[d] = d
    /\ ~Exists(d) => jobDocument[d] = NoDoc

\* A deletion that answered 200 left no trace of its document, and none comes back
\* from an ingestion still under way.
DeletedMeansGone ==
  \A x \in Deletions : deletion[x].pc = "done" =>
    LET d == deletion[x].target
    IN /\ status[d] = "deleted"
       /\ d \notin chunked
       /\ \A e \in Uploads : supersededBy[e] # d /\ jobDocument[e] # d

\* No document stays queued whatever happens to its task once that is in its try: it settles
\* or is deleted.  The code does not see to the others, whose task is lost: with the process,
\* with the answer to the COMMIT it was to be scheduled after, with an exception before the
\* try, or with one in the recovery.
UploadSettles ==
  \A r \in Uploads :
    status[r] = "queued" ~> status[r] # "queued" \/ task[r] = "lost"

\* What docs/06-api-specification.md section 6 says of a retry with the same key: it
\* gets the original document's id and status.  So no request fails while its key names
\* a document with its content.
RetryGetsOriginal ==
  [][\A r \in Uploads :
       CreateFails(r) => \A d \in WithKey(upload[r].key) :
                            content[d] # upload[r].content]_vars
=============================================================================
