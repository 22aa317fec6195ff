------------------------------ MODULE KnowledgeBase ------------------------------
(***************************************************************************)
(* What the knowledge base promises: the committed rows of                 *)
(* knowledge_documents, with their chunks, as an operator listing          *)
(* documents and a chat turn searching chunks may ever see them.  Every    *)
(* action is one committed transaction, and nothing else changes a row.    *)
(* OnDemandIngestion and StartupIngestion implement this.                  *)
(***************************************************************************)
EXTENDS Integers

CONSTANTS
  Docs,    \* document ids, each given to at most one row
  Keys,    \* Idempotency-Key values
  NoKey,   \* no Idempotency-Key
  NoDoc    \* NULL, for a document id: not in Docs

VARIABLES
  status,        \* knowledge_documents.status; "none" before the row, "deleted" after it
  key,           \* knowledge_documents.idempotency_key
  supersededBy,  \* knowledge_documents.superseded_by_document_id
  chunked,       \* documents that have rows in knowledge_chunks
  created,       \* rank of the row's created_at; 0 before there is a row
  clock,         \* how many rows were ever created
  inDoubt        \* documents completed by a transaction whose COMMIT was not answered

vars == <<status, key, supersededBy, chunked, created, clock, inDoubt>>

\* "processing" is in the column's CHECK constraint but no code ever stores it in a
\* document.
RowStatus == {"queued", "completed", "failed"}
Status == RowStatus \cup {"none", "deleted"}

Exists(d) == status[d] \in RowStatus
KeyInUse(k) == \E d \in Docs : Exists(d) /\ key[d] = k

Init ==
  /\ status = [d \in Docs |-> "none"]
  /\ key = [d \in Docs |-> NoKey]
  /\ supersededBy = [d \in Docs |-> NoDoc]
  /\ chunked = {}
  /\ created = [d \in Docs |-> 0]
  /\ clock = 0
  /\ inDoubt = {}

\* A row appears, with the status its transaction commits it with: queued for an
\* upload, already settled for a startup source.  It may replace an older row.
Create(d, k, old, s) ==
  /\ status[d] = "none"
  /\ k # NoKey => ~KeyInUse(k)
  /\ old # NoDoc => Exists(old)
  /\ status' = [status EXCEPT ![d] = s]
  /\ key' = [key EXCEPT ![d] = k]
  /\ supersededBy' = [e \in Docs |-> IF e = old THEN d ELSE supersededBy[e]]
  /\ chunked' = IF s = "completed" THEN chunked \cup {d} ELSE chunked
  /\ created' = [created EXCEPT ![d] = clock + 1]
  /\ clock' = clock + 1
  /\ UNCHANGED inDoubt

\* A queued row settles, once; its chunks become searchable in the same transaction.
\* Whoever completes it may not hear of it.
Settle(d, s) ==
  /\ status[d] = "queued"
  /\ status' = [status EXCEPT ![d] = s]
  /\ chunked' = IF s = "completed" THEN chunked \cup {d} ELSE chunked
  /\ inDoubt' \in {inDoubt, IF s = "completed" THEN inDoubt \cup {d} ELSE inDoubt}
  /\ UNCHANGED <<key, supersededBy, created, clock>>

\* What was completed unheard is taken for a crash and marked failed. Its chunks stay.
Distrust(d) ==
  /\ status[d] = "completed"
  /\ d \in inDoubt
  /\ status' = [status EXCEPT ![d] = "failed"]
  /\ UNCHANGED <<key, supersededBy, chunked, created, clock, inDoubt>>

\* A row disappears with its chunks, and whatever pointed at it points nowhere.
Delete(d) ==
  /\ Exists(d)
  /\ inDoubt' = inDoubt \ {d}
  /\ status' = [status EXCEPT ![d] = "deleted"]
  /\ chunked' = chunked \ {d}
  /\ supersededBy' = [e \in Docs |-> IF e = d \/ supersededBy[e] = d
                                       THEN NoDoc ELSE supersededBy[e]]
  /\ UNCHANGED <<key, created, clock>>

Next ==
  \E d \in Docs :
    \/ \E k \in Keys \cup {NoKey}, old \in Docs \cup {NoDoc}, s \in RowStatus :
         Create(d, k, old, s)
    \/ \E s \in {"completed", "failed"} : Settle(d, s)
    \/ Distrust(d)
    \/ Delete(d)

Spec == Init /\ [][Next]_vars

-----------------------------------------------------------------------------
(* Properties                                                              *)

TypeOK ==
  /\ status \in [Docs -> Status]
  /\ key \in [Docs -> Keys \cup {NoKey}]
  /\ supersededBy \in [Docs -> Docs \cup {NoDoc}]
  /\ chunked \in SUBSET Docs
  /\ created \in [Docs -> Nat]
  /\ clock \in Nat
  /\ inDoubt \in SUBSET Docs

\* An Idempotency-Key names at most one document.
UniqueKeys ==
  \A d, e \in Docs :
    Exists(d) /\ Exists(e) /\ key[d] = key[e] /\ key[d] # NoKey => d = e

\* A superseded document points at an existing one created after it: no pointer
\* dangles when either end is deleted, and no chain of replacements has a cycle.
SupersededByNewer ==
  \A d \in Docs : supersededBy[d] # NoDoc =>
    /\ Exists(d)
    /\ Exists(supersededBy[d])
    /\ created[d] < created[supersededBy[d]]

\* similarity_search finds chunks of exactly the documents listed as completed, and of
\* those that were completed unheard and then marked failed.
SearchableIsCompleted ==
  \A d \in Docs :
    /\ status[d] = "completed" => d \in chunked
    /\ d \in chunked => status[d] = "completed" \/ (status[d] = "failed" /\ d \in inDoubt)
=============================================================================
