---------------------------- MODULE IngestionPipeline ----------------------------
(***************************************************************************)
(* One run of ingestion_graph (app/graphs/ingestion_graph.py) over one     *)
(* document: its bytes are fetched, its pages extracted and split into     *)
(* overlapping windows of tokens (split_into_token_chunks in               *)
(* app/utils/chunking.py), the windows embedded in batches and stored.     *)
(*                                                                         *)
(* A token is text (TRUE) or whitespace (FALSE); what it says is left out. *)
(* Offsets into a page count from 0, as in the code: the token at offset k *)
(* of page p is pages[p][k + 1].  What the outcome means for the document  *)
(* and its job is the subject of OnDemandIngestion and StartupIngestion.   *)
(***************************************************************************)
EXTENDS Integers, Sequences, FiniteSets

CONSTANTS
  Size,       \* CHUNK_SIZE_TOKENS
  Overlap,    \* CHUNK_OVERLAP_TOKENS
  BatchSize,  \* EMBEDDING_BATCH_SIZE
  Documents   \* the documents that may be ingested: their kind and pages

\* config.py refuses a larger overlap; a negative one, or a batch size of 0, it does not.
ASSUME ChunkingAssumption == Size \in Nat /\ Overlap \in Nat /\ Overlap < Size
ASSUME BatchAssumption == BatchSize \in Nat \ {0}

\* A raw text is its only page.
Document == [kind : {"text", "file", "url"}, pages : Seq(Seq(BOOLEAN))]

ASSUME DocumentsAssumption ==
  \A d \in Documents : d \in Document /\ (d.kind = "text" => Len(d.pages) = 1)

VARIABLES
  doc,         \* the document, chosen at the start
  node,        \* the node that runs, or where the run has ended
  raw,         \* raw_bytes
  status,      \* the state's "status": "unset" until a node fails or the last one ends
  page,        \* chunk_text: the page that is split
  start,       \* split_into_token_chunks: where the next window of the page begins
  chunks,      \* the chunks made
  batch,       \* embed_chunks: where the next batch begins
  embeddings,  \* the embeddings received, each the window it was computed from
  rows         \* the knowledge_chunks written

vars == <<doc, node, raw, status, page, start, chunks, batch, embeddings, rows>>

Nodes == {"load_source", "extract_text", "chunk_text", "embed_chunks", "store_vectors",
          "update_ingestion_status"}
Ended == {"done", "crashed"}

Pages == doc.pages
Total(p) == Len(Pages[p])
Least(a, b) == IF a < b THEN a ELSE b

\* str.strip() leaves nothing of the tokens at offsets a to b - 1.
Blank(p, a, b) == \A k \in a..(b - 1) : ~Pages[p][k + 1]
BlankPage(p) == Blank(p, 0, Total(p))

Window(c) == [page |-> c.page, from |-> c.from, to |-> c.to]

\* The caller may have fetched the bytes of a file or URL, or left that to load_source.
Init ==
  /\ doc \in Documents
  /\ node = "load_source"
  /\ IF doc.kind = "text" THEN raw = "none" ELSE raw \in {"none", "empty", "bytes"}
  /\ status = "unset"
  /\ page = 1
  /\ start = 0
  /\ chunks = <<>>
  /\ batch = 0
  /\ embeddings = <<>>
  /\ rows = <<>>

\* A node returns status "failed": the router skips to the last nodes.
Fail ==
  /\ status' = "failed"
  /\ node' = "update_ingestion_status"

\* An exception leaves the graph and the caller rolls back.
Crash ==
  /\ node' = "crashed"
  /\ rows' = <<>>
  /\ UNCHANGED <<doc, raw, status, page, start, chunks, batch, embeddings>>

-----------------------------------------------------------------------------
(* load_source and extract_text *)

\* Raw text needs no bytes, and bytes the caller has fetched are not fetched again.
Loaded == doc.kind = "text" \/ raw # "none"

LoadSource ==
  /\ node = "load_source"
  /\ node' = "extract_text"
  /\ IF Loaded THEN UNCHANGED raw ELSE raw' \in {"empty", "bytes"}
  /\ UNCHANGED <<doc, status, page, start, chunks, batch, embeddings, rows>>

\* The file cannot be read or the URL not be downloaded.
LoadFails ==
  /\ node = "load_source"
  /\ ~Loaded
  /\ Fail
  /\ UNCHANGED <<doc, raw, page, start, chunks, batch, embeddings, rows>>

Extractable == doc.kind = "text" \/ raw = "bytes"
HasText == \E p \in 1..Len(Pages) : ~BlankPage(p)

ExtractText ==
  /\ node = "extract_text"
  /\ Extractable /\ HasText
  /\ node' = "chunk_text"
  /\ UNCHANGED <<doc, raw, status, page, start, chunks, batch, embeddings, rows>>

\* No bytes, no text, or a PDF that pypdf cannot read.
ExtractFails ==
  /\ node = "extract_text"
  /\ doc.kind = "text" => ~HasText
  /\ Fail
  /\ UNCHANGED <<doc, raw, page, start, chunks, batch, embeddings, rows>>

-----------------------------------------------------------------------------
(* chunk_text *)

SkipBlankPage ==
  /\ node = "chunk_text"
  /\ page <= Len(Pages)
  /\ BlankPage(page)
  /\ page' = page + 1
  /\ UNCHANGED <<doc, node, raw, status, start, chunks, batch, embeddings, rows>>

\* The tokenizer refuses the page's text, and no chunk of any page is kept.
EncodeFails ==
  /\ node = "chunk_text"
  /\ page <= Len(Pages)
  /\ ~BlankPage(page)
  /\ start = 0
  /\ Fail
  /\ chunks' = <<>>
  /\ UNCHANGED <<doc, raw, page, start, batch, embeddings, rows>>

End == Least(start + Size, Total(page))
Chunk == [page |-> page, from |-> start, to |-> End, index |-> Len(chunks)]

\* Mutant: the stride is one token too long.
StrideTooLong == Size - Overlap + 1

Stride == Size - Overlap

\* Mutant: the loop ends only when the next window would be empty.
NextWindowEmpty == start + Stride >= Total(page)

LastWindow == End = Total(page)

\* Mutant: the next page is split from where the last window began.
NextPageKeepsStart == page' = page + 1 /\ UNCHANGED start

NextPage == page' = page + 1 /\ start' = 0

\* Mutant: a blank window is skipped before the start is moved on.
TakeWindowStuck ==
  /\ node = "chunk_text"
  /\ page <= Len(Pages)
  /\ ~Blank(page, start, End)
  /\ chunks' = Append(chunks, Chunk)
  /\ IF LastWindow THEN NextPage ELSE start' = start + Stride /\ UNCHANGED page
  /\ UNCHANGED <<doc, node, raw, status, batch, embeddings, rows>>

\* One turn of the loop of split_into_token_chunks: a blank window makes no chunk, and
\* the window that reaches the page's end is the last.
TakeWindow ==
  /\ node = "chunk_text"
  /\ page <= Len(Pages)
  /\ ~BlankPage(page)
  /\ chunks' = IF Blank(page, start, End) THEN chunks ELSE Append(chunks, Chunk)
  /\ IF LastWindow THEN NextPage ELSE start' = start + Stride /\ UNCHANGED page
  /\ UNCHANGED <<doc, node, raw, status, batch, embeddings, rows>>

EndChunking ==
  /\ node = "chunk_text"
  /\ page = Len(Pages) + 1
  /\ IF chunks = <<>> THEN Fail ELSE node' = "embed_chunks" /\ UNCHANGED status
  /\ UNCHANGED <<doc, raw, page, start, chunks, batch, embeddings, rows>>

-----------------------------------------------------------------------------
(* embed_chunks *)

\* The windows of the next batch, of which Bedrock answers for the first n.
BatchEnd == Least(batch + BatchSize, Len(chunks))
Answer(n) == [i \in 1..n |-> Window(chunks[batch + i])]

\* The answer may come short of the texts sent; embed hands it on as it is.
EmbedBatch ==
  /\ node = "embed_chunks"
  /\ batch < Len(chunks)
  /\ \E n \in {BatchEnd - batch, BatchEnd - batch - 1} :
       embeddings' = embeddings \o Answer(n)
  /\ batch' = batch + BatchSize
  /\ UNCHANGED <<doc, node, raw, status, page, start, chunks, rows>>

EndEmbedding ==
  /\ node = "embed_chunks"
  /\ batch >= Len(chunks)
  /\ node' = "store_vectors"
  /\ UNCHANGED <<doc, raw, status, page, start, chunks, batch, embeddings, rows>>

\* BedrockInvocationError: none of the embeddings is kept.
EmbedFails ==
  /\ node = "embed_chunks"
  /\ batch < Len(chunks)
  /\ Fail
  /\ embeddings' = <<>>
  /\ UNCHANGED <<doc, raw, page, start, chunks, batch, rows>>

\* Any other exception, of the parsing of Bedrock's answer for one.
EmbedCrashes == node = "embed_chunks" /\ batch < Len(chunks) /\ Crash

-----------------------------------------------------------------------------
(* store_vectors and update_ingestion_status *)

Row(i) == [page |-> chunks[i].page, from |-> chunks[i].from, to |-> chunks[i].to,
           index |-> chunks[i].index, embedding |-> embeddings[i]]

\* Mutant: zip stops at the shorter of chunks and embeddings.
StoreVectorsNotStrict ==
  /\ node = "store_vectors"
  /\ node' = "update_ingestion_status"
  /\ rows' = [i \in 1..Len(embeddings) |-> Row(i)]
  /\ UNCHANGED <<doc, raw, status, page, start, chunks, batch, embeddings>>

StoreVectors ==
  /\ node = "store_vectors"
  /\ Len(embeddings) = Len(chunks)
  /\ node' = "update_ingestion_status"
  /\ rows' = [i \in 1..Len(chunks) |-> Row(i)]
  /\ UNCHANGED <<doc, raw, status, page, start, chunks, batch, embeddings>>

\* zip(strict=True) raises.
StoreFails ==
  /\ node = "store_vectors"
  /\ Len(embeddings) # Len(chunks)
  /\ Fail
  /\ UNCHANGED <<doc, raw, page, start, chunks, batch, embeddings, rows>>

\* The flush raises; the session is unusable, so the next node raises too.
StoreCrashes ==
  /\ node = "store_vectors"
  /\ Len(embeddings) = Len(chunks)
  /\ Crash

UpdateIngestionStatus ==
  /\ node = "update_ingestion_status"
  /\ node' = "done"
  /\ status' = IF status = "failed" THEN "failed" ELSE "completed"
  /\ UNCHANGED <<doc, raw, page, start, chunks, batch, embeddings, rows>>

\* The document or its job is gone, or the database fails.
UpdateCrashes == node = "update_ingestion_status" /\ Crash

-----------------------------------------------------------------------------

Load == LoadSource \/ LoadFails
Extract == ExtractText \/ ExtractFails
Split == SkipBlankPage \/ EncodeFails \/ TakeWindow \/ EndChunking
EmbedChunks == EmbedBatch \/ EndEmbedding \/ EmbedFails \/ EmbedCrashes
Store == StoreVectors \/ StoreFails \/ StoreCrashes
Update == UpdateIngestionStatus \/ UpdateCrashes

Next == Load \/ Extract \/ Split \/ EmbedChunks \/ Store \/ Update

Spec == Init /\ [][Next]_vars

\* Every node returns or raises: downloads, calls and statements have timeouts.
FairSpec == Spec /\ WF_vars(Next)

-----------------------------------------------------------------------------
(* Properties *)

WindowType == [page : Nat, from : Nat, to : Nat]
ChunkType == [page : Nat, from : Nat, to : Nat, index : Nat]
RowType == [page : Nat, from : Nat, to : Nat, index : Nat, embedding : WindowType]

\* Every variable has its type, and the loop's own condition `start < total` is never
\* what ends it.
TypeOK ==
  /\ doc \in Document
  /\ node \in Nodes \cup Ended
  /\ raw \in {"none", "empty", "bytes"}
  /\ status \in {"unset", "failed", "completed"}
  /\ page \in 1..(Len(Pages) + 1)
  /\ start \in Nat
  /\ chunks \in Seq(ChunkType)
  /\ batch \in Nat
  /\ embeddings \in Seq(WindowType)
  /\ rows \in Seq(RowType)
  /\ start # 0 => page <= Len(Pages) /\ start < Total(page)

\* A concept: tokens a to b - 1 of page p, not all of them whitespace and no more of
\* them than the overlap and one.
Concept(p, a, b) ==
  /\ 0 <= a /\ a < b /\ b <= Total(p) /\ b <= a + Overlap + 1
  /\ ~Blank(p, a, b)

\* One of the chunks holds them all.
Held(p, a, b) ==
  \E i \in 1..Len(chunks) :
    chunks[i].page = p /\ chunks[i].from <= a /\ b <= chunks[i].to

ChunksMade == node \in {"embed_chunks", "store_vectors"} \/ rows # <<>>

\* What the overlap is for (chunking.py, docstring): wherever the windows' boundaries
\* fall, a concept of up to Overlap + 1 tokens is whole in some chunk of its page, so
\* no text is lost between windows, at a page's end or with a blank window.
ConceptsWhole ==
  ChunksMade => \A p \in 1..Len(Pages) :
    \A a \in 0..Total(p), b \in 0..Total(p) : Concept(p, a, b) => Held(p, a, b)

\* No chunk repeats what another one holds: the last window of a page is not followed
\* by shorter ones inside it, which retrieval would return as copies.
NoRedundantChunk ==
  \A i, j \in 1..Len(chunks) :
    i # j /\ chunks[i].page = chunks[j].page =>
      ~(chunks[j].from <= chunks[i].from /\ chunks[i].to <= chunks[j].to)

\* A document that completes has stored all its chunks, in the order of its text,
\* numbered without gaps, each with the embedding of its own content, however the
\* batches were cut and answered; one that fails or crashes has stored none.
StoredWhole ==
  /\ status = "completed" => rows # <<>>
  /\ status = "failed" \/ node = "crashed" => rows = <<>>
  /\ rows # <<>> =>
       /\ Len(rows) = Len(chunks)
       /\ \A i \in 1..Len(rows) :
            /\ Window(rows[i]) = Window(chunks[i])
            /\ rows[i].embedding = Window(chunks[i])
            /\ rows[i].index = i - 1
       /\ \A i, j \in 1..Len(rows) : i < j =>
            \/ rows[i].page < rows[j].page
            \/ rows[i].page = rows[j].page /\ rows[i].from < rows[j].from

\* Every run of the graph ends.
PipelineEnds == <>(node \in Ended)
=============================================================================
