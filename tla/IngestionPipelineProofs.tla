------------------------- MODULE IngestionPipelineProofs -------------------------
(***************************************************************************)
(* Proofs about IngestionPipeline, for every chunk size, every overlap     *)
(* below it, every batch size and every document.                          *)
(*                                                                         *)
(* The inductive invariant says how far the loop has come: what begins     *)
(* before the next window is held (Progress), the chunks are in the        *)
(* order of the text (InOrder), and those of the current page are full     *)
(* windows that end before it does (Full).                                 *)
(***************************************************************************)
EXTENDS IngestionPipeline, SequenceTheorems, TLAPS

\* The concepts of page p that begin before offset s are whole in some chunk.
HeldUpTo(p, s) ==
  \A a \in 0..Total(p), b \in 0..Total(p) : a < s /\ Concept(p, a, b) => Held(p, a, b)

AllWhole == \A p \in 1..Len(Pages) : HeldUpTo(p, Total(p))

Progress ==
  node = "chunk_text" =>
    /\ \A p \in 1..(page - 1) : HeldUpTo(p, Total(p))
    /\ page <= Len(Pages) => HeldUpTo(page, start)

\* Two chunks one after the other: neither holds the other.
Before(c, d) ==
  \/ c.page < d.page
  \/ c.page = d.page /\ c.from < d.from /\ c.to < d.to

InOrder ==
  /\ \A i \in 1..Len(chunks) : chunks[i].index = i - 1
  /\ \A i, j \in 1..Len(chunks) : i < j => Before(chunks[i], chunks[j])

Full ==
  node = "chunk_text" =>
    \A i \in 1..Len(chunks) :
      /\ chunks[i].page <= page
      /\ chunks[i].page = page =>
           /\ chunks[i].from < start
           /\ chunks[i].to = chunks[i].from + Size
           /\ chunks[i].to < Total(page)

\* Where in the graph each part of its state is made.
Stages ==
  /\ node \in {"load_source", "extract_text"} => chunks = <<>> /\ page = 1 /\ start = 0
  /\ node \in {"load_source", "extract_text", "chunk_text"} => embeddings = <<>> /\ batch = 0
  /\ node \in {"embed_chunks", "store_vectors"} => chunks # <<>>
  /\ node \in Nodes \ {"update_ingestion_status"} => status = "unset" /\ rows = <<>>
  /\ start # 0 => ~BlankPage(page)
  /\ node = "update_ingestion_status" => status # "completed"
  /\ node = "crashed" => status # "completed" /\ rows = <<>>
  /\ status = "failed" => rows = <<>>
  /\ node \in {"update_ingestion_status", "done"} /\ status # "failed" => rows # <<>>

\* Until an answer comes short, each chunk's embedding is in its place.
Aligned ==
  node \in {"embed_chunks", "store_vectors"} =>
    /\ Len(embeddings) <= Least(batch, Len(chunks))
    /\ Len(embeddings) = Least(batch, Len(chunks)) =>
         \A i \in 1..Len(embeddings) : embeddings[i] = Window(chunks[i])
    /\ node = "store_vectors" => batch >= Len(chunks)

RowsOfChunks ==
  rows # <<>> =>
    /\ Len(rows) = Len(chunks)
    /\ \A i \in 1..Len(rows) :
         /\ Window(rows[i]) = Window(chunks[i])
         /\ rows[i].embedding = Window(chunks[i])
         /\ rows[i].index = chunks[i].index

IInv ==
  /\ TypeOK
  /\ Progress
  /\ ConceptsWhole
  /\ InOrder
  /\ Full
  /\ Stages
  /\ Aligned
  /\ RowsOfChunks

-----------------------------------------------------------------------------
(* The windows                                                             *)

LEMMA DocType ==
  ASSUME TypeOK
  PROVE  /\ Pages \in Seq(Seq(BOOLEAN))
         /\ Len(Pages) \in Nat
         /\ \A p \in 1..Len(Pages) : Total(p) \in Nat
  BY DEF TypeOK, Document, Pages, Total

\* A page that is not blank has tokens left when its next window is taken.
LEMMA WindowNotEmpty ==
  ASSUME TypeOK, node = "chunk_text", page <= Len(Pages), ~BlankPage(page)
  PROVE  /\ page \in 1..Len(Pages) /\ start \in Nat /\ End \in Nat /\ Stride \in Nat \ {0}
         /\ start < Total(page)
         /\ start < End /\ End <= Total(page) /\ End <= start + Size
         /\ End < Total(page) => End = start + Size
<1>1. page \in 1..Len(Pages) /\ Total(page) \in Nat /\ start \in Nat
  BY DocType DEF TypeOK
<1>2. Total(page) # 0
  BY <1>1 DEF BlankPage, Blank
<1>3. start < Total(page)
  BY <1>1, <1>2 DEF TypeOK
<1> QED
  BY <1>1, <1>3, ChunkingAssumption DEF End, Least, Stride

\* A window holds the concepts that begin in its first Stride tokens, and the last
\* window of a page all that are left.
LEMMA WindowHolds ==
  ASSUME TypeOK, node = "chunk_text", page <= Len(Pages), ~BlankPage(page),
         NEW a \in 0..Total(page), NEW b \in 0..Total(page), Concept(page, a, b),
         start <= a, a < start + Stride \/ LastWindow
  PROVE  b <= End /\ ~Blank(page, start, End)
<1>1. /\ page \in 1..Len(Pages) /\ start \in Nat /\ End \in Nat /\ Total(page) \in Nat
      /\ End <= Total(page)
      /\ End < Total(page) => End = start + Size
  BY WindowNotEmpty, DocType
<1>2. a \in Nat /\ b \in Nat /\ a < b /\ b <= Total(page) /\ b <= a + Overlap + 1
  BY <1>1 DEF Concept
<1>3. b <= End
  <2>1. CASE End = Total(page)
    BY <2>1, <1>2
  <2>2. CASE End # Total(page)
    BY <2>2, <1>1, <1>2, ChunkingAssumption DEF LastWindow, Stride
  <2> QED
    BY <2>1, <2>2
<1>4. PICK k \in a..(b - 1) : Pages[page][k + 1]
  BY DEF Concept, Blank
<1>5. k \in start..(End - 1)
  BY <1>1, <1>2, <1>3, <1>4
<1> QED
  BY <1>3, <1>4, <1>5 DEF Blank

\* What is held stays held when a chunk is appended.
LEMMA HeldStays ==
  ASSUME TypeOK, NEW c, chunks' = Append(chunks, c), UNCHANGED doc,
         NEW p, NEW a, NEW b, Held(p, a, b)
  PROVE  Held(p, a, b)'
<1>1. PICK i \in 1..Len(chunks) :
        chunks[i].page = p /\ chunks[i].from <= a /\ b <= chunks[i].to
  BY DEF Held
<1>2. i \in 1..Len(chunks') /\ chunks'[i] = chunks[i]
  BY <1>1 DEF TypeOK
<1> QED
  BY <1>1, <1>2 DEF Held

LEMMA WholeMeans == TypeOK => (ConceptsWhole <=> (ChunksMade => AllWhole))
<1> SUFFICES ASSUME TypeOK PROVE ConceptsWhole <=> (ChunksMade => AllWhole)
  OBVIOUS
<1>1. \A p \in 1..Len(Pages) : \A a \in 0..Total(p), b \in 0..Total(p) :
        Concept(p, a, b) => a < Total(p)
  BY DocType DEF Concept
<1> QED
  BY <1>1 DEF ConceptsWhole, AllWhole, HeldUpTo

LEMMA HeldUnchanged ==
  ASSUME UNCHANGED <<doc, chunks>>
  PROVE  /\ AllWhole' = AllWhole
         /\ \A p, s : HeldUpTo(p, s)' = HeldUpTo(p, s)
         /\ \A p : BlankPage(p)' = BlankPage(p) /\ Total(p)' = Total(p)
         /\ Pages' = Pages
  BY DEF AllWhole, HeldUpTo, Held, Concept, Blank, BlankPage, Total, Pages

\* The conjuncts that speak of the chunks alone are kept by every step that makes none.
LEMMA ChunksUnchanged ==
  ASSUME IInv, UNCHANGED <<doc, chunks>>, TypeOK',
         ChunksMade' => ChunksMade,
         node' = "chunk_text" => node = "chunk_text" /\ UNCHANGED <<page, start>>
  PROVE  Progress' /\ ConceptsWhole' /\ InOrder' /\ Full'
<1>1. Progress'
  BY HeldUnchanged DEF IInv, Progress
<1>2. ConceptsWhole'
  <2>1. (TypeOK => (ConceptsWhole <=> (ChunksMade => AllWhole)))'
    BY WholeMeans, PTL
  <2> QED
    BY <2>1, WholeMeans, HeldUnchanged DEF IInv
<1>3. InOrder'
  BY DEF IInv, InOrder, Before
<1>4. Full'
  BY HeldUnchanged DEF IInv, Full
<1> QED
  BY <1>1, <1>2, <1>3, <1>4

THEOREM InitInvariant == Init => IInv
<1> SUFFICES ASSUME Init PROVE IInv
  OBVIOUS
<1>1. TypeOK
  BY DocumentsAssumption DEF Init, TypeOK, Document, Nodes, Pages
<1>2. ConceptsWhole
  BY DEF Init, ConceptsWhole, ChunksMade
<1>3. Progress /\ InOrder /\ Full /\ Aligned /\ RowsOfChunks
  BY DEF Init, Progress, InOrder, Full, Aligned, RowsOfChunks
<1>4. Stages
  BY DEF Init, Stages, Nodes
<1> QED
  BY <1>1, <1>2, <1>3, <1>4 DEF IInv

-----------------------------------------------------------------------------
(* Steps                                                                   *)

\* The next window of a page, and what it leaves to be done.
LEMMA WindowTaken ==
  ASSUME IInv, TakeWindow, TypeOK'
  PROVE  Progress' /\ ConceptsWhole' /\ InOrder' /\ Full'
<1> DEFINE blank == Blank(page, start, End)
<1>0. /\ node = "chunk_text" /\ page <= Len(Pages) /\ ~BlankPage(page) /\ TypeOK
      /\ node' = "chunk_text" /\ UNCHANGED <<doc, rows>> /\ rows = <<>>
      /\ Pages' = Pages
      /\ \A p : Total(p)' = Total(p)
  BY DEF TakeWindow, IInv, Stages, Nodes, Pages, Total
<1>1. /\ page \in 1..Len(Pages) /\ start \in Nat /\ End \in Nat /\ Stride \in Nat \ {0}
      /\ start < Total(page) /\ start < End /\ End <= Total(page)
      /\ End < Total(page) => End = start + Size
      /\ Total(page) \in Nat /\ Len(Pages) \in Nat
  BY <1>0, WindowNotEmpty, DocType
<1>2. chunks' = chunks \/ chunks' = Append(chunks, Chunk)
  BY DEF TakeWindow
<1>3. \A p, a, b : Held(p, a, b) => Held(p, a, b)'
  BY <1>0, <1>2, HeldStays DEF Held
<1>4. \A p, a, b : Concept(p, a, b)' <=> Concept(p, a, b)
  BY <1>0 DEF Concept, Blank, Total, Pages
<1>5. ASSUME NEW p, p = page, NEW a \in 0..Total(p), NEW b \in 0..Total(p),
             Concept(p, a, b), a < start + Stride \/ LastWindow
      PROVE  Held(p, a, b)'
  <2>1. CASE a < start
    <3>1. HeldUpTo(page, start)
      BY <1>0 DEF IInv, Progress
    <3>2. Held(p, a, b)
      BY <2>1, <3>1, <1>5 DEF HeldUpTo
    <3> QED
      BY <3>2, <1>3
  <2>2. CASE start <= a
    <3>1. b <= End /\ ~blank
      BY <2>2, <1>0, <1>5, WindowHolds
    <3>2. chunks' = Append(chunks, Chunk)
      BY <3>1 DEF TakeWindow
    <3>3. Len(chunks') \in 1..Len(chunks') /\ chunks'[Len(chunks')] = Chunk
      BY <3>2, <1>0 DEF TypeOK
    <3> QED
      BY <3>1, <3>3, <2>2, <1>5 DEF Held, Chunk
  <2> QED
    BY <2>1, <2>2, <1>1
<1>6. \A p \in 1..(page - 1) : HeldUpTo(p, Total(p))'
  <2>1. \A p \in 1..(page - 1) : HeldUpTo(p, Total(p))
    BY <1>0 DEF IInv, Progress
  <2> QED
    BY <2>1, <1>0, <1>3, <1>4 DEF HeldUpTo
<1>7. Progress'
  <2>1. CASE LastWindow
    <3>1. \A p : p = page => HeldUpTo(p, Total(p))'
      BY <2>1, <1>0, <1>4, <1>5 DEF HeldUpTo
    <3>2. page' = page + 1 /\ start' = 0
      BY <2>1 DEF TakeWindow, NextPage
    <3>3. \A p \in 1..(page' - 1) : HeldUpTo(p, Total(p))'
      BY <3>1, <3>2, <1>1, <1>6
    <3>4. \A p : HeldUpTo(p, 0)'
      BY DEF HeldUpTo, Concept
    <3> QED
      BY <3>2, <3>3, <3>4 DEF Progress
  <2>2. CASE ~LastWindow
    <3>1. page' = page /\ start' = start + Stride
      BY <2>2 DEF TakeWindow
    <3>2. \A p, s : p = page /\ s = start + Stride => HeldUpTo(p, s)'
      BY <1>0, <1>4, <1>5 DEF HeldUpTo
    <3> QED
      BY <3>1, <3>2, <1>6 DEF Progress
  <2> QED
    BY <2>1, <2>2
<1>8. ConceptsWhole'
  BY <1>0 DEF ConceptsWhole, ChunksMade
<1>9. ASSUME chunks' = Append(chunks, Chunk), NEW i \in 1..Len(chunks)
      PROVE  Before(chunks[i], Chunk)
  <2>1. /\ chunks[i] \in ChunkType
        /\ chunks[i].page <= page
        /\ chunks[i].page = page => /\ chunks[i].from < start
                                    /\ chunks[i].to = chunks[i].from + Size
                                    /\ chunks[i].to < Total(page)
    BY <1>0 DEF IInv, Full, TypeOK
  <2>2. chunks[i].page \in Nat /\ chunks[i].from \in Nat /\ chunks[i].to \in Nat
    BY <2>1 DEF ChunkType
  <2>3. chunks[i].page = page => chunks[i].to < End
    BY <2>1, <2>2, <1>1, ChunkingAssumption
  <2> QED
    BY <2>1, <2>2, <2>3, <1>1 DEF Before, Chunk
<1>10. InOrder'
  <2>1. CASE chunks' = chunks
    BY <2>1 DEF IInv, InOrder, Before
  <2>2. CASE chunks' = Append(chunks, Chunk)
    <3>1. /\ Len(chunks') = Len(chunks) + 1 /\ Len(chunks) \in Nat
          /\ chunks'[Len(chunks) + 1] = Chunk
          /\ \A i \in 1..Len(chunks) : chunks'[i] = chunks[i]
      BY <2>2, <1>0 DEF TypeOK
    <3>2. \A i \in 1..Len(chunks') : chunks'[i].index = i - 1
      <4>1. Chunk.index = Len(chunks)
        BY DEF Chunk
      <4> QED
        BY <3>1, <4>1 DEF IInv, InOrder
    <3>3. \A i, j \in 1..Len(chunks') : i < j => Before(chunks'[i], chunks'[j])
      <4> TAKE i \in 1..Len(chunks'), j \in 1..Len(chunks')
      <4> HAVE i < j
      <4>1. i \in 1..Len(chunks) /\ chunks'[i] = chunks[i]
        BY <3>1
      <4>2. CASE j = Len(chunks) + 1
        BY <4>1, <4>2, <3>1, <2>2, <1>9
      <4>3. CASE j # Len(chunks) + 1
        <5>1. j \in 1..Len(chunks) /\ chunks'[j] = chunks[j]
          BY <4>3, <3>1
        <5>2. Before(chunks[i], chunks[j])
          BY <4>1, <5>1 DEF IInv, InOrder
        <5> QED
          BY <4>1, <5>1, <5>2
      <4> QED
        BY <4>2, <4>3
    <3> QED
      BY <3>2, <3>3 DEF InOrder, Before
  <2> QED
    BY <2>1, <2>2, <1>2
<1>11. Full'
  <2>1. ASSUME NEW i \in 1..Len(chunks')
        PROVE  \/ i \in 1..Len(chunks) /\ chunks'[i] = chunks[i]
               \/ chunks'[i] = Chunk
    <3>1. chunks \in Seq(ChunkType)
      BY <1>0 DEF TypeOK
    <3> QED
      BY <3>1, <1>2
  <2>2. ASSUME NEW i \in 1..Len(chunks')
        PROVE  /\ chunks'[i].page \in Nat /\ chunks'[i].from \in Nat /\ chunks'[i].page <= page
               /\ chunks'[i].page = page /\ ~LastWindow =>
                    /\ chunks'[i].from < start + Stride
                    /\ chunks'[i].to = chunks'[i].from + Size
                    /\ chunks'[i].to < Total(page)
    <3>1. CASE i \in 1..Len(chunks) /\ chunks'[i] = chunks[i]
      <4>1. chunks[i] \in ChunkType
        BY <3>1, <1>0 DEF TypeOK
      <4> QED
        BY <3>1, <4>1, <1>0, <1>1 DEF IInv, Full, ChunkType
    <3>2. CASE chunks'[i] = Chunk
      BY <3>2, <1>1 DEF Chunk, LastWindow
    <3> QED
      BY <2>1, <3>1, <3>2
  <2>3. CASE LastWindow
    <3>1. page' = page + 1
      BY <2>3 DEF TakeWindow, NextPage
    <3> QED
      BY <3>1, <2>2, <1>1 DEF Full
  <2>4. CASE ~LastWindow
    <3>1. page' = page /\ start' = start + Stride
      BY <2>4 DEF TakeWindow
    <3> QED
      BY <3>1, <2>2, <2>4, <1>0 DEF Full
  <2> QED
    BY <2>3, <2>4
<1> QED
  BY <1>7, <1>8, <1>10, <1>11

\* A batch is not empty, and its answer holds windows.
LEMMA BatchAnswered ==
  ASSUME TypeOK, EmbedBatch
  PROVE  /\ Len(chunks) \in Nat /\ batch \in Nat /\ batch < Len(chunks) /\ BatchEnd \in Nat
         /\ BatchEnd > batch /\ BatchEnd <= Len(chunks)
         /\ BatchEnd = Least(batch', Len(chunks))
         /\ \A n \in {BatchEnd - batch, BatchEnd - batch - 1} :
              n \in Nat /\ Answer(n) \in Seq(WindowType) /\ Len(Answer(n)) = n
<1>1. /\ Len(chunks) \in Nat /\ batch \in Nat /\ batch < Len(chunks) /\ BatchEnd \in Nat
      /\ BatchEnd > batch /\ BatchEnd <= Len(chunks)
      /\ BatchEnd = Least(batch', Len(chunks))
  BY BatchAssumption DEF TypeOK, EmbedBatch, BatchEnd, Least
<1>2. ASSUME NEW n \in {BatchEnd - batch, BatchEnd - batch - 1}
      PROVE  n \in Nat /\ Answer(n) \in Seq(WindowType) /\ Len(Answer(n)) = n
  <2>1. n \in Nat /\ n <= BatchEnd - batch
    BY <1>1
  <2>2. \A k \in 1..n : chunks[batch + k] \in ChunkType
    BY <1>1, <2>1 DEF TypeOK
  <2>3. \A k \in 1..n : Window(chunks[batch + k]) \in WindowType
    BY <2>2 DEF Window, ChunkType, WindowType
  <2> QED
    BY <2>1, <2>3 DEF Answer
<1> QED
  BY <1>1, <1>2

LEMMA EmptySequence == \A S : <<>> \in Seq(S)
  OBVIOUS

\* Every step keeps the types: those that build windows, answers and rows are given apart.
LEMMA StepTypes == IInv /\ [Next]_vars => TypeOK'
<1> SUFFICES ASSUME IInv, [Next]_vars PROVE TypeOK'
  OBVIOUS
<1>0. TypeOK /\ Stages /\ Len(Pages) \in Nat
  BY DocType DEF IInv
<1>1. CASE Load \/ Extract
  BY <1>0, <1>1 DEF TypeOK, Load, LoadSource, LoadFails, Extract, ExtractText, ExtractFails, Fail,
                    Pages, Total, Nodes, Ended
<1>2. CASE SkipBlankPage
  BY <1>0, <1>2 DEF TypeOK, SkipBlankPage, Stages, Pages, Total, Nodes, Ended
<1>3. CASE EncodeFails \/ EndChunking
  <2>1. chunks' \in Seq(ChunkType)
    BY <1>0, <1>3, EmptySequence DEF TypeOK, EncodeFails, EndChunking
  <2>2. node' \in Nodes /\ status' \in {"unset", "failed", "completed"}
    BY <1>0, <1>3 DEF TypeOK, EncodeFails, EndChunking, Fail, Nodes
  <2> QED
    BY <1>0, <1>3, <2>1, <2>2 DEF TypeOK, EncodeFails, EndChunking, Pages, Total
<1>4. CASE TakeWindow
  <2>1. /\ page \in 1..Len(Pages) /\ start \in Nat /\ End \in Nat /\ Stride \in Nat \ {0}
        /\ start < End /\ End <= Total(page) /\ Total(page) \in Nat
        /\ End < Total(page) => End = start + Size
    BY <1>0, <1>4, WindowNotEmpty, DocType DEF TakeWindow
  <2>2. Chunk \in ChunkType
    BY <1>0, <2>1 DEF Chunk, ChunkType, TypeOK
  <2>3. chunks' \in Seq(ChunkType)
    BY <1>0, <1>4, <2>2 DEF TakeWindow, TypeOK
  <2>4. ~LastWindow => start + Stride < Total(page)
    <3>1. ~LastWindow => End < Total(page)
      BY <2>1 DEF LastWindow
    <3>2. Stride <= Size /\ Stride \in Nat /\ Size \in Nat
      BY ChunkingAssumption DEF Stride
    <3> QED
      BY <2>1, <3>1, <3>2
  <2>5. /\ page' \in 1..(Len(Pages) + 1) /\ start' \in Nat
        /\ start' # 0 => page' <= Len(Pages) /\ start' < Total(page')
    BY <1>0, <1>4, <2>1, <2>4 DEF TakeWindow, NextPage
  <2> QED
    BY <1>0, <1>4, <2>3, <2>5 DEF TakeWindow, TypeOK, Pages, Total
<1>5. CASE EmbedBatch
  <2>1. PICK n \in {BatchEnd - batch, BatchEnd - batch - 1} : embeddings' = embeddings \o Answer(n)
    BY <1>5 DEF EmbedBatch
  <2>2. Answer(n) \in Seq(WindowType)
    BY <1>0, <1>5, BatchAnswered
  <2>3. embeddings' \in Seq(WindowType) /\ batch' \in Nat
    BY <1>0, <1>5, <2>1, <2>2, BatchAssumption DEF EmbedBatch, TypeOK
  <2> QED
    BY <1>0, <1>5, <2>3 DEF TypeOK, EmbedBatch, Pages, Total
<1>6. CASE EndEmbedding \/ EmbedFails \/ EmbedCrashes
  <2>1. embeddings' \in Seq(WindowType) /\ rows' \in Seq(RowType)
    BY <1>0, <1>6, EmptySequence DEF TypeOK, EndEmbedding, EmbedFails, EmbedCrashes, Crash
  <2>2. node' \in Nodes \cup Ended /\ status' \in {"unset", "failed", "completed"}
    BY <1>0, <1>6 DEF TypeOK, EndEmbedding, EmbedFails, EmbedCrashes, Fail, Crash, Nodes, Ended
  <2>3. UNCHANGED <<doc, raw, page, start, chunks, batch>>
    BY <1>6 DEF EndEmbedding, EmbedFails, EmbedCrashes, Crash
  <2> QED
    BY <1>0, <2>1, <2>2, <2>3 DEF TypeOK, Pages, Total
<1>7. CASE StoreVectors
  <2>1. \A k \in 1..Len(chunks) : chunks[k] \in ChunkType /\ embeddings[k] \in WindowType
    BY <1>0, <1>7 DEF TypeOK, StoreVectors
  <2>2. \A k \in 1..Len(chunks) : Row(k) \in RowType
    BY <2>1 DEF Row, RowType, ChunkType
  <2>3. rows' \in Seq(RowType)
    BY <1>0, <1>7, <2>2 DEF StoreVectors, TypeOK
  <2> QED
    BY <1>0, <1>7, <2>3 DEF TypeOK, StoreVectors, Pages, Total, Nodes, Ended
<1>8. CASE StoreFails \/ StoreCrashes \/ Update
  <2>1. rows' \in Seq(RowType)
    BY <1>0, <1>8, EmptySequence
       DEF TypeOK, StoreFails, StoreCrashes, Update, UpdateIngestionStatus, UpdateCrashes, Crash
  <2>2. node' \in Nodes \cup Ended /\ status' \in {"unset", "failed", "completed"}
    BY <1>0, <1>8 DEF TypeOK, StoreFails, StoreCrashes, Update, UpdateIngestionStatus, UpdateCrashes,
                      Fail, Crash, Nodes, Ended
  <2>3. UNCHANGED <<doc, raw, page, start, chunks, batch, embeddings>>
    BY <1>8 DEF StoreFails, StoreCrashes, Update, UpdateIngestionStatus, UpdateCrashes, Crash
  <2> QED
    BY <1>0, <2>1, <2>2, <2>3 DEF TypeOK, Pages, Total
<1>9. CASE UNCHANGED vars
  BY <1>0, <1>9 DEF TypeOK, vars, Pages, Total
<1> QED
  BY <1>1, <1>2, <1>3, <1>4, <1>5, <1>6, <1>7, <1>8, <1>9 DEF Next, Split, EmbedChunks, Store

\* The chunks' conjuncts are disturbed by chunk_text alone.
LEMMA StepChunks == IInv /\ [Next]_vars => Progress' /\ ConceptsWhole' /\ InOrder' /\ Full'
<1> SUFFICES ASSUME IInv, [Next]_vars PROVE Progress' /\ ConceptsWhole' /\ InOrder' /\ Full'
  OBVIOUS
<1>0. TypeOK /\ TypeOK' /\ Stages /\ Len(Pages) \in Nat
  BY StepTypes, DocType DEF IInv
<1>1. CASE LoadSource \/ LoadFails \/ ExtractFails
  BY <1>0, <1>1, ChunksUnchanged
     DEF LoadSource, LoadFails, ExtractFails, Fail, ChunksMade
<1>2. CASE ExtractText
  <2>1. /\ node' = "chunk_text" /\ page' = 1 /\ start' = 0 /\ chunks' = <<>> /\ rows' = <<>>
    BY <1>0, <1>2 DEF ExtractText, Stages, Nodes
  <2>2. HeldUpTo(page, start)'
    BY <2>1 DEF HeldUpTo, Concept
  <2>3. Progress'
    BY <2>1, <2>2 DEF Progress
  <2> QED
    BY <2>1, <2>3 DEF ConceptsWhole, ChunksMade, InOrder, Full
<1>3. CASE SkipBlankPage
  <2>1. /\ node = "chunk_text" /\ node' = "chunk_text" /\ page' = page + 1 /\ page \in 1..Len(Pages)
        /\ BlankPage(page) /\ start = 0 /\ start' = 0 /\ rows' = <<>> /\ rows = <<>>
        /\ UNCHANGED <<doc, chunks>>
    BY <1>0, <1>3 DEF SkipBlankPage, Stages, TypeOK, Nodes
  <2>2. \A p : p = page => HeldUpTo(p, Total(p))
    BY <2>1, <1>0, DocType DEF HeldUpTo, Concept, BlankPage, Blank
  <2>3. \A p \in 1..(page' - 1) : HeldUpTo(p, Total(p))
    BY <2>1, <2>2, <1>0 DEF IInv, Progress, TypeOK
  <2>4. \A p : HeldUpTo(p, 0)'
    BY DEF HeldUpTo, Concept
  <2>5. Progress'
    BY <2>1, <2>3, <2>4, HeldUnchanged DEF Progress
  <2>6. \A i \in 1..Len(chunks) : chunks[i].page \in Nat /\ chunks[i].page <= page
    <3>1. \A i \in 1..Len(chunks) : chunks[i] \in ChunkType
      BY <1>0 DEF TypeOK
    <3> QED
      BY <2>1, <3>1 DEF IInv, Full, ChunkType
  <2>7. Full'
    BY <2>1, <2>6 DEF Full
  <2>8. InOrder'
    BY <2>1 DEF IInv, InOrder, Before
  <2> QED
    BY <2>1, <2>5, <2>7, <2>8 DEF ConceptsWhole, ChunksMade
<1>4. CASE EncodeFails
  <2>1. node' = "update_ingestion_status" /\ chunks' = <<>> /\ rows' = <<>>
    BY <1>0, <1>4 DEF EncodeFails, Fail, Stages, Nodes
  <2> QED
    BY <2>1 DEF Progress, ConceptsWhole, ChunksMade, InOrder, Full
<1>5. CASE TakeWindow
  BY <1>0, <1>5, WindowTaken
<1>6. CASE EndChunking
  <2>1. /\ node = "chunk_text" /\ node' # "chunk_text" /\ page = Len(Pages) + 1
        /\ UNCHANGED <<doc, chunks>>
    BY <1>6 DEF EndChunking, Fail
  <2>2. AllWhole
    BY <2>1, <1>0 DEF IInv, Progress, AllWhole
  <2>3. AllWhole'
    BY <2>1, <2>2, HeldUnchanged
  <2>4. (TypeOK => (ConceptsWhole <=> (ChunksMade => AllWhole)))'
    BY WholeMeans, PTL
  <2>5. InOrder'
    BY <2>1 DEF IInv, InOrder, Before
  <2> QED
    BY <2>1, <2>3, <2>4, <2>5, <1>0 DEF Progress, Full
<1>7. CASE EmbedChunks
  BY <1>0, <1>7, ChunksUnchanged
     DEF EmbedChunks, EmbedBatch, EndEmbedding, EmbedFails, EmbedCrashes, Fail, Crash, ChunksMade
<1>8. CASE Store
  BY <1>0, <1>8, ChunksUnchanged
     DEF Store, StoreVectors, StoreFails, StoreCrashes, Fail, Crash, ChunksMade
<1>9. CASE Update
  BY <1>0, <1>9, ChunksUnchanged DEF Update, UpdateIngestionStatus, UpdateCrashes, Crash, ChunksMade
<1>10. CASE UNCHANGED vars
  BY <1>0, <1>10, ChunksUnchanged DEF vars, ChunksMade
<1> QED
  BY <1>1, <1>2, <1>3, <1>4, <1>5, <1>6, <1>7, <1>8, <1>9, <1>10 DEF Next, Load, Extract, Split

\* Every node leaves its part of the state as the next ones expect it.
LEMMA StepStages == IInv /\ [Next]_vars => Stages'
<1> SUFFICES ASSUME IInv, [Next]_vars PROVE Stages'
  OBVIOUS
<1>0. TypeOK /\ Stages /\ \A p : BlankPage(p)' = BlankPage(p)
  <2>1. UNCHANGED doc
    BY DEF Next, Load, LoadSource, LoadFails, Extract, ExtractText, ExtractFails, Split, SkipBlankPage,
           EncodeFails, TakeWindow, EndChunking, EmbedChunks, EmbedBatch, EndEmbedding, EmbedFails,
           EmbedCrashes, Store, StoreVectors, StoreFails, StoreCrashes, Update, UpdateIngestionStatus,
           UpdateCrashes, Crash, vars
  <2> QED
    BY <2>1 DEF IInv, BlankPage, Blank, Total, Pages
<1>1. CASE Load \/ Extract
  BY <1>0, <1>1 DEF Stages, Nodes, Load, LoadSource, LoadFails, Extract, ExtractText, ExtractFails, Fail
<1>2. CASE SkipBlankPage
  BY <1>0, <1>2 DEF Stages, Nodes, SkipBlankPage
<1>3. CASE EncodeFails
  BY <1>0, <1>3 DEF Stages, Nodes, EncodeFails, Fail
<1>4. CASE TakeWindow
  <2>1. start' # 0 => ~BlankPage(page')
    BY <1>4 DEF TakeWindow, NextPage
  <2> QED
    BY <1>0, <1>4, <2>1 DEF Stages, Nodes, TakeWindow
<1>5. CASE EndChunking
  BY <1>0, <1>5 DEF Stages, Nodes, EndChunking, Fail
<1>6. CASE EmbedChunks
  BY <1>0, <1>6
     DEF Stages, Nodes, EmbedChunks, EmbedBatch, EndEmbedding, EmbedFails, EmbedCrashes, Fail, Crash
<1>7. CASE StoreVectors
  <2>1. rows' # <<>>
    <3>1. Len(chunks) \in Nat \ {0}
      BY <1>0, <1>7 DEF StoreVectors, Stages, TypeOK
    <3>2. Len(rows') = Len(chunks)
      BY <1>7, <3>1 DEF StoreVectors
    <3> QED
      BY <3>1, <3>2
  <2> QED
    BY <1>0, <1>7, <2>1 DEF Stages, Nodes, StoreVectors
<1>8. CASE StoreFails \/ StoreCrashes
  BY <1>0, <1>8 DEF Stages, Nodes, StoreFails, StoreCrashes, Fail, Crash
<1>9. CASE Update
  BY <1>0, <1>9 DEF Stages, Nodes, Update, UpdateIngestionStatus, UpdateCrashes, Crash
<1>10. CASE UNCHANGED vars
  BY <1>0, <1>10 DEF Stages, vars
<1> QED
  BY <1>1, <1>2, <1>3, <1>4, <1>5, <1>6, <1>7, <1>8, <1>9, <1>10 DEF Next, Split, Store

\* A batch is answered in full, or the embeddings stay short for good.
LEMMA BatchAligned ==
  ASSUME IInv, EmbedBatch
  PROVE  Aligned'
<1>1. /\ Len(chunks) \in Nat /\ batch \in Nat /\ batch < Len(chunks) /\ BatchEnd \in Nat
      /\ BatchEnd > batch /\ BatchEnd <= Len(chunks)
      /\ BatchEnd = Least(batch', Len(chunks)) /\ chunks' = chunks /\ node' = "embed_chunks"
  BY BatchAnswered DEF IInv, EmbedBatch
<1>2. /\ embeddings \in Seq(WindowType)
      /\ Len(embeddings) \in Nat /\ Len(embeddings) <= batch
      /\ Len(embeddings) = batch => \A i \in 1..batch : embeddings[i] = Window(chunks[i])
  BY <1>1 DEF IInv, TypeOK, EmbedBatch, Aligned, Least
<1>3. PICK n \in {BatchEnd - batch, BatchEnd - batch - 1} : embeddings' = embeddings \o Answer(n)
  BY DEF EmbedBatch
<1>4. n \in Nat /\ n <= BatchEnd - batch /\ Answer(n) \in Seq(WindowType) /\ Len(Answer(n)) = n
  BY <1>1, <1>3, BatchAnswered DEF IInv
<1>5. /\ Len(embeddings') = Len(embeddings) + n
      /\ \A i \in 1..Len(embeddings') :
           embeddings'[i] = IF i <= Len(embeddings) THEN embeddings[i] ELSE Answer(n)[i - Len(embeddings)]
  <2> DEFINE answer == Answer(n)
  <2>1. answer \in Seq(WindowType) /\ Len(answer) = n
    BY <1>4
  <2> HIDE DEF answer
  <2>2. /\ Len(embeddings \o answer) = Len(embeddings) + Len(answer)
        /\ \A i \in 1..(Len(embeddings) + Len(answer)) :
             (embeddings \o answer)[i] =
               IF i <= Len(embeddings) THEN embeddings[i] ELSE answer[i - Len(embeddings)]
    BY <1>2, <2>1, ConcatProperties
  <2>3. embeddings' = embeddings \o answer
    BY <1>3 DEF answer
  <2>4. /\ Len(embeddings') = Len(embeddings) + n
        /\ \A i \in 1..Len(embeddings') :
             embeddings'[i] = IF i <= Len(embeddings) THEN embeddings[i] ELSE answer[i - Len(embeddings)]
    BY <2>1, <2>2, <2>3
  <2> QED
    BY <2>4 DEF answer
<1>6. ASSUME Len(embeddings') = BatchEnd, NEW i \in 1..BatchEnd
      PROVE  embeddings'[i] = Window(chunks[i])
  <2>1. Len(embeddings) = batch /\ n = BatchEnd - batch
    BY <1>1, <1>2, <1>4, <1>5, <1>6
  <2>2. CASE i <= batch
    BY <2>1, <2>2, <1>1, <1>2, <1>5, <1>6
  <2>3. CASE i > batch
    <3>1. i - batch \in 1..n /\ batch + (i - batch) = i
      BY <2>1, <2>3, <1>1, <1>6
    <3>2. embeddings'[i] = Answer(n)[i - batch]
      BY <2>1, <2>3, <1>1, <1>5, <1>6
    <3> QED
      BY <3>1, <3>2 DEF Answer
  <2> QED
    BY <2>2, <2>3, <1>1
<1>7. Len(embeddings') <= BatchEnd
  BY <1>1, <1>2, <1>4, <1>5
<1> QED
  BY <1>1, <1>6, <1>7 DEF Aligned, Window

LEMMA StepAligned == IInv /\ [Next]_vars => Aligned'
<1> SUFFICES ASSUME IInv, [Next]_vars PROVE Aligned'
  OBVIOUS
<1>0. TypeOK /\ Stages /\ Aligned
  BY DEF IInv
<1>1. CASE node' \notin {"embed_chunks", "store_vectors"}
  BY <1>1 DEF Aligned
<1>2. CASE EndChunking
  <2>1. embeddings' = <<>> /\ batch' = 0 /\ node' # "store_vectors" /\ Len(chunks') \in Nat
    BY <1>0, <1>2 DEF EndChunking, Fail, Stages, TypeOK
  <2> QED
    BY <2>1 DEF Aligned, Least
<1>3. CASE EmbedBatch
  BY <1>3, BatchAligned
<1>4. CASE EndEmbedding
  <2>1. UNCHANGED <<chunks, embeddings, batch>> /\ node = "embed_chunks" /\ batch' >= Len(chunks')
    BY <1>4 DEF EndEmbedding
  <2> QED
    BY <1>0, <2>1 DEF Aligned, Least, Window
<1>5. CASE UNCHANGED vars
  BY <1>0, <1>5 DEF Aligned, Least, Window, vars
<1> QED
  BY <1>1, <1>2, <1>3, <1>4, <1>5
     DEF Next, Load, LoadSource, LoadFails, Extract, ExtractText, ExtractFails, Split, SkipBlankPage,
         EncodeFails, TakeWindow, EmbedChunks, EmbedFails, EmbedCrashes, Store, StoreVectors, StoreFails,
         StoreCrashes, Update, UpdateIngestionStatus, UpdateCrashes, Fail, Crash

LEMMA StepRows == IInv /\ [Next]_vars => RowsOfChunks'
<1> SUFFICES ASSUME IInv, [Next]_vars PROVE RowsOfChunks'
  OBVIOUS
<1>0. TypeOK /\ Stages /\ Aligned /\ RowsOfChunks
  BY DEF IInv
<1>1. CASE rows' = <<>>
  BY <1>1 DEF RowsOfChunks
<1>2. CASE UNCHANGED <<rows, chunks>>
  BY <1>0, <1>2 DEF RowsOfChunks, Window
<1>3. CASE StoreVectors
  <2>1. Len(chunks) \in Nat /\ chunks' = chunks /\ Len(rows') = Len(chunks)
    BY <1>0, <1>3 DEF StoreVectors, TypeOK
  <2>2. \A i \in 1..Len(chunks) : embeddings[i] = Window(chunks[i])
    BY <1>0, <1>3, <2>1 DEF StoreVectors, Aligned, Least, TypeOK
  <2>3. \A i \in 1..Len(chunks) :
          /\ rows'[i].page = chunks[i].page /\ rows'[i].from = chunks[i].from
          /\ rows'[i].to = chunks[i].to /\ rows'[i].index = chunks[i].index
          /\ rows'[i].embedding = Window(chunks[i])
    BY <1>3, <2>2 DEF StoreVectors, Row
  <2> QED
    BY <2>1, <2>3 DEF RowsOfChunks, Window
<1> QED
  BY <1>0, <1>1, <1>2, <1>3
     DEF Next, Load, LoadSource, LoadFails, Extract, ExtractText, ExtractFails, Split, SkipBlankPage,
         EncodeFails, TakeWindow, EndChunking, EmbedChunks, EmbedBatch, EndEmbedding, EmbedFails,
         EmbedCrashes, Store, StoreFails, StoreCrashes, Update, UpdateIngestionStatus, UpdateCrashes,
         Fail, Crash, Stages, Nodes, vars

THEOREM NextInvariant == IInv /\ [Next]_vars => IInv'
  BY StepTypes, StepChunks, StepStages, StepAligned, StepRows DEF IInv

\* IInv holds of every reachable state of the graph.
THEOREM Invariant == Spec => []IInv
<1>1. Init => IInv
  BY InitInvariant
<1>2. IInv /\ [Next]_vars => IInv'
  BY NextInvariant
<1> QED
  BY <1>1, <1>2, PTL DEF Spec

-----------------------------------------------------------------------------
(* What follows *)

\* The graph's state keeps its types, and an open page always has tokens left.
THEOREM TypeCorrect == Spec => []TypeOK
<1>1. IInv => TypeOK
  BY DEF IInv
<1> QED
  BY <1>1, Invariant, PTL

\* Whatever the sizes, no concept of up to Overlap + 1 tokens is cut by the windows.
THEOREM ConceptsStayWhole == Spec => []ConceptsWhole
<1>1. IInv => ConceptsWhole
  BY DEF IInv
<1> QED
  BY <1>1, Invariant, PTL

\* No chunk lies inside another one of its page.
THEOREM NothingRedundant == Spec => []NoRedundantChunk
<1>1. IInv => NoRedundantChunk
  <2> SUFFICES ASSUME IInv, NEW i \in 1..Len(chunks), NEW j \in 1..Len(chunks), i # j,
                      chunks[i].page = chunks[j].page
               PROVE  ~(chunks[j].from <= chunks[i].from /\ chunks[i].to <= chunks[j].to)
    BY DEF NoRedundantChunk
  <2>1. chunks[i] \in ChunkType /\ chunks[j] \in ChunkType /\ i \in Nat /\ j \in Nat
    BY DEF IInv, TypeOK
  <2>2. Before(chunks[i], chunks[j]) \/ Before(chunks[j], chunks[i])
    BY <2>1 DEF IInv, InOrder
  <2> QED
    BY <2>1, <2>2 DEF Before, ChunkType
<1> QED
  BY <1>1, Invariant, PTL

\* A completed document has all its chunks, in order, each with its own embedding, and a
\* failed or crashed run leaves none.
THEOREM StoresWhole == Spec => []StoredWhole
<1>1. IInv => StoredWhole
  <2> SUFFICES ASSUME IInv PROVE StoredWhole
    OBVIOUS
  <2>1. status = "completed" => rows # <<>>
    BY DEF IInv, Stages, TypeOK, Nodes, Ended
  <2>2. status = "failed" \/ node = "crashed" => rows = <<>>
    BY DEF IInv, Stages
  <2>3. ASSUME rows # <<>>
        PROVE  /\ Len(rows) = Len(chunks)
               /\ \A i \in 1..Len(rows) :
                    /\ Window(rows[i]) = Window(chunks[i])
                    /\ rows[i].embedding = Window(chunks[i])
                    /\ rows[i].index = i - 1
    BY <2>3 DEF IInv, RowsOfChunks, InOrder
  <2>4. ASSUME rows # <<>>, NEW i \in 1..Len(rows), NEW j \in 1..Len(rows), i < j
        PROVE  \/ rows[i].page < rows[j].page
               \/ rows[i].page = rows[j].page /\ rows[i].from < rows[j].from
    <3>1. Before(chunks[i], chunks[j])
      BY <2>3, <2>4 DEF IInv, InOrder
    <3>2. /\ rows[i].page = chunks[i].page /\ rows[i].from = chunks[i].from
          /\ rows[j].page = chunks[j].page /\ rows[j].from = chunks[j].from
      BY <2>3, <2>4 DEF Window
    <3> QED
      BY <3>1, <3>2 DEF Before
  <2> QED
    BY <2>1, <2>2, <2>3, <2>4 DEF StoredWhole
<1> QED
  BY <1>1, Invariant, PTL

-----------------------------------------------------------------------------
(* Every run ends *)

Stage == [load_source |-> 0, extract_text |-> 1, chunk_text |-> 2, embed_chunks |-> 3,
          store_vectors |-> 4, update_ingestion_status |-> 5, done |-> 6, crashed |-> 6]

\* A step goes on to a later node, or to a later page, window or batch of the same one,
\* none of which lies beyond the last.
Advances ==
  \/ Stage[node] < Stage[node']
  \/ /\ node' = node
     /\ \/ page < page' /\ page' <= Len(Pages) + 1
        \/ page' = page /\ start < start' /\ start' < Total(page)
        \/ UNCHANGED <<page, start, chunks>> /\ batch < batch' /\ batch < Len(chunks)

LEMMA StepAdvances ==
  ASSUME IInv, Next
  PROVE  Advances
<1>0. TypeOK /\ TypeOK' /\ Stages
  BY StepTypes DEF IInv
<1> USE DEF Stage
<1>1. CASE Load \/ Extract
  BY <1>1 DEF Load, LoadSource, LoadFails, Extract, ExtractText, ExtractFails, Fail, Advances
<1>2. CASE SkipBlankPage
  BY <1>0, <1>2, DocType DEF SkipBlankPage, TypeOK, Advances
<1>3. CASE EncodeFails \/ EndChunking
  BY <1>3 DEF EncodeFails, EndChunking, Fail, Advances
<1>4. CASE TakeWindow
  <2>1. /\ node' = node /\ page \in Nat /\ page <= Len(Pages) /\ Len(Pages) \in Nat
        /\ start \in Nat /\ UNCHANGED doc
    BY <1>0, <1>4, DocType DEF TakeWindow, TypeOK
  <2>2. CASE LastWindow
    BY <1>4, <2>1, <2>2 DEF TakeWindow, NextPage, Advances
  <2>3. CASE ~LastWindow
    <3>1. page' = page /\ start' = start + Stride /\ Stride \in Nat \ {0}
      BY <1>4, <2>3, ChunkingAssumption DEF TakeWindow, Stride
    <3>2. start < start' /\ start' # 0
      BY <2>1, <3>1
    <3>3. start' < Total(page)
      BY <1>0, <2>1, <3>1, <3>2 DEF TypeOK, Total, Pages
    <3> QED
      BY <2>1, <3>1, <3>2, <3>3 DEF Advances
  <2> QED
    BY <2>2, <2>3
<1>5. CASE EmbedBatch
  <2>1. batch \in Nat /\ batch' = batch + BatchSize /\ batch < Len(chunks) /\ node' = node
        /\ UNCHANGED <<page, start, chunks>>
    BY <1>0, <1>5 DEF EmbedBatch, TypeOK
  <2>2. batch < batch'
    BY <2>1, BatchAssumption
  <2> QED
    BY <2>1, <2>2 DEF Advances
<1>6. CASE EndEmbedding \/ EmbedFails \/ EmbedCrashes
  BY <1>6 DEF EndEmbedding, EmbedFails, EmbedCrashes, Fail, Crash, Advances
<1>7. CASE Store \/ Update
  BY <1>7 DEF Store, StoreVectors, StoreFails, StoreCrashes, Update, UpdateIngestionStatus,
              UpdateCrashes, Fail, Crash, Advances
<1> QED
  BY <1>1, <1>2, <1>3, <1>4, <1>5, <1>6, <1>7 DEF Next, Split, EmbedChunks

\* Nodes, pages, windows and batches are taken in order, none twice, and there are finitely
\* many: no document keeps the loops of chunk_text and embed_chunks going for ever.
THEOREM EveryStepAdvances == Spec => [][Advances]_vars
<1>1. IInv /\ [Next]_vars => [Advances]_vars
  BY StepAdvances
<1> QED
  BY <1>1, Invariant, PTL DEF Spec
=============================================================================
