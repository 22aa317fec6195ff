SPECIFICATION FairSpec
CONSTANTS
  Size = 3
  Overlap = 1
  BatchSize = 2
  FirstPage = 6
  SecondPage = 3
  Documents <- MCDocuments
INVARIANTS
  TypeOK
  ConceptsWhole
  NoRedundantChunk
  StoredWhole
PROPERTY PipelineEnds
CHECK_DEADLOCK FALSE
