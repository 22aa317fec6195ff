SPECIFICATION FairSpec
CONSTANTS
  Sources = {s1, s2}
  Runs = {r1, r2}
  Deletions = {x1}
  Hashes = {h1, h2}
  FirstHash = h1
  NoHash = NoHash
  NoKey = NoKey
  NoDoc = NoDoc
  Concurrency = 1
  MaxDocs = 3
  MaxChanges = 1
INVARIANTS TypeOK IngestedIsSearchable NeedlessOnlyByOverlap
PROPERTIES ImplementsKnowledgeBase BatchEnds
CHECK_DEADLOCK FALSE
