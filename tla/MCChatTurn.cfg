SPECIFICATION FairSpec
CONSTANTS
  r1 = r1
  r2 = r2
  Requests <- MCRequests
  Questions <- MCQuestions
  MaxTokens = 2
  MaxKeepalives = 1
INVARIANTS
  TypeOK
  OneTerminal
  TiersCallInOrder
  TokensInOrder
  CountMatches
  CleanDrain
PROPERTIES
  StreamsEnd
  ImplementsConversation
CHECK_DEADLOCK FALSE
