SPECIFICATION FairSpec
CONSTANTS
  NumTurns = 3
  MaxTurns = 2
INVARIANTS
  TypeOK
  SummaryComesWithReply
  ForgottenOnlyByOverlap
PROPERTY LockReleased
CHECK_DEADLOCK FALSE
