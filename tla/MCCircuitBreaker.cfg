SPECIFICATION FairSpec
CONSTANTS
  Calls = {c1, c2, c3}
  FailureThreshold = 2
  Cooldown = 2
  MaxRetries = 1
  NoCall = NoCall
INVARIANTS TypeOK HalfOpenIsOwed
PROPERTIES TripsWhenDue OpenEnds CallsEnd
