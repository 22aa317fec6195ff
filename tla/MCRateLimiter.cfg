SPECIFICATION Spec
CONSTANTS
  Requests = {r1, r2, r3}
  Capacity = 2
  Cost = 2
  Ttl = 2
  MaxAttempts = 2
  MaxTime = 3
SYMMETRY Symmetry
INVARIANTS
  TypeOK
  AdmittedArePaid
  AdmissionBounded
PROPERTY ImplementsTokenBucket
CHECK_DEADLOCK FALSE
