SPECIFICATION FairSpec
CONSTANTS
  Deliveries = {1}
  Workers = {w1, w2}
  MaxAttempts = 3
  BatchSize = 1
  StreamLimit = 1
  LeaseOutlivesCall = TRUE
  MaxCrashes = 2
  MaxFaults = 1
INVARIANTS
  TypeOK
  CallsWithinAttempts
  ClaimIsExclusive
PROPERTIES
  OutcomesAreFinal
  EventuallyMoves
