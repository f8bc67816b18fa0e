\* Two deliveries compete for a stream of one entry; batches of two.
SPECIFICATION FairSpec
CONSTANTS
  Deliveries = {1, 2}
  Workers = {w1}
  MaxAttempts = 2
  BatchSize = 2
  StreamLimit = 1
  LeaseOutlivesCall = TRUE
  MaxCrashes = 1
  MaxFaults = 1
PROPERTY EventuallyMoves
