\* The crash of the worker in the last attempt of a delivery.
SPECIFICATION FairSpec
CONSTANTS
  Deliveries = {1}
  Workers = {w1}
  MaxAttempts = 3
  BatchSize = 1
  StreamLimit = 1
  LeaseOutlivesCall = TRUE
  MaxCrashes = 1
  MaxFaults = 0
PROPERTIES
  EventuallySettled
