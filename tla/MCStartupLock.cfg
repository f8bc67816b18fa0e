\* Kills while starting leave the lock file behind.
SPECIFICATION FairLockSpec
CONSTANTS
  Processes = {p1, p2, p3}
  NoFile = NoFile
  StartsInTime = TRUE
  MaxCrashes = 2
PROPERTIES
  EventuallyServing
INVARIANTS
  LockTypeOK
  OneUntilKilled
