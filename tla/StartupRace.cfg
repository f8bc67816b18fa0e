\* Two processes find the lock file of a killed one stale.
SPECIFICATION LockSpec
CONSTANTS
  Processes = {p1, p2}
  NoFile = NoFile
  StartsInTime = TRUE
  MaxCrashes = 1
INVARIANTS
  OneStarts
