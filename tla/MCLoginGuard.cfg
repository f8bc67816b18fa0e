SPECIFICATION GuardSpec
CONSTANTS
  r1 = r1
  r2 = r2
  a = a
  e = e
  Logins = {r1, r2}
  Addresses = {a}
  Emails = {e}
  Objects = {1, 2, 3, 4}
  NoObject = 0
  Threshold = 2
  MaxLevel = 1
  MaxTracked = 1
  RedisInUse = TRUE
  MaxTries = 3
SYMMETRY Symmetry
INVARIANTS
  GuardTypeOK
  FailuresOnRecord
