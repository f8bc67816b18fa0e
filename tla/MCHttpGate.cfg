SPECIFICATION Spec
CONSTANTS
  c = c
  Requests = {r1, r2, r3}
  Clients = {c}
  Shapes <- MCShapes
  Slots = 2
  MaxBody = 1
  Limit <- MCLimit
  Window = 1
  MaxTracked = 1
  Fallback = 1
  RedisInUse = TRUE
  MaxTime = 1
INVARIANTS
  TypeOK
  SlotsAccounted
  TableBounded
  RateBound
PROPERTIES
  AnsweredUnlessStalled
\* Every request has arrived and is answered, and the clock is at its bound.
CHECK_DEADLOCK FALSE
