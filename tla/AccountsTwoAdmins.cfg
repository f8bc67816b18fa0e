SPECIFICATION Spec
CONSTANTS
  Accounts = {a1, u1}
  FirstAdmin = a1
  Nobody = Nobody
  Tokens = {t1, t2}
  Requests = {r1, r2}
  MaxVersion = 3
  MaxRaised = 2
  MaxExpired = 0
SYMMETRY Interchangeable
INVARIANTS
  AnAdministratorRemains
\* Tokens, MaxVersion, MaxRaised and MaxExpired stop the exploration.
CHECK_DEADLOCK FALSE
