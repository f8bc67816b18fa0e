SPECIFICATION Spec
CONSTANTS
  Accounts = {a1, u1}
  FirstAdmin = a1
  Nobody = Nobody
  Tokens = {t1, t2}
  Requests = {r1, r2}
  MaxVersion = 2
  MaxRaised = 2
  MaxExpired = 1
SYMMETRY Interchangeable
INVARIANTS
  TypeOK
  EndedStaysOut
  PrivilegedByMfa
  SomebodyAdministers
PROPERTIES
  LoggedOutStaysOut
\* Tokens, MaxVersion, MaxRaised and MaxExpired stop the exploration.
CHECK_DEADLOCK FALSE
