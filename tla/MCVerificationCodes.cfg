SPECIFICATION Spec
CONSTANTS
  r1 = r1
  r2 = r2
  t1 = t1
  Requests = {r1, r2}
  LoginMfa = "login_mfa"
  Purposes = {"login_mfa", "password_change"}
  Targets = {t1}
  MaxAttempts = 2
  Keys = {"k1"}
  MaxCodes = 2
  MaxTries = 3
  MaxGenerations = 2
CHECK_DEADLOCK FALSE
SYMMETRY Symmetry
INVARIANTS
  TypeOK
  OpensOnce
  TriesBounded
  NewCodeVoidsOlder
  RecoveryCodesHold
