CONSTANTS
  Tickets = {t1, t2}
  Keys = {k1, k2}
  Tokens = {x1, x2, x3}
  Requests = {r1, r2}
  MaxVersion = 3
  MaxLoginFailures = 1
  NOTHING = NOTHING
SYMMETRY SessionSymmetry
SPECIFICATION Spec
CHECK_DEADLOCK FALSE
INVARIANTS
  SessionsEndWithCredentials
  AppliedOnce
