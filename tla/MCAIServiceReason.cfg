CONSTANTS
  Requests = {r1, r2}
  Limit = 1
SPECIFICATION Spec
CHECK_DEADLOCK FALSE
INVARIANT
  HandoffBinds
