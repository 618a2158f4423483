SPECIFICATION Spec
CONSTANTS
  q1 = q1
  q2 = q2
  Questions = {q1, q2}
  MaxRequests = 3
  Results <- MCResults
INVARIANT TimeoutEscalates
CHECK_DEADLOCK FALSE
