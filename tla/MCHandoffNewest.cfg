CONSTANTS
  Requests = {q1, q2}
  MaxVersion = 6
  MaxRows = 2
SPECIFICATION Spec
SYMMETRY RequestSymmetry
CHECK_DEADLOCK FALSE
PROPERTY
  RequestConnectsNewest
