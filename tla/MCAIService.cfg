CONSTANTS
  Requests = {r1, r2}
  Limit = 1
SPECIFICATION FairSpec
CHECK_DEADLOCK FALSE
INVARIANTS
  SlotsAccounted
  GuidanceGrounded
PROPERTY
  SlotsComeBack
