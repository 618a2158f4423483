CONSTANTS
  Attempts = {a1, a2, a3}
  Keys = {k1, k2}
  Inquiries = {i1, i2}
  OPENING = OPENING
  MaxVersion = 2
SPECIFICATION FairSpecCommand
CHECK_DEADLOCK FALSE
INVARIANTS
  OneEffectPerKey
  NoLostUpdate
  RepliesAgree
PROPERTIES
  ImplementsAtomic
  EveryAttemptEnds
