CONSTANTS
  Reviews = {r1, r2}
  Workers = {w1, w2}
SPECIFICATION FairSpec
INVARIANTS
  ResumedAtMostOnce
  LedgerIsTrue
PROPERTIES
  SettledForGood
  SettledUnlessOrphaned
