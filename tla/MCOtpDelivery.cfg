CONSTANTS
  Subjects = {s1}
  Contacts = {k1}
  Workers = {w1, w2}
  MaxAttempts = 2
  MaxFailures = 1
  MaxPerWindow = 2
  MaxChallenges = 2
  MaxCrashes = 1
SPECIFICATION FairSpec
CHECK_DEADLOCK FALSE
INVARIANTS
  DeliveryLedger
PROPERTIES
  OnlyNewestVerifies
  MailsCurrentContact
  OutboxDrains
