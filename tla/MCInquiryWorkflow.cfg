CONSTANTS
  Consultants = {c1, c2}
  Technicians = {t1}
  MaxVersion = 15
  MaxConsultations = 2
SPECIFICATION Spec
CHECK_DEADLOCK FALSE
INVARIANTS
  LatestMatchesStatus
  RowsPassChecks
  ResolvedOnFreshConfirmation
  VisitGrounded
PROPERTIES
  TerminalIsFinal
  ImplementsEngine
