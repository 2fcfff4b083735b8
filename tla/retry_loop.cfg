SPECIFICATION Spec
CONSTANTS
  MaxAttempts = 4
  FixOutcomes = {"applied", "not_applied"}
INVARIANTS
  TypeOK
  RetriesAreFixed
  VerdictIsEarned
PROPERTY
  AttemptsRunOut
CHECK_DEADLOCK FALSE
