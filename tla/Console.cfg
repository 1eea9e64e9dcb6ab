SPECIFICATION Spec
CONSTANTS
  MaxUpdates = 1
  MaxLength = 3
  MaxLines <- TestLines
  MaxExecutions = 2
  MaxFaults = 1
  MaxEndings = 1
INVARIANTS
  TypeOK
  LogFaithful
CHECK_DEADLOCK FALSE
