SPECIFICATION FairSpec
CONSTANTS
  p = p
  q = q
  g = g
  A = A
  B = B
  C = C
  Jobs = {p, q, g}
  Clusters = {A, B}
  Setups <- TwoClusters
  MaxExecutions = 2
  MaxChain = 3
  MaxFaults = 1
INVARIANTS
  TypeOK
  InputsComplete
  FinishedIsDeployed
  ResultsKept
PROPERTIES
  ExecutionsEnd
CHECK_DEADLOCK FALSE
