SPECIFICATION Spec
CONSTANTS
  p = p
  q = q
  g = g
  A = A
  B = B
  C = C
  Jobs = {p, q, g}
  Clusters = {A, B, C}
  Setups <- ThreeClusters
  MaxExecutions = 1
  MaxChain = 4
  MaxFaults = 0
INVARIANTS
  ForwardedOnce
CHECK_DEADLOCK FALSE
