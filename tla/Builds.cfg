SPECIFICATION FairSpec
CONSTANTS
  g = g
  u = u
  e = e
  c = c
  d = d
  None = None
  Master = Master
  Requests = {1, 2, 3}
  Scenarios <- AllScenarios
  Projects = {g, u, e}
  TypeOf <- Types
  Commits = {c, d}
  Remote = {s}
  MaxFaults = 1
INVARIANTS
  TypeOK
  NumbersIdentify
  CommitsAreBuilt
  BuildsHaveSource
  LostToOthers
PROPERTIES
  RequestsAnswered
CHECK_DEADLOCK FALSE
