SPECIFICATION Spec
CONSTANTS
  a = a
  b = b
  m = m
  s = s
  NoJob = NoJob
  Jobs <- TwoJobs
  Clusters <- TwoClusters
  ClusterOf <- Apart
  Deps <- ChainDeps
  CreatedAt <- InOrder
  WaitJobs = {}
  NamespaceJobs = {}
  MaxAborts = 1
  MaxRestarts = 0
  MaxFaults = 0
INVARIANTS
  TypeOK
  DependenciesHeld
  SkipJustified
PROPERTIES
  NoSpuriousKill
