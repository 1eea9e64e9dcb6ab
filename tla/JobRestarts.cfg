SPECIFICATION FairSpec
CONSTANTS
  a = a
  b = b
  m = m
  s = s
  NoJob = NoJob
  Jobs <- TwoJobs
  Clusters <- OneCluster
  ClusterOf <- Together
  Deps <- WaitDeps
  CreatedAt <- InOrder
  WaitJobs = {b}
  NamespaceJobs = {}
  MaxAborts = 0
  MaxRestarts = 2
  MaxFaults = 1
INVARIANTS
  OneExecutionPerRequest
PROPERTIES
  NoSpuriousKill
  ImplementsExecution
  QueueDrains
