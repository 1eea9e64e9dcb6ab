SPECIFICATION FairSpec
CONSTANTS
  a = a
  b = b
  m = m
  s = s
  NoJob = NoJob
  Jobs <- TwoJobs
  Clusters <- OneCluster
  ClusterOf <- Together
  Deps <- WaitDeps
  CreatedAt <- InOrder
  WaitJobs = {b}
  NamespaceJobs = {a}
  MaxAborts = 1
  MaxRestarts = 1
  MaxFaults = 1
CONSTRAINT OneRequest
PROPERTIES
  ObjectsReclaimed
  AbortEndsJob
