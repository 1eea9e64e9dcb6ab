SPECIFICATION FairSpec
CONSTANTS
  a = a
  b = b
  k = k
  l = l
  Jobs <- OneJob
  Services <- OneService
  OwnerOf <- OfA
  MaxBirths = 1
  MaxFaults = 1
CHECK_DEADLOCK FALSE
INVARIANTS
  TypeOK
  NothingForgotten
  OneBatchPerIBJob
PROPERTIES
  DeletionCompletes
  ServicesReclaimed
  IBJobDecided
