SPECIFICATION Spec
CONSTANTS
  a = a
  b = b
  k = k
  l = l
  Jobs <- TwoJobs
  Services <- TwoServices
  OwnerOf <- OfEach
  MaxBirths = 1
  MaxFaults = 0
CHECK_DEADLOCK FALSE
PROPERTIES
  DeletedWithItsJob
