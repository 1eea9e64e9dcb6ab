SPECIFICATION FairSpec
CONSTANTS
  Names <- AllNames
  Doc <- AllDoc
  Depth <- Depths
  Documents <- AllDocuments
  Generated <- AllGenerated
  MaxLists = 2
  MaxFaults = 1
CHECK_DEADLOCK FALSE
INVARIANTS
  TypeOK
  DocumentOrder
  WorkflowEnds
  StartsAfterCreator
PROPERTIES
  AllJobsEnd
