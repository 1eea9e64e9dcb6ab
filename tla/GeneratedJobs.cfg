SPECIFICATION Spec
CONSTANTS
  Names <- AllNames
  Doc <- AllDoc
  Depth <- Depths
  Documents <- OnlyChain
  Generated <- OnlyOne
  MaxLists = 2
  MaxFaults = 0
CHECK_DEADLOCK FALSE
INVARIANTS
  GeneratedBeforeChildren
