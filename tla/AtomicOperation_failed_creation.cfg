SPECIFICATION FairSpec
CONSTANTS
  i1 = i1
  i2 = i2
  Items = {i1}
  MaxChanges = 2
  MaxOperations = 1
PROPERTY EveryBatchEnds
CHECK_DEADLOCK FALSE
