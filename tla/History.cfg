SPECIFICATION FairSpec
CONSTANTS
  MaxEntries = 4
  MaxIds = 4
  MaxPayloads = 3
  MaxChanges = 4
  MaxBatches = 1
  UserKinds = {"create", "modify", "delete"}
  EagerKinds = {"create", "modify"}
  Failing = {"create", "modify"}
INVARIANTS
  StacksTellTheContents OneLine
PROPERTIES OperationEnds
CHECK_DEADLOCK FALSE
