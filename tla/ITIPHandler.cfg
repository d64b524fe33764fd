SPECIFICATION Spec
CONSTANTS
  MaxRevision = 2
  MaxFormats = 1
  MaxResults = 2
  MaxCollections = 2
  MaxCalls = 2
CHECK_DEADLOCK FALSE
INVARIANTS
  AnsweredOnce SuccessIsStored
PROPERTIES
  RevisionsGrow
  EveryMessageAnswered
