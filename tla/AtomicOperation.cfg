SPECIFICATION FairSpec
CONSTANTS
  i1 = i1
  i2 = i2
  Items = {i1}
  MaxChanges = 3
  MaxOperations = 2
INVARIANTS
  OneOperation OperationOutlivesItsJobs AnswersTellTheFate
PROPERTY CountedBatchEnds
CHECK_DEADLOCK FALSE
