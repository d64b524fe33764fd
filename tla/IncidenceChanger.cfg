SPECIFICATION Spec
CONSTANTS
  i1 = i1
  i2 = i2
  i3 = i3
  Items = {i1, i2}
  MaxChanges = 4
  MaxForeign = 0
  DeletedCap = 1
  ShowDialogsOnError = FALSE
INVARIANTS
  QueueIsSound AnsweredOnce AnswerIsTrue
  NoSelfConflict ListedIsDeleted
PROPERTY NoLostUpdate
SYMMETRY ItemSymmetry
CHECK_DEADLOCK FALSE
