SPECIFICATION FairSpec
CONSTANTS
  i1 = i1
  i2 = i2
  i3 = i3
  Items = {i1}
  MaxChanges = 3
  MaxForeign = 2
  DeletedCap = 1
  ShowDialogsOnError = TRUE
INVARIANT ChangerInv
PROPERTIES KeepsRequests EveryChangeAnswered
CHECK_DEADLOCK FALSE
