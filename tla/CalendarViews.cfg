CONSTANTS
  Ids = {i1, i2, i3}
  Uids = {u1, u2, u3}
  NoUid = NoUid
  NoItem = NoItem
  NoList = NoList
  MaxBatch = 3
  FewIds = {i1, i2}
  FewUids = {u1, u2}
  MaxList = 2
SPECIFICATION Spec
INVARIANTS
  MapsAgree ParentsAgree UnderItsParent
SYMMETRY Symmetry
CHECK_DEADLOCK FALSE
