CONSTANTS
  t1 = t1
  t2 = t2
  t3 = t3
  Items = {t1, t2, t3}
  Changers = {"app", "purger"}
  Locked = {}
  None = None
  Collections = {}
  MaxIncidences = 0
  Parts = {"todos"}
  InitialTrees <- MCTrees
  Modes = {"Single"}
  MaxCalls <- MCCalls
  MaxFailures = 0
SPECIFICATION Spec
INVARIANTS
  CutKeepsWhatItDeletes
CHECK_DEADLOCK FALSE
