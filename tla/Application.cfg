CONSTANTS
  t1 = t1
  t2 = t2
  t3 = t3
  Items = {t1, t2, t3}
  Changers = {"app", "purger"}
  Locked = {}
  None = None
  Collections = {c1, c2, c3}
  MaxIncidences = 2
  Parts = {"todos", "import", "search", "collections", "publish"}
  InitialTrees <- MCTrees
  Modes = {"Single", "Recursive", "Ask"}
  MaxCalls <- MCCalls
  MaxFailures = 1
SPECIFICATION Spec
INVARIANTS
  NothingIsLost ListIsTrue CallsAnswered ShownIfEnabled CollectionsAreKnown ListIsPublished
CHECK_DEADLOCK FALSE
