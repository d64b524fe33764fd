SPECIFICATION Spec
CONSTANTS
  i1 = i1
  i2 = i2
  Items = {i1, i2}
  MaxChanges = 3
  MaxFrames = 2
  MaxFormats = 1
  MaxResults = 2
  Scenarios <- MCScenarios
  Incidences <- MCIncidences
CHECK_DEADLOCK FALSE
INVARIANTS
  NothingDangles AnsweredAtRest AnswerIsTrue MailsAreTrue
