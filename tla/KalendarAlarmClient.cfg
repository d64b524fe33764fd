SPECIFICATION Spec
CONSTANTS
  Uids = {a}
  MaxTime = 3
  MaxDelay = 2
INVARIANTS
  NoReminderLost ConfigIsCurrent ScreenIsTrue
PROPERTY
  EveryReminderComesUp
