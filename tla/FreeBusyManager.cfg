SPECIFICATION Spec
CONSTANTS
  Emails = {a, b}
  Providers = {p, q}
  u = u
  v = v
  Urls = {u, v}
  Displayed <- MCDisplayed
  MaxRequests = 3
  MaxInterfaces = 4
SYMMETRY Symmetry
INVARIANTS
  Accounted QueueMoves AllHaveAnswered
CHECK_DEADLOCK FALSE
