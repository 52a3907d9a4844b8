CONSTANTS
  Clients = {c1}
  Routes <- SharedRoutes
  Limit <- SharedLimit
  Parent <- SharedParent
  Window = 6
  Second = 2
  MaxNow = 14
SPECIFICATION Spec
INVARIANTS WindowLimit RetryAfterNearlySuffices
PROPERTY ImplementsSlidingWindow
