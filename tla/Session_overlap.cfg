SPECIFICATION Spec
CONSTANTS
  Process = {p, q, r}
  User = {"user", "other"}
  MaxTokens = 3
  Browsing = {p, q}
  MaxCallbacks = 2
INVARIANTS
  DeadTokenIsExplained
  LastWordHolds
PROPERTIES
  CommandEnds
CHECK_DEADLOCK FALSE
