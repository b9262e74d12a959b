SPECIFICATION Spec
CONSTANTS
  Reproves = TRUE
  RearmMaxRetries = 1
  DeficitCap = 1
  PendingMoveCap = 1
  Objects = {1, 2, 3}
  Dirs = {1, 2, 3}
  Names = {"a", "b"}
  Scenarios <- OutrunScenarios
INVARIANT NeverSilent
