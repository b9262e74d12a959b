SPECIFICATION Spec
CHECK_DEADLOCK FALSE
SYMMETRY Symmetric
VIEW MCView
INVARIANTS NothingForgotten MarkersSpeakTruly NothingOwedAtRest
CONSTANTS
  Calls = {c1, c2}
  Scopes = {"r"}
  Below = {"a", "b"}
  Grounds = {"a"}
  MAX_BARRIER_MOVES_PER_SCOPE = 1
  cookie_retry_budget = 1
  cookie_backlog_cap = 2
  cookie_global_cap = 2
  MaxMishaps = 1
  MaxFailures = 2
