SPECIFICATION Spec
CHECK_DEADLOCK FALSE
PROPERTIES Served
CONSTANTS
  Calls = {c1}
  Scopes = {"r"}
  Below = {"a", "b"}
  Grounds = {"top", "a"}
  MAX_BARRIER_MOVES_PER_SCOPE = 1
  cookie_retry_budget = 1
  cookie_backlog_cap = 2
  cookie_global_cap = 2
  MaxMishaps = 1
  MaxFailures = 2
