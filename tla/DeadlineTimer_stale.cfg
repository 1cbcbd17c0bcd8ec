\* How the runs behind a backoff are counted.
CONSTANTS
  x = x
  y = y
  k1 = k1
  k2 = k2
  None = None
  Rows = {x, y}
  Stuck = {y}
  Runs = {k1, k2}
  Window = 4
  Skew = 1
  Early = 1
  Retry = 2
  StaleBackoff = 2
  StaleBackoffMax = 4
  MaxTimeout = 4
  MaxTime = 7
  BusyUntil = 7
  LastChange = 7
  MaxChanges = 2
  MaxFailures = 1
SPECIFICATION Spec
INVARIANT StaleCountsRuns
CHECK_DEADLOCK FALSE
