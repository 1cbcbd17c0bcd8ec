\* One row that can be closed and one that cannot; the work is done in the end.
CONSTANTS
  x = x
  y = y
  k1 = k1
  k2 = k2
  None = None
  Rows = {x, y}
  Stuck = {y}
  Runs = {k1, k2}
  Window = 4
  Skew = 1
  Early = 1
  Retry = 2
  StaleBackoff = 2
  StaleBackoffMax = 4
  MaxTimeout = 4
  MaxTime = 21
  BusyUntil = 5
  LastChange = 6
  MaxChanges = 2
  MaxFailures = 2
SPECIFICATION FairSpec
INVARIANT TypeOK
INVARIANT NeverOversleeps
PROPERTY NotTooEarly
PROPERTY NoTightLoop
PROPERTY DueIsServed
CHECK_DEADLOCK FALSE
