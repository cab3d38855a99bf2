\* Connections may fail and drop twice; batch and sequential look-ahead;
\* a gap limit of 2 over a cache of 2 addresses, payments to the first three.
CONSTANTS
  ConnectCanFail = TRUE
  MaxDisconnects = 2
  GapLimit = 2
  CacheAhead = 2
  BatchModes = {FALSE, TRUE}
  PayIdx = {0, 1, 2}
  MaxIdx = 8
  MaxPays = 2
  MaxCalls = 2
SPECIFICATION Spec
INVARIANT IssuedIncreasing
PROPERTY DestructorReturns
\* Once the destructor's join returned, or a failed connect left the
\* synchronizer UNINITIALIZED, nothing is left to do.
CHECK_DEADLOCK FALSE
