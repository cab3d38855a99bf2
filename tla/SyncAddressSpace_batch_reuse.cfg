\* A server supporting batch requests: NewAddress takes BatchLookAhead.
CONSTANTS
  ConnectCanFail = FALSE
  MaxDisconnects = 0
  GapLimit = 2
  CacheAhead = 2
  BatchModes = {TRUE}
  PayIdx = {0, 1, 2}
  MaxIdx = 8
  MaxPays = 2
  MaxCalls = 2
SPECIFICATION Spec
INVARIANT NoAddressReuse
CHECK_DEADLOCK FALSE
