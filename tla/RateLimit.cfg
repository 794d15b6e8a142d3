CONSTANTS
  h1 = h1
  h2 = h2
  Hosts = {h1, h2}
  NoHost = NoHost
  TrustProxy = FALSE
  Window = 2
  Max = 2
  CleanupInterval = 3
  MaxTime = 8
  MaxCount = 3
SPECIFICATION LimiterSpec
INVARIANT
  RefusedOnlyWhenExhausted
PROPERTY
  WindowSpec
CHECK_DEADLOCK FALSE
