SPECIFICATION PoolFairSpec
CONSTANTS
  Keys = {"k1"}
  Callers = {"a", "b"}
  MaxConns = 2
  ConnectFails = TRUE
  Brokers = TRUE
INVARIANT Exclusive
PROPERTIES OnlyDropsDisturb GetReturns
CHECK_DEADLOCK FALSE
