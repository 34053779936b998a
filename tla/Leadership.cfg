SPECIFICATION FairSpec
CONSTANTS
  Replicas = {r1, r2}
  Nobody = Nobody
  TTL = 2
  Period = 1
  MaxWait = 1
  Latency = 1
  Postgres = TRUE
  ChanCap = 1
  Watched = {r1}
  Handlers = {h}
  MaxFaults = 2
INVARIANTS
  AtMostOneLeader
  LeaderHoldsLease
  TakeoverBound
  ConsumerFollows
PROPERTIES
  SomebodyLeads
