SPECIFICATION FairSpec
CONSTANTS
  MaxPushed = 2
  Reapers = {"r1"}
  Admins = {"h1"}
  MaxRetries = 1
  RetryMax = 2
  BatchSize = 1
  MaxRows = 1
  AgeLimit = TRUE
  Dialect = "sqlite"
  CanDelete = TRUE
  MaxFaults = 1
INVARIANTS OverrunBounded CopiesCounted NeverSendsMasked
PROPERTIES ScheduleSettles
CHECK_DEADLOCK FALSE
