SPECIFICATION FairSpec
CONSTANTS
  Members = {m1, m2}
  MaxOffset = 3
  Buf = 2
  Oldest = TRUE
  MaxFaults = 2
CHECK_DEADLOCK FALSE
INVARIANTS
  OnlyOvertaken
  DrainedIsDone
PROPERTIES
  Progress
