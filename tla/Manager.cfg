SPECIFICATION FairSpec
CONSTANTS
  p1 = p1
  h1 = h1
  h2 = h2
  Pipelines = {p1}
  Handles = {h1, h2}
  PipeOf <- TwoHandles
  NoHandle = NoHandle
  Callers = {http, leader}
  Consumer = leader
  MaxCalls = 3
INVARIANTS
  OneExecutorUndisturbed
  ActiveIsLive
PROPERTIES
  ReloadReturns
  ShutdownEnds
