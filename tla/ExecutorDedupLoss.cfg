SPECIFICATION Spec
CONSTANTS
  m1 = m1
  m2 = m2
  d1 = d1
  d2 = d2
  p1 = p1
  p2 = p2
  NoMsg = NoMsg
  Workers = {w1, w2}
  Threshold = 1
  Cooldown = 1
  Msgs = {m1, m2}
  Dests = {d1}
  Route <- TwinRoute
  Payload <- TwinPayload
  Poison = {}
  Sampled = {}
  DedupOn = TRUE
  MaxFaults = 2
  MaxLapses = 1
INVARIANT
  SkippedIsEquivalent
