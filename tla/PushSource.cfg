SPECIFICATION PushFairSpec
CONSTANTS
  PushKinds = {"mqtt", "nats"}
  Cap = 2
  MaxMsgs = 4
  MaxMishaps = 2
CHECK_DEADLOCK FALSE
INVARIANTS
  InOrder
  LossHasCause
PROPERTIES
  Arrives
