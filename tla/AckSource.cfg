SPECIFICATION FairSpec
CONSTANTS
  Kinds = {"rabbitmq", "jetstream", "amqp10", "ibm"}
  Msgs = {m1, m2, m3}
  NoMsg = NoMsg
  Blank = Blank
  Prefetch = 2
  MaxFaults = 3
CHECK_DEADLOCK FALSE
INVARIANTS
  NoneStranded
PROPERTIES
  KeepsContract
  Recovers
