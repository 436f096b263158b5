SPECIFICATION FairSpec
CONSTANTS
  p1 = p1
  p2 = p2
  w1 = w1
  NoWriter = NoWriter
  Publishers <- Publishers2
  Writers <- Writers1
  Cap = 1
  MaxPublish = 1
  Stoppable <- OutboundOnly
INVARIANTS NoSendOnClosedChannel ZeroOnlyAfterDrain
PROPERTIES BothAreFifo CallsReturn AcceptedIsDelivered
CHECK_DEADLOCK FALSE
