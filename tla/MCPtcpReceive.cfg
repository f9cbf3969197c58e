SPECIFICATION LiveSpec
CONSTANTS
  HalfRange = 8
  NPackets = 5
  Handoff = 1
  HandshakeTakes = {}
  HandshakeLengths = {}
  Offset <- WrapOffset5
  Video = {2, 4}
  Recovery = {3}
  GapPolicies = {FALSE, TRUE}
  GapPacketLimit = 2
  MaxRetransmits = 2
  MaxSentWindow = 4
  SendLengths = {}
  StrayDatagrams = FALSE
  MaxInFlight = 2
INVARIANT TypeOK
INVARIANT DeliveredInOrder
INVARIANT NothingStuckInPending
INVARIANT GapBookkeeping
INVARIANT NeverBackwards
PROPERTY EngineCatchesUp
PROPERTY ImplementsStream
CHECK_DEADLOCK FALSE
