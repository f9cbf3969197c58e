SPECIFICATION Spec
CONSTANTS
  HalfRange = 8
  NPackets = 3
  Handoff = 1
  HandshakeTakes = {"repeated"}
  HandshakeLengths = {0}
  Offset <- EqualOffset3
  Video = {3}
  Recovery = {}
  GapPolicies = {FALSE}
  GapPacketLimit = 2
  MaxRetransmits = 2
  MaxSentWindow = 4
  SendLengths = {}
  StrayDatagrams = FALSE
  MaxInFlight = 3
INVARIANT DeliveredInOrder
CHECK_DEADLOCK FALSE
