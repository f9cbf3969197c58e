SPECIFICATION LiveSpec
CONSTANTS
  HalfRange = 4
  NPackets = 0
  Handoff = 0
  HandshakeTakes = {}
  HandshakeLengths = {2}
  Offset <- NoPacket
  Video = {}
  Recovery = {}
  GapPolicies = {FALSE}
  GapPacketLimit = 2
  MaxRetransmits = 1
  MaxSentWindow = 2
  SendLengths = {1}
  StrayDatagrams = TRUE
  MaxInFlight = 2
INVARIANT WindowCoversUnreceived
PROPERTY LostBodyReconnects
PROPERTY DeadReaderReconnects
CHECK_DEADLOCK FALSE
