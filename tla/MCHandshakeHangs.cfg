SPECIFICATION LiveSpec
CONSTANTS
  Transports = {"direct", "relay"}
  Limit <- ShortLoops
PROPERTY HandshakeEnds
CHECK_DEADLOCK FALSE
