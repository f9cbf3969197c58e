SPECIFICATION LiveSpec
CONSTANTS
  Bytes <- SomeBytes
  Garbled = {"garbled"}
  Replacement = "replacement"
  Words = {0, 1, 80}
  ReadBuffer = 4096
  Responses <- SomeResponses
  Realm = 1
  MaxQueued = 1
  MaxHeartbeats = 1
INVARIANT TypeOK
INVARIANT LengthMatchesBody
INVARIANT FramedArrivesWhole
INVARIANT NoCameraAddress
INVARIANT CounterFollowsWire
PROPERTY ResponseIsWritten
CHECK_DEADLOCK FALSE
