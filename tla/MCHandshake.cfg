SPECIFICATION LiveSpec
CONSTANTS
  Transports = {"direct", "relay"}
  Limit <- ShortLoops
INVARIANT TypeOK
INVARIANT EngineInheritsSession
INVARIANT ControlReadsFinite
PROPERTY EndsUnlessUntimed
PROPERTY NeverInCircles
CHECK_DEADLOCK FALSE
