SPECIFICATION LiveSpec
CONSTANTS
  RtspClients = {}
  OnvifClients = {o1, o2}
  Framed = {o1}
  Realms = {x1, x2}
  None = None
  QueueCapacity = 1
  Parts = 2
  MaxChunks = 1
  MaxInFlight = 1
  Refuses = FALSE
PROPERTY OnvifServed
CHECK_DEADLOCK FALSE
