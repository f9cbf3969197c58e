SPECIFICATION Spec
CONSTANTS
  RtspClients = {c1}
  OnvifClients = {o1, o2}
  Framed = {o1, o2}
  Realms = {x1, x2, x3}
  None = None
  QueueCapacity = 1
  Parts = 2
  MaxChunks = 1
  MaxInFlight = 1
  Refuses = TRUE
SYMMETRY Symmetry
INVARIANT TypeOK
INVARIANT ResponseWhole
INVARIANT RealmProtocol
INVARIANT NoForgottenChannel
PROPERTY ImplementsQueue
CHECK_DEADLOCK FALSE
