SPECIFICATION Spec
CONSTANTS
  Callers = {c1}
  Workers = {w1}
  RtspProcs = {r1, r2}
  OnvifProcs = {o1, o2}
  None = None
  MaxUnread = 1
  SpawnFails = FALSE
INVARIANT OnlineMeansReady
