SPECIFICATION Spec
CONSTANTS
  Callers = {c1}
  Workers = {w1, w2}
  RtspProcs = {r1, r2}
  OnvifProcs = {o1, o2}
  None = None
  MaxUnread = 1
  SpawnFails = TRUE
SYMMETRY Symmetry
INVARIANT TypeOK
INVARIANT SingleOwnerPerPort
INVARIANT NoOrphan
INVARIANT NobodyWaitsInVain
