SPECIFICATION Spec
CONSTANTS
  Clients = {c1, c2}
  Serials = {dahua1, imou1}
  Supported = {dahua1}
  Logins = {old, new}
  Secrets = {key1, key2}
  Short = short
  MaxCameras = 2
  SpawnFails = TRUE
  None = None
SYMMETRY Symmetry
INVARIANT TypeOK
INVARIANT NeverAnothersCamera
INVARIANT WorkerFollowsRow
INVARIANT EnabledCameraRuns
