\* No fault but a child that stops: the wait after Shutdown has no deadline.
CONSTANTS
  Versions = {1, 2}
  Roles = {"renderer", "network"}
  Pids = {7, 8}
  Nonces = {1, 2}
  PROTOCOL_VERSION = 1
  SpawnedAs = "renderer"
  SpawnedPid = 7
  MaxQueue = 0
  Faults = {"deadline"}
SPECIFICATION Spec
PROPERTY BrowserReturns
