\* Everything that can go wrong, and a child that may hang anywhere.
CONSTANTS
  Versions = {1, 2}
  Roles = {"renderer", "network"}
  Pids = {7, 8}
  Nonces = {1, 2}
  PROTOCOL_VERSION = 1
  SpawnedAs = "renderer"
  SpawnedPid = 7
  MaxQueue = 2
  Faults = {"os", "sandbox", "deadline", "flag", "misbehave", "child", "browser"}
SPECIFICATION Spec
INVARIANTS
  TypeOK
  ChildIsReapedOnce
  HandshakeHolds
  SuccessIsOrderly
PROPERTIES
  SpawnReturns
  ChildFollowsBrowser
  CleanRunSucceeds
