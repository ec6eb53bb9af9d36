CONSTANTS
  Identities = {r1}
  Types = {config, version}
  Names = {}
  Platforms = {}
  Paths = {f1}
  Sizes <- MCSizes
  None = None
  MaxSeq = 3
  EmitKinds <- MCKinds
  Emitters = 2
SPECIFICATION BridgeSpec
CHECK_DEADLOCK FALSE
INVARIANTS
  PullsAreComplete
  NoLostWake
PROPERTIES
  FinishIsSeen
