CONSTANTS
  Identities = {r1, r2}
  Types = {config, version}
  Names = {core}
  Platforms = {ios}
  Paths = {f1}
  Sizes <- MCSizes
  None = None
  MaxSeq = 4
  EmitKinds <- MCAllKinds
SYMMETRY Interchangeable
SPECIFICATION Spec
INVARIANTS
  TallyAgrees
  RowsAgree
PROPERTIES
  EveryChangeIsNumbered
  RunIsABoard
