CONSTANTS
  w1 = w1
  w2 = w2
  Writers <- MCWriters
  StoreOf <- OneProcess
  Devices = {core, edge}
  Digests = {a, b}
  Stamps = {s}
  Keeps <- MCKeeps
  None = None
  MaxPuts = 4
SPECIFICATION Spec
CHECK_DEADLOCK FALSE
INVARIANTS
  HistoryIsTrue
PROPERTIES
  PruneIsRight
  IsAVersionLog
