SPECIFICATION Spec
CONSTANTS
  Words <- MCWords
  First0 <- MCFile
  Edits <- MCEdits
  Maps <- MCMaps
  ClientCalls <- MCCalls
  Requests <- MCRequests
  Confirmed <- MCConfirmed
  MaxSaves = 3
  MaxTicks = 2
CHECK_DEADLOCK FALSE
INVARIANTS
  TreeIsSound
  TicksFollow
  EditsAreExact
  RunIsTheSelection
