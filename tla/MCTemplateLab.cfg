CONSTANTS
  arp = arp
  mac = mac
  good = good
  loose = loose
  Names = {arp, mac}
  Bodies = {good, loose}
  Score <- MCScore
  Accepted = 2
  Named <- MCNamed
  MaxRow = 3
  Shipped <- MCShipped
  Threads = {t1, t2}
  Others = {w}
  Runs = {r1}
  MaxEdits = 2
  None = None
SYMMETRY AnyThread
SPECIFICATION Spec
CHECK_DEADLOCK FALSE
INVARIANTS
  EditsReachCaptures
  SweepIsOneReading
  NamesStayApart
