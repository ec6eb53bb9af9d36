CONSTANTS
  r1 = r1
  r2 = r2
  config = config
  tech = tech
  Identities = {r1, r2}
  Visits <- MCVisits
  IdOf <- ListedTwice
  Specs <- TechFirst
  Expensive = {tech}
  Concurrency = 2
  LaneWidth = 1
SPECIFICATION FairSpec
CHECK_DEADLOCK FALSE
INVARIANTS
  NothingLeftOpen
  TableIsTheResults
  DoneIsDone
PROPERTIES
  RunEnds
  EngineIsABoard
