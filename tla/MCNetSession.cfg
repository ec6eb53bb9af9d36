CONSTANTS
  page1 = page1
  page2 = page2
  version = version
  config = config
  tech = tech
  Login = login
  None = None
  Probes <- MCProbes
  Captures <- MCCaptures
  Devices <- MCDevices
  Wedged <- MCWedged
  LimitOf <- MCLimitOf
  Named <- MCNamed
  Keep = 2
  MaxKeys = 2
SPECIFICATION Spec
CHECK_DEADLOCK FALSE
INVARIANTS
  AnswerIsWhole
  PromptWakes
  PlatformIsTheDevices
PROPERTIES
  VisitEnds
