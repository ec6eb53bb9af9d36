CONSTANTS
  w1 = w1
  w2 = w2
  Workers <- MCWorkers
  Artifacts = {1, 2, 3}
  DeviceOf <- MCDeviceOf
  TypeOf <- MCTypeOf
  Content <- MCContent
  Unfit = Unfit
  Wants <- MCWants
  Limit = 2
  Starts <- MCStarts
  Healths <- MCHealths
SPECIFICATION Spec
CHECK_DEADLOCK FALSE
INVARIANTS
  LimitIsExact
  AnswerIsHonest
PROPERTIES
  EverySearchIsAnswered
