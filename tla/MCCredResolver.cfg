CONSTANTS
  v1 = v1
  v2 = v2
  v3 = v3
  v4 = v4
  v5 = v5
  r1 = r1
  r2 = r2
  r3 = r3
  r4 = r4
  alice = alice
  bob = bob
  key = key
  NoCred = NoCred
  NoRecord = NoRecord
  Visits <- MCVisits
  Identities <- MCIdentities
  Creds <- MCCreds
  IdentityOf <- MCIdentityOf
  BindingIDs <- MCBindingIDs
  Namesakes <- MCNamesakes
  Answered <- MCAnswered
  Stores <- MCStores
  Pin <- MCPin
  Entry <- MCEntry
  Site <- MCSite
  Tags <- MCTags
  Errors <- MCErrors
  Threshold = 2
  MaxPerHost = 2
  Workers = 2
SPECIFICATION ResolverSpec
CHECK_DEADLOCK FALSE
INVARIANTS
  LockoutBound
  BreakerHolds
  LadderIsSound
