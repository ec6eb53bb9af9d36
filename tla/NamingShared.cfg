CONSTANTS
  addrA = addrA
  addrB = addrB
  nameA = nameA
  nameB = nameB
  leaf = leaf
  box = box
  rack = rack
  Addresses <- MCAddresses
  Qualified <- MCQualified
  Labels <- MCLabels
  LabelOf <- MCLabelOf
  Before <- MCBefore
  Creds = {pw}
  None = None
  Calls <- MCCalls
  OldFiles <- MCOldFiles
  Rids = {p1, p2, p3}
  MaxTime = 4
  Visits = {1, 2}
  Entry <- OneLabel
SYMMETRY AnyRecord
SPECIFICATION NamingSpec
CHECK_DEADLOCK FALSE
INVARIANT
  OneHistoryPerDevice
