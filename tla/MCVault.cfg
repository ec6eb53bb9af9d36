CONSTANTS
  ssh = ssh
  snmp = snmp
  nameA = nameA
  nameB = nameB
  Windows = {w1}
  Commands = {c1}
  Ids = {ssh, snmp}
  Names = {nameA, nameB}
  Secrets = {s1}
  Masters = {m1, m2}
  Env = m1
  None = None
  Found <- MCFound
  MaxSaves = 2
SPECIFICATION Spec
CHECK_DEADLOCK FALSE
INVARIANTS
  TableIsSound
  MemoryIsFile
  EntryOpensVault
