SPECIFICATION RepairFairSpec
CONSTANTS
  n1 = n1
  n2 = n2
  n3 = n3
  p1 = p1
  None = None
  Node = {n1, n2, n3}
  Repairer = {p1}
  Scanner = {p1}
  RF = 2
  W = 1
  Faults = {"down", "lost", "corrupt", "stale", "slow", "revive"}
  MaxFaults = 2
PROPERTIES
  DamageFound
  RepairRestores
  ScanRestores
