SPECIFICATION RepairSpec
CONSTANTS
  n1 = n1
  n2 = n2
  n3 = n3
  n4 = n4
  p1 = p1
  p2 = p2
  None = None
  Node = {n1, n2, n3, n4}
  Repairer = {p1, p2}
  Scanner = {}
  RF = 2
  W = 1
  Faults = {"down", "lost", "late", "slow"}
  MaxFaults = 3
SYMMETRY TaskSymmetry
INVARIANTS
  RepairInv
  NoOverReplication
