SPECIFICATION RepairSpec
CONSTANTS
  n1 = n1
  n2 = n2
  n3 = n3
  p1 = p1
  None = None
  Node = {n1, n2, n3}
  Repairer = {p1}
  Scanner = {p1}
  RF = 2
  W = 2
  Faults = {"stale"}
  MaxFaults = 1
SYMMETRY NodeSymmetry
PROPERTIES
  StaleDetected
