SPECIFICATION Spec
CONSTANTS
  n1 = n1
  n2 = n2
  n3 = n3
  p1 = p1
  None = None
  Node = {n1, n2, n3}
  Repairer = {p1}
  Scanner = {p1}
  Reader = {}
  RF = 2
  W = 2
  R = 1
  Deleter = {}
  Faults = {"corrupt"}
  MaxFaults = 1
SYMMETRY NodeSymmetry
PROPERTIES
  MoveKeepsRF
