SPECIFICATION Spec
CONSTANTS
  n1 = n1
  n2 = n2
  n3 = n3
  p1 = p1
  d1 = d1
  None = None
  Node = {n1, n2, n3}
  Repairer = {p1}
  Scanner = {}
  Reader = {}
  RF = 2
  W = 1
  R = 1
  Deleter = {d1}
  Faults = {"lost", "late"}
  MaxFaults = 2
SYMMETRY NodeSymmetry
INVARIANTS
  TypeOK
  NeverErased
  NoRowWithoutChunk
PROPERTIES
  KeepsPromise
  RowsKeepRF
