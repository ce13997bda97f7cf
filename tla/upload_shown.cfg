SPECIFICATION ObjectsSpec
CONSTANTS
  o1 = o1
  n1 = n1
  n2 = n2
  None = None
  Object = {o1}
  Length <- MCLength
  Batch = {}
  SEMAPHORE = 1
  Node = {n1, n2}
  RF = 2
  Quorums = {2}
  R = 1
  Reader = {}
  Visited = {}
  Faults = {"lost", "crash"}
  MaxFaults = 2
INVARIANTS
  HealthyWasAccepted
