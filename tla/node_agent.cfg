SPECIFICATION AgentFairSpec
CONSTANTS
  first = first
  second = second
  Chunk = {first, second}
  Size <- MCSize
  CAPACITY = 1
  Request = {q1, q2}
  Process = {p1, p2}
  Coordinator = {c1}
  None = None
  Faults = {"die", "slow", "rot"}
  MaxFaults = 1
INVARIANTS
  AgentInv
  CapacityKept
  Paired
  AckedKept
PROPERTY
  NodeStarted
