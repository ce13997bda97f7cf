SPECIFICATION ObjectsFairSpec
CONSTANTS
  o1 = o1
  o2 = o2
  n1 = n1
  n2 = n2
  r1 = r1
  None = None
  Object = {o1, o2}
  Length <- MCLength
  Batch = {o1, o2}
  SEMAPHORE = 1
  Node = {n1, n2}
  RF = 2
  Quorums = {1, 2}
  R = 1
  Reader = {r1}
  Visited = {o1}
  Faults = {"few", "lost", "late", "bad", "crash"}
  MaxFaults = 1
INVARIANTS
  ObjectsInv
  StoredHasQuorum
  FilesListed
  DownloadWhole
PROPERTIES
  BatchAnswered
  StatusCorrected
