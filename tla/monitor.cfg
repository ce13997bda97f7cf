SPECIFICATION MonitorFairSpec
CONSTANTS
  n1 = n1
  n2 = n2
  Node = {n1, n2}
  Slow = {n2}
  HEARTBEAT_INTERVAL = 1
  FAILURE_TIMEOUT = 1
  CALL_LIMIT = 2
  Admin = {"kill", "revive", "partition", "heal", "chaos"}
  MaxAdmin = 2
INVARIANTS
  MonitorTypeOK
  Detected
  GapBound
PROPERTIES
  Returns
