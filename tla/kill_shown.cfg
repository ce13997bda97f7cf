SPECIFICATION MonitorFairSpec
CONSTANTS
  n1 = n1
  Node = {n1}
  Slow = {}
  HEARTBEAT_INTERVAL = 2
  FAILURE_TIMEOUT = 6
  CALL_LIMIT = 5
  Admin = {"kill"}
  MaxAdmin = 1
PROPERTIES
  ShownFailed
