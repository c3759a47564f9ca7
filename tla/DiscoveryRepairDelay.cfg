CONSTANTS
  A = A
  Me = Me
  Other = Other
  P1 = P1
  P2 = P2
  Table <- OneDst
  Packet = {P1, P2}
  To <- ToOne
  Distance = {1, 2}
  Lifetime = {0, 4}
  Latency = {1}
  LocalRepair = TRUE
  TTL_START = 1
  TTL_THRESHOLD = 2
  TTL_INCREMENT = 1
  NETWORK_DIAMETER = 3
  INFINITY2 = 4
  RREQ_RETRIES = 1
  MAX_HISTORY = 1
  SECOND = 2
  NODE_TRAVERSAL_TIME = 1
  MAX_RREQ_TIMEOUT = 8
  ACTIVE_ROUTE_TIMEOUT = 4
  REV_ROUTE_LIFE = 2
  AODV_RTQ_TIMEOUT = 5
  FREQUENCY = 1
  Past = 2
  MaxElapsed = 6
  MaxRepairs = 1
SPECIFICATION Spec
INVARIANT RepairTimerInTime
