CONSTANTS
  A = A
  Me = Me
  Other = Other
  P1 = P1
  P2 = P2
  Table <- OneDst
  Packet = {P1, P2}
  To <- ToOne
  Distance = {1}
  Lifetime = {2}
  Latency = {1}
  LocalRepair = FALSE
  TTL_START = 1
  TTL_THRESHOLD = 2
  TTL_INCREMENT = 1
  NETWORK_DIAMETER = 3
  INFINITY2 = 4
  RREQ_RETRIES = 1
  MAX_HISTORY = 1
  SECOND = 1
  NODE_TRAVERSAL_TIME = 1
  MAX_RREQ_TIMEOUT = 7
  ACTIVE_ROUTE_TIMEOUT = 2
  REV_ROUTE_LIFE = 1
  AODV_RTQ_TIMEOUT = 3
  FREQUENCY = 1
  Past = 2
  MaxElapsed = 3
  MaxRepairs = 0
SPECIFICATION Spec
INVARIANT RetriesLimited
