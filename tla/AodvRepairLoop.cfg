CONSTANTS
  S = S
  A = A
  B = B
  D = D
  Node = {S, A, B, D}
  Addr0 = D
  INFINITY2 = 5
  MaxSeqno = 4
  Link <- Line4
  Flow <- OneWay
  LocalRepair = TRUE
  NETWORK_DIAMETER = 4
  RingTTL = {4}
  MaxData = 1
  MaxLostAcks = 1
  RtTimers = {}
  IdTimers = {}
SPECIFICATION Spec
INVARIANTS LoopFree
CHECK_DEADLOCK FALSE
