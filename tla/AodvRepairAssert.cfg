CONSTANTS
  S = S
  A = A
  B = B
  D = D
  Node = {S, A, B, D}
  Addr0 = D
  INFINITY2 = 5
  MaxSeqno = 4
  Link <- Line4
  Flow <- BothWay
  LocalRepair = TRUE
  NETWORK_DIAMETER = 4
  RingTTL = {4}
  MaxData = 2
  MaxLostAcks = 1
  RtTimers = {}
  IdTimers = {}
SPECIFICATION Spec
INVARIANTS NoAssertionFails
CHECK_DEADLOCK FALSE
