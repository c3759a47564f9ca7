CONSTANTS
  S = S
  A = A
  B = B
  D = D
  Node = {S, A, D}
  Addr0 = A
  INFINITY2 = 5
  MaxSeqno = 6
  Link <- Ring3
  Flow <- Exchange
  LocalRepair = FALSE
  NETWORK_DIAMETER = 3
  RingTTL = {3}
  MaxData = 3
  MaxLostAcks = 1
  RtTimers = {}
  IdTimers = {}
SPECIFICATION Spec
PROPERTY ReplyHasRoute
CHECK_DEADLOCK FALSE
