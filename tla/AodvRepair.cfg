CONSTANTS
  S = S
  A = A
  B = B
  D = D
  Node = {S, A, B, D}
  Addr0 = D
  INFINITY2 = 8
  MaxSeqno = 4
  Link <- Line4
  Flow <- OneWay
  LocalRepair = TRUE
  NETWORK_DIAMETER = 7
  RingTTL = {4}
  MaxData = 1
  MaxLostAcks = 2
  RtTimers = {S}
  IdTimers = {}
SPECIFICATION Spec
INVARIANTS EntryConsistent RepairEnds CopiesBounded
CHECK_DEADLOCK FALSE
