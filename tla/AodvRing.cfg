CONSTANTS
  S = S
  A = A
  B = B
  D = D
  Node = {S, A, D}
  Addr0 = S
  INFINITY2 = 5
  MaxSeqno = 6
  Link <- Ring3
  Flow <- Three
  LocalRepair = FALSE
  NETWORK_DIAMETER = 3
  RingTTL = {3}
  MaxData = 2
  MaxLostAcks = 1
  RtTimers = {A, D}
  IdTimers = {A}
SPECIFICATION Spec
CONSTRAINT FewNumbers
INVARIANTS TypeOK LoopInv OwnerFreshest LoopFree NoWaitingWhenUp NoAssertionFails
PROPERTY RoutesImprove
CHECK_DEADLOCK FALSE
