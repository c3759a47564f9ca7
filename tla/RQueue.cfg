CONSTANTS
  P1 = P1
  P2 = P2
  P3 = P3
  P4 = P4
  A = A
  B = B
  Null = Null
  Packet <- MCPacket
  Dst <- MCDst
  AODV_RTQ_MAX_LEN = 3
  AODV_RTQ_TIMEOUT = 1
  MaxTime = 2
SPECIFICATION Spec
INVARIANTS TypeOK VerifyQueue OldestFirst
PROPERTIES HandsOutFresh IsPacketBuffer
