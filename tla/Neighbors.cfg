CONSTANTS
  N1 = N1
  N2 = N2
  D = D
  None = None
  Neighbor = {N1, N2}
  Dst = {D}
  ALLOWED_HELLO_LOSS = 2
  HELLO_INTERVAL = 4
  MinHelloInterval = 3
  MaxHelloInterval = 5
  MaxLost = 3
  MaxSeqno = 3
SPECIFICATION Spec
INVARIANTS TypeOK SilentAreDropped
PROPERTIES GivenUpAfterLosses RoutesFollow
