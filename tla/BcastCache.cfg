CONSTANTS
  R1 = R1
  R2 = R2
  R3 = R3
  Request = {R1, R2, R3}
  Mine = {R3}
  BCAST_ID_SAVE = 4
  MaxDelay = 3
SPECIFICATION Spec
INVARIANTS TypeOK ProcessedOnce ForgottenInTime
PROPERTIES Forgotten
