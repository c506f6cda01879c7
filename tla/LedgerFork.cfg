SPECIFICATION Spec
CONSTANTS
  A = A
  B = B
  C = C
  Nobody = Nobody
  Calls = {A, B, C}
  Keys = {A, B, C}
  KeyOf <- OwnKeys
  Connections = 6
  MaxAttempts = 1
INVARIANT ChainIsLinear
CHECK_DEADLOCK FALSE
