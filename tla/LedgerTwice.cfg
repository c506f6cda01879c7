SPECIFICATION Spec
CONSTANTS
  A = A
  B = B
  C = C
  Nobody = Nobody
  Calls = {A, B, C}
  Keys = {"withdrawal"}
  KeyOf <- OneKey
  Connections = 6
  MaxAttempts = 1
INVARIANT PostedOnce
CHECK_DEADLOCK FALSE
