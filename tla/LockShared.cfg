\* Two requests of one process and one of another.
SPECIFICATION Spec
CONSTANTS
  A = A
  B = B
  C = C
  P = P
  Q = Q
  R = R
  Requests = {A, B, C}
  Processes = {P, Q}
  ProcessOf <- SharedProcess
  Tokens = {t1, t2, t3}
  NoToken = NoToken
  MaxAttempts = 1
PROPERTY ReleasesOwnLock
