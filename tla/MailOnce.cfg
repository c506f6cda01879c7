\* Each delivery in a process of its own; lost commands, crashes, expiry and reports.
SPECIFICATION MailSpec
CONSTANTS
  A = A
  B = B
  P = P
  Q = Q
  Requests = {A, B}
  Processes = {P, Q}
  ProcessOf <- OwnProcess
  Tokens = {t1, t2, t3}
  NoToken = NoToken
  MaxAttempts = 2
  MaxRetries = 1
INVARIANTS
  TypeOK
  MailTypeOK
  SentOnce
  AnsweredIsSettled
VIEW Live
SYMMETRY TokenSymmetry
PROPERTIES
  LeaseKept
  ReleasesOwnLock
