SPECIFICATION FairSpec
CONSTANTS
  A = A
  B = B
  C = C
  Nobody = Nobody
  Calls = {A, B, C}
  Keys = {"withdrawal"}
  KeyOf <- OneKey
  Connections = 4
  MaxAttempts = 2
INVARIANTS
  TypeOK
  CommittedIsPosted
  NestedCommitOnce
  DirectPostedOnce
PROPERTY EveryCallEnds
CHECK_DEADLOCK FALSE
CONSTRAINT TwoAtATime
