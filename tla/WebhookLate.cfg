SPECIFICATION FairSpec
CONSTANTS
  Payments = {p1}
  Calls = {c1}
  NoCall = NoCall
  Kinds = {"captured"}
  Faulty = FALSE
PROPERTY
  LateCaptureIsRefunded
CHECK_DEADLOCK FALSE
