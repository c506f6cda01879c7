SPECIFICATION Spec
CONSTANTS
  Payments = {p1, p2}
  Calls = {c1, c2}
  NoCall = NoCall
  Kinds = {"verify", "captured", "failed", "staff"}
  Faulty = TRUE
SYMMETRY Symmetry
INVARIANTS
  TypeOK
  OneCapture
  CaptureIsAnswered
PROPERTY
  KeepsDeal
CHECK_DEADLOCK FALSE
CONSTRAINT StaffBesideWebhooks
