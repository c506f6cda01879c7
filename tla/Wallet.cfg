SPECIFICATION Spec
CONSTANTS
  Orders = {o1, o2}
  Tries = {t1, t2}
  Withdrawals = {w1, w2}
  Disputes = {d1}
  Calls = {c1, c2}
  NoCall = NoCall
  Net = 2
  Fee = 1
  Ask = 4
  Rollbacks = 1
  Faulty = TRUE
SYMMETRY Symmetry
INVARIANTS
  TypeOK
  RefundedOnce
  LedgerAgrees
  WithdrawnMatches
  PayoutsAreBacked
CONSTRAINT Modest
CHECK_DEADLOCK FALSE
