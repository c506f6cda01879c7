SPECIFICATION Spec
CONSTANTS
  Orders = {o1}
  Tries = {t1, t2}
  Withdrawals = {w1}
  Disputes = {d1}
  Calls = {c1, c2}
  NoCall = NoCall
  Net = 2
  Fee = 1
  Ask = 4
  Rollbacks = 0
  Faulty = FALSE
SYMMETRY Symmetry
INVARIANT PaidBackOnce
CHECK_DEADLOCK FALSE
