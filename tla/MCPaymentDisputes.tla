-------------------------- MODULE MCPaymentDisputes --------------------------
(***************************************************************************)
(* Instances of PaymentDisputes for TLC.                                   *)
(***************************************************************************)
EXTENDS PaymentDisputes, TLC

\* Orders, tries, withdrawals and calls are alike.
Symmetry ==
  Permutations(Orders) \cup Permutations(Tries)
  \cup Permutations(Withdrawals) \cup Permutations(Calls)

\* Two of refunds, withdrawals, disputes and postings left behind altogether; both refunds
\* of one order, no dispute beside a refund, and no two calls at a time once a posting is
\* left behind.
Modest ==
  LET rows(table) == Cardinality({x \in DOMAIN table : table[x] # "none"})
      left == Cardinality({k \in Keys : orphans[k] > 0})
      refunded == {r \in Refunds : refund[r] # "none"}
  IN
  /\ rows(refund) + rows(withdrawal) + rows(dispute) + left <= 2
  /\ rows(refund) = 0 \/ rows(dispute) = 0
  /\ \A r, q \in refunded : r[1] = q[1]
  /\ left = 0 \/ Cardinality({c \in Calls : call[c] # Idle}) <= 1
=============================================================================
