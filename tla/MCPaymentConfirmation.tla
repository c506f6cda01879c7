------------------------ MODULE MCPaymentConfirmation ------------------------
(***************************************************************************)
(* Instances of PaymentConfirmation for TLC.                               *)
(***************************************************************************)
EXTENDS PaymentConfirmation, TLC

\* Payments, and the requests that carry them, are alike.
Symmetry == Permutations(Payments) \cup Permutations(Calls)

\* What staff ask for runs beside webhooks; the shop page's call is confirmed like theirs.
StaffBesideWebhooks ==
  \A c, d \in Calls :
    /\ call[c] # Idle /\ call[d] # Idle
    /\ call[c].kind = "staff" /\ ~ IsWebhook(d)
    => c = d
=============================================================================
