------------------------------ MODULE BuyerDeal ------------------------------
(***************************************************************************)
(* What online payment promises the buyer of one booking order.  Money     *)
(* that the shop has recorded either buys the tickets, which stay bought   *)
(* until somebody asks to give them up, or is owed back, and then it never *)
(* buys tickets any more.  It is not promised that what is given up is     *)
(* paid back.                                                              *)
(***************************************************************************)
VARIABLE deal

Init == deal = "open"

\* The payment arrives in time.
Buy == deal = "open" /\ deal' = "booked"

\* The buyer or the staff end the booking.
GiveUp == deal = "booked" /\ deal' = "givenUp"

\* The payment arrives too late.
Owe == deal = "open" /\ deal' = "owed"

\* The shop learns that the gateway has paid it back.
GiveBack == deal = "owed" /\ deal' = "returned"

Spec == Init /\ [][Buy \/ GiveUp \/ Owe \/ GiveBack]_deal
=============================================================================
