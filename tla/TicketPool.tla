----------------------------- MODULE TicketPool -----------------------------
(***************************************************************************)
(* What the inventory promises the buyers of one event.  Every order may   *)
(* once take the places it asks for, all of them or none, while they fit.  *)
(* What it holds it may buy.  A hold that is overdue keeps no place, but   *)
(* may still be bought while the places are there.  What an order holds or *)
(* has bought it may give up, and what it has given up it never gets back. *)
(***************************************************************************)
EXTENDS Naturals, FiniteSets

CONSTANTS
  Orders, Types, Tickets,
  OrderFor,   \* Tickets -> Orders
  TypeFor     \* Tickets -> Types

VARIABLES
  stake,   \* what each order has: nothing yet, held, overdue or sold places, none any more
  total    \* the number of places of each type

\* The tickets of type t whose places an order has taken.
Occupied(t) ==
  {k \in Tickets : TypeFor[k] = t /\ stake[OrderFor[k]] \in {"held", "sold"}}

Fits == \A t \in Types : Cardinality(Occupied(t)) <= total[t]

Init ==
  /\ stake = [o \in Orders |-> "none"]
  /\ total \in [Types -> Nat]

\* The stake of o moves from one of the first to one of the second.
Move(o, from, to) ==
  /\ UNCHANGED total
  /\ stake[o] \in from
  /\ \E s \in to : stake' = [stake EXCEPT ![o] = s]

Take(o) == Move(o, {"none"}, {"held", "sold"}) /\ Fits'
Buy(o) == Move(o, {"held"}, {"sold"})
Lapse(o) == Move(o, {"held"}, {"overdue"})
BuyLate(o) == Move(o, {"overdue"}, {"sold"}) /\ Fits'
GiveUp(o) == Move(o, {"held", "overdue", "sold"}, {"gone"})

\* The organizer changes the number of places, never below those taken.
Resize ==
  /\ UNCHANGED stake
  /\ total' \in [Types -> Nat]
  /\ Fits'

Next == Resize \/ \E o \in Orders : Take(o) \/ Buy(o) \/ Lapse(o) \/ BuyLate(o) \/ GiveUp(o)

Spec == Init /\ [][Next]_<<stake, total>>
=============================================================================
