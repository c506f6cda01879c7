-------------------------- MODULE MCTicketInventory --------------------------
(***************************************************************************)
(* Instances of TicketInventory for TLC: orders A and B compete for the    *)
(* place of one ticket type.  An item is <<order, ticket type>>, a ticket  *)
(* is <<item, number>>.                                                    *)
(***************************************************************************)
EXTENDS TicketInventory, TLC

CONSTANTS A, B, Std   \* model values

MCItemOrder == [i \in Items |-> i[1]]
MCItemType == [i \in Items |-> i[2]]
MCTicketItem == [k \in Tickets |-> k[1]]

\* Two orders, one place: every conflict is about the last ticket.
LastPlaceItems == {<<A, Std>>, <<B, Std>>}
LastPlaceTickets == LastPlaceItems \X {1}
LastPlaceTotal == [t \in TicketTypes |-> 1]

\* What PATCH asks for: anything, or nothing that makes a sale.
AnyMoves == OrderStatus \X OrderStatus
NoSaleMoves == {m \in AnyMoves : m[2] \in SoldOrder => m[1] \in SoldOrder}

\* Handlers between two of their steps.
UnderWay ==
  Cardinality(checkout) + Cardinality(failing) + Cardinality(refunding)
  + Cardinality(uncounted) + Cardinality(assigning) + Cardinality(punctual)

\* What is out of the ordinary: a type's total that is not the one it was created with, an
\* order that is a draft, deleted, refunded in part or was sold late, a ticket that is
\* at the door, was passed on, is void or a stray.
Oddities ==
  Cardinality({t \in TicketTypes : total[t] # Total[t]})
  + Cardinality(deleted) + Cardinality(overdue) + Cardinality(strays)
  + Cardinality({o \in Orders : order[o] \in {"draft", "partially_refunded"}})
  + Cardinality({k \in Tickets : ticket[k] \in {"checked_in", "transferred", "invalidated"}})

\* For the run on capacity: two handlers are under way at a time in ordinary states, one
\* beside an oddity, and there is one oddity at a time.
FewUnderWay == Oddities <= 1 /\ UnderWay + Oddities <= 2

\* For the reconciler's run: nothing happens at the door, no order is deleted, begins
\* as a draft or is refunded in part, no attendee is assigned, one checkout, confirmation,
\* failure or refund is under way at a time, and A, which is like B, is the first to be
\* created.
QuietDesk ==
  /\ \A k \in Tickets : ticket[k] \notin {"checked_in", "transferred", "invalidated"}
  /\ deleted \cup assigning = {}
  /\ \A o \in Orders : order[o] \notin {"draft", "partially_refunded"}
  /\ UnderWay - Cardinality(uncounted) <= 1
  /\ order[B] # "none" => order[A] # "none"

OrderSymmetry == Permutations({A, B})
=============================================================================
