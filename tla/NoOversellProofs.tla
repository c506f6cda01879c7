--------------------------- MODULE NoOversellProofs ---------------------------
(***************************************************************************)
(* A sold order owns its capacity, live tickets are backed by sold orders  *)
(* but for the ones a slow assignment issues, only a sale on the word of   *)
(* an old clock can oversell a ticket type, and while nothing is oversold  *)
(* the tables implement TicketPool: proved for every instance, provided    *)
(* that PATCH requests make no sales (SafeStaffMoves).                     *)
(***************************************************************************)
EXTENDS TicketInventoryProofs

\* A failure handler about to cancel an order works on one that is not sold: only
\* the payment it holds the row of could have sold it.
FailingIsUnsold ==
  \A o \in failing : order[o] \notin SoldOrder /\ payOrder[o] = "razorpay"

\* Capacity that is booked belongs to a sold order or to one that was paid for.
BookedIsPaid ==
  /\ \A i \in Items :
       reservation[i] \in {"booked", "converted"} =>
         order[ItemOrder[i]] \in SoldOrder \/ payOrder[ItemOrder[i]] # "none"
  /\ \A o \in refundable \cup refunding : payOrder[o] # "none"

\* A deleted order is over.
DeletedIsOver == \A o \in deleted : order[o] \in TerminalOrder

SaleInv ==
  /\ SoldIsBacked
  /\ LiveTicketsBacked
  /\ FailingIsUnsold
  /\ BookedIsPaid
  /\ DeletedIsOver

-----------------------------------------------------------------------------
\* What a step does to one order and its tickets.

\* A terminal order status ends the order's tickets; "draft" and "pending" leave them.
LEMMA TicketEffect ==
  ASSUME TypeOK, NEW o \in Orders, NEW s \in OrderStatus, ApplyTicketStatus(o, s),
         NEW k \in Tickets
  PROVE  /\ OrderOf(k) # o => ticket'[k] = ticket[k]
         /\ OrderOf(k) = o /\ s \in TerminalOrder => ticket'[k] \notin LiveTicket
         /\ s \notin SoldOrder \cup TerminalOrder => ticket'[k] = ticket[k]
<1>1. s \in TerminalOrder =>
        TicketStatusFor(s) \in {"cancelled", "invalidated", "refunded"}
  BY DEF TicketStatusFor, TerminalOrder, SoldOrder
<1>2. s \notin SoldOrder \cup TerminalOrder => TicketStatusFor(s) = "none"
  BY DEF TicketStatusFor, TerminalOrder, SoldOrder
<1> QED
  BY <1>1, <1>2 DEF ApplyTicketStatus, TypeOK, LiveTicket

\* Issuing tickets touches those of one order.
LEMMA IssueEffect ==
  ASSUME TypeOK, NEW o \in Orders, IssueTickets(o), NEW k \in Tickets
  PROVE  OrderOf(k) # o => ticket'[k] = ticket[k]
  BY DEF IssueTickets, TypeOK

\* The owner of a ticket is an order, that of an item too.
LEMMA Owners ==
  /\ \A i \in Items : ItemOrder[i] \in Orders
  /\ \A k \in Tickets : TicketItem[k] \in Items /\ OrderOf(k) \in Orders
  BY ConstantsAssumption DEF ConstantsAssumption, OrderOf

\* No order, no sale: the invariant holds at the start.
LEMMA SaleInit == Init => SaleInv
  BY Owners
  DEF Init, SaleInv, SoldIsBacked, LiveTicketsBacked, FailingIsUnsold, BookedIsPaid,
      DeletedIsOver, SoldOrder, LiveTicket

\* A step that changes one order, its reservations and its tickets, and that leaves
\* this order in a state the invariant allows, keeps the invariant.
LEMMA OneOrder ==
  ASSUME SaleInv, TypeOK, TypeOK', NEW o \in Orders,
         \A p \in Orders \ {o} :
           /\ order'[p] = order[p] /\ payOrder'[p] = payOrder[p]
           /\ p \in deleted' <=> p \in deleted
           /\ p \in failing' => p \in failing
           /\ p \in refundable' \cup refunding' => p \in refundable \cup refunding,
         \A i \in Items : ItemOrder[i] # o => reservation'[i] = reservation[i],
         \A k \in Tickets : OrderOf(k) # o => ticket'[k] = ticket[k],
         strays \subseteq strays',
         \A i \in Items : ItemOrder[i] = o =>
           /\ order'[o] \in SoldOrder => reservation'[i] \in {"booked", "converted"}
           /\ reservation'[i] \in {"booked", "converted"} =>
                order'[o] \in SoldOrder \/ payOrder'[o] # "none",
         o \in deleted' => order'[o] \in TerminalOrder,
         \A k \in Tickets \ strays' : OrderOf(k) = o /\ ticket'[k] \in LiveTicket =>
           o \notin deleted' /\ order'[o] \in SoldOrder,
         o \in failing' => order'[o] \notin SoldOrder /\ payOrder'[o] = "razorpay",
         o \in refundable' \cup refunding' => payOrder'[o] # "none"
  PROVE  SaleInv'
<1>1. SoldIsBacked'
  BY Owners DEF SaleInv, SoldIsBacked
<1>2. LiveTicketsBacked'
  <2>1. SUFFICES ASSUME NEW k \in Tickets \ strays', ticket'[k] \in LiveTicket
                 PROVE  OrderOf(k) \notin deleted' /\ order'[OrderOf(k)] \in SoldOrder
    BY DEF LiveTicketsBacked, OrderOf
  <2>2. CASE OrderOf(k) = o
    BY <2>1, <2>2
  <2>3. CASE OrderOf(k) # o
    BY <2>1, <2>3, Owners DEF SaleInv, LiveTicketsBacked
  <2> QED
    BY <2>2, <2>3
<1>3. FailingIsUnsold'
  BY DEF SaleInv, FailingIsUnsold, TypeOK
<1>4. BookedIsPaid'
  BY Owners DEF SaleInv, BookedIsPaid, TypeOK
<1>5. DeletedIsOver'
  BY DEF SaleInv, DeletedIsOver, TypeOK
<1> QED
  BY <1>1, <1>2, <1>3, <1>4, <1>5 DEF SaleInv

\* Under SafeStaffMoves every step keeps the invariant.
LEMMA SaleStep ==
  ASSUME SafeStaffMoves, TypeOK, HoldInv, SaleInv, [Next]_vars
  PROVE  SaleInv'
<1> USE DEF orderVars, holdVars, cacheVars, paymentJobs
<1>a. TypeOK'
  BY TypeStep
<1>b. HoldInv'
  BY HoldStep
<1>c. \A x \in Orders : x \in deleted => order[x] \notin SoldOrder
  BY DEF SaleInv, DeletedIsOver, TerminalOrder, SoldOrder
<1>h. strays \subseteq strays'
  BY DEF Next, BookingNext, CatalogueNext, UpdateTicketType, CatalogueOnly, TicketNext,
         AssignReadsOrder, AssignIssuesTickets, AssignAborts, assignVars, vars
<1>d. \A k \in Tickets \ strays' : ticket[k] \in LiveTicket =>
        OrderOf(k) \notin deleted /\ order[OrderOf(k)] \in SoldOrder
  BY <1>h DEF SaleInv, LiveTicketsBacked
<1>e. \A i \in Items :
        /\ order[ItemOrder[i]] \in SoldOrder => reservation[i] \in {"booked", "converted"}
        /\ reservation[i] \in {"booked", "converted"} =>
             order[ItemOrder[i]] \in SoldOrder \/ payOrder[ItemOrder[i]] # "none"
  BY DEF SaleInv, SoldIsBacked, BookedIsPaid
<1>f. \A x \in Orders : x \in failing => order[x] \notin SoldOrder /\ payOrder[x] = "razorpay"
  BY DEF SaleInv, FailingIsUnsold
<1>g. \A x \in Orders : x \in refundable \cup refunding => payOrder[x] # "none"
  BY DEF SaleInv, BookedIsPaid
<1>1. ASSUME NEW o \in Orders, NEW status \in {"draft", "pending", "confirmed"},
             CreateOrder(o, status)
      PROVE  SaleInv'
  <2> USE DEF CreateOrder, SetOrder
  <2>1. order[o] = "none" /\ o \notin deleted \cup failing \cup refundable \cup refunding
    BY <1>1 DEF HoldInv, Existence
  <2>2. \A i \in Items : ItemOrder[i] # o => reservation'[i] = reservation[i]
    BY <1>1 DEF TypeOK, ItemsOf
  <2>3. \A i \in Items : ItemOrder[i] = o =>
          /\ order'[o] \in SoldOrder => reservation'[i] \in {"booked", "converted"}
          /\ reservation'[i] \in {"booked", "converted"} => order'[o] \in SoldOrder
    BY <1>1 DEF TypeOK, ItemsOf, SoldOrder
  <2>4. /\ \A k \in Tickets : OrderOf(k) # o => ticket'[k] = ticket[k]
        /\ \A k \in Tickets \ strays' :
             OrderOf(k) = o /\ ticket'[k] \in LiveTicket => order'[o] \in SoldOrder
    BY <1>1, <1>d, <2>1, IssueEffect DEF TypeOK, SoldOrder
  <2> QED
    BY <1>1, <1>a, <1>h, <2>1, <2>2, <2>3, <2>4, OneOrder DEF TypeOK
<1>2. ASSUME NEW o \in Orders, NEW next \in OrderStatus, UpdateOrder(o, next)
      PROVE  SaleInv'
  <2> USE DEF UpdateOrder, SetOrder, Exists
  <2>1. /\ o \notin deleted /\ order' = [order EXCEPT ![o] = next]
        /\ UNCHANGED <<deleted, payOrder, refundable, failing, refunding>>
        /\ next \in SoldOrder => order[o] \in SoldOrder
    BY <1>2 DEF SafeStaffMoves
  <2>2. CASE order[o] \notin TerminalOrder /\ next \in TerminalOrder /\ ReleaseHolds(o)
               /\ ApplyTicketStatus(o, next)
    BY <1>2, <1>a, <1>h, <1>f, <1>g, <2>1, <2>2, ReleaseEffect, TicketEffect, OneOrder
    DEF TypeOK, SoldOrder, TerminalOrder, ReleasedStatus
  <2>3. CASE next = "confirmed" /\ ConvertHolds(o) /\ IssueTickets(o)
    BY <1>2, <1>a, <1>h, <1>f, <1>g, <2>1, <2>3, ConvertEffect, IssueEffect, OneOrder
    DEF TypeOK, SoldOrder
  <2>4. CASE UNCHANGED <<holdVars, cacheVars, ticket>> /\ next = order[o]
    BY <1>2, <1>a, <1>h, <1>d, <1>e, <1>f, <1>g, <2>1, <2>4, OneOrder DEF TypeOK
  <2>5. CASE /\ UNCHANGED <<holdVars, cacheVars>> /\ ApplyTicketStatus(o, next)
             /\ order[o] \in TerminalOrder \/ next \notin TerminalOrder
             /\ next = order[o] \/ next \in OrderSuccessors(order[o])
    <3>1. order[o] \in SoldOrder => next \in SoldOrder
      BY <2>5, <1>2 DEF OrderSuccessors, SoldOrder, TerminalOrder
    <3>2. /\ \A k \in Tickets : OrderOf(k) # o => ticket'[k] = ticket[k]
          /\ \A k \in Tickets \ strays' :
               OrderOf(k) = o /\ ticket'[k] \in LiveTicket => next \in SoldOrder
      BY <2>5, <1>d, <3>1, TicketEffect
    <3> QED
      BY <1>2, <1>a, <1>h, <1>e, <1>f, <1>g, <2>1, <2>5, <3>1, <3>2, OneOrder DEF TypeOK
  <2> QED
    BY <1>2, <2>2, <2>3, <2>4, <2>5
<1>3. ASSUME NEW o \in Orders, DeleteOrder(o)
      PROVE  SaleInv'
  <2> USE DEF DeleteOrder, SetOrder, Exists
  <2>1. "cancelled" \in OrderStatus /\ "cancelled" \in TerminalOrder /\ "cancelled" \notin SoldOrder
    BY DEF OrderStatus, TerminalOrder, SoldOrder
  <2>2. CASE order[o] \in TerminalOrder /\ UNCHANGED <<holdVars, cacheVars>>
    <3>1. order[o] \notin SoldOrder
      BY <2>2 DEF TerminalOrder, SoldOrder
    <3> QED
      BY <1>3, <1>a, <1>h, <1>e, <1>f, <1>g, <2>1, <2>2, <3>1, TicketEffect, OneOrder
      DEF TypeOK
  <2>3. CASE ReleaseHolds(o)
    BY <1>3, <1>a, <1>h, <1>f, <1>g, <2>1, <2>3, ReleaseEffect, TicketEffect, OneOrder
    DEF TypeOK, ReleasedStatus
  <2> QED
    BY <1>3, <2>2, <2>3
<1>4. ASSUME NEW o \in Orders, CreatePaymentOrder(o)
      PROVE  SaleInv'
  BY <1>4, <1>a, <1>h, <1>d, <1>e, <1>f, <1>g, OneOrder
  DEF CreatePaymentOrder, TypeOK, SaleInv, DeletedIsOver
<1>5. ASSUME NEW o \in Orders, PayWithCoins(o)
      PROVE  SaleInv'
  <2>1. o \notin deleted /\ o \notin failing /\ "paid" \in SoldOrder
    BY <1>5, <1>f DEF PayWithCoins, SoldOrder
  <2> QED
    BY <1>5, <1>a, <1>h, <2>1, BookEffect, IssueEffect, OneOrder
    DEF PayWithCoins, SetOrder, TypeOK
<1>6. ASSUME NEW o \in Orders, ConfirmPayment(o)
      PROVE  SaleInv'
  <2> USE DEF ConfirmPayment, SetOrder
  <2>1. /\ o \notin deleted /\ o \notin failing
        /\ payOrder[o] = "razorpay" /\ "paid" \in SoldOrder
    BY <1>6, <1>c DEF SoldOrder
  <2>2. order'[o] \in SoldOrder /\ \A x \in Orders \ {o} : order'[x] = order[x]
    BY <1>6, <2>1 DEF TypeOK
  <2>3. \A k \in Tickets : OrderOf(k) # o => ticket'[k] = ticket[k]
    BY <1>6, IssueEffect
  <2> QED
    BY <1>6, <1>a, <1>h, <2>1, <2>2, <2>3, BookEffect, OneOrder DEF TypeOK
<1>7. ASSUME NEW o \in Orders, ConfirmLatePayment(o)
      PROVE  SaleInv'
  <2> USE DEF ConfirmLatePayment, SetOrder
  <2>1. "expired" \in TerminalOrder /\ "expired" \notin SoldOrder
    BY DEF TerminalOrder, SoldOrder
  <2>2. order[o] \notin SoldOrder
    <3>1. PICK i \in Items : ItemOrder[i] = o
      BY <1>7 DEF HoldInv, Existence, ItemsExist
    <3>2. reservation[i] \notin {"booked", "converted"}
      BY <1>7, <3>1, ReservationMoves DEF ItemsOf, TypeOK
    <3> QED
      BY <1>e, <3>1, <3>2
  <2> QED
    BY <1>7, <1>a, <1>h, <1>d, <1>f, <1>g, <2>1, <2>2, OneOrder DEF TypeOK
<1>8. ASSUME NEW o \in Orders, NEW outcome \in {"refunded", "failed"}, LateRefund(o, outcome)
      PROVE  SaleInv'
  <2>1. order[o] \notin SoldOrder
    <3>1. PICK i \in Items : ItemOrder[i] = o
      BY <1>8 DEF LateRefund, HoldInv, Existence, ItemsExist, TypeOK
    <3>2. reservation[i] = "refund_pending"
      BY <1>8, <3>1 DEF LateRefund, HoldInv, RefundingIsPending
    <3> QED
      BY <1>e, <3>1, <3>2
  <2> QED
    BY <1>8, <1>a, <1>h, <1>d, <1>f, <1>g, <2>1, OneOrder DEF LateRefund, TypeOK,
                                                              SaleInv, DeletedIsOver
<1>9. ASSUME NEW o \in Orders, FailureReadsOrder(o)
      PROVE  SaleInv'
  BY <1>9, <1>a, <1>h, <1>d, <1>e, <1>f, <1>g, OneOrder
  DEF FailureReadsOrder, TypeOK, SaleInv, DeletedIsOver
<1>10. ASSUME NEW o \in Orders, FailureCancelsOrder(o)
       PROVE  SaleInv'
  <2>1. "cancelled" \in TerminalOrder /\ "cancelled" \notin SoldOrder
    BY DEF TerminalOrder, SoldOrder
  <2> QED
    BY <1>10, <1>a, <1>h, <1>d, <1>f, <1>g, <2>1, ReleaseEffect, OneOrder
    DEF FailureCancelsOrder, SetOrder, TypeOK, ReleasedStatus
<1>11. ASSUME NEW o \in Orders, NEW status \in {"refunded", "partially_refunded"},
              Refund(o, status)
       PROVE  SaleInv'
  <2> USE DEF Refund, SetOrder
  <2>1. status \in OrderStatus /\ status \in TerminalOrder /\ status \notin SoldOrder
    BY DEF OrderStatus, TerminalOrder, SoldOrder
  <2>2. \A i \in Items : ItemOrder[i] # o => reservation'[i] = reservation[i]
    BY <1>11, ReleaseEffect
  <2> QED
    BY <1>11, <1>a, <1>h, <1>f, <1>g, <2>1, <2>2, TicketEffect, OneOrder DEF TypeOK
<1>12. ASSUME NEW i \in Items, ExpireHold(i)
       PROVE  SaleInv'
  BY <1>12, <1>a, <1>h, <1>d, <1>e, <1>f, <1>g, Owners, OneOrder
  DEF ExpireHold, TypeOK, SaleInv, DeletedIsOver, ExpirableStatus, HoldingStatus
<1>13. ASSUME UNCHANGED <<order, deleted, payOrder, refundable, reservation>>,
              failing' \subseteq failing, refunding' \subseteq refunding,
              \A k \in Tickets \ strays' : ticket'[k] \in LiveTicket =>
                OrderOf(k) \notin deleted /\ order[OrderOf(k)] \in SoldOrder
       PROVE  SaleInv'
  BY <1>13 DEF SaleInv, SoldIsBacked, LiveTicketsBacked, FailingIsUnsold, BookedIsPaid,
               DeletedIsOver, OrderOf
<1>14. CASE OrderNext
  BY <1>1, <1>2, <1>3, <1>13, <1>14, <1>d DEF OrderNext, HoldLapses
<1>15. CASE TicketNext
  <2>1. ASSUME NEW o \in Orders,
               AssignReadsOrder(o) \/ AssignIssuesTickets(o) \/ AssignAborts(o)
        PROVE  SaleInv'
    <3>1. ASSUME NEW k \in Tickets \ strays', ticket'[k] \in LiveTicket
          PROVE  OrderOf(k) \notin deleted /\ order[OrderOf(k)] \in SoldOrder
      <4>1. CASE ticket'[k] = ticket[k]
        BY <3>1, <4>1, <1>d
      <4>2. CASE ticket'[k] # ticket[k]
        BY <2>1, <3>1, <4>2
        DEF AssignReadsOrder, AssignIssuesTickets, AssignAborts, IssueTickets, Exists,
            TypeOK
      <4> QED
        BY <4>1, <4>2
    <3> QED
      BY <2>1, <3>1, <1>13
      DEF AssignReadsOrder, AssignIssuesTickets, AssignAborts, TicketsOnly
  <2>2. ASSUME NEW k \in Tickets, CheckIn(k) \/ DeleteTicket(k)
        PROVE  SaleInv'
    BY <2>2, <1>13, <1>d DEF CheckIn, DeleteTicket, TicketsOnly, TypeOK, LiveTicket
  <2>3. ASSUME NEW k \in Tickets, NEW next \in TicketStatus, UpdateTicket(k, next)
        PROVE  SaleInv'
    <3>1. ticket[k] \in LiveTicket
      BY <2>3 DEF UpdateTicket, TicketSuccessors, LiveTicket
    <3> QED
      BY <2>3, <3>1, <1>13, <1>d DEF UpdateTicket, TicketsOnly, TypeOK
  <2> QED
    BY <1>15, <2>1, <2>2, <2>3 DEF TicketNext
<1>16. CASE SaleNext \/ PaymentNext
  BY <1>4, <1>5, <1>6, <1>7, <1>8, <1>9, <1>10, <1>11, <1>13, <1>16, <1>d
  DEF SaleNext, ConfirmReadsClock, ConfirmAborts,
      PaymentNext, OpenCheckout, AbandonCheckout, LateRefundLost, FailureAborts
<1>17. CASE JobNext
  BY <1>12, <1>13, <1>17, <1>d
  DEF JobNext, CountExpired, WorkerDies, ReconOnly, ReconReadRows, ReconReadSold,
      ReconReadReserved, ReconRepair
<1>18. CASE CatalogueNext \/ UNCHANGED vars
  BY <1>13, <1>18, <1>d DEF CatalogueNext, UpdateTicketType, CatalogueOnly, vars
<1> QED
  BY <1>14, <1>15, <1>16, <1>17, <1>18 DEF Next, BookingNext

\* The types and both parts of the invariant, together.
LEMMA SaleAlways ==
  ASSUME SafeStaffMoves
  PROVE  Spec => [](TypeOK /\ HoldInv /\ SaleInv)
<1>1. Init => TypeOK /\ HoldInv /\ SaleInv
  BY HoldInit, SaleInit, ConstantsAssumption DEF Init, TypeOK, Counters, ReconStates,
                                                 ReconIdle
<1>2. TypeOK /\ HoldInv /\ SaleInv /\ [Next]_vars => (TypeOK /\ HoldInv /\ SaleInv)'
  BY TypeStep, HoldStep, SaleStep
<1> QED
  BY <1>1, <1>2, PTL DEF Spec

\* When PATCH makes no sales, a sold order always has every reservation booked or
\* converted, in whatever order payments, failures, expiries and refunds come.
THEOREM SoldAlwaysBacked ==
  ASSUME SafeStaffMoves
  PROVE  Spec => []SoldIsBacked
<1>1. SaleInv => SoldIsBacked
  BY DEF SaleInv
<1> QED
  BY <1>1, SaleAlways, PTL

\* When PATCH makes no sales, a ticket that lets its holder in always belongs to a sold
\* order that was not deleted, unless an assignment that had read the order before it
\* ended has issued it since.
THEOREM LiveTicketsAlwaysBacked ==
  ASSUME SafeStaffMoves
  PROVE  Spec => []LiveTicketsBacked
<1>1. SaleInv => LiveTicketsBacked
  BY DEF SaleInv
<1> QED
  BY <1>1, SaleAlways, PTL

-----------------------------------------------------------------------------
\* What a step may do to an order and its items: leave them ...
Untouched(p) ==
  /\ order'[p] = order[p]
  /\ p \in deleted' <=> p \in deleted
  /\ p \in lapsed' <=> p \in lapsed
  /\ \A i \in ItemsOf(p) :
       /\ reservation'[i] = reservation[i]
       /\ i \in convertedAt' <=> i \in convertedAt
       /\ i \in releasedAt' <=> i \in releasedAt

\* ... create them ...
Born(o) ==
  /\ \E status \in {"draft", "pending", "confirmed"} : CreateOrder(o, status)
  /\ order[o] = "none" /\ order'[o] # "none"
  /\ UNCHANGED <<deleted, lapsed>>
  /\ \/ order'[o] \in SoldOrder /\ \A i \in ItemsOf(o) : ~ Holding(i)'
     \/ \A i \in ItemsOf(o) : Holding(i)'

\* ... or change those that exist, the holds that have not lapsed all at once.
Ages(o) ==
  /\ order[o] # "none" /\ order'[o] # "none"
  /\ o \in lapsed => o \in lapsed'
  /\ \A i \in ItemsOf(o) : Holding(i)' => Holding(i)
  /\ \/ o \in lapsed'
     \/ \A i \in ItemsOf(o) : reservation'[i] = reservation[i]
     \/ \A i \in ItemsOf(o) : ~ Holding(i)'

Concerns(o) ==
  /\ o \in Orders
  /\ \A p \in Orders \ {o} : Untouched(p)
  /\ Born(o) \/ Ages(o)

\* Every step concerns one order at most.
LEMMA OneOrderAtATime ==
  ASSUME TypeOK, HoldInv, [Next]_vars
  PROVE  (\A p \in Orders : Untouched(p)) \/ (\E o \in Orders : Concerns(o))
<1> USE DEF orderVars, holdVars, cacheVars, paymentJobs, ItemsOf
<1>a. \A o \in Orders : order[o] = "none" =>
        o \notin deleted \cup refundable \cup failing \cup refunding /\ payOrder[o] = "none"
  BY DEF HoldInv, Existence
<1>b. \A s : s \in {"released", "booked", "converted", "expired", "refund_pending",
                    "refunded", "failed"} \cup ReleasedStatus => s \notin HoldingStatus
  BY DEF HoldingStatus, ReleasedStatus
<1>c. "none" \notin OrderStatus \cup {"draft", "pending", "confirmed", "paid", "cancelled",
                                      "expired", "refunded", "partially_refunded"}
  BY DEF OrderStatus
\* What the transactions do to the reservations of one order: nothing, or they use
\* them up.
<1> DEFINE Others(o) ==
             \A i \in Items : ItemOrder[i] # o =>
               /\ reservation'[i] = reservation[i]
               /\ i \in convertedAt' <=> i \in convertedAt
               /\ i \in releasedAt' <=> i \in releasedAt
           Settles(o) ==
             /\ UNCHANGED lapsed
             /\ Others(o)
             /\ \/ \A i \in Items : ItemOrder[i] = o => reservation'[i] = reservation[i]
                \/ \A i \in Items : ItemOrder[i] = o => reservation'[i] \notin HoldingStatus
           Sets(o, s) ==
             /\ order[o] # "none" /\ s # "none"
             /\ order' = [order EXCEPT ![o] = s] \/ UNCHANGED order
             /\ \A p \in Orders \ {o} : p \in deleted' <=> p \in deleted
<1>d. ASSUME NEW o \in Orders, NEW s, Sets(o, s), Settles(o)
      PROVE  \E q \in Orders : Concerns(q)
  <2>1. \A p \in Orders \ {o} : Untouched(p)
    BY <1>d DEF Untouched, TypeOK
  <2>2. order'[o] # "none"
    BY <1>d DEF TypeOK
  <2>3. Ages(o)
    BY <1>d, <2>2 DEF Ages, Holding
  <2> QED
    BY <2>1, <2>3 DEF Concerns
<1>e. ASSUME NEW o \in Orders, ReleaseHolds(o)
      PROVE  Settles(o)
  <2>1. \A i \in Items : ItemOrder[i] = o => reservation'[i] \notin HoldingStatus
    BY <1>b, <1>e, ReleaseEffect
  <2> QED
    BY <1>e, <2>1, ReleaseEffect DEF ReleaseHolds
<1>f. ASSUME NEW o \in Orders, ConvertHolds(o) \/ ConvertItems(ItemsOf(o), "booked")
      PROVE  Settles(o)
  <2>1. CASE ConvertHolds(o)
    <3>1. \A i \in Items : ItemOrder[i] = o => reservation'[i] \notin HoldingStatus
      BY <1>b, <2>1, ConvertEffect
    <3> QED
      BY <2>1, <3>1, ConvertEffect DEF ConvertHolds, ConvertItems
  <2>2. CASE ConvertItems(ItemsOf(o), "booked")
    <3>1. \A i \in Items : ItemOrder[i] = o => reservation'[i] \notin HoldingStatus
      BY <1>b, <2>2, BookEffect
    <3> QED
      BY <2>2, <3>1, BookEffect DEF ConvertItems
  <2> QED
    BY <1>f, <2>1, <2>2
<1>g. ASSUME NEW o \in Orders, UNCHANGED holdVars
      PROVE  Settles(o)
  BY <1>g
<1> HIDE DEF Others, Settles
<1>1. ASSUME NEW o \in Orders, NEW status \in {"draft", "pending", "confirmed"},
             CreateOrder(o, status)
      PROVE  \E q \in Orders : Concerns(q)
  <2>a. \E s \in {"draft", "pending", "confirmed"} : CreateOrder(o, s)
    BY <1>1
  <2> USE DEF CreateOrder, SetOrder
  <2>1. \A p \in Orders \ {o} : Untouched(p)
    <3>1. CASE status = "confirmed"
      BY <1>1, <3>1 DEF Untouched, TypeOK
    <3>2. CASE status # "confirmed"
      BY <1>1, <3>2 DEF Untouched, TypeOK
    <3> QED
      BY <3>1, <3>2
  <2>2. order'[o] = status /\ order[o] = "none" /\ UNCHANGED <<deleted, lapsed>>
    BY <1>1 DEF TypeOK
  <2>3. \A i \in Items : ItemOrder[i] = o =>
          reservation'[i] = IF status = "confirmed" THEN "converted" ELSE "active"
    BY <1>1
  <2> HIDE DEF CreateOrder
  <2>4. status = "confirmed" => \A i \in ItemsOf(o) : ~ Holding(i)'
    BY <1>b, <2>3 DEF Holding
  <2>5. status # "confirmed" => \A i \in ItemsOf(o) : Holding(i)'
    BY <2>3 DEF Holding, HoldingStatus
  <2>6. Born(o)
    BY <1>c, <2>a, <2>2, <2>4, <2>5 DEF Born, SoldOrder
  <2> QED
    BY <2>1, <2>6 DEF Concerns
<1>2. ASSUME NEW o \in Orders, HoldLapses(o)
      PROVE  \E q \in Orders : Concerns(q)
  BY <1>2 DEF HoldLapses, Concerns, Untouched, Ages, Holding, TypeOK
<1>3. ASSUME NEW o \in Orders, NEW next \in OrderStatus, UpdateOrder(o, next)
      PROVE  \E q \in Orders : Concerns(q)
  <2> USE DEF UpdateOrder, SetOrder, Exists
  <2>1. order[o] # "none" /\ next # "none" /\ order' = [order EXCEPT ![o] = next]
        /\ UNCHANGED deleted
    BY <1>3, <1>c
  <2>2. CASE ReleaseHolds(o)
    BY <1>d, <1>e, <2>1, <2>2
  <2>3. CASE ConvertHolds(o)
    BY <1>d, <1>f, <2>1, <2>3
  <2>4. CASE UNCHANGED holdVars
    BY <1>d, <1>g, <2>1, <2>4
  <2> QED
    BY <1>3, <2>2, <2>3, <2>4
<1>4. ASSUME NEW o \in Orders, DeleteOrder(o)
      PROVE  \E q \in Orders : Concerns(q)
  <2> USE DEF DeleteOrder, SetOrder, Exists
  <2>1. /\ order[o] # "none" /\ order' = [order EXCEPT ![o] = "cancelled"]
        /\ \A p \in Orders \ {o} : p \in deleted' <=> p \in deleted
    BY <1>4
  <2>2. CASE ReleaseHolds(o)
    BY <1>c, <1>d, <1>e, <2>1, <2>2
  <2>3. CASE UNCHANGED holdVars
    BY <1>c, <1>d, <1>g, <2>1, <2>3
  <2> QED
    BY <1>4, <2>2, <2>3
<1>5. ASSUME NEW o \in Orders, PayWithCoins(o)
      PROVE  \E q \in Orders : Concerns(q)
  <2>1. order[o] # "none" /\ order' = [order EXCEPT ![o] = "paid"] /\ UNCHANGED deleted
    BY <1>5 DEF PayWithCoins, SetOrder, HoldInv, Existence
  <2>2. ConvertItems(ItemsOf(o), "booked")
    BY <1>5 DEF PayWithCoins
  <2> QED
    BY <1>c, <1>d, <1>f, <2>1, <2>2
<1>6. ASSUME NEW o \in Orders, ConfirmPayment(o)
      PROVE  \E q \in Orders : Concerns(q)
  <2>1. /\ order[o] # "none" /\ UNCHANGED deleted
        /\ order' = [order EXCEPT ![o] = "paid"] \/ UNCHANGED order
    BY <1>6, <1>a DEF ConfirmPayment, SetOrder
  <2>2. ConvertItems(ItemsOf(o), "booked")
    BY <1>6 DEF ConfirmPayment
  <2> QED
    BY <1>c, <1>d, <1>f, <2>1, <2>2
<1>7. ASSUME NEW o \in Orders, ConfirmLatePayment(o)
      PROVE  \E q \in Orders : Concerns(q)
  <2>1. order[o] # "none" /\ order' = [order EXCEPT ![o] = "expired"]
        /\ UNCHANGED <<deleted, lapsed>>
    BY <1>7, <1>a DEF ConfirmLatePayment, SetOrder
  <2>2. \A i \in Items :
          /\ ItemOrder[i] # o =>
               /\ reservation'[i] = reservation[i]
               /\ i \in convertedAt' <=> i \in convertedAt
               /\ i \in releasedAt' <=> i \in releasedAt
          /\ ItemOrder[i] = o => reservation'[i] = "refund_pending"
    BY <1>7 DEF ConfirmLatePayment, TypeOK
  <2> QED
    BY <1>b, <1>c, <1>d, <2>1, <2>2 DEF Others, Settles
<1>8. ASSUME NEW o \in Orders, NEW outcome \in {"refunded", "failed"}, LateRefund(o, outcome)
      PROVE  \E q \in Orders : Concerns(q)
  <2>1. order[o] # "none" /\ UNCHANGED <<order, deleted, lapsed>>
    BY <1>8, <1>a DEF LateRefund
  <2>2. \A i \in Items :
          /\ ItemOrder[i] # o =>
               /\ reservation'[i] = reservation[i]
               /\ i \in convertedAt' <=> i \in convertedAt
               /\ i \in releasedAt' <=> i \in releasedAt
          /\ ItemOrder[i] = o => reservation'[i] = outcome
    BY <1>8 DEF LateRefund, TypeOK
  <2> QED
    BY <1>b, <1>d, <2>1, <2>2 DEF Others, Settles
<1>9. ASSUME NEW o \in Orders, FailureCancelsOrder(o)
      PROVE  \E q \in Orders : Concerns(q)
  <2>1. /\ order[o] # "none" /\ order' = [order EXCEPT ![o] = "cancelled"]
        /\ UNCHANGED deleted /\ ReleaseHolds(o)
    BY <1>9, <1>a DEF FailureCancelsOrder, SetOrder
  <2> QED
    BY <1>c, <1>d, <1>e, <2>1
<1>10. ASSUME NEW o \in Orders, NEW status \in {"refunded", "partially_refunded"},
              Refund(o, status)
       PROVE  \E q \in Orders : Concerns(q)
  <2>1. /\ order[o] # "none" /\ order' = [order EXCEPT ![o] = status]
        /\ UNCHANGED deleted
    BY <1>10, <1>a DEF Refund, SetOrder
  <2>2. CASE ReleaseHolds(o)
    BY <1>c, <1>d, <1>e, <2>1, <2>2
  <2>3. CASE UNCHANGED holdVars
    BY <1>c, <1>d, <1>g, <2>1, <2>3
  <2> QED
    BY <1>10, <2>2, <2>3 DEF Refund
<1>11. ASSUME NEW i \in Items, ExpireHold(i)
       PROVE  \E q \in Orders : Concerns(q)
  <2> DEFINE o == ItemOrder[i]
  <2>1. /\ o \in Orders /\ o \in lapsed /\ i \in Items
        /\ UNCHANGED <<order, deleted, lapsed, convertedAt>>
        /\ reservation' = [reservation EXCEPT ![i] = "expired"]
        /\ releasedAt' = releasedAt \cup {i}
    BY <1>11, Owners DEF ExpireHold
  <2>2. reservation[i] # "none" /\ order[o] # "none"
    BY <1>11 DEF ExpireHold, ExpirableStatus, HoldingStatus, HoldInv, ItemsExist
  <2>3. \A p \in Orders \ {o} : Untouched(p)
    BY <2>1 DEF Untouched, TypeOK
  <2>4. \A j \in Items : Holding(j)' => Holding(j)
    BY <1>b, <2>1 DEF Holding, TypeOK
  <2> HIDE DEF o
  <2> QED
    BY <2>1, <2>2, <2>3, <2>4 DEF Concerns, Ages
<1>12. ASSUME UNCHANGED <<order, deleted, reservation, convertedAt, releasedAt, lapsed>>
       PROVE  \A p \in Orders : Untouched(p)
  BY <1>12 DEF Untouched
<1>13. CASE OrderNext
  BY <1>1, <1>2, <1>3, <1>4, <1>13 DEF OrderNext
<1>14. CASE TicketNext
  <2>1. TicketsOnly
    BY <1>14, Zenon DEF TicketNext, AssignReadsOrder, AssignIssuesTickets, AssignAborts,
                        CheckIn, UpdateTicket, DeleteTicket
  <2> QED
    BY <1>12, <2>1 DEF TicketsOnly
<1>15. CASE SaleNext \/ PaymentNext
  BY <1>5, <1>6, <1>7, <1>8, <1>9, <1>10, <1>12, <1>15
  DEF SaleNext, ConfirmReadsClock, ConfirmAborts,
      PaymentNext, OpenCheckout, AbandonCheckout, CreatePaymentOrder, LateRefundLost,
      FailureReadsOrder, FailureAborts
<1>16. CASE JobNext
  BY <1>11, <1>12, <1>16
  DEF JobNext, CountExpired, WorkerDies, ReconOnly, ReconReadRows, ReconReadSold,
      ReconReadReserved, ReconRepair
<1>17. CASE CatalogueNext \/ UNCHANGED vars
  BY <1>12, <1>17 DEF CatalogueNext, UpdateTicketType, CatalogueOnly, vars
<1> QED
  BY <1>13, <1>14, <1>15, <1>16, <1>17 DEF Next, BookingNext

-----------------------------------------------------------------------------
\* Sales.

\* An order that is sold after a step was sold before, or the step sells what all its
\* reservations held; and if these had lapsed, the sale is noted as overdue.
LEMMA SaleSource ==
  ASSUME SafeStaffMoves, TypeOK, HoldInv, SaleInv, [Next]_vars, NEW o \in Orders,
         order[o] # "none", order'[o] \in SoldOrder, o \notin deleted'
  PROVE  \/ order[o] \in SoldOrder /\ o \notin deleted
         \/ /\ \A i \in ItemsOf(o) : Holding(i)
            /\ o \in lapsed => o \in overdue'
<1> USE DEF orderVars, holdVars, cacheVars, paymentJobs
<1> DEFINE Was == order[o] \in SoldOrder /\ o \notin deleted
           Held == /\ \A i \in ItemsOf(o) : Holding(i)
                   /\ o \in lapsed => o \in overdue'
<1> SUFFICES Was \/ Held
  OBVIOUS
<1>1. ASSUME UNCHANGED <<order, deleted>>
      PROVE  Was
  BY <1>1
<1>2. ASSUME NEW p \in Orders, NEW status \in {"draft", "pending", "confirmed"},
             CreateOrder(p, status)
      PROVE  Was
  BY <1>2 DEF CreateOrder, SetOrder, TypeOK
<1>3. ASSUME NEW p \in Orders, NEW next \in OrderStatus, UpdateOrder(p, next)
      PROVE  Was
  BY <1>3 DEF UpdateOrder, SetOrder, SafeStaffMoves, TypeOK
<1>4. ASSUME NEW p \in Orders,
             \/ DeleteOrder(p) \/ FailureCancelsOrder(p) \/ ConfirmLatePayment(p)
             \/ \E status \in {"refunded", "partially_refunded"} : Refund(p, status)
      PROVE  Was
  BY <1>4
  DEF DeleteOrder, FailureCancelsOrder, ConfirmLatePayment, Refund, SetOrder,
      SoldOrder, TypeOK
<1>5. ASSUME NEW p \in Orders, PayWithCoins(p)
      PROVE  Was \/ Held
  <2> USE DEF PayWithCoins, SetOrder
  <2>1. CASE p # o
    BY <1>5, <2>1 DEF TypeOK
  <2>2. CASE p = o /\ order[o] \notin SoldOrder
    <3>1. ASSUME NEW i \in ItemsOf(o)
          PROVE  Holding(i)
      <4>1. i \in Items /\ ItemOrder[i] = o
        BY DEF ItemsOf
      <4>2. reservation[i] \notin {"none", "booked", "converted"}
        BY <1>5, <2>2, <4>1 DEF HoldInv, ItemsExist, SaleInv, BookedIsPaid
      <4>3. reservation[i] \notin ReleasedStatus \cup {"refund_pending", "refunded"}
        BY <1>5, <2>2
      <4>4. reservation[i] \in ReservationStatus \cup {"none"}
        BY <4>1 DEF TypeOK
      <4> QED
        BY <4>2, <4>3, <4>4 DEF ReservationStatus, ReleasedStatus, Holding, HoldingStatus
    <3> QED
      BY <1>5, <2>2, <3>1 DEF NoteOverdue
  <2>3. CASE p = o /\ order[o] \in SoldOrder
    BY <1>5, <2>3
  <2> QED
    BY <2>1, <2>2, <2>3
<1>6. ASSUME NEW p \in Orders, ConfirmPayment(p)
      PROVE  Was \/ Held
  <2> USE DEF ConfirmPayment, SetOrder
  <2>1. CASE p # o
    BY <1>6, <2>1 DEF TypeOK
  <2>2. CASE p = o
    <3>1. \A i \in ItemsOf(o) : Holding(i)
      BY <1>6, <2>2, ReservationMoves DEF ItemsOf, TypeOK, Holding, HoldingStatus
    <3> QED
      BY <1>6, <2>2, <3>1 DEF NoteOverdue
  <2> QED
    BY <2>1, <2>2
<1> HIDE DEF Was, Held
<1>7. CASE OrderNext
  BY <1>1, <1>2, <1>3, <1>4, <1>7 DEF OrderNext, HoldLapses
<1>8. CASE TicketNext
  BY <1>1, <1>8
  DEF TicketNext, AssignReadsOrder, AssignIssuesTickets, AssignAborts, CheckIn,
      UpdateTicket,
      DeleteTicket, TicketsOnly
<1>9. CASE SaleNext
  BY <1>1, <1>5, <1>6, <1>9 DEF SaleNext, ConfirmReadsClock, ConfirmAborts
<1>10. CASE PaymentNext
  BY <1>1, <1>4, <1>10
  DEF PaymentNext, OpenCheckout, AbandonCheckout, CreatePaymentOrder, LateRefund,
      LateRefundLost, FailureReadsOrder, FailureAborts
<1>11. CASE JobNext
  BY <1>1, <1>11
  DEF JobNext, ExpireHold, CountExpired, WorkerDies, ReconOnly, ReconReadRows,
      ReconReadSold,
      ReconReadReserved, ReconRepair
<1>12. CASE CatalogueNext \/ UNCHANGED vars
  BY <1>1, <1>12 DEF CatalogueNext, UpdateTicketType, CatalogueOnly, vars
<1> QED
  BY <1>7, <1>8, <1>9, <1>10, <1>11, <1>12 DEF Next, BookingNext

-----------------------------------------------------------------------------
\* Capacity.  What an item claims, it claims with all its tickets.

Claims(i) ==
  \/ ItemOrder[i] \notin deleted /\ order[ItemOrder[i]] \in SoldOrder
  \/ Live(i) /\ ItemOrder[i] \notin lapsed

\* The places that are gone are the tickets of the items that claim.
LEMMA TakenIsClaimed ==
  ASSUME NEW t
  PROVE  Taken(t) = {k \in Tickets : TypeOf(k) = t /\ Claims(TicketItem[k])}
  BY DEF Taken, SoldTickets, HeldTickets, Claims, OrderOf, Live

\* Only the creation of an order or an overdue sale makes an item claim capacity it did
\* not claim: any other payment turns one kind of claim into the other.
LEMMA ClaimsShrink ==
  ASSUME SafeStaffMoves, TypeOK, HoldInv, HoldInv', SaleInv, [Next]_vars,
         NEW i \in Items, Claims(i)'
  PROVE  \/ Claims(i)
         \/ ItemOrder[i] \in overdue'
         \/ \E status \in {"draft", "pending", "confirmed"} : CreateOrder(ItemOrder[i], status)
<1> DEFINE o == ItemOrder[i]
<1>a. o \in Orders /\ i \in ItemsOf(o)
  BY Owners DEF ItemsOf
<1>1. CASE Untouched(o)
  BY <1>1, <1>a DEF Untouched, Claims, Live, Holding
<1>2. CASE Born(o)
  BY <1>2 DEF Born
<1>3. CASE Ages(o)
  <2>1. CASE o \notin deleted' /\ order'[o] \in SoldOrder
    <3>1. \/ order[o] \in SoldOrder /\ o \notin deleted
          \/ Holding(i) /\ (o \in lapsed => o \in overdue')
      BY <1>3, <1>a, <2>1, SaleSource DEF Ages
    <3> QED
      BY <3>1 DEF Claims, Live, HoldInv, StampsAgree
  <2>2. CASE Live(i)' /\ o \notin lapsed'
    <3>1. Holding(i) /\ o \notin lapsed
      BY <1>3, <1>a, <2>2 DEF Ages, Live
    <3> QED
      BY <3>1 DEF Claims, Live, HoldInv, StampsAgree
  <2> QED
    BY <2>1, <2>2 DEF Claims
<1> HIDE DEF o
<1>4. Untouched(o) \/ Born(o) \/ Ages(o)
  BY <1>a, OneOrderAtATime DEF Concerns
<1> QED
  BY <1>1, <1>2, <1>3, <1>4 DEF o

\* The places of the orders that were sold while they held them, or hold them.
Rightful(t) == {k \in Taken(t) : OrderOf(k) \notin overdue}

\* A new order that passed the availability check leaves every type within capacity.
LEMMA CreateFits ==
  ASSUME TypeOK, OnlyOverdueOversell, NEW o \in Orders, Fits(o), NEW t \in TicketTypes,
         overdue \subseteq overdue',
         \A i \in Items : Claims(i)' => Claims(i) \/ ItemOrder[i] \in overdue' \cup {o}
  PROVE  Cardinality(Rightful(t)') <= total[t]
<1> DEFINE new == {k \in Tickets : TicketItem[k] \in ItemsOf(o) /\ TypeOf(k) = t}
<1>1. Rightful(t)' \subseteq Rightful(t) \cup new
  <2>1. Taken(t)' = {k \in Tickets : TypeOf(k) = t /\ Claims(TicketItem[k])'}
    BY DEF Taken, SoldTickets, HeldTickets, Claims, OrderOf, TypeOf, Live, Holding
  <2> QED
    BY <2>1, TakenIsClaimed, Owners DEF ItemsOf, Rightful, OrderOf
<1>2. /\ Rightful(t) \in SUBSET Tickets /\ new \in SUBSET Tickets
      /\ Taken(t) \in SUBSET Tickets /\ Rightful(t) \subseteq Taken(t)
      /\ SoldTickets(t) \in SUBSET Tickets /\ HeldTickets(t) \in SUBSET Tickets
  BY DEF Rightful, Taken, SoldTickets, HeldTickets
<1>3. Cardinality(Rightful(t)') <= Cardinality(Rightful(t)) + Cardinality(new)
  <2>1. IsFiniteSet(Rightful(t) \cup new) /\ Cardinality(Rightful(t) \cup new) \in Nat
    BY <1>2, TicketSetSize
  <2>2. Cardinality(Rightful(t)') <= Cardinality(Rightful(t) \cup new)
    BY <1>1, <2>1, FS_Subset
  <2>3. Cardinality(Rightful(t) \cup new)
          = Cardinality(Rightful(t)) + Cardinality(new) - Cardinality(Rightful(t) \cap new)
    BY <1>2, TicketSetSize, FS_Union
  <2>4. Cardinality(Rightful(t) \cap new) \in Nat /\ Cardinality(Rightful(t)') \in Nat
    <3>1. Rightful(t) \cap new \in SUBSET Tickets /\ Rightful(t)' \in SUBSET Tickets
      BY <1>1, <1>2
    <3> QED
      BY <3>1, TicketSetSize
  <2> QED
    BY <1>2, <2>1, <2>2, <2>3, <2>4, TicketSetSize
<1>4. Cardinality(Rightful(t)) <= Cardinality(SoldTickets(t)) + Cardinality(HeldTickets(t))
  <2>1. Cardinality(Taken(t)) = Cardinality(SoldTickets(t)) + Cardinality(HeldTickets(t))
                                 - Cardinality(SoldTickets(t) \cap HeldTickets(t))
    BY <1>2, TicketSetSize, FS_Union DEF Taken
  <2>2. SoldTickets(t) \cap HeldTickets(t) \in SUBSET Tickets
    BY <1>2
  <2>3. Cardinality(Rightful(t)) <= Cardinality(Taken(t))
    BY <1>2, TicketSetSize, FS_Subset
  <2> QED
    BY <1>2, <2>1, <2>2, <2>3, TicketSetSize
<1>5. Cardinality(new) = 0 \/ Cardinality(new) <= Available(t)
  <2>1. CASE new = {}
    BY <2>1, FS_EmptySet
  <2>2. CASE new # {}
    <3>1. PICK i \in ItemsOf(o) : ItemType[i] = t
      BY <2>2 DEF TypeOf
    <3>2. new = {k \in Tickets : TicketItem[k] \in {i} /\ TypeOf(k) = t}
      BY <3>1, ConstantsAssumption DEF ConstantsAssumption, ItemsOf, TypeOf
    <3> QED
      BY <3>1, <3>2 DEF Fits, Quantity
  <2> QED
    BY <2>1, <2>2
<1>6. Available(t) = Floor0(total[t] - Cardinality(SoldTickets(t)) - Cardinality(HeldTickets(t)))
  BY DEF Available, DerivedSold, DerivedReserved
<1>7. /\ Cardinality(Rightful(t)) \in Nat /\ Cardinality(new) \in Nat
      /\ Cardinality(SoldTickets(t)) \in Nat /\ Cardinality(HeldTickets(t)) \in Nat
      /\ total[t] \in Nat
      /\ Cardinality(Rightful(t)') \in Nat
  <2>1. Rightful(t)' \in SUBSET Tickets
    BY <1>1, <1>2
  <2> QED
    BY <1>2, <2>1, TicketSetSize DEF TypeOK, Counters
<1>8. Cardinality(Rightful(t)) <= total[t]
  BY DEF OnlyOverdueOversell, Rightful
<1> HIDE DEF new
<1> QED
  BY <1>3, <1>4, <1>5, <1>6, <1>7, <1>8 DEF Floor0

\* Under SafeStaffMoves no step that leaves the totals alone oversells a type with the
\* places of orders that are not overdue.
LEMMA CapacityStep ==
  ASSUME SafeStaffMoves, TypeOK, HoldInv, HoldInv', SaleInv, OnlyOverdueOversell,
         [Next]_vars, UNCHANGED total
  PROVE  OnlyOverdueOversell'
<1>a. overdue \subseteq overdue'
  BY DEF Next, BookingNext, CatalogueNext, UpdateTicketType, CatalogueOnly, SaleNext,
         PayWithCoins, ConfirmReadsClock, ConfirmPayment, ConfirmAborts, NoteOverdue,
         saleVars, vars
<1>1. SUFFICES ASSUME NEW t \in TicketTypes
               PROVE  Cardinality(Rightful(t)') <= total[t]
  BY DEF OnlyOverdueOversell, Rightful, OrderOf
<1>2. CASE \E o \in Orders, status \in {"draft", "pending", "confirmed"} : CreateOrder(o, status)
  <2>1. PICK o \in Orders, status \in {"draft", "pending", "confirmed"} : CreateOrder(o, status)
    BY <1>2
  <2>2. Fits(o)
    BY <2>1 DEF CreateOrder
  <2>3. ASSUME NEW i \in Items, Claims(i)', ItemOrder[i] # o
        PROVE  Claims(i)
    BY <2>1, <2>3
    DEF CreateOrder, SetOrder, TypeOK, ItemsOf, Holding, Live, Claims
  <2> QED
    BY <1>a, <2>2, <2>3, CreateFits
<1>3. CASE ~ \E o \in Orders, status \in {"draft", "pending", "confirmed"} : CreateOrder(o, status)
  <2>1. \A i \in Items : Claims(i)' => Claims(i) \/ ItemOrder[i] \in overdue'
    BY <1>3, ClaimsShrink, Owners
  <2>2. Taken(t)' = {k \in Tickets : TypeOf(k) = t /\ Claims(TicketItem[k])'}
    BY DEF Taken, SoldTickets, HeldTickets, Claims, OrderOf, TypeOf, Live, Holding
  <2>3. Rightful(t)' \subseteq Rightful(t) /\ Rightful(t) \in SUBSET Tickets
    BY <1>a, <2>1, <2>2, TakenIsClaimed, Owners DEF Rightful, OrderOf
  <2>4. Cardinality(Rightful(t)') <= Cardinality(Rightful(t))
    BY <2>3, TicketSetSize, FS_Subset
  <2>5. Rightful(t)' \in SUBSET Tickets
    BY <2>3
  <2> QED
    BY <2>3, <2>4, <2>5, TicketSetSize DEF OnlyOverdueOversell, Rightful, TypeOK, Counters
<1> QED
  BY <1>2, <1>3

\* Nothing is sold or held at the start.
LEMMA NothingTaken ==
  ASSUME Init, NEW t \in TicketTypes
  PROVE  Taken(t) = {} /\ Cardinality({}) = 0 /\ total[t] \in Nat
  BY Owners, FS_EmptySet, ConstantsAssumption
  DEF Init, Taken, SoldTickets, HeldTickets, SoldOrder, Holding, HoldingStatus,
      ConstantsAssumption

\* For every capacity, every set of orders and every schedule of payments, failures,
\* expiries, refunds, cancellations, repairs and overwritten counters: when PATCH makes
\* no sales and no total changes, what is sold or validly held of a ticket type exceeds
\* its total quantity only by orders sold on the word of an old clock.
THEOREM OnlyOverdueIsOversold ==
  ASSUME SafeStaffMoves, Totals = {}
  PROVE  Spec => []OnlyOverdueOversell
<1>1. ASSUME [Next]_vars, TypeOK
      PROVE  UNCHANGED total
  BY <1>1 DEF Next, BookingNext, CatalogueNext, UpdateTicketType, vars, TypeOK, Counters
<1>2. TypeOK /\ HoldInv /\ HoldInv' /\ SaleInv /\ OnlyOverdueOversell /\ [Next]_vars
        => OnlyOverdueOversell'
  BY <1>1, CapacityStep
<1>3. Init => OnlyOverdueOversell
  <2>1. ASSUME Init, NEW t \in TicketTypes
        PROVE  {k \in Taken(t) : OrderOf(k) \notin overdue} = {} /\ 0 <= total[t]
    BY <2>1, NothingTaken
  <2> QED
    BY <2>1, NothingTaken DEF OnlyOverdueOversell
<1> QED
  BY <1>2, <1>3, SaleAlways, PTL DEF Spec

-----------------------------------------------------------------------------
\* The tables implement the pool.

\* The items of an order whose hold has not lapsed hold their places together.
HeldWhole ==
  \A o \in Orders \ lapsed :
    (\A i \in ItemsOf(o) : Holding(i)) \/ (\A i \in ItemsOf(o) : ~ Holding(i))

LapsedExist == \A o \in lapsed : order[o] # "none"

PoolInv == HeldWhole /\ LapsedExist

\* Every step keeps the holds of an order whole.
LEMMA PoolStep ==
  ASSUME TypeOK, HoldInv, HoldInv', PoolInv, [Next]_vars
  PROVE  PoolInv'
<1> USE DEF PoolInv, HeldWhole, LapsedExist
<1>1. ASSUME NEW p \in Orders, Untouched(p)
      PROVE  /\ p \in lapsed' => order'[p] # "none"
             /\ \/ p \in lapsed'
                \/ \A i \in ItemsOf(p) : Holding(i)'
                \/ \A i \in ItemsOf(p) : ~ Holding(i)'
  BY <1>1 DEF Untouched, Holding
<1>2. ASSUME NEW o \in Orders, Born(o) \/ Ages(o)
      PROVE  /\ o \in lapsed' => order'[o] # "none"
             /\ \/ o \in lapsed'
                \/ \A i \in ItemsOf(o) : Holding(i)'
                \/ \A i \in ItemsOf(o) : ~ Holding(i)'
  <2>1. order'[o] # "none"
    BY <1>2 DEF Born, Ages
  <2>2. CASE Born(o)
    BY <2>1, <2>2 DEF Born
  <2>3. CASE Ages(o) /\ o \notin lapsed'
    <3>1. o \notin lapsed
      BY <2>3 DEF Ages
    <3> QED
      BY <2>1, <2>3, <3>1 DEF Ages, Holding
  <2> QED
    BY <1>2, <2>1, <2>2, <2>3
<1>3. ASSUME NEW p \in Orders
      PROVE  /\ p \in lapsed' => order'[p] # "none"
             /\ \/ p \in lapsed'
                \/ \A i \in ItemsOf(p) : Holding(i)'
                \/ \A i \in ItemsOf(p) : ~ Holding(i)'
  BY <1>1, <1>2, OneOrderAtATime DEF Concerns
<1>4. lapsed' \subseteq Orders
  BY TypeStep DEF TypeOK
<1>5. \A o : ItemsOf(o)' = ItemsOf(o)
  BY DEF ItemsOf
<1> QED
  BY <1>3, <1>4, <1>5

\* An order that exists has a stake, held or sold, just when one of its items claims
\* places; the stake is then a sold one or, by HeldWhole, all its items hold.
LEMMA StakeClaims ==
  ASSUME HoldInv, NEW o \in Orders, order[o] # "none"
  PROVE  Stake(o) \in {"held", "sold"} <=> \E i \in ItemsOf(o) : Claims(i)
  BY DEF HoldInv, ItemsExist, Stake, Claims, ItemsOf, Live

\* The places the pool counts as occupied are those that are taken.
LEMMA OccupiedIsTaken ==
  ASSUME HoldInv, PoolInv, NEW t \in TicketTypes
  PROVE  Pool!Occupied(t) = Taken(t)
<1>1. Pool!Occupied(t) =
        {k \in Tickets : TypeOf(k) = t /\ Stake(OrderOf(k)) \in {"held", "sold"}}
  BY Owners DEF Pool!Occupied
<1>2. ASSUME NEW k \in Tickets
      PROVE  Stake(OrderOf(k)) \in {"held", "sold"} <=> Claims(TicketItem[k])
  <2> DEFINE i == TicketItem[k]
             o == OrderOf(k)
  <2>1. i \in Items /\ ItemOrder[i] = o /\ o \in Orders /\ i \in ItemsOf(o)
    BY Owners DEF OrderOf, ItemsOf
  <2>2. CASE order[o] = "none"
    <3>1. reservation[i] = "none" /\ Stake(o) = "none"
      BY <2>1, <2>2 DEF HoldInv, ItemsExist, Stake, SoldOrder
    <3> QED
      BY <2>1, <2>2, <3>1 DEF Claims, Live, Holding, HoldingStatus, SoldOrder
  <2>3. CASE order[o] # "none"
    <3>1. Claims(i) => Stake(o) \in {"held", "sold"}
      BY <2>1, <2>3, StakeClaims
    <3>2. ASSUME NEW j \in ItemsOf(o), Claims(j)
          PROVE  Claims(i)
      <4>1. ItemOrder[j] = o /\ j \in Items
        BY DEF ItemsOf
      <4>2. CASE o \notin deleted /\ order[o] \in SoldOrder
        BY <2>1, <4>2 DEF Claims
      <4>3. CASE Live(j) /\ o \notin lapsed
        <5>1. Holding(i)
          BY <2>1, <4>3 DEF PoolInv, HeldWhole, Live
        <5> QED
          BY <2>1, <4>3, <5>1 DEF Claims, Live, HoldInv, StampsAgree
      <4> QED
        BY <3>2, <4>1, <4>2, <4>3 DEF Claims
    <3> QED
      BY <2>1, <2>3, <3>1, <3>2, StakeClaims
  <2> QED
    BY <2>2, <2>3
<1>3. Taken(t) = {k \in Tickets : TypeOf(k) = t /\ Claims(TicketItem[k])}
  BY TakenIsClaimed
<1> QED
  BY <1>1, <1>2, <1>3

\* A step that leaves an order leaves its stake.
LEMMA StakeKept ==
  ASSUME NEW p \in Orders, Untouched(p)
  PROVE  Stake(p)' = Stake(p)
<1>1. order'[p] = order[p] /\ (p \in deleted' <=> p \in deleted) /\ (p \in lapsed' <=> p \in lapsed)
  BY DEF Untouched
<1>2. /\ (\E i \in ItemsOf(p) : Live(i)') <=> (\E i \in ItemsOf(p) : Live(i))
      /\ (\A i \in ItemsOf(p) : Live(i)') <=> (\A i \in ItemsOf(p) : Live(i))
  BY DEF Untouched, Live, Holding
<1>3. ItemsOf(p)' = ItemsOf(p)
  BY DEF ItemsOf
<1> QED
  BY <1>1, <1>2, <1>3 DEF Stake

\* What a stake says of the order and its items.
StakesTell ==
  \A o \in Orders :
    order[o] # "none" =>
      /\ Stake(o) \in {"held", "overdue", "sold", "gone"}
      /\ Stake(o) = "sold" <=> order[o] \in SoldOrder /\ o \notin deleted
      /\ Stake(o) = "held" =>
           o \notin lapsed /\ \E i \in Items : ItemOrder[i] = o /\ Holding(i)
      /\ Stake(o) = "overdue" =>
           o \in lapsed /\ \A i \in Items : ItemOrder[i] = o => Holding(i)
      /\ Stake(o) = "gone" =>
           /\ o \in lapsed \/ \A i \in Items : ItemOrder[i] = o => ~ Holding(i)
           /\ \E i \in Items : ItemOrder[i] = o /\ ~ Holding(i)

LEMMA StakesTellTrue == HoldInv => StakesTell
<1> SUFFICES ASSUME HoldInv, NEW o \in Orders, order[o] # "none"
             PROVE  StakesTell!(o)!2
  BY DEF StakesTell
<1>1. \A i \in Items : Holding(i) <=> Live(i)
  BY DEF HoldInv, StampsAgree, Live
<1>2. \E i \in Items : ItemOrder[i] = o
  BY DEF HoldInv, ItemsExist
<1> QED
  BY <1>1, <1>2 DEF Stake, ItemsOf

\* A stake moves from nothing to held or sold, from held to sold or overdue, from
\* overdue to sold, and from all three to gone; so no payment sells what its order has
\* released or cancelled.
LEMMA StakeMoves ==
  ASSUME SafeStaffMoves, TypeOK, HoldInv, HoldInv', SaleInv, PoolInv, [Next]_vars,
         NEW o \in Orders, Concerns(o)
  PROVE  \/ Stake(o)' = Stake(o)
         \/ Stake(o) = "none" /\ Stake(o)' \in {"held", "sold"}
         \/ Stake(o) = "held" /\ Stake(o)' \in {"sold", "overdue"}
         \/ Stake(o) = "overdue" /\ Stake(o)' = "sold"
         \/ Stake(o) \in {"held", "overdue", "sold"} /\ Stake(o)' = "gone"
<1>1. StakesTell /\ StakesTell'
  BY StakesTellTrue, PTL
<1>2. CASE Born(o)
  <2>1. Stake(o) = "none" /\ order'[o] # "none" /\ o \notin deleted' /\ o \notin lapsed'
    <3>1. Stake(o) = "none"
      BY <1>2 DEF Born, Stake, SoldOrder
    <3> QED
      BY <1>2, <3>1 DEF Born, HoldInv, Existence, PoolInv, LapsedExist
  <2>2. order'[o] \in SoldOrder \/ \A i \in Items : ItemOrder[i] = o => Holding(i)'
    BY <1>2 DEF Born, ItemsOf
  <2> QED
    BY <1>1, <2>1, <2>2 DEF StakesTell
<1>3. CASE Ages(o)
  <2>1. order[o] # "none" /\ order'[o] # "none" /\ (o \in lapsed => o \in lapsed')
    BY <1>3 DEF Ages
  <2>2. \A i \in Items : ItemOrder[i] = o /\ Holding(i)' => Holding(i)
    BY <1>3 DEF Ages, ItemsOf
  <2>3. PICK j \in Items : ItemOrder[j] = o
    BY <2>1 DEF HoldInv, ItemsExist
  <2>4. CASE Stake(o) = "gone"
    <3>1. Stake(o)' # "sold"
      <4>1. SUFFICES ASSUME order'[o] \in SoldOrder, o \notin deleted'
                     PROVE  FALSE
        BY <1>1, <2>1 DEF StakesTell
      <4>2. \/ order[o] \in SoldOrder /\ o \notin deleted
            \/ \A i \in Items : ItemOrder[i] = o => Holding(i)
        BY <2>1, <4>1, SaleSource DEF ItemsOf
      <4> QED
        BY <1>1, <2>1, <2>4, <4>2 DEF StakesTell
    <3>2. Stake(o)' \notin {"held", "overdue"}
      BY <1>1, <2>1, <2>2, <2>4 DEF StakesTell
    <3> QED
      BY <1>1, <2>1, <2>4, <3>1, <3>2 DEF StakesTell
  <2>5. CASE Stake(o) = "sold"
    <3>1. \A i \in Items : ItemOrder[i] = o => ~ Holding(i)
      BY <1>1, <2>1, <2>5
      DEF StakesTell, SaleInv, SoldIsBacked, Holding, HoldingStatus
    <3> QED
      BY <1>1, <2>1, <2>2, <2>3, <2>5, <3>1 DEF StakesTell
  <2>6. CASE Stake(o) = "overdue"
    BY <1>1, <2>1, <2>6 DEF StakesTell
  <2>7. CASE Stake(o) = "held"
    BY <1>1, <2>1, <2>7 DEF StakesTell
  <2> QED
    BY <1>1, <2>1, <2>4, <2>5, <2>6, <2>7 DEF StakesTell
<1> QED
  BY <1>2, <1>3 DEF Concerns

\* Every step is a step of the pool or leaves it as it is, provided that what is taken
\* fits afterwards.
LEMMA PoolRefines ==
  ASSUME SafeStaffMoves, TypeOK, HoldInv, HoldInv', SaleInv, PoolInv, Pool!Fits', [Next]_vars
  PROVE  [Pool!Next]_<<[o \in Orders |-> Stake(o)], total>>
<1> DEFINE stakes == [o \in Orders |-> Stake(o)]
<1>a. stakes' = [o \in Orders |-> Stake(o)']
  OBVIOUS
<1>1. CASE CatalogueNext
  <2>1. \A o \in Orders : Untouched(o)
    BY <1>1
    DEF CatalogueNext, UpdateTicketType, CatalogueOnly, orderVars, holdVars, Untouched
  <2>2. UNCHANGED stakes
    BY <1>a, <2>1, StakeKept
  <2>3. total' \in [TicketTypes -> Nat]
    BY TypeStep DEF TypeOK, Counters
  <2> QED
    BY <2>2, <2>3 DEF Pool!Next, Pool!Resize
<1>2. CASE BookingNext \/ UNCHANGED vars
  <2>1. UNCHANGED total
    BY <1>2 DEF BookingNext, vars
  <2>2. CASE \A o \in Orders : Untouched(o)
    BY <1>a, <2>1, <2>2, StakeKept
  <2>3. ASSUME NEW o \in Orders, Concerns(o)
        PROVE  [Pool!Next]_<<stakes, total>>
    <3>1. \A p \in Orders \ {o} : Stake(p)' = Stake(p)
      BY <2>3, StakeKept DEF Concerns
    <3>2. stakes' = [stakes EXCEPT ![o] = Stake(o)'] /\ stakes[o] = Stake(o)
      BY <1>a, <3>1
    <3>3. CASE Stake(o)' = Stake(o)
      BY <1>a, <2>1, <3>1, <3>3
    <3>4. CASE Stake(o) = "none" /\ Stake(o)' \in {"held", "sold"}
      <4>1. Pool!Take(o)
        BY <2>1, <3>2, <3>4 DEF Pool!Take, Pool!Move
      <4> QED
        BY <4>1 DEF Pool!Next
    <3>5. CASE Stake(o) = "held" /\ Stake(o)' \in {"sold", "overdue"}
      <4>1. Pool!Buy(o) \/ Pool!Lapse(o)
        BY <2>1, <3>2, <3>5 DEF Pool!Buy, Pool!Lapse, Pool!Move
      <4> QED
        BY <4>1 DEF Pool!Next
    <3>6. CASE Stake(o) = "overdue" /\ Stake(o)' = "sold"
      <4>1. Pool!BuyLate(o)
        BY <2>1, <3>2, <3>6 DEF Pool!BuyLate, Pool!Move
      <4> QED
        BY <4>1 DEF Pool!Next
    <3>7. CASE Stake(o) \in {"held", "overdue", "sold"} /\ Stake(o)' = "gone"
      <4>1. Pool!GiveUp(o)
        BY <2>1, <3>2, <3>7 DEF Pool!GiveUp, Pool!Move
      <4> QED
        BY <4>1 DEF Pool!Next
    <3> QED
      BY <2>3, <3>3, <3>4, <3>5, <3>6, <3>7, StakeMoves
  <2> QED
    BY <2>2, <2>3, OneOrderAtATime
<1> QED
  BY <1>1, <1>2 DEF Next

\* The pool starts with no stakes and the totals the types are created with.
LEMMA PoolInit == Init => PoolInv /\ Pool!Init
<1> SUFFICES ASSUME Init
             PROVE  PoolInv /\ Pool!Init
  OBVIOUS
<1>1. PoolInv
  BY DEF Init, PoolInv, HeldWhole, LapsedExist, ItemsOf, Holding, HoldingStatus
<1>2. \A o \in Orders : Stake(o) = "none"
  BY DEF Init, Stake, SoldOrder
<1> QED
  BY <1>1, <1>2, ConstantsAssumption DEF Init, ConstantsAssumption, Pool!Init

\* The invariant of the pool.
LEMMA PoolAlways ==
  ASSUME SafeStaffMoves
  PROVE  Spec => [](TypeOK /\ HoldInv /\ SaleInv /\ PoolInv)
<1> DEFINE Inv == TypeOK /\ HoldInv /\ SaleInv
<1>1. Spec => []Inv
  BY SaleAlways
<1>2. Inv /\ Inv' /\ PoolInv /\ [Next]_vars => PoolInv'
  BY PoolStep
<1>3. Inv /\ PoolInv => TypeOK /\ HoldInv /\ SaleInv /\ PoolInv
  OBVIOUS
<1> HIDE DEF Inv
<1> QED
  BY <1>1, <1>2, <1>3, PoolInit, PTL DEF Spec

\* As long as what is taken fits, the tables implement the pool.
LEMMA PoolWhenItFits ==
  ASSUME SafeStaffMoves
  PROVE  Spec /\ []NoOversell => PlacesKept
<1> DEFINE Inv == TypeOK /\ HoldInv /\ SaleInv /\ PoolInv
<1>1. Inv /\ NoOversell => Pool!Fits
  <2>1. \A S : Pool!Cardinality(S) = Cardinality(S)
    BY DEF Pool!Cardinality, Cardinality
  <2> QED
    BY <2>1, OccupiedIsTaken DEF NoOversell, Pool!Fits
<1>2. Inv /\ Inv' /\ Pool!Fits' /\ [Next]_vars
        => [Pool!Next]_<<[o \in Orders |-> Stake(o)], total>>
  BY PoolRefines
<1>3. Spec => []Inv
  BY PoolAlways
<1> HIDE DEF Inv
<1> QED
  BY <1>1, <1>2, <1>3, PoolInit, PTL DEF Spec, PlacesKept, Pool!Spec
=============================================================================
