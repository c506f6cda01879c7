------------------------ MODULE TicketInventoryProofs ------------------------
(***************************************************************************)
(* What TLAPS proves of TicketInventory for every number of orders, ticket *)
(* types, items and tickets, every capacity and every schedule.            *)
(***************************************************************************)
EXTENDS TicketInventory, FiniteSetTheorems, TLAPS

-----------------------------------------------------------------------------
\* Counting.

\* A set of tickets has a number of elements, which is a natural number.
LEMMA TicketSetSize ==
  ASSUME NEW S \in SUBSET Tickets
  PROVE  IsFiniteSet(S) /\ Cardinality(S) \in Nat
  BY ConstantsAssumption, FS_Subset, FS_CardinalityType DEF ConstantsAssumption

\* The quantity of a set of items is a natural number.
LEMMA QuantityNat ==
  ASSUME NEW S, NEW t
  PROVE  Quantity(S, t) \in Nat
  BY TicketSetSize DEF Quantity

\* Raising and lowering a counter leaves a counter: no lowering goes below zero.
LEMMA CountersClosed ==
  ASSUME NEW counter \in Counters, NEW S
  PROVE  Raised(counter, S) \in Counters /\ Lowered(counter, S) \in Counters
  BY QuantityNat DEF Counters, Raised, Lowered, Floor0

\* What the reconciler derives are counters.
LEMMA DerivedAreCounters == DerivedSold \in Counters /\ DerivedReserved \in Counters
<1>1. ASSUME NEW t \in TicketTypes
      PROVE  Cardinality(SoldTickets(t)) \in Nat /\ Cardinality(HeldTickets(t)) \in Nat
  BY TicketSetSize DEF SoldTickets, HeldTickets
<1> QED
  BY <1>1 DEF DerivedSold, DerivedReserved, Counters

-----------------------------------------------------------------------------
\* Type correctness.

\* Releasing the holds of an order keeps the types of what it changes.
LEMMA ReleaseHoldsType ==
  ASSUME TypeOK, NEW o \in Orders, ReleaseHolds(o)
  PROVE  /\ reservation' \in [Items -> ReservationStatus \cup {"none"}]
         /\ releasedAt' \subseteq Items
         /\ reserved' \in Counters
         /\ UNCHANGED <<convertedAt, lapsed, sold>>
  BY CountersClosed DEF TypeOK, ReleaseHolds, ReservationStatus, ItemsOf

\* So does booking or converting items.
LEMMA ConvertItemsType ==
  ASSUME TypeOK, NEW S \in SUBSET Items, NEW status \in {"converted", "booked"},
         ConvertItems(S, status)
  PROVE  /\ reservation' \in [Items -> ReservationStatus \cup {"none"}]
         /\ convertedAt' \subseteq Items
         /\ sold' \in Counters
         /\ reserved' \in Counters
         /\ UNCHANGED <<releasedAt, lapsed>>
  BY CountersClosed DEF TypeOK, ConvertItems, ReservationStatus

\* So do the two ways in which an order's tickets change.
LEMMA OrderTicketsType ==
  ASSUME TypeOK, NEW o \in Orders, NEW s \in OrderStatus,
         ApplyTicketStatus(o, s) \/ IssueTickets(o)
  PROVE  ticket' \in [Tickets -> TicketStatus \cup {"none"}]
<1>1. TicketStatusFor(s) \in TicketStatus \cup {"none"}
  BY DEF TicketStatusFor, TicketStatus, OrderStatus, SoldOrder
<1>2. CASE ApplyTicketStatus(o, s)
  BY <1>1, <1>2 DEF TypeOK, ApplyTicketStatus
<1>3. CASE IssueTickets(o)
  BY <1>3 DEF TypeOK, IssueTickets, TicketStatus
<1> QED
  BY <1>2, <1>3

\* The reconciler's position stays one of those it can be in.
LEMMA ReconType ==
  ASSUME TypeOK,
         ReconReadRows \/ ReconReadSold \/ ReconReadReserved
           \/ \E t \in TicketTypes : ReconRepair(t)
  PROVE  recon' \in ReconStates /\ sold' \in Counters /\ reserved' \in Counters
<1> USE DEF ReconIdle, ReconStates, Counters
<1>1. CASE ReconReadRows
  BY <1>1 DEF TypeOK, ReconReadRows, cacheVars
<1>2. CASE ReconReadSold
  BY <1>2, DerivedAreCounters DEF TypeOK, ReconReadSold, cacheVars
<1>3. CASE ReconReadReserved
  BY <1>3, DerivedAreCounters DEF TypeOK, ReconReadReserved, cacheVars
<1>4. ASSUME NEW t \in TicketTypes, ReconRepair(t)
      PROVE  recon' \in ReconStates /\ sold' \in Counters /\ reserved' \in Counters
  BY <1>4 DEF TypeOK, ReconRepair, cacheVars
<1> QED
  BY <1>1, <1>2, <1>3, <1>4

\* Every step of the bookings keeps every variable in its type.
LEMMA BookingTypeStep ==
  ASSUME TypeOK, BookingNext \/ UNCHANGED vars
  PROVE  TypeOK'
<1> USE DEF orderVars, holdVars, cacheVars, paymentJobs
<1>a. UNCHANGED total
  BY DEF BookingNext, vars
<1>b. assigning' \subseteq Orders /\ strays' \subseteq Tickets
  BY DEF TypeOK, BookingNext, TicketNext, AssignReadsOrder, AssignIssuesTickets,
         AssignAborts,
         assignVars, vars
<1>c. punctual' \subseteq Orders /\ overdue' \subseteq Orders
  BY DEF TypeOK, BookingNext, SaleNext, PayWithCoins, ConfirmReadsClock, ConfirmPayment,
         ConfirmAborts, NoteOverdue, saleVars, vars
<1> USE <1>a, <1>b, <1>c
<1>1. ASSUME NEW o \in Orders, NEW status \in {"draft", "pending", "confirmed"},
             CreateOrder(o, status)
      PROVE  TypeOK'
  <2>1. ticket' \in [Tickets -> TicketStatus \cup {"none"}]
    BY <1>1 DEF TypeOK, CreateOrder, IssueTickets, TicketStatus
  <2>2. sold' \in Counters /\ reserved' \in Counters
    BY <1>1, CountersClosed DEF TypeOK, CreateOrder
  <2> QED
    BY <1>1, <2>1, <2>2
    DEF TypeOK, CreateOrder, SetOrder, OrderStatus, ReservationStatus, ItemsOf
<1>2. ASSUME NEW o \in Orders, HoldLapses(o)
      PROVE  TypeOK'
  BY <1>2 DEF TypeOK, HoldLapses
<1>3. ASSUME NEW o \in Orders, NEW next \in OrderStatus, UpdateOrder(o, next)
      PROVE  TypeOK'
  <2> USE DEF UpdateOrder, SetOrder
  <2>1. CASE ReleaseHolds(o) /\ ApplyTicketStatus(o, next)
    BY <1>3, <2>1, ReleaseHoldsType, OrderTicketsType DEF TypeOK
  <2>2. CASE ConvertHolds(o) /\ IssueTickets(o)
    BY <1>3, <2>2, ConvertItemsType, OrderTicketsType DEF TypeOK, ConvertHolds, ItemsOf
  <2>3. CASE UNCHANGED <<holdVars, cacheVars, ticket>>
    BY <1>3, <2>3 DEF TypeOK
  <2>4. CASE UNCHANGED <<holdVars, cacheVars>> /\ ApplyTicketStatus(o, next)
    BY <1>3, <2>4, OrderTicketsType DEF TypeOK
  <2> QED
    BY <1>3, <2>1, <2>2, <2>3, <2>4
<1>4. ASSUME NEW o \in Orders, DeleteOrder(o)
      PROVE  TypeOK'
  <2>1. "cancelled" \in OrderStatus
    BY DEF OrderStatus
  <2> QED
    BY <1>4, <2>1, ReleaseHoldsType, OrderTicketsType DEF TypeOK, DeleteOrder, SetOrder
<1>5. ASSUME NEW o \in Orders,
             AssignReadsOrder(o) \/ AssignIssuesTickets(o) \/ AssignAborts(o)
      PROVE  TypeOK'
  BY <1>5 DEF TypeOK, AssignReadsOrder, AssignIssuesTickets, AssignAborts, TicketsOnly,
              IssueTickets, TicketStatus
<1>6. ASSUME NEW k \in Tickets, CheckIn(k) \/ DeleteTicket(k)
      PROVE  TypeOK'
  BY <1>6 DEF TypeOK, CheckIn, DeleteTicket, TicketsOnly, TicketStatus
<1>7. ASSUME NEW k \in Tickets, NEW next \in TicketStatus, UpdateTicket(k, next)
      PROVE  TypeOK'
  BY <1>7 DEF TypeOK, UpdateTicket, TicketsOnly
<1>8. ASSUME NEW o \in Orders, NEW method \in {"razorpay", "coins"},
             OpenCheckout(o, method) \/ AbandonCheckout(o, method)
      PROVE  TypeOK'
  BY <1>8 DEF TypeOK, OpenCheckout, AbandonCheckout
<1>9. ASSUME NEW o \in Orders, CreatePaymentOrder(o)
      PROVE  TypeOK'
  BY <1>9 DEF TypeOK, CreatePaymentOrder
<1>10. ASSUME NEW o \in Orders, PayWithCoins(o)
       PROVE  TypeOK'
  BY <1>10, ConvertItemsType, OrderTicketsType
  DEF TypeOK, PayWithCoins, SetOrder, ItemsOf, OrderStatus
<1>11. ASSUME NEW o \in Orders, ConfirmPayment(o)
       PROVE  TypeOK'
  BY <1>11, ConvertItemsType, OrderTicketsType
  DEF TypeOK, ConfirmPayment, SetOrder, ItemsOf, OrderStatus
<1>12. ASSUME NEW o \in Orders, ConfirmLatePayment(o)
       PROVE  TypeOK'
  BY <1>12 DEF TypeOK, ConfirmLatePayment, SetOrder, ItemsOf, OrderStatus, ReservationStatus
<1>13. ASSUME NEW o \in Orders, NEW outcome \in {"refunded", "failed"},
              LateRefund(o, outcome)
       PROVE  TypeOK'
  BY <1>13 DEF TypeOK, LateRefund, ReservationStatus
<1>14. ASSUME NEW o \in Orders, LateRefundLost(o) \/ FailureReadsOrder(o) \/ FailureAborts(o)
       PROVE  TypeOK'
  BY <1>14 DEF TypeOK, LateRefundLost, FailureReadsOrder, FailureAborts
<1>15. ASSUME NEW o \in Orders, FailureCancelsOrder(o)
       PROVE  TypeOK'
  BY <1>15, ReleaseHoldsType DEF TypeOK, FailureCancelsOrder, SetOrder, OrderStatus
<1>16. ASSUME NEW o \in Orders, NEW status \in {"refunded", "partially_refunded"},
              Refund(o, status)
       PROVE  TypeOK'
  <2>1. status \in OrderStatus
    BY DEF OrderStatus
  <2> QED
    BY <1>16, <2>1, ReleaseHoldsType, OrderTicketsType DEF TypeOK, Refund, SetOrder
<1>17. ASSUME NEW i \in Items, ExpireHold(i)
       PROVE  TypeOK'
  BY <1>17 DEF TypeOK, ExpireHold, ReservationStatus
<1>18. ASSUME NEW i \in Items, CountExpired(i)
       PROVE  TypeOK'
  BY <1>18, CountersClosed DEF TypeOK, CountExpired
<1>19. CASE WorkerDies
  BY <1>19 DEF TypeOK, WorkerDies
<1>20. CASE ReconReadRows \/ ReconReadSold \/ ReconReadReserved
              \/ \E t \in TicketTypes : ReconRepair(t)
  <2>1. ReconOnly
    BY <1>20 DEF ReconReadRows, ReconReadSold, ReconReadReserved, ReconRepair
  <2> QED
    BY <1>20, <2>1, ReconType DEF TypeOK, ReconOnly
<1>21. CASE UNCHANGED vars
  BY <1>21 DEF TypeOK, vars
<1>22. ASSUME NEW o \in Orders, ConfirmReadsClock(o) \/ ConfirmAborts(o)
       PROVE  TypeOK'
  BY <1>22 DEF TypeOK, ConfirmReadsClock, ConfirmAborts
<1> QED
  BY <1>1, <1>2, <1>3, <1>4, <1>5, <1>6, <1>7, <1>8, <1>9, <1>10, <1>11, <1>12,
     <1>13, <1>14, <1>15, <1>16, <1>17, <1>18, <1>19, <1>20, <1>21, <1>22
  DEF BookingNext, OrderNext, TicketNext, SaleNext, PaymentNext, JobNext

\* Every step keeps every variable in its type.
LEMMA TypeStep ==
  ASSUME TypeOK, [Next]_vars
  PROVE  TypeOK'
<1>1. ASSUME NEW t \in TicketTypes, NEW n \in Totals \cup {total[t]},
             NEW s \in CounterEdits \cup {sold[t]},
             NEW r \in CounterEdits \cup {reserved[t]},
             UpdateTicketType(t, n, s, r)
      PROVE  TypeOK'
  <2>1. n \in Nat /\ s \in Nat /\ r \in Nat
    BY ConstantsAssumption DEF ConstantsAssumption, TypeOK, Counters
  <2>2. total' \in Counters /\ sold' \in Counters /\ reserved' \in Counters
    BY <1>1, <2>1 DEF UpdateTicketType, TypeOK, Counters
  <2> QED
    BY <1>1, <2>2
    DEF UpdateTicketType, CatalogueOnly, TypeOK, orderVars, holdVars, paymentJobs,
        assignVars, saleVars
<1>2. CASE BookingNext \/ UNCHANGED vars
  BY <1>2, BookingTypeStep
<1> QED
  BY <1>1, <1>2 DEF Next, CatalogueNext

\* Every variable always has its type: no counter goes below zero, no status is
\* outside its table's enumeration.
THEOREM TypeCorrect == Spec => []TypeOK
<1>1. Init => TypeOK
  BY ConstantsAssumption DEF Init, TypeOK, Counters, ReconStates, ReconIdle
<1>2. TypeOK /\ [Next]_vars => TypeOK'
  BY TypeStep
<1> QED
  BY <1>1, <1>2, PTL DEF Spec

-----------------------------------------------------------------------------
\* What the transactions do to one item's reservation.

\* The moves of the reservation table that the transactions ask for.
LEMMA ReservationMoves ==
  ASSUME NEW s \in ReservationStatus \cup {"none"}
  PROVE  /\ ReservationMayMove(s, "released") =>
              s \in {"released", "active", "booked", "converted"}
         /\ ReservationMayMove(s, "converted") =>
              s \in {"converted", "active", "converting"}
         /\ ReservationMayMove(s, "converting") =>
              s \in {"converting", "active", "payment_verified"}
         /\ ReservationMayMove(s, "expired") =>
              s \in {"expired", "active", "reserved", "payment_pending",
                     "payment_started", "payment_processing"}
  BY DEF ReservationStatus, ReservationMayMove, ReservationSuccessors

\* A release leaves spent reservations alone and releases the others; a
\* reservation whose refund is pending or done makes it fail.
LEMMA ReleaseEffect ==
  ASSUME TypeOK, NEW o \in Orders, ReleaseHolds(o), NEW i \in Items
  PROVE  /\ ItemOrder[i] # o =>
              /\ reservation'[i] = reservation[i]
              /\ i \in releasedAt' <=> i \in releasedAt
         /\ ItemOrder[i] = o =>
              \/ /\ reservation[i] \in ReleasedStatus
                 /\ reservation'[i] = reservation[i]
                 /\ i \in releasedAt' <=> i \in releasedAt
              \/ /\ reservation[i] \in {"active", "booked", "converted"}
                 /\ reservation'[i] = "released"
                 /\ i \in releasedAt'
         /\ UNCHANGED <<convertedAt, lapsed>>
<1>1. reservation[i] \in ReservationStatus \cup {"none"}
  BY DEF TypeOK
<1> QED
  BY <1>1, ReservationMoves DEF TypeOK, ReleaseHolds, ItemsOf, ReleasedStatus

\* A conversion leaves what is sold alone and converts live holds.
LEMMA ConvertEffect ==
  ASSUME TypeOK, NEW o \in Orders, ConvertHolds(o), NEW i \in Items
  PROVE  /\ ItemOrder[i] # o =>
              /\ reservation'[i] = reservation[i]
              /\ i \in convertedAt' <=> i \in convertedAt
         /\ ItemOrder[i] = o =>
              \/ /\ reservation[i] \in {"booked", "converted"}
                 /\ reservation'[i] = reservation[i]
                 /\ i \in convertedAt' <=> i \in convertedAt
              \/ /\ reservation[i] \in {"active", "converting"}
                 /\ reservation'[i] = "converted"
                 /\ i \in convertedAt'
         /\ UNCHANGED <<releasedAt, lapsed>>
<1>1. reservation[i] \in ReservationStatus \cup {"none"}
  BY DEF TypeOK
<1> QED
  BY <1>1, ReservationMoves DEF TypeOK, ConvertHolds, ConvertItems, ItemsOf

\* A payment books every reservation of its order.
LEMMA BookEffect ==
  ASSUME TypeOK, NEW o \in Orders, ConvertItems(ItemsOf(o), "booked"), NEW i \in Items
  PROVE  /\ ItemOrder[i] # o =>
              /\ reservation'[i] = reservation[i]
              /\ i \in convertedAt' <=> i \in convertedAt
         /\ ItemOrder[i] = o => reservation'[i] = "booked" /\ i \in convertedAt'
         /\ UNCHANGED <<releasedAt, lapsed>>
  BY DEF TypeOK, ConvertItems, ItemsOf

-----------------------------------------------------------------------------
\* The part of the inductive invariant that needs no assumption about staff.

\* Nothing is under way for an order that was never created.
Existence ==
  \A o \in Orders :
    order[o] = "none" =>
      /\ payOrder[o] = "none"
      /\ o \notin deleted \cup refundable \cup failing \cup refunding
      /\ <<o, "razorpay">> \notin checkout /\ <<o, "coins">> \notin checkout

\* A created order has items, and an item exists with its order.
ItemsExist ==
  /\ \A o \in Orders : order[o] # "none" => \E i \in Items : ItemOrder[i] = o
  /\ \A i \in Items :
       /\ reservation[i] = "none" <=> order[ItemOrder[i]] = "none"
       /\ reservation[i] = "none" => i \notin convertedAt \cup releasedAt

\* Until the gateway answers, the reservations of a late payment stay put.
RefundingIsPending ==
  \A i \in Items : ItemOrder[i] \in refunding => reservation[i] = "refund_pending"

\* A payment that can be refunded has used its holds up.
RefundableHoldsNothing ==
  \A i \in Items : ItemOrder[i] \in refundable => ~ Holding(i)

HoldInv ==
  /\ Existence
  /\ ItemsExist
  /\ StampsAgree
  /\ RefundingIsPending
  /\ RefundableHoldsNothing
  /\ EndedOrdersHoldNothing

\* Nothing exists at the start.
LEMMA HoldInit == Init => HoldInv
  BY ConstantsAssumption
  DEF Init, HoldInv, Existence, ItemsExist, StampsAgree, RefundingIsPending,
      RefundableHoldsNothing,
      EndedOrdersHoldNothing, Holding, HoldingStatus, TerminalOrder, ReleasedStatus,
      ConstantsAssumption

\* Every step keeps the invariant.
LEMMA HoldStep ==
  ASSUME TypeOK, HoldInv, [Next]_vars
  PROVE  HoldInv'
<1> USE DEF HoldInv, Existence, ItemsExist, StampsAgree, RefundingIsPending, RefundableHoldsNothing,
            EndedOrdersHoldNothing, orderVars, holdVars, cacheVars, paymentJobs
<1> USE DEF Holding, HoldingStatus, ReleasedStatus, TerminalOrder
<1>a. ConstantsAssumption /\ TypeOK'
  BY ConstantsAssumption, TypeStep
<1>1. ASSUME NEW o \in Orders, NEW status \in {"draft", "pending", "confirmed"},
             CreateOrder(o, status)
      PROVE  HoldInv'
  <2> USE DEF CreateOrder, SetOrder, ItemsOf, ConstantsAssumption, TypeOK
  <2>1. /\ order[o] = "none" /\ status \notin TerminalOrder \cup {"none"}
        /\ order' = [order EXCEPT ![o] = status]
        /\ UNCHANGED <<deleted, payOrder, refundable, checkout, failing, refunding,
                       releasedAt>>
        /\ \E i \in Items : ItemOrder[i] = o
    BY <1>1
  <2>2. ASSUME NEW i \in Items
        PROVE  \/ /\ ItemOrder[i] # o
                  /\ reservation'[i] = reservation[i]
                  /\ i \in convertedAt' <=> i \in convertedAt
               \/ /\ ItemOrder[i] = o
                  /\ reservation[i] = "none" /\ i \notin convertedAt \cup releasedAt
                  /\ \/ reservation'[i] = "active" /\ i \notin convertedAt'
                     \/ reservation'[i] = "converted" /\ i \in convertedAt'
    <3>1. ItemOrder[i] = o => reservation[i] = "none" /\ i \notin convertedAt \cup releasedAt
      BY <2>1
    <3>2. CASE status = "confirmed"
      BY <1>1, <3>1, <3>2
    <3>3. CASE status # "confirmed"
      BY <1>1, <3>1, <3>3
    <3> QED
      BY <3>2, <3>3
  <2> HIDE DEF CreateOrder, ItemsOf
  <2>3. Existence' /\ RefundingIsPending'
    BY <1>a, <2>1, <2>2
  <2>4. RefundableHoldsNothing'
    BY <1>a, <2>1, <2>2
  <2>5. StampsAgree'
    BY <1>a, <2>1, <2>2
  <2>6. EndedOrdersHoldNothing'
    <3>1. ASSUME NEW i \in Items, ItemOrder[i] # o
          PROVE  order'[ItemOrder[i]] = order[ItemOrder[i]] /\ reservation'[i] = reservation[i]
      BY <1>a, <2>1, <2>2, <3>1
    <3>2. order'[o] \notin TerminalOrder /\ o \notin deleted
      <4>1. order'[o] = status
        BY <2>1
      <4>2. o \notin deleted
        BY <2>1
      <4> QED
        BY <2>1, <4>1, <4>2
    <3>3. order'[o] \notin {"cancelled", "expired"}
      BY <3>2
    <3> QED
      BY <2>1, <3>1, <3>2, <3>3
  <2>7. ItemsExist'
    BY <1>a, <2>1, <2>2
  <2> QED
    BY <2>3, <2>4, <2>5, <2>6, <2>7
<1>2. ASSUME NEW o \in Orders, HoldLapses(o)
      PROVE  HoldInv'
  BY <1>2, <1>a DEF HoldLapses
<1>3. ASSUME NEW o \in Orders, NEW next \in OrderStatus, UpdateOrder(o, next)
      PROVE  HoldInv'
  <2> USE DEF UpdateOrder, SetOrder, Exists
  <2>1. CASE order[o] \notin TerminalOrder /\ ReleaseHolds(o)
    BY <1>3, <1>a, <2>1, ReleaseEffect DEF TypeOK, ConstantsAssumption, OrderStatus
  <2>2. CASE next = "confirmed" /\ ConvertHolds(o)
    BY <1>3, <1>a, <2>2, ConvertEffect DEF TypeOK, ConstantsAssumption, OrderStatus
  <2>3. CASE UNCHANGED <<holdVars, cacheVars>> /\ next = order[o]
    BY <1>3, <1>a, <2>3 DEF TypeOK, ConstantsAssumption
  <2>4. CASE /\ UNCHANGED <<holdVars, cacheVars>>
             /\ next \in OrderSuccessors(order[o])
             /\ order[o] \in TerminalOrder \/ next \notin TerminalOrder
    <3>1. order[o] \in TerminalOrder => next = "partially_refunded"
      BY <2>4 DEF OrderSuccessors
    <3> QED
      BY <1>3, <1>a, <2>4, <3>1 DEF TypeOK, ConstantsAssumption, OrderStatus
  <2> QED
    BY <1>3, <2>1, <2>2, <2>3, <2>4
<1>4. ASSUME NEW o \in Orders, DeleteOrder(o)
      PROVE  HoldInv'
  <2> USE DEF DeleteOrder, SetOrder, Exists
  <2>1. CASE order[o] \in TerminalOrder /\ UNCHANGED <<holdVars, cacheVars>>
    BY <1>4, <1>a, <2>1 DEF TypeOK, ConstantsAssumption
  <2>2. CASE ReleaseHolds(o)
    BY <1>4, <1>a, <2>2, ReleaseEffect DEF TypeOK, ConstantsAssumption
  <2> QED
    BY <1>4, <2>1, <2>2
<1>5. ASSUME UNCHANGED <<order, deleted, payOrder, refundable, reservation, convertedAt,
                         releasedAt, checkout, failing, refunding>>
      PROVE  HoldInv'
  BY <1>5
<1>6. ASSUME NEW o \in Orders, NEW method \in {"razorpay", "coins"},
             OpenCheckout(o, method) \/ AbandonCheckout(o, method)
      PROVE  HoldInv'
  BY <1>6, <1>a DEF OpenCheckout, AbandonCheckout, Exists, TypeOK
<1>7. ASSUME NEW o \in Orders, CreatePaymentOrder(o)
      PROVE  HoldInv'
  BY <1>7, <1>a DEF CreatePaymentOrder, TypeOK
<1>8. ASSUME NEW o \in Orders, PayWithCoins(o)
      PROVE  HoldInv'
  <2> USE DEF PayWithCoins, SetOrder, ItemsOf, ConstantsAssumption, TypeOK
  <2>1. /\ order[o] # "none"
        /\ order' = [order EXCEPT ![o] = "paid"]
        /\ o \notin deleted /\ UNCHANGED <<deleted, failing, refunding, releasedAt>>
        /\ refundable' = refundable \cup {o}
        /\ checkout' \subseteq checkout
        /\ payOrder' = [payOrder EXCEPT ![o] = "coins"]
    BY <1>8 DEF ConvertItems
  <2>2. \A i \in Items : ItemOrder[i] = o =>
          i \notin releasedAt /\ reservation[i] # "refund_pending"
    BY <1>8, <1>a, <2>1 DEF ReservationStatus
  <2>3. \A i \in Items :
          /\ ItemOrder[i] # o =>
               /\ reservation'[i] = reservation[i]
               /\ i \in convertedAt' <=> i \in convertedAt
          /\ ItemOrder[i] = o => reservation'[i] = "booked" /\ i \in convertedAt'
    BY <1>8, BookEffect
  <2> HIDE DEF PayWithCoins, ItemsOf
  <2>4. Existence' /\ RefundingIsPending' /\ RefundableHoldsNothing'
    BY <1>a, <2>1, <2>2, <2>3
  <2>5. StampsAgree'
    BY <1>a, <2>1, <2>2, <2>3
  <2>6. EndedOrdersHoldNothing'
    BY <1>a, <2>1, <2>2, <2>3
  <2>7. ItemsExist'
    BY <1>a, <2>1, <2>2, <2>3
  <2> QED
    BY <2>4, <2>5, <2>6, <2>7
<1>9. ASSUME NEW o \in Orders, ConfirmPayment(o)
      PROVE  HoldInv'
  <2> USE DEF ConfirmPayment, SetOrder, ItemsOf, ConstantsAssumption, TypeOK, SoldOrder
  <2>a. /\ order[o] # "none"
        /\ UNCHANGED <<deleted, payOrder, checkout, failing, refunding, releasedAt>>
        /\ refundable' = refundable \cup {o}
    BY <1>9 DEF ConvertItems
  <2>1. /\ order'[o] \in SoldOrder
        /\ \A p \in Orders \ {o} : order'[p] = order[p]
    BY <1>9, <2>a
  <2>2. \A i \in Items :
          /\ ItemOrder[i] # o =>
               /\ reservation'[i] = reservation[i]
               /\ i \in convertedAt' <=> i \in convertedAt
          /\ ItemOrder[i] = o => reservation'[i] = "booked" /\ i \in convertedAt'
    BY <1>9, BookEffect
  <2>3. \A i \in Items : ItemOrder[i] = o =>
          reservation[i] \in {"converting", "active", "payment_verified"} /\ i \notin releasedAt
    BY <1>9, <1>a, ReservationMoves
  <2>4. o \notin deleted
    <3>1. PICK i \in Items : ItemOrder[i] = o
      BY <2>a
    <3> QED
      BY <2>3, <3>1
  <2> HIDE DEF ConfirmPayment, ItemsOf
  <2>5. Existence' /\ RefundingIsPending' /\ RefundableHoldsNothing'
    BY <1>a, <2>a, <2>1, <2>2, <2>3
  <2>6. StampsAgree'
    BY <1>a, <2>a, <2>1, <2>2, <2>3
  <2>7. EndedOrdersHoldNothing'
    BY <1>a, <2>a, <2>1, <2>2, <2>4
  <2>8. ItemsExist'
    BY <1>a, <2>a, <2>1, <2>2
  <2> QED
    BY <2>5, <2>6, <2>7, <2>8
<1>10. ASSUME NEW o \in Orders, ConfirmLatePayment(o)
       PROVE  HoldInv'
  <2> USE DEF ConfirmLatePayment, SetOrder, ItemsOf, ConstantsAssumption, TypeOK
  <2>a. order[o] # "none"
    BY <1>10
  <2>1. Existence'
    BY <1>10, <1>a, <2>a, ReservationMoves
  <2>2. StampsAgree'
    BY <1>10, <1>a, <2>a, ReservationMoves
  <2>3. RefundingIsPending'
    BY <1>10, <1>a, <2>a, ReservationMoves
  <2>4. RefundableHoldsNothing'
    BY <1>10, <1>a, <2>a, ReservationMoves
  <2>5. EndedOrdersHoldNothing'
    BY <1>10, <1>a, <2>a, ReservationMoves
  <2>6. ItemsExist'
    BY <1>10, <1>a, <2>a, ReservationMoves
  <2> QED
    BY <2>1, <2>2, <2>3, <2>4, <2>5, <2>6
<1>11. ASSUME NEW o \in Orders, NEW outcome \in {"refunded", "failed"},
              LateRefund(o, outcome)
       PROVE  HoldInv'
  BY <1>11, <1>a DEF LateRefund, TypeOK, ConstantsAssumption
<1>12. ASSUME NEW o \in Orders, LateRefundLost(o) \/ FailureReadsOrder(o) \/ FailureAborts(o)
       PROVE  HoldInv'
  BY <1>12, <1>a DEF LateRefundLost, FailureReadsOrder, FailureAborts, TypeOK
<1>13. ASSUME NEW o \in Orders, FailureCancelsOrder(o)
       PROVE  HoldInv'
  <2> USE DEF FailureCancelsOrder, SetOrder, ConstantsAssumption, TypeOK
  <2>a. order[o] # "none"
    BY <1>13
  <2>1. Existence'
    BY <1>13, <1>a, <2>a, ReleaseEffect
  <2>2. StampsAgree'
    BY <1>13, <1>a, <2>a, ReleaseEffect
  <2>3. RefundingIsPending'
    BY <1>13, <1>a, <2>a, ReleaseEffect
  <2>4. RefundableHoldsNothing'
    BY <1>13, <1>a, <2>a, ReleaseEffect
  <2>5. EndedOrdersHoldNothing'
    BY <1>13, <1>a, <2>a, ReleaseEffect
  <2>6. ItemsExist'
    BY <1>13, <1>a, <2>a, ReleaseEffect
  <2> QED
    BY <2>1, <2>2, <2>3, <2>4, <2>5, <2>6
<1>14. ASSUME NEW o \in Orders, NEW status \in {"refunded", "partially_refunded"},
              Refund(o, status)
       PROVE  HoldInv'
  <2> USE DEF Refund, SetOrder, ConstantsAssumption, TypeOK
  <2>a. order[o] # "none"
    BY <1>14
  <2>1. Existence'
    BY <1>14, <1>a, <2>a, ReleaseEffect
  <2>2. StampsAgree'
    BY <1>14, <1>a, <2>a, ReleaseEffect
  <2>3. RefundingIsPending'
    BY <1>14, <1>a, <2>a, ReleaseEffect
  <2>4. RefundableHoldsNothing'
    BY <1>14, <1>a, <2>a, ReleaseEffect
  <2>5. EndedOrdersHoldNothing'
    BY <1>14, <1>a, <2>a, ReleaseEffect
  <2>6. ItemsExist'
    BY <1>14, <1>a, <2>a, ReleaseEffect
  <2> QED
    BY <2>1, <2>2, <2>3, <2>4, <2>5, <2>6
<1>15. ASSUME NEW i \in Items, ExpireHold(i)
       PROVE  HoldInv'
  BY <1>15, <1>a DEF ExpireHold, ExpirableStatus, TypeOK, ConstantsAssumption
<1>16. CASE OrderNext
  BY <1>1, <1>2, <1>3, <1>4, <1>16 DEF OrderNext
<1>17. CASE TicketNext
  BY <1>5, <1>17
  DEF TicketNext, AssignReadsOrder, AssignIssuesTickets, AssignAborts, CheckIn,
      UpdateTicket,
      DeleteTicket, TicketsOnly
<1>18. CASE SaleNext \/ PaymentNext
  BY <1>5, <1>6, <1>7, <1>8, <1>9, <1>10, <1>11, <1>12, <1>13, <1>14, <1>18
  DEF SaleNext, ConfirmReadsClock, ConfirmAborts, PaymentNext
<1>19. CASE JobNext
  BY <1>5, <1>15, <1>19
  DEF JobNext, CountExpired, WorkerDies, ReconOnly, ReconReadRows, ReconReadSold,
      ReconReadReserved, ReconRepair
<1>20. CASE CatalogueNext \/ UNCHANGED vars
  BY <1>5, <1>20 DEF CatalogueNext, UpdateTicketType, CatalogueOnly, vars
<1> QED
  BY <1>16, <1>17, <1>18, <1>19, <1>20 DEF Next, BookingNext

\* The types and this part of the invariant, together.
LEMMA HoldAlways == Spec => [](TypeOK /\ HoldInv)
<1>1. Init => TypeOK /\ HoldInv
  BY HoldInit, ConstantsAssumption DEF Init, TypeOK, Counters, ReconStates, ReconIdle
<1>2. TypeOK /\ HoldInv /\ [Next]_vars => (TypeOK /\ HoldInv)'
  BY TypeStep, HoldStep
<1> QED
  BY <1>1, <1>2, PTL DEF Spec

\* In every reachable state the converted_at and released_at stamps of a
\* reservation agree with its status, so that no live hold escapes the availability
\* sum or the expiry worker.
THEOREM StampsAlwaysAgree == Spec => []StampsAgree
<1>1. HoldInv => StampsAgree
  BY DEF HoldInv
<1> QED
  BY <1>1, HoldAlways, PTL

\* Whichever handler cancels, expires, refunds or deletes an order, and whatever
\* runs beside it, the order keeps no live hold, and nothing booked if it was
\* cancelled or expired.
THEOREM EndedOrdersNeverHold == Spec => []EndedOrdersHoldNothing
<1>1. HoldInv => EndedOrdersHoldNothing
  BY DEF HoldInv
<1> QED
  BY <1>1, HoldAlways, PTL

-----------------------------------------------------------------------------
\* Check-ins.

\* No status an order passes on to its tickets undoes a check-in: the transition
\* check makes the whole transaction fail instead.
LEMMA CheckInKept ==
  ASSUME TypeOK, NEW o \in Orders, NEW s \in OrderStatus, NEW k \in Tickets,
         ApplyTicketStatus(o, s) \/ IssueTickets(o), ticket[k] = "checked_in"
  PROVE  ticket'[k] = "checked_in"
<1>1. \A to : TicketMayMove("checked_in", to) => to = "checked_in"
  BY DEF TicketMayMove, TicketSuccessors
<1> QED
  BY <1>1 DEF ApplyTicketStatus, IssueTickets, TypeOK

\* A ticket that was checked in stays checked in, whatever refunds, cancellations,
\* deletions or late payments its order goes through.
THEOREM CheckInsAreFinal == Spec => CheckInIsFinal
<1> DEFINE Kept == \A k \in Tickets : ticket[k] = "checked_in" => ticket'[k] = "checked_in"
<1>1. ASSUME TypeOK, [Next]_vars
      PROVE  Kept
  <2>1. SUFFICES ASSUME NEW k \in Tickets, ticket[k] = "checked_in"
                 PROVE  ticket'[k] = "checked_in"
    OBVIOUS
  <2>2. CASE OrderNext
    <3>1. ASSUME NEW o \in Orders, NEW status \in {"draft", "pending", "confirmed"},
                 CreateOrder(o, status)
          PROVE  ticket'[k] = "checked_in"
      BY <1>1, <2>1, <3>1 DEF CreateOrder, IssueTickets, TypeOK
    <3>2. ASSUME NEW o \in Orders, NEW next \in OrderStatus,
                 UpdateOrder(o, next) \/ DeleteOrder(o)
          PROVE  ticket'[k] = "checked_in"
      <4>1. "cancelled" \in OrderStatus
        BY DEF OrderStatus
      <4> QED
        BY <1>1, <2>1, <3>2, <4>1, CheckInKept
        DEF UpdateOrder, DeleteOrder, orderVars, holdVars, cacheVars
    <3> QED
      BY <2>1, <2>2, <3>1, <3>2 DEF OrderNext, HoldLapses, OrderStatus
  <2>3. CASE TicketNext
    <3>1. ASSUME NEW o \in Orders,
                 AssignReadsOrder(o) \/ AssignIssuesTickets(o) \/ AssignAborts(o)
          PROVE  ticket'[k] = "checked_in"
      BY <1>1, <2>1, <3>1
      DEF AssignReadsOrder, AssignIssuesTickets, AssignAborts, IssueTickets, TypeOK
    <3>2. ASSUME NEW j \in Tickets, NEW next \in TicketStatus,
                 CheckIn(j) \/ UpdateTicket(j, next) \/ DeleteTicket(j)
          PROVE  ticket'[k] = "checked_in"
      BY <1>1, <2>1, <3>2 DEF CheckIn, UpdateTicket, DeleteTicket, TicketSuccessors, TypeOK
    <3> QED
      BY <2>3, <3>1, <3>2 DEF TicketNext, TicketStatus
  <2>4. CASE SaleNext \/ PaymentNext
    <3>1. ASSUME NEW o \in Orders, PayWithCoins(o) \/ ConfirmPayment(o)
          PROVE  ticket'[k] = "checked_in"
      BY <1>1, <2>1, <3>1 DEF PayWithCoins, ConfirmPayment, IssueTickets, TypeOK
    <3>2. ASSUME NEW o \in Orders, NEW status \in {"refunded", "partially_refunded"},
                 Refund(o, status)
          PROVE  ticket'[k] = "checked_in"
      <4>1. status \in OrderStatus
        BY DEF OrderStatus
      <4> QED
        BY <1>1, <2>1, <3>2, <4>1, CheckInKept DEF Refund
    <3> QED
      BY <2>1, <2>4, <3>1, <3>2
      DEF SaleNext, ConfirmReadsClock, ConfirmAborts, PaymentNext, OpenCheckout,
          AbandonCheckout, CreatePaymentOrder,
          ConfirmLatePayment, LateRefund, LateRefundLost, FailureReadsOrder,
          FailureCancelsOrder, FailureAborts
  <2>5. CASE JobNext
    BY <2>1, <2>5
    DEF JobNext, ExpireHold, CountExpired, WorkerDies, ReconOnly, ReconReadRows,
        ReconReadSold, ReconReadReserved, ReconRepair
  <2>6. CASE CatalogueNext \/ UNCHANGED vars
    BY <2>1, <2>6 DEF CatalogueNext, UpdateTicketType, CatalogueOnly, vars
  <2> QED
    BY <1>1, <2>2, <2>3, <2>4, <2>5, <2>6 DEF Next, BookingNext
<1>2. TypeOK /\ [Next]_vars => [Kept]_vars
  BY <1>1
<1> QED
  BY <1>2, TypeCorrect, PTL DEF Spec, CheckInIsFinal
=============================================================================
