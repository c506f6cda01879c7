---------------------------- MODULE CountersProofs ----------------------------
(***************************************************************************)
(* The cached counters of the ticket types err on the safe side, and so no *)
(* change of a total oversells a type or breaks the promise of TicketPool: *)
(* proved for every instance in which requests make no sales, overwrite no *)
(* counter, and no repair runs.                                            *)
(***************************************************************************)
EXTENDS NoOversellProofs

\* The items the cached reserved_quantity has to cover.
Counted == {i \in Items : Holding(i) \/ i \in uncounted}

\* The worker has not lowered the counter for these yet: nothing revives them.
UncountedAreSpent ==
  \A i \in uncounted : reservation[i] \in ReleasedStatus \cup {"refund_pending", "refunded"}

\* A coin checkout that can still go through works on an order that is not sold.
CoinsBuyUnsold ==
  \A o \in Orders :
    <<o, "coins">> \in checkout /\ payOrder[o] = "none" => order[o] \notin SoldOrder

CounterInv ==
  /\ recon = ReconIdle
  /\ UncountedAreSpent
  /\ CoinsBuyUnsold

-----------------------------------------------------------------------------
\* Quantities.

\* Items that are among those of T and of R are for no more than both quantities.
LEMMA QuantityUnion ==
  ASSUME NEW S, NEW T, NEW R, NEW t, S \subseteq T \cup R
  PROVE  Quantity(S, t) <= Quantity(T, t) + Quantity(R, t)
<1> DEFINE For(X) == {k \in Tickets : TicketItem[k] \in X /\ TypeOf(k) = t}
<1>1. /\ For(S) \in SUBSET Tickets /\ For(T) \in SUBSET Tickets /\ For(R) \in SUBSET Tickets
      /\ For(T) \cup For(R) \in SUBSET Tickets /\ For(T) \cap For(R) \in SUBSET Tickets
      /\ For(S) \subseteq For(T) \cup For(R)
  OBVIOUS
<1> HIDE DEF For
<1>2. Cardinality(For(S)) <= Cardinality(For(T) \cup For(R))
  BY <1>1, TicketSetSize, FS_Subset
<1>3. Cardinality(For(T) \cup For(R))
        = Cardinality(For(T)) + Cardinality(For(R)) - Cardinality(For(T) \cap For(R))
  BY <1>1, TicketSetSize, FS_Union
<1>4. Cardinality(For(S)) <= Cardinality(For(T)) + Cardinality(For(R))
  BY <1>1, <1>2, <1>3, TicketSetSize
<1> QED
  BY <1>4 DEF Quantity, For

\* Disjoint parts of a set of items are for no more than the whole.
LEMMA QuantityParts ==
  ASSUME NEW S, NEW T, NEW R, NEW t, T \cup R \subseteq S, T \cap R = {}
  PROVE  Quantity(T, t) + Quantity(R, t) <= Quantity(S, t)
<1> DEFINE For(X) == {k \in Tickets : TicketItem[k] \in X /\ TypeOf(k) = t}
<1>1. /\ For(S) \in SUBSET Tickets /\ For(T) \in SUBSET Tickets /\ For(R) \in SUBSET Tickets
      /\ For(T) \cup For(R) \in SUBSET Tickets
      /\ For(T) \cup For(R) \subseteq For(S)
      /\ For(T) \cap For(R) = {}
  OBVIOUS
<1> HIDE DEF For
<1>2. Cardinality(For(T) \cup For(R)) <= Cardinality(For(S))
  BY <1>1, TicketSetSize, FS_Subset
<1>3. Cardinality(For(T) \cup For(R)) = Cardinality(For(T)) + Cardinality(For(R))
  <2>1. Cardinality(For(T) \cup For(R))
          = Cardinality(For(T)) + Cardinality(For(R)) - Cardinality(For(T) \cap For(R))
    BY <1>1, TicketSetSize, FS_Union
  <2>2. Cardinality(For(T) \cap For(R)) = 0
    BY <1>1, FS_EmptySet
  <2> QED
    BY <1>1, <2>1, <2>2, TicketSetSize
<1>4. Cardinality(For(T)) + Cardinality(For(R)) <= Cardinality(For(S))
  BY <1>2, <1>3
<1> QED
  BY <1>4 DEF Quantity, For

\* Lowering the counter by items that cease to count keeps it above those that do.
LEMMA LoweredCovers ==
  ASSUME TypeOK, TypeOK', NEW t \in TicketTypes, NEW S,
         reserved[t] >= Quantity(Counted, t),
         reserved' = Lowered(reserved, S), S \subseteq Counted, Counted' \subseteq Counted \ S
  PROVE  reserved'[t] >= Quantity(Counted', t)
<1>1. Quantity(Counted', t) + Quantity(S, t) <= Quantity(Counted, t)
  BY QuantityParts
<1>2. /\ Quantity(Counted', t) \in Nat /\ Quantity(S, t) \in Nat
      /\ Quantity(Counted, t) \in Nat /\ reserved[t] \in Nat
  BY QuantityNat DEF TypeOK, Counters
<1>3. reserved'[t] = Floor0(reserved[t] - Quantity(S, t))
  BY DEF Lowered
<1> QED
  BY <1>1, <1>2, <1>3 DEF Floor0

\* Raising it by the items that begin to count does, too.
LEMMA RaisedCovers ==
  ASSUME TypeOK, NEW t \in TicketTypes, NEW S,
         reserved[t] >= Quantity(Counted, t),
         reserved' = Raised(reserved, S), Counted' \subseteq Counted \cup S
  PROVE  reserved'[t] >= Quantity(Counted', t)
<1>1. Quantity(Counted', t) <= Quantity(Counted, t) + Quantity(S, t)
  BY QuantityUnion
<1>2. /\ Quantity(Counted', t) \in Nat /\ Quantity(S, t) \in Nat
      /\ Quantity(Counted, t) \in Nat /\ reserved[t] \in Nat
  BY QuantityNat DEF TypeOK, Counters
<1>3. reserved'[t] = reserved[t] + Quantity(S, t)
  BY DEF Raised
<1> QED
  BY <1>1, <1>2, <1>3

\* A counter that stays covers what has become no more.
LEMMA KeptCovers ==
  ASSUME TypeOK, NEW t \in TicketTypes, reserved[t] >= Quantity(Counted, t),
         reserved' = reserved, Counted' \subseteq Counted
  PROVE  reserved'[t] >= Quantity(Counted', t)
<1>1. Quantity(Counted', t) <= Quantity(Counted, t) + Quantity({}, t)
  BY QuantityUnion
<1>2. Quantity({}, t) = 0
  BY FS_EmptySet DEF Quantity
<1>3. Quantity(Counted', t) \in Nat /\ Quantity(Counted, t) \in Nat /\ reserved[t] \in Nat
  BY QuantityNat DEF TypeOK, Counters
<1> QED
  BY <1>1, <1>2, <1>3

-----------------------------------------------------------------------------
\* The invariant behind it.

\* What the worker has expired is not revived: releases and conversions leave spent
\* reservations alone, and a payment in time needs live ones.
LEMMA UncountedStep ==
  ASSUME TypeOK, HoldInv, UncountedAreSpent, [Next]_vars
  PROVE  UncountedAreSpent'
<1> USE DEF orderVars, holdVars, cacheVars, paymentJobs
<1> DEFINE Spent == ReleasedStatus \cup {"refund_pending", "refunded"}
<1>a. \A i \in uncounted : i \in Items /\ reservation[i] \in Spent
  BY DEF UncountedAreSpent, TypeOK
<1>b. ASSUME uncounted' \subseteq uncounted,
             \A i \in Items : reservation[i] \in Spent => reservation'[i] \in Spent
      PROVE  UncountedAreSpent'
  BY <1>a, <1>b DEF UncountedAreSpent
<1>c. ASSUME NEW o \in Orders, ReleaseHolds(o)
      PROVE  \A i \in Items : reservation[i] \in Spent => reservation'[i] \in Spent
  BY <1>c, ReleaseEffect DEF ReleasedStatus
<1>1. ASSUME NEW o \in Orders, NEW status \in {"draft", "pending", "confirmed"},
             CreateOrder(o, status)
      PROVE  UncountedAreSpent'
  <2>1. \A i \in ItemsOf(o) : reservation[i] = "none"
    BY <1>1 DEF CreateOrder, HoldInv, ItemsExist, ItemsOf
  <2>2. \A i \in Items : reservation[i] \in Spent => reservation'[i] \in Spent
    BY <1>1, <2>1 DEF CreateOrder, TypeOK, ReleasedStatus
  <2> QED
    BY <1>1, <1>b, <2>2 DEF CreateOrder
<1>2. ASSUME NEW o \in Orders, NEW next \in OrderStatus, UpdateOrder(o, next)
      PROVE  UncountedAreSpent'
  <2>1. CASE ConvertHolds(o)
    BY <1>2, <1>b, <2>1, ConvertEffect DEF UpdateOrder, ReleasedStatus
  <2>2. CASE ReleaseHolds(o) \/ UNCHANGED holdVars
    BY <1>2, <1>b, <1>c, <2>2 DEF UpdateOrder
  <2> QED
    BY <1>2, <2>1, <2>2 DEF UpdateOrder
<1>3. ASSUME NEW o \in Orders,
             \/ DeleteOrder(o) \/ FailureCancelsOrder(o)
             \/ \E status \in {"refunded", "partially_refunded"} : Refund(o, status)
      PROVE  UncountedAreSpent'
  BY <1>3, <1>b, <1>c DEF DeleteOrder, FailureCancelsOrder, Refund
<1>4. ASSUME NEW o \in Orders, PayWithCoins(o)
      PROVE  UncountedAreSpent'
  BY <1>4, <1>b, BookEffect DEF PayWithCoins, ItemsOf
<1>5. ASSUME NEW o \in Orders, ConfirmPayment(o)
      PROVE  UncountedAreSpent'
  <2>1. \A i \in Items : ItemOrder[i] = o => reservation[i] \notin Spent
    BY <1>5, ReservationMoves DEF ConfirmPayment, ItemsOf, TypeOK, ReleasedStatus
  <2> QED
    BY <1>5, <1>b, <2>1, BookEffect DEF ConfirmPayment
<1>6. ASSUME NEW o \in Orders,
             \/ ConfirmLatePayment(o)
             \/ \E outcome \in {"refunded", "failed"} : LateRefund(o, outcome)
      PROVE  UncountedAreSpent'
  BY <1>6, <1>b DEF ConfirmLatePayment, LateRefund, TypeOK, ReleasedStatus
<1>7. ASSUME NEW i \in Items, ExpireHold(i)
      PROVE  UncountedAreSpent'
  BY <1>7, <1>a DEF ExpireHold, TypeOK, UncountedAreSpent, ReleasedStatus
<1>8. ASSUME UNCHANGED reservation, uncounted' \subseteq uncounted
      PROVE  UncountedAreSpent'
  BY <1>8 DEF UncountedAreSpent
<1>9. CASE OrderNext
  BY <1>1, <1>2, <1>3, <1>8, <1>9 DEF OrderNext, HoldLapses
<1>10. CASE TicketNext
  BY <1>8, <1>10
  DEF TicketNext, AssignReadsOrder, AssignIssuesTickets, AssignAborts, CheckIn,
      UpdateTicket, DeleteTicket, TicketsOnly
<1>11. CASE SaleNext \/ PaymentNext
  BY <1>3, <1>4, <1>5, <1>6, <1>8, <1>11
  DEF SaleNext, ConfirmReadsClock, ConfirmAborts, PaymentNext, OpenCheckout,
      AbandonCheckout, CreatePaymentOrder, LateRefundLost,
      FailureReadsOrder, FailureAborts
<1>12. CASE JobNext
  BY <1>7, <1>8, <1>12
  DEF JobNext, CountExpired, WorkerDies, ReconOnly, ReconReadRows, ReconReadSold,
      ReconReadReserved, ReconRepair
<1>13. CASE CatalogueNext \/ UNCHANGED vars
  BY <1>8, <1>13 DEF CatalogueNext, UpdateTicketType, CatalogueOnly, vars
<1> QED
  BY <1>9, <1>10, <1>11, <1>12, <1>13 DEF Next, BookingNext

\* Only a payment sells an order, and it takes the order's one payment row.
LEMMA CoinsStep ==
  ASSUME SafeStaffMoves, TypeOK, HoldInv, CoinsBuyUnsold, [Next]_vars
  PROVE  CoinsBuyUnsold'
<1> USE DEF orderVars, holdVars, cacheVars, paymentJobs, CoinsBuyUnsold
<1>a. ASSUME \A o \in Orders :
               /\ <<o, "coins">> \in checkout' => <<o, "coins">> \in checkout
               /\ payOrder'[o] = payOrder[o]
               /\ order'[o] \in SoldOrder => order[o] \in SoldOrder
      PROVE  CoinsBuyUnsold'
  BY <1>a
<1>1. ASSUME NEW o \in Orders, NEW status \in {"draft", "pending", "confirmed"},
             CreateOrder(o, status)
      PROVE  CoinsBuyUnsold'
  BY <1>1 DEF CreateOrder, SetOrder, TypeOK, HoldInv, Existence
<1>2. ASSUME NEW o \in Orders, NEW next \in OrderStatus, UpdateOrder(o, next)
      PROVE  CoinsBuyUnsold'
  BY <1>2, <1>a DEF UpdateOrder, SetOrder, SafeStaffMoves, TypeOK
<1>3. ASSUME NEW o \in Orders,
             \/ DeleteOrder(o) \/ FailureCancelsOrder(o) \/ ConfirmLatePayment(o)
             \/ \E status \in {"refunded", "partially_refunded"} : Refund(o, status)
      PROVE  CoinsBuyUnsold'
  BY <1>3, <1>a
  DEF DeleteOrder, FailureCancelsOrder, ConfirmLatePayment, Refund, SetOrder, TypeOK,
      SoldOrder
<1>4. ASSUME NEW o \in Orders, PayWithCoins(o) \/ ConfirmPayment(o)
      PROVE  CoinsBuyUnsold'
  BY <1>4 DEF PayWithCoins, ConfirmPayment, SetOrder, TypeOK
<1>5. ASSUME NEW o \in Orders, CreatePaymentOrder(o)
      PROVE  CoinsBuyUnsold'
  BY <1>5 DEF CreatePaymentOrder, TypeOK
<1>6. ASSUME NEW o \in Orders, NEW method \in {"razorpay", "coins"}, OpenCheckout(o, method)
      PROVE  CoinsBuyUnsold'
  BY <1>6 DEF OpenCheckout, TypeOK, SoldOrder
<1>7. ASSUME UNCHANGED <<order, payOrder>>, checkout' \subseteq checkout
      PROVE  CoinsBuyUnsold'
  BY <1>7
<1>8. CASE OrderNext
  BY <1>1, <1>2, <1>3, <1>7, <1>8 DEF OrderNext, HoldLapses
<1>9. CASE TicketNext
  BY <1>7, <1>9
  DEF TicketNext, AssignReadsOrder, AssignIssuesTickets, AssignAborts, CheckIn,
      UpdateTicket, DeleteTicket, TicketsOnly
<1>10. CASE SaleNext \/ PaymentNext
  BY <1>3, <1>4, <1>5, <1>6, <1>7, <1>10
  DEF SaleNext, ConfirmReadsClock, ConfirmAborts, PaymentNext, AbandonCheckout,
      LateRefund, LateRefundLost, FailureReadsOrder, FailureAborts
<1>11. CASE JobNext
  BY <1>7, <1>11
  DEF JobNext, ExpireHold, CountExpired, WorkerDies, ReconOnly, ReconReadRows,
      ReconReadSold,
      ReconReadReserved, ReconRepair
<1>12. CASE CatalogueNext \/ UNCHANGED vars
  BY <1>7, <1>12 DEF CatalogueNext, UpdateTicketType, CatalogueOnly, vars
<1> QED
  BY <1>8, <1>9, <1>10, <1>11, <1>12 DEF Next, BookingNext

\* A reconciler that is not scheduled stays where it is.
LEMMA ReconStep ==
  ASSUME ~ Reconciles, recon = ReconIdle, [Next]_vars
  PROVE  recon' = ReconIdle
<1>1. recon.pc = "idle"
  BY DEF ReconIdle
<1>2. ASSUME ReconReadRows \/ ReconReadSold \/ ReconReadReserved
               \/ \E t \in TicketTypes : ReconRepair(t)
      PROVE  FALSE
  BY <1>1, <1>2 DEF ReconReadRows, ReconReadSold, ReconReadReserved, ReconRepair
<1>3. CASE OrderNext \/ TicketNext
  BY <1>3
  DEF OrderNext, CreateOrder, HoldLapses, UpdateOrder, DeleteOrder,
      TicketNext, AssignReadsOrder, AssignIssuesTickets, AssignAborts, CheckIn,
      UpdateTicket, DeleteTicket, TicketsOnly
<1>4. CASE SaleNext \/ PaymentNext
  BY <1>4
  DEF SaleNext, ConfirmReadsClock, ConfirmAborts, PaymentNext, OpenCheckout,
      AbandonCheckout, CreatePaymentOrder, PayWithCoins,
      ConfirmPayment, ConfirmLatePayment, LateRefund, LateRefundLost, FailureReadsOrder,
      FailureCancelsOrder, FailureAborts, Refund
<1>5. CASE JobNext
  BY <1>2, <1>5 DEF JobNext, ExpireHold, CountExpired, WorkerDies
<1>6. CASE CatalogueNext \/ UNCHANGED vars
  BY <1>6 DEF CatalogueNext, UpdateTicketType, CatalogueOnly, vars
<1> QED
  BY <1>3, <1>4, <1>5, <1>6 DEF Next, BookingNext

\* A request that names no cached counter changes one type's total and no more, and
\* never to less than the counters say.
LEMMA TotalEffect ==
  ASSUME TypeOK, CounterEdits = {}, CatalogueNext
  PROVE  /\ UNCHANGED <<order, deleted, reservation, convertedAt, releasedAt, lapsed,
                        uncounted, sold, reserved>>
         /\ \E t \in TicketTypes, n \in Nat :
              total' = [total EXCEPT ![t] = n] /\ sold[t] + reserved[t] <= n
<1>1. PICK t \in TicketTypes :
        \E m \in Totals \cup {total[t]} : UpdateTicketType(t, m, sold[t], reserved[t])
  BY DEF CatalogueNext
<1>2. PICK n \in Totals \cup {total[t]} : UpdateTicketType(t, n, sold[t], reserved[t])
  BY <1>1
<1>3. n \in Nat
  BY ConstantsAssumption DEF ConstantsAssumption, TypeOK, Counters
<1> QED
  BY <1>2, <1>3 DEF UpdateTicketType, CatalogueOnly, orderVars, holdVars, TypeOK, Counters

-----------------------------------------------------------------------------
\* What is held is covered.

\* Releasing an order's holds lowers the counter by what it held.
LEMMA ReleaseCovers ==
  ASSUME TypeOK, TypeOK', UncountedAreSpent, NEW o \in Orders, ReleaseHolds(o),
         UNCHANGED uncounted, NEW t \in TicketTypes, reserved[t] >= Quantity(Counted, t)
  PROVE  reserved'[t] >= Quantity(Counted', t)
<1> DEFINE moved == {i \in ItemsOf(o) : reservation[i] \notin ReleasedStatus}
           S == {i \in moved : Holding(i)}
<1>1. reserved' = Lowered(reserved, S)
  BY DEF ReleaseHolds
<1>2. S \subseteq Counted
  BY DEF Counted, ItemsOf
<1>3. ASSUME NEW i \in Items, i \in Counted'
      PROVE  i \in Counted \ S
  <2>1. CASE i \in uncounted
    BY <2>1 DEF Counted, UncountedAreSpent, Holding, HoldingStatus, ReleasedStatus
  <2>2. CASE i \notin uncounted
    <3>1. Holding(i)'
      BY <1>3, <2>2 DEF Counted
    <3>2. ItemOrder[i] # o /\ reservation'[i] = reservation[i]
      BY <3>1, ReleaseEffect DEF Holding, HoldingStatus, ReleasedStatus
    <3> QED
      BY <3>1, <3>2 DEF Counted, Holding, ItemsOf
  <2> QED
    BY <2>1, <2>2
<1>4. Counted' \subseteq Counted \ S
  BY <1>3 DEF Counted
<1> HIDE DEF S
<1> QED
  BY <1>1, <1>2, <1>4, LoweredCovers

\* Booking or converting live holds lowers it by these.
LEMMA ConvertCovers ==
  ASSUME TypeOK, TypeOK', UncountedAreSpent, NEW S \in SUBSET Items,
         NEW status \in {"booked", "converted"}, ConvertItems(S, status),
         \A i \in S : Holding(i),
         UNCHANGED uncounted, NEW t \in TicketTypes, reserved[t] >= Quantity(Counted, t)
  PROVE  reserved'[t] >= Quantity(Counted', t)
<1>1. reserved' = Lowered(reserved, S) /\ S \subseteq Counted
  BY DEF ConvertItems, Counted
<1>2. ASSUME NEW i \in Items, i \in Counted'
      PROVE  i \in Counted \ S
  <2>1. i \in S => ~ Holding(i)' /\ i \notin uncounted
    BY DEF ConvertItems, TypeOK, Holding, HoldingStatus, UncountedAreSpent, ReleasedStatus
  <2>2. i \notin S => reservation'[i] = reservation[i]
    BY DEF ConvertItems, TypeOK
  <2> QED
    BY <1>2, <2>1, <2>2 DEF Counted, Holding
<1>3. Counted' \subseteq Counted \ S
  BY <1>2 DEF Counted
<1> QED
  BY <1>1, <1>3, LoweredCovers

\* Every step leaves reserved_quantity above what is held or being expired.
LEMMA ReservedCovers ==
  ASSUME SafeStaffMoves, CounterEdits = {}, TypeOK, HoldInv, SaleInv, CounterInv,
         [Next]_vars, NEW t \in TicketTypes, reserved[t] >= Quantity(Counted, t)
  PROVE  reserved'[t] >= Quantity(Counted', t)
<1> USE DEF orderVars, holdVars, cacheVars, paymentJobs
<1>a. TypeOK' /\ UncountedAreSpent
  BY TypeStep DEF CounterInv
<1>b. ASSUME UNCHANGED reserved, uncounted' \subseteq uncounted,
             \A i \in Items : Holding(i)' => Holding(i)
      PROVE  reserved'[t] >= Quantity(Counted', t)
  BY <1>b, KeptCovers DEF Counted
<1>1. ASSUME NEW o \in Orders, NEW status \in {"draft", "pending", "confirmed"},
             CreateOrder(o, status)
      PROVE  reserved'[t] >= Quantity(Counted', t)
  <2>1. CASE status = "confirmed"
    BY <1>1, <1>b, <2>1 DEF CreateOrder, TypeOK, Holding, HoldingStatus
  <2>2. CASE status # "confirmed"
    <3>1. reserved' = Raised(reserved, ItemsOf(o))
      BY <1>1, <2>2 DEF CreateOrder
    <3>2. Counted' \subseteq Counted \cup ItemsOf(o)
      BY <1>1, <2>2 DEF CreateOrder, TypeOK, Counted, Holding
    <3> QED
      BY <3>1, <3>2, RaisedCovers
  <2> QED
    BY <2>1, <2>2
<1>2. ASSUME NEW o \in Orders, NEW next \in OrderStatus, UpdateOrder(o, next)
      PROVE  reserved'[t] >= Quantity(Counted', t)
  <2>1. CASE ReleaseHolds(o)
    BY <1>2, <1>a, <2>1, ReleaseCovers DEF UpdateOrder
  <2>2. CASE ConvertHolds(o)
    <3> DEFINE moved == {i \in ItemsOf(o) : reservation[i] \notin {"converted", "booked"}}
    <3>1. \A i \in moved : Holding(i)
      BY <2>2, ConvertEffect DEF ItemsOf, Holding, HoldingStatus
    <3>2. moved \in SUBSET Items /\ ConvertItems(moved, "converted")
      BY <2>2 DEF ConvertHolds, ItemsOf
    <3> HIDE DEF moved
    <3> QED
      BY <1>2, <1>a, <3>1, <3>2, ConvertCovers DEF UpdateOrder
  <2>3. CASE UNCHANGED <<holdVars, cacheVars>>
    BY <1>2, <1>b, <2>3 DEF UpdateOrder, Holding
  <2> QED
    BY <1>2, <2>1, <2>2, <2>3 DEF UpdateOrder
<1>3. ASSUME NEW o \in Orders,
             \/ DeleteOrder(o) \/ FailureCancelsOrder(o)
             \/ \E status \in {"refunded", "partially_refunded"} : Refund(o, status)
      PROVE  reserved'[t] >= Quantity(Counted', t)
  <2>1. UNCHANGED uncounted /\ (ReleaseHolds(o) \/ UNCHANGED <<holdVars, cacheVars>>)
    BY <1>3 DEF DeleteOrder, FailureCancelsOrder, Refund
  <2>2. CASE ReleaseHolds(o)
    BY <1>a, <2>1, <2>2, ReleaseCovers
  <2>3. CASE UNCHANGED <<holdVars, cacheVars>>
    BY <1>b, <2>1, <2>3 DEF Holding
  <2> QED
    BY <2>1, <2>2, <2>3
<1>4. ASSUME NEW o \in Orders, PayWithCoins(o)
      PROVE  reserved'[t] >= Quantity(Counted', t)
  <2>1. \A i \in ItemsOf(o) : Holding(i)
    <3>1. ASSUME NEW i \in Items, ItemOrder[i] = o
          PROVE  Holding(i)
      <4>1. order[o] \notin SoldOrder /\ order[o] # "none" /\ payOrder[o] = "none"
        BY <1>4 DEF PayWithCoins, CounterInv, CoinsBuyUnsold, HoldInv, Existence
      <4>2. reservation[i] \notin {"none", "booked", "converted"}
        BY <3>1, <4>1 DEF HoldInv, ItemsExist, SaleInv, BookedIsPaid
      <4>3. reservation[i] \notin ReleasedStatus \cup {"refund_pending", "refunded"}
        BY <1>4, <3>1 DEF PayWithCoins, ItemsOf
      <4>4. reservation[i] \in ReservationStatus \cup {"none"}
        BY DEF TypeOK
      <4> QED
        BY <4>2, <4>3, <4>4 DEF ReservationStatus, ReleasedStatus, Holding, HoldingStatus
    <3> QED
      BY <3>1 DEF ItemsOf
  <2>2. ItemsOf(o) \in SUBSET Items
    BY DEF ItemsOf
  <2> QED
    BY <1>4, <1>a, <2>1, <2>2, ConvertCovers DEF PayWithCoins
<1>5. ASSUME NEW o \in Orders, ConfirmPayment(o)
      PROVE  reserved'[t] >= Quantity(Counted', t)
  <2>1. \A i \in ItemsOf(o) : Holding(i)
    BY <1>5, ReservationMoves DEF ConfirmPayment, ItemsOf, TypeOK, Holding, HoldingStatus
  <2>2. ItemsOf(o) \in SUBSET Items
    BY DEF ItemsOf
  <2> QED
    BY <1>5, <1>a, <2>1, <2>2, ConvertCovers DEF ConfirmPayment
<1>6. ASSUME NEW o \in Orders,
             \/ ConfirmLatePayment(o)
             \/ \E outcome \in {"refunded", "failed"} : LateRefund(o, outcome)
      PROVE  reserved'[t] >= Quantity(Counted', t)
  BY <1>6, <1>b DEF ConfirmLatePayment, LateRefund, TypeOK, Holding, HoldingStatus
<1>7. ASSUME NEW i \in Items, ExpireHold(i)
      PROVE  reserved'[t] >= Quantity(Counted', t)
  <2>1. Holding(i)
    BY <1>7 DEF ExpireHold, ExpirableStatus, Holding
  <2>2. Counted' \subseteq Counted
    BY <1>7, <2>1 DEF ExpireHold, TypeOK, Counted, Holding, HoldingStatus
  <2> QED
    BY <1>7, <2>2, KeptCovers DEF ExpireHold
<1>8. ASSUME NEW i \in Items, CountExpired(i)
      PROVE  reserved'[t] >= Quantity(Counted', t)
  <2>1. {i} \subseteq Counted /\ Counted' \subseteq Counted \ {i}
    BY <1>8, <1>a
    DEF CountExpired, Counted, UncountedAreSpent, Holding, HoldingStatus, ReleasedStatus
  <2> QED
    BY <1>8, <1>a, <2>1, LoweredCovers DEF CountExpired
<1>9. ASSUME UNCHANGED <<reservation, reserved>>, uncounted' \subseteq uncounted
      PROVE  reserved'[t] >= Quantity(Counted', t)
  BY <1>9, <1>b DEF Holding
<1>10. CASE OrderNext
  BY <1>1, <1>2, <1>3, <1>9, <1>10 DEF OrderNext, HoldLapses
<1>11. CASE TicketNext
  BY <1>9, <1>11
  DEF TicketNext, AssignReadsOrder, AssignIssuesTickets, AssignAborts, CheckIn,
      UpdateTicket, DeleteTicket, TicketsOnly
<1>12. CASE SaleNext \/ PaymentNext
  BY <1>3, <1>4, <1>5, <1>6, <1>9, <1>12
  DEF SaleNext, ConfirmReadsClock, ConfirmAborts, PaymentNext, OpenCheckout,
      AbandonCheckout, CreatePaymentOrder, LateRefundLost,
      FailureReadsOrder, FailureAborts
<1>13. CASE JobNext
  <2>1. ASSUME NEW u \in TicketTypes
        PROVE  ~ ReconRepair(u)
    BY DEF ReconRepair, CounterInv, ReconIdle
  <2> QED
    BY <1>7, <1>8, <1>9, <1>13, <2>1
    DEF JobNext, WorkerDies, ReconOnly, ReconReadRows, ReconReadSold, ReconReadReserved
<1>14. CASE CatalogueNext
  BY <1>9, <1>14, TotalEffect
<1>15. CASE UNCHANGED vars
  BY <1>9, <1>15 DEF vars
<1> QED
  BY <1>10, <1>11, <1>12, <1>13, <1>14, <1>15 DEF Next, BookingNext

-----------------------------------------------------------------------------
\* What is sold is covered.

Sells(i) == ItemOrder[i] \notin deleted /\ order[ItemOrder[i]] \in SoldOrder
Sellers == {i \in Items : Sells(i)}

\* The sold tickets of a type are those of the items that sell.
LEMMA SoldIsQuantity ==
  ASSUME NEW t \in TicketTypes
  PROVE  Cardinality(SoldTickets(t)) = Quantity(Sellers, t)
<1>1. SoldTickets(t) = {k \in Tickets : TicketItem[k] \in Sellers /\ TypeOf(k) = t}
  BY Owners DEF SoldTickets, Sellers, Sells, OrderOf
<1> QED
  BY <1>1 DEF Quantity

\* sold_quantity is only raised, and by at least what a step begins to sell.
LEMMA SoldCovers ==
  ASSUME SafeStaffMoves, CounterEdits = {}, TypeOK, HoldInv, SaleInv, CounterInv,
         [Next]_vars, NEW t \in TicketTypes, sold[t] >= Quantity(Sellers, t)
  PROVE  sold'[t] >= Quantity(Sellers', t)
<1> USE DEF orderVars, holdVars, cacheVars, paymentJobs
<1>a. ASSUME NEW S, sold' = Raised(sold, S), Sellers' \subseteq Sellers \cup S
      PROVE  sold'[t] >= Quantity(Sellers', t)
  <2>1. Quantity(Sellers', t) <= Quantity(Sellers, t) + Quantity(S, t)
    BY <1>a, QuantityUnion
  <2>2. /\ Quantity(Sellers', t) \in Nat /\ Quantity(S, t) \in Nat
        /\ Quantity(Sellers, t) \in Nat /\ sold[t] \in Nat
    BY QuantityNat DEF TypeOK, Counters
  <2>3. sold'[t] = sold[t] + Quantity(S, t)
    BY <1>a DEF Raised
  <2> QED
    BY <2>1, <2>2, <2>3
<1>b. ASSUME UNCHANGED sold, \A i \in Items : Sells(i)' => Sells(i)
      PROVE  sold'[t] >= Quantity(Sellers', t)
  <2>1. Quantity({}, t) = 0
    BY FS_EmptySet DEF Quantity
  <2>2. \A u \in TicketTypes : Quantity({}, u) = 0
    BY FS_EmptySet DEF Quantity
  <2>3. sold' = Raised(sold, {})
    BY <1>b, <2>2 DEF Raised, TypeOK, Counters
  <2> QED
    BY <1>a, <1>b, <2>3 DEF Sellers
<1>c. ASSUME NEW o \in Orders, ReleaseHolds(o)
      PROVE  UNCHANGED sold
  BY <1>c DEF ReleaseHolds
<1>1. ASSUME NEW o \in Orders, NEW status \in {"draft", "pending", "confirmed"},
             CreateOrder(o, status)
      PROVE  sold'[t] >= Quantity(Sellers', t)
  <2>1. CASE status = "confirmed"
    <3>1. sold' = Raised(sold, ItemsOf(o))
      BY <1>1, <2>1 DEF CreateOrder
    <3>2. Sellers' \subseteq Sellers \cup ItemsOf(o)
      BY <1>1 DEF CreateOrder, SetOrder, TypeOK, Sellers, Sells, ItemsOf
    <3> QED
      BY <1>a, <3>1, <3>2
  <2>2. CASE status # "confirmed"
    BY <1>1, <1>b, <2>2 DEF CreateOrder, SetOrder, TypeOK, Sells, SoldOrder
  <2> QED
    BY <2>1, <2>2
<1>2. ASSUME NEW o \in Orders, NEW next \in OrderStatus, UpdateOrder(o, next)
      PROVE  sold'[t] >= Quantity(Sellers', t)
  <2>1. \A i \in Items : Sells(i)' => Sells(i)
    BY <1>2 DEF UpdateOrder, SetOrder, SafeStaffMoves, TypeOK, Sells
  <2>2. CASE ConvertHolds(o)
    <3>1. PICK S \in SUBSET Items : sold' = Raised(sold, S)
      BY <2>2 DEF ConvertHolds, ConvertItems, ItemsOf
    <3> QED
      BY <1>a, <2>1, <3>1 DEF Sellers
  <2>3. CASE ReleaseHolds(o) \/ UNCHANGED <<holdVars, cacheVars>>
    BY <1>b, <1>c, <2>1, <2>3
  <2> QED
    BY <1>2, <2>2, <2>3 DEF UpdateOrder
<1>3. ASSUME NEW o \in Orders,
             \/ DeleteOrder(o) \/ FailureCancelsOrder(o)
             \/ \E status \in {"refunded", "partially_refunded"} : Refund(o, status)
      PROVE  sold'[t] >= Quantity(Sellers', t)
  <2>1. UNCHANGED sold
    BY <1>3, <1>c DEF DeleteOrder, FailureCancelsOrder, Refund
  <2>2. \A i \in Items : Sells(i)' => Sells(i)
    <3>1. \A x \in Orders : order'[x] \in SoldOrder => order[x] \in SoldOrder
      BY <1>3 DEF DeleteOrder, FailureCancelsOrder, Refund, SetOrder, TypeOK, SoldOrder
    <3>2. deleted \subseteq deleted'
      BY <1>3 DEF DeleteOrder, FailureCancelsOrder, Refund
    <3> QED
      BY <3>1, <3>2, Owners DEF Sells
  <2> QED
    BY <1>b, <2>1, <2>2
<1>4. ASSUME NEW o \in Orders, PayWithCoins(o) \/ ConfirmPayment(o)
      PROVE  sold'[t] >= Quantity(Sellers', t)
  <2>1. sold' = Raised(sold, ItemsOf(o))
    BY <1>4 DEF PayWithCoins, ConfirmPayment, ConvertItems
  <2>2. Sellers' \subseteq Sellers \cup ItemsOf(o)
    <3>1. \A x \in Orders \ {o} : order'[x] = order[x]
      BY <1>4 DEF PayWithCoins, ConfirmPayment, SetOrder, TypeOK
    <3>2. UNCHANGED deleted
      BY <1>4 DEF PayWithCoins, ConfirmPayment
    <3> QED
      BY <3>1, <3>2, Owners DEF Sellers, Sells, ItemsOf
  <2> QED
    BY <1>a, <2>1, <2>2
<1>5. ASSUME NEW o \in Orders, ConfirmLatePayment(o)
      PROVE  sold'[t] >= Quantity(Sellers', t)
  BY <1>5, <1>b DEF ConfirmLatePayment, SetOrder, TypeOK, Sells, SoldOrder
<1>6. ASSUME UNCHANGED <<order, deleted, sold>>
      PROVE  sold'[t] >= Quantity(Sellers', t)
  BY <1>6, <1>b DEF Sells
<1>7. CASE OrderNext
  BY <1>1, <1>2, <1>3, <1>6, <1>7 DEF OrderNext, HoldLapses
<1>8. CASE TicketNext
  BY <1>6, <1>8
  DEF TicketNext, AssignReadsOrder, AssignIssuesTickets, AssignAborts, CheckIn,
      UpdateTicket, DeleteTicket, TicketsOnly
<1>9. CASE SaleNext \/ PaymentNext
  BY <1>3, <1>4, <1>5, <1>6, <1>9
  DEF SaleNext, ConfirmReadsClock, ConfirmAborts, PaymentNext, OpenCheckout,
      AbandonCheckout, CreatePaymentOrder, LateRefund,
      LateRefundLost, FailureReadsOrder, FailureAborts
<1>10. CASE JobNext
  <2>1. ASSUME NEW u \in TicketTypes
        PROVE  ~ ReconRepair(u)
    BY DEF ReconRepair, CounterInv, ReconIdle
  <2> QED
    BY <1>6, <1>10, <2>1
    DEF JobNext, ExpireHold, CountExpired, WorkerDies, ReconOnly, ReconReadRows,
        ReconReadSold, ReconReadReserved
<1>11. CASE CatalogueNext
  BY <1>6, <1>11, TotalEffect
<1>12. CASE UNCHANGED vars
  BY <1>6, <1>12 DEF vars
<1> QED
  BY <1>7, <1>8, <1>9, <1>10, <1>11, <1>12 DEF Next, BookingNext

\* The counters cover what they cache.
Cover ==
  \A t \in TicketTypes :
    sold[t] >= Quantity(Sellers, t) /\ reserved[t] >= Quantity(Counted, t)

LEMMA CoverAlways ==
  ASSUME SafeStaffMoves, ~ Reconciles, CounterEdits = {}
  PROVE  Spec => [](TypeOK /\ HoldInv /\ SaleInv /\ CounterInv /\ Cover)
<1> DEFINE Inv == TypeOK /\ HoldInv /\ SaleInv
<1>1. Init => CounterInv /\ Cover
  <2>1. ASSUME Init, NEW t \in TicketTypes
        PROVE  Quantity(Sellers, t) = 0 /\ Quantity(Counted, t) = 0
    <3>1. Sellers = {} /\ Counted = {}
      BY <2>1, Owners DEF Init, Sellers, Sells, Counted, SoldOrder, Holding, HoldingStatus
    <3> QED
      BY <3>1, FS_EmptySet DEF Quantity
  <2>2. Init => CounterInv
    BY DEF Init, CounterInv, UncountedAreSpent, CoinsBuyUnsold, SoldOrder
  <2> QED
    BY <2>1, <2>2 DEF Init, Cover
<1>2. Inv /\ CounterInv /\ Cover /\ [Next]_vars => CounterInv' /\ Cover'
  <2> SUFFICES ASSUME Inv, CounterInv, Cover, [Next]_vars
               PROVE  CounterInv' /\ Cover'
    OBVIOUS
  <2>1. CounterInv'
    BY UncountedStep, CoinsStep, ReconStep DEF CounterInv
  <2>2. ASSUME NEW t \in TicketTypes
        PROVE  sold'[t] >= Quantity(Sellers', t) /\ reserved'[t] >= Quantity(Counted', t)
    BY SoldCovers, ReservedCovers DEF Cover
  <2> QED
    BY <2>1, <2>2 DEF Cover
<1>3. Spec => []Inv
  BY SaleAlways
<1> HIDE DEF Inv
<1>4. Spec => [](Inv /\ CounterInv /\ Cover)
  BY <1>1, <1>2, <1>3, PTL DEF Spec
<1>5. Inv /\ CounterInv /\ Cover => TypeOK /\ HoldInv /\ SaleInv /\ CounterInv /\ Cover
  BY DEF Inv
<1> QED
  BY <1>4, <1>5, PTL

\* When PATCH makes no sales, no repair runs and no request overwrites the cached
\* counters, they are never below what they cache: what is sold, and what is held or
\* being expired by the worker, however workers die between a row and its counter
\* and whatever a payment overtakes.
THEOREM CountersAlwaysCover ==
  ASSUME SafeStaffMoves, ~ Reconciles, CounterEdits = {}
  PROVE  Spec => []CountersCover
<1>1. Cover => CountersCover
  BY SoldIsQuantity DEF Cover, CountersCover, Counted
<1> QED
  BY <1>1, CoverAlways, PTL

-----------------------------------------------------------------------------
\* Totals that change.

\* What is taken of a type is no more than its counters say.
LEMMA TakenIsCounted ==
  ASSUME TypeOK, Cover, NEW t \in TicketTypes
  PROVE  Cardinality(Taken(t)) <= sold[t] + reserved[t]
<1> DEFINE For(X) == {k \in Tickets : TicketItem[k] \in X /\ TypeOf(k) = t}
<1>1. Taken(t) \subseteq For(Sellers \cup Counted)
  BY Owners DEF Taken, SoldTickets, HeldTickets, Sellers, Sells, Counted, OrderOf
<1>2. For(Sellers \cup Counted) \in SUBSET Tickets /\ Taken(t) \in SUBSET Tickets
  BY DEF Taken, SoldTickets, HeldTickets
<1>3. Cardinality(Taken(t)) <= Quantity(Sellers \cup Counted, t)
  BY <1>1, <1>2, TicketSetSize, FS_Subset DEF Quantity
<1>4. Quantity(Sellers \cup Counted, t) <= Quantity(Sellers, t) + Quantity(Counted, t)
  BY QuantityUnion
<1>5. /\ Quantity(Sellers \cup Counted, t) \in Nat /\ Quantity(Sellers, t) \in Nat
      /\ Quantity(Counted, t) \in Nat /\ sold[t] \in Nat /\ reserved[t] \in Nat
      /\ Cardinality(Taken(t)) \in Nat
  BY <1>2, QuantityNat, TicketSetSize DEF TypeOK, Counters
<1> HIDE DEF For
<1> QED
  BY <1>3, <1>4, <1>5 DEF Cover

\* The CHECK constraints of the ticket types hold.
CountersFit == WithinCapacity(sold, reserved)

\* Every statement that raises a counter or sets a total passes the CHECK constraints;
\* lowering a counter breaks none.
LEMMA FitStep ==
  ASSUME TypeOK, CountersFit, [Next]_vars
  PROVE  CountersFit'
<1> USE DEF CountersFit, WithinCapacity, orderVars, holdVars, cacheVars, paymentJobs
<1>a. ASSUME NEW S, sold' = sold, reserved' = Lowered(reserved, S), UNCHANGED total
      PROVE  CountersFit'
  <2>1. ASSUME NEW t \in TicketTypes
        PROVE  reserved'[t] <= reserved[t]
    BY <1>a, QuantityNat DEF Lowered, Floor0, TypeOK, Counters
  <2>2. ASSUME NEW t \in TicketTypes
        PROVE  sold[t] \in Nat /\ reserved[t] \in Nat /\ reserved'[t] \in Nat /\ total[t] \in Nat
    BY <1>a, QuantityNat DEF Lowered, Floor0, TypeOK, Counters
  <2> QED
    BY <1>a, <2>1, <2>2
<1>b. ASSUME UNCHANGED <<sold, reserved, total>>
      PROVE  CountersFit'
  BY <1>b
<1>c. ASSUME NEW o \in Orders, ReleaseHolds(o), UNCHANGED total
      PROVE  CountersFit'
  BY <1>a, <1>c DEF ReleaseHolds
<1>d. ASSUME NEW S, NEW status, ConvertItems(S, status), UNCHANGED total
      PROVE  CountersFit'
  BY <1>d DEF ConvertItems
<1>1. ASSUME NEW o \in Orders, NEW status \in {"draft", "pending", "confirmed"},
             CreateOrder(o, status), UNCHANGED total
      PROVE  CountersFit'
  <2>1. CASE status = "confirmed"
    <3>1. ASSUME NEW t \in TicketTypes
          PROVE  sold'[t] + reserved'[t] = sold[t] + Raised(reserved, ItemsOf(o))[t]
      BY <1>1, <2>1, QuantityNat DEF CreateOrder, Raised, TypeOK, Counters
    <3> QED
      BY <1>1, <3>1 DEF CreateOrder
  <2>2. CASE status # "confirmed"
    BY <1>1, <2>2 DEF CreateOrder
  <2> QED
    BY <2>1, <2>2
<1>2. ASSUME NEW o \in Orders, NEW next \in OrderStatus, UpdateOrder(o, next), UNCHANGED total
      PROVE  CountersFit'
  BY <1>2, <1>b, <1>c, <1>d DEF UpdateOrder, ConvertHolds
<1>3. ASSUME NEW o \in Orders, UNCHANGED total,
             \/ DeleteOrder(o) \/ FailureCancelsOrder(o)
             \/ \E status \in {"refunded", "partially_refunded"} : Refund(o, status)
      PROVE  CountersFit'
  BY <1>3, <1>b, <1>c DEF DeleteOrder, FailureCancelsOrder, Refund
<1>4. ASSUME NEW o \in Orders, PayWithCoins(o) \/ ConfirmPayment(o), UNCHANGED total
      PROVE  CountersFit'
  BY <1>4, <1>d DEF PayWithCoins, ConfirmPayment
<1>5. ASSUME NEW t \in TicketTypes, ReconRepair(t), UNCHANGED total
      PROVE  CountersFit'
  BY <1>5, <1>b DEF ReconRepair
<1>6. ASSUME NEW i \in Items, CountExpired(i), UNCHANGED total
      PROVE  CountersFit'
  BY <1>6, <1>a DEF CountExpired
<1> HIDE DEF CountersFit, WithinCapacity
<1>7. CASE OrderNext /\ UNCHANGED total
  BY <1>1, <1>2, <1>3, <1>b, <1>7 DEF OrderNext, HoldLapses
<1>8. CASE TicketNext /\ UNCHANGED total
  BY <1>b, <1>8
  DEF TicketNext, AssignReadsOrder, AssignIssuesTickets, AssignAborts, CheckIn,
      UpdateTicket,
      DeleteTicket, TicketsOnly
<1>9. CASE (SaleNext \/ PaymentNext) /\ UNCHANGED total
  BY <1>3, <1>4, <1>b, <1>9
  DEF SaleNext, ConfirmReadsClock, ConfirmAborts, PaymentNext, OpenCheckout,
      AbandonCheckout,
      CreatePaymentOrder, ConfirmLatePayment, LateRefund, LateRefundLost, FailureReadsOrder,
      FailureAborts
<1>10. CASE JobNext /\ UNCHANGED total
  BY <1>5, <1>6, <1>b, <1>10
  DEF JobNext, ExpireHold, WorkerDies, ReconReadRows, ReconReadSold, ReconReadReserved
<1>11. ASSUME NEW t \in TicketTypes, NEW n \in Totals \cup {total[t]},
              NEW q \in CounterEdits \cup {sold[t]}, NEW r \in CounterEdits \cup {reserved[t]},
              UpdateTicketType(t, n, q, r)
       PROVE  CountersFit'
  <2>1. ASSUME NEW u \in TicketTypes
        PROVE  IF u = t THEN sold'[u] = q /\ reserved'[u] = r /\ total'[u] = n
               ELSE sold'[u] = sold[u] /\ reserved'[u] = reserved[u] /\ total'[u] = total[u]
    BY <1>11 DEF UpdateTicketType, TypeOK, Counters
  <2> QED
    BY <1>11, <2>1 DEF UpdateTicketType, CountersFit, WithinCapacity
<1>12. CASE UNCHANGED vars
  BY <1>b, <1>12 DEF vars
<1> QED
  BY <1>7, <1>8, <1>9, <1>10, <1>11, <1>12 DEF Next, BookingNext, CatalogueNext

\* Whatever totals the catalogue's requests ask for, and whatever clock a payment has
\* read: when PATCH makes no sales, no repair runs and no request overwrites the cached
\* counters, what is sold or validly held of a ticket type never exceeds the total
\* quantity it has at that time.  The availability check does not carry this, the CHECK
\* on counters that cover what they cache does.
THEOREM NeverOversoldAtAnyTotal ==
  ASSUME SafeStaffMoves, ~ Reconciles, CounterEdits = {}
  PROVE  Spec => []NoOversell
<1>1. Init => CountersFit
  BY ConstantsAssumption DEF Init, CountersFit, WithinCapacity, ConstantsAssumption
<1>2. TypeOK /\ CountersFit /\ [Next]_vars => CountersFit'
  BY FitStep
<1>3. TypeOK /\ Cover /\ CountersFit => NoOversell
  <2>1. ASSUME TypeOK, Cover, CountersFit, NEW t \in TicketTypes
        PROVE  Cardinality(Taken(t)) <= total[t]
    <3>1. Taken(t) \in SUBSET Tickets
      BY DEF Taken, SoldTickets, HeldTickets
    <3>2. /\ Cardinality(Taken(t)) \in Nat /\ sold[t] \in Nat /\ reserved[t] \in Nat
          /\ total[t] \in Nat
      BY <2>1, <3>1, TicketSetSize DEF TypeOK, Counters
    <3> QED
      BY <2>1, <3>2, TakenIsCounted DEF CountersFit, WithinCapacity
  <2> QED
    BY <2>1 DEF NoOversell
<1> QED
  BY <1>1, <1>2, <1>3, CoverAlways, PTL DEF Spec

\* The same holds of the promise as a whole: under these conditions orders take their
\* places whole, buy what they hold, or what has lapsed while the places are there, and
\* give up for good, and a total is never set below what they have taken.
THEOREM PlacesKeptAtAnyTotal ==
  ASSUME SafeStaffMoves, ~ Reconciles, CounterEdits = {}
  PROVE  Spec => PlacesKept
  BY NeverOversoldAtAnyTotal, PoolWhenItFits, PTL
=============================================================================
