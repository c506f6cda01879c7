--------------------------- MODULE TicketInventory ---------------------------
(***************************************************************************)
(* The capacity of an event's ticket types and everything that takes it or *)
(* gives it back: booking orders, their inventory reservations, the cached *)
(* counters of the ticket types, the tickets issued for sold orders, the   *)
(* expiry worker, the counter reconciler and the catalogue's changes of a  *)
(* type's total.                                                           *)
(*                                                                         *)
(* One action is one database transaction, or one statement where the code *)
(* runs without a transaction; a handler that reads -- a row it does not   *)
(* lock, or the clock -- and writes later is split at that point.  Where   *)
(* the second half waits under row locks of its own, the model lets more   *)
(* happen in between than the locks do.  Orders, items and tickets are     *)
(* identities fixed by the constants: an order that was never created has  *)
(* status "none".  Money is not here: the payment steps appear by what     *)
(* they do to orders, reservations, counters and tickets.                  *)
(***************************************************************************)
EXTENDS Lifecycles, Integers, FiniteSets

CONSTANTS
  Orders,       \* booking orders that may be created
  TicketTypes,  \* the ticket types on sale
  Items,        \* order items: one ticket type of one order, with its reservation
  Tickets,      \* the tickets the items are for; an item's quantity is their number
  ItemOrder,    \* Items -> Orders
  ItemType,     \* Items -> TicketTypes
  TicketItem,   \* Tickets -> Items
  Total,        \* TicketTypes -> Nat, the total_quantity each type is created with
  Totals,       \* the total quantities that PATCH requests on a ticket type ask for
  CounterEdits, \* the sold and reserved quantities that such requests overwrite
  StaffMoves,   \* the <<from, to>> order statuses that PATCH requests ask for
  Reconciles    \* whether the hourly reconcile_inventory job is scheduled

ASSUME ConstantsAssumption ==
  /\ IsFiniteSet(Tickets)
  /\ ItemOrder \in [Items -> Orders]
  /\ ItemType \in [Items -> TicketTypes]
  /\ TicketItem \in [Tickets -> Items]
  /\ Total \in [TicketTypes -> Nat]
  /\ Totals \subseteq Nat
  /\ CounterEdits \subseteq Nat
  /\ Reconciles \in BOOLEAN
  /\ \A i, j \in Items :
       ItemOrder[i] = ItemOrder[j] /\ ItemType[i] = ItemType[j] => i = j

VARIABLES
  order,        \* booking_orders.status
  deleted,      \* orders with deleted_at set
  payOrder,     \* who owns the one payment_orders row a booking may have
  refundable,   \* orders with a captured payment that is not fully refunded
  reservation,  \* inventory_reservations.status
  convertedAt,  \* items whose reservation has converted_at set
  releasedAt,   \* items whose reservation has released_at set
  lapsed,       \* orders whose reservations have expires_at <= now()
  total,        \* ticket_types.total_quantity
  sold,         \* ticket_types.sold_quantity, a cache
  reserved,     \* ticket_types.reserved_quantity, a cache
  ticket,       \* issued_tickets.status
  checkout,     \* <<order, method>>: checkouts that have read and not yet written
  failing,      \* payment failure handlers between reading and cancelling the order
  refunding,    \* late payments whose gateway refund is under way
  uncounted,    \* items the worker has expired without lowering the cache yet
  recon,        \* the reconciler: its position and what it has read
  assigning,    \* orders read as sold by an assignment that has not committed
  punctual,     \* confirmations that saw the clock before expires_at and have not committed
  strays,       \* history: tickets assignments issued for orders no longer sold
  overdue       \* history: orders sold after their hold had lapsed

orderVars == <<order, deleted, payOrder, refundable>>
holdVars  == <<reservation, convertedAt, releasedAt, lapsed>>
cacheVars == <<sold, reserved>>
paymentJobs == <<checkout, failing, refunding>>
assignVars == <<assigning, strays>>
saleVars == <<punctual, overdue>>
vars == <<order, deleted, payOrder, refundable, reservation, convertedAt,
          releasedAt, lapsed, total, sold, reserved, ticket, checkout, failing,
          refunding, uncounted, recon, assigning, punctual, strays, overdue>>

-----------------------------------------------------------------------------
\* What the tables hold.

Counters == [TicketTypes -> Nat]
ReconIdle == [pc |-> "idle"]
ReconStates ==
  {ReconIdle}
  \cup [pc : {"rows"}, rowSold : Counters, rowReserved : Counters]
  \cup [pc : {"sold"}, rowSold : Counters, rowReserved : Counters, seenSold : Counters]
  \cup [pc : {"writing"}, rowSold : Counters, rowReserved : Counters,
        seenSold : Counters, seenReserved : Counters, todo : SUBSET TicketTypes]

TypeOK ==
  /\ order \in [Orders -> OrderStatus \cup {"none"}]
  /\ deleted \subseteq Orders
  /\ payOrder \in [Orders -> {"none", "razorpay", "coins"}]
  /\ refundable \subseteq Orders
  /\ reservation \in [Items -> ReservationStatus \cup {"none"}]
  /\ convertedAt \subseteq Items
  /\ releasedAt \subseteq Items
  /\ lapsed \subseteq Orders
  /\ total \in Counters
  /\ sold \in Counters
  /\ reserved \in Counters
  /\ ticket \in [Tickets -> TicketStatus \cup {"none"}]
  /\ checkout \subseteq Orders \X {"razorpay", "coins"}
  /\ failing \subseteq Orders
  /\ refunding \subseteq Orders
  /\ uncounted \subseteq Items
  /\ recon \in ReconStates
  /\ assigning \subseteq Orders
  /\ punctual \subseteq Orders
  /\ strays \subseteq Tickets
  /\ overdue \subseteq Orders

-----------------------------------------------------------------------------
\* Queries.

ItemsOf(o) == {i \in Items : ItemOrder[i] = o}
OrderOf(k) == ItemOrder[TicketItem[k]]
TypeOf(k) == ItemType[TicketItem[k]]

Holding(i) == reservation[i] \in HoldingStatus

\* The tickets of sold orders, and those under a live hold: what loadSoldRows and
\* loadReservedRows sum up.
SoldTickets(t) ==
  {k \in Tickets : /\ TypeOf(k) = t
                   /\ OrderOf(k) \notin deleted
                   /\ order[OrderOf(k)] \in SoldOrder}
HeldTickets(t) ==
  {k \in Tickets : /\ TypeOf(k) = t
                   /\ Holding(TicketItem[k])
                   /\ TicketItem[k] \notin convertedAt \cup releasedAt
                   /\ OrderOf(k) \notin lapsed}

DerivedSold == [t \in TicketTypes |-> Cardinality(SoldTickets(t))]
DerivedReserved == [t \in TicketTypes |-> Cardinality(HeldTickets(t))]

Floor0(n) == IF n < 0 THEN 0 ELSE n   \* Math.max(0, n) and SQL's GREATEST(0, n)

\* Mutant: availability trusts the cached counters.
AvailableByCache(t) == Floor0(total[t] - sold[t] - reserved[t])

Available(t) == Floor0(total[t] - DerivedSold[t] - DerivedReserved[t])

\* The quantity of type t the items in S are for.
Quantity(S, t) ==
  Cardinality({k \in Tickets : TicketItem[k] \in S /\ TypeOf(k) = t})

Raised(counter, S) == [t \in TicketTypes |-> counter[t] + Quantity(S, t)]
\* Mutant: the decrement without GREATEST(0, ...).
LoweredUnfloored(counter, S) ==
  [t \in TicketTypes |-> counter[t] - Quantity(S, t)]
Lowered(counter, S) == [t \in TicketTypes |-> Floor0(counter[t] - Quantity(S, t))]

\* The CHECK constraints on ticket_types, enforced on every update of a row.
WithinCapacity(s, r) == \A t \in TicketTypes : s[t] + r[t] <= total[t]

-----------------------------------------------------------------------------
\* What several transactions do.

\* releaseReservationsForBookingOrder: throws when one of the others may not move.
ReleaseHolds(o) ==
  LET moved == {i \in ItemsOf(o) : reservation[i] \notin ReleasedStatus}
  IN  /\ \A i \in moved : ReservationMayMove(reservation[i], "released")
      /\ reservation' = [i \in Items |-> IF i \in moved THEN "released"
                                         ELSE reservation[i]]
      /\ releasedAt' = releasedAt \cup moved
      /\ reserved' = Lowered(reserved, {i \in moved : Holding(i)})
      /\ UNCHANGED <<convertedAt, lapsed, sold>>

\* The items in S leave "reserved" and become "sold" under the given status.
ConvertItems(S, status) ==
  /\ reservation' = [i \in Items |-> IF i \in S THEN status ELSE reservation[i]]
  /\ convertedAt' = convertedAt \cup S
  /\ reserved' = Lowered(reserved, S)
  /\ sold' = Raised(sold, S)
  /\ WithinCapacity(sold', reserved')
  /\ UNCHANGED <<releasedAt, lapsed>>

\* convertReservationsForBookingOrder: the expiry time is not looked at.
ConvertHolds(o) ==
  LET moved == {i \in ItemsOf(o) : reservation[i] \notin {"converted", "booked"}}
  IN  /\ \A i \in moved : ReservationMayMove(reservation[i], "converted")
      /\ ConvertItems(moved, "converted")

\* Mutant: tickets take the order's status without the transition check.
ApplyTicketStatusUnchecked(o, s) ==
  LET to == TicketStatusFor(s)
  IN  ticket' = [k \in Tickets |->
                  IF to # "none" /\ OrderOf(k) = o /\ ticket[k] # "none" THEN to
                  ELSE ticket[k]]

\* applyIssuedTicketStatusForBookingOrder for an order that takes status s: throws
\* when one of its tickets may not move.
ApplyTicketStatus(o, s) ==
  LET to == TicketStatusFor(s)
      present == {k \in Tickets : OrderOf(k) = o /\ ticket[k] # "none"}
  IN  IF to = "none"
      THEN UNCHANGED ticket
      ELSE /\ \A k \in present : TicketMayMove(ticket[k], to)
           /\ ticket' = [k \in Tickets |-> IF k \in present THEN to ELSE ticket[k]]

\* ensureIssuedTicketsForOrderItem: the missing tickets of a sold order.
IssueTickets(o) ==
  ticket' = [k \in Tickets |-> IF OrderOf(k) = o /\ ticket[k] = "none"
                               THEN "issued" ELSE ticket[k]]

SetOrder(o, status) == order' = [order EXCEPT ![o] = status]
Exists(o) == order[o] # "none" /\ o \notin deleted

-----------------------------------------------------------------------------
Init ==
  /\ order = [o \in Orders |-> "none"]
  /\ deleted = {}
  /\ payOrder = [o \in Orders |-> "none"]
  /\ refundable = {}
  /\ reservation = [i \in Items |-> "none"]
  /\ convertedAt = {}
  /\ releasedAt = {}
  /\ lapsed = {}
  /\ total = Total
  /\ sold = [t \in TicketTypes |-> 0]
  /\ reserved = [t \in TicketTypes |-> 0]
  /\ ticket = [k \in Tickets |-> "none"]
  /\ checkout = {}
  /\ failing = {}
  /\ refunding = {}
  /\ uncounted = {}
  /\ recon = ReconIdle
  /\ assigning = {}
  /\ punctual = {}
  /\ strays = {}
  /\ overdue = {}

-----------------------------------------------------------------------------
\* Booking orders.

\* The availability check of createReservationsForItems, under FOR UPDATE locks
\* on the ticket types.
Fits(o) == \A i \in ItemsOf(o) :
             Quantity({i}, ItemType[i]) <= Available(ItemType[i])

CreateOrder(o, status) ==
  /\ order[o] = "none"
  /\ ItemsOf(o) # {}
  /\ Fits(o)
  /\ WithinCapacity(sold, Raised(reserved, ItemsOf(o)))
  /\ SetOrder(o, status)
  /\ IF status = "confirmed"
     THEN /\ reservation' = [i \in Items |-> IF i \in ItemsOf(o) THEN "converted"
                                             ELSE reservation[i]]
          /\ convertedAt' = convertedAt \cup ItemsOf(o)
          /\ sold' = Raised(sold, ItemsOf(o))
          /\ UNCHANGED reserved
          /\ IssueTickets(o)
     ELSE /\ reservation' = [i \in Items |-> IF i \in ItemsOf(o) THEN "active"
                                             ELSE reservation[i]]
          /\ reserved' = Raised(reserved, ItemsOf(o))
          /\ UNCHANGED <<convertedAt, sold, ticket>>
  /\ UNCHANGED <<deleted, payOrder, refundable, releasedAt, lapsed, paymentJobs,
                 uncounted, recon>>

\* The time passes the reservations' expires_at.
HoldLapses(o) ==
  /\ order[o] # "none"
  /\ o \notin lapsed
  /\ lapsed' = lapsed \cup {o}
  /\ UNCHANGED <<orderVars, reservation, convertedAt, releasedAt, cacheVars,
                 ticket, paymentJobs, uncounted, recon>>

\* updateBookingOrderByOrderNumber, for staff and for the purchaser: the optimistic
\* lock on updated_at makes the status read before the transaction the one it updates.
UpdateOrder(o, next) ==
  /\ Exists(o)
  /\ <<order[o], next>> \in StaffMoves
  /\ next = order[o] \/ next \in OrderSuccessors(order[o])
  /\ SetOrder(o, next)
  /\ \/ /\ order[o] \notin TerminalOrder
        /\ next \in TerminalOrder
        /\ ReleaseHolds(o)
        /\ ApplyTicketStatus(o, next)
     \/ /\ order[o] # "confirmed"
        /\ next = "confirmed"
        /\ ConvertHolds(o)
        /\ IssueTickets(o)
     \/ /\ order[o] = "confirmed"
        /\ next = "confirmed"
        /\ UNCHANGED <<holdVars, cacheVars, ticket>>
     \/ /\ next # "confirmed"
        /\ order[o] \in TerminalOrder \/ next \notin TerminalOrder
        /\ UNCHANGED <<holdVars, cacheVars>>
        /\ ApplyTicketStatus(o, next)
  /\ UNCHANGED <<deleted, payOrder, refundable, paymentJobs, uncounted, recon>>

DeleteOrder(o) ==
  /\ Exists(o)
  /\ SetOrder(o, "cancelled")
  /\ deleted' = deleted \cup {o}
  /\ ApplyTicketStatus(o, "cancelled")
  /\ IF order[o] \in TerminalOrder
     THEN UNCHANGED <<holdVars, cacheVars>>
     ELSE ReleaseHolds(o)
  /\ UNCHANGED <<payOrder, refundable, paymentJobs, uncounted, recon>>

-----------------------------------------------------------------------------
\* Issued tickets.

TicketsOnly ==
  UNCHANGED <<orderVars, holdVars, cacheVars, paymentJobs, uncounted, recon>>

\* Assigning an attendee issues the tickets a sold order still lacks: it reads the
\* order without a lock ...
AssignReadsOrder(o) ==
  /\ Exists(o)
  /\ order[o] \in SoldOrder
  /\ assigning' = assigning \cup {o}
  /\ UNCHANGED <<ticket, strays>>
  /\ TicketsOnly

\* ... and its inserts commit whatever the order has become.
AssignIssuesTickets(o) ==
  /\ o \in assigning
  /\ assigning' = assigning \ {o}
  /\ IssueTickets(o)
  /\ strays' = IF Exists(o) /\ order[o] \in SoldOrder THEN strays
               ELSE strays \cup {k \in Tickets : OrderOf(k) = o /\ ticket[k] = "none"}
  /\ TicketsOnly

AssignAborts(o) ==
  /\ o \in assigning
  /\ assigning' = assigning \ {o}
  /\ UNCHANGED <<ticket, strays>>
  /\ TicketsOnly

CheckIn(k) ==
  /\ ticket[k] \in {"issued", "transferred"}
  /\ ticket' = [ticket EXCEPT ![k] = "checked_in"]
  /\ TicketsOnly

UpdateTicket(k, next) ==
  /\ ticket[k] # "none"
  /\ next \in TicketSuccessors(ticket[k])
  /\ ticket' = [ticket EXCEPT ![k] = next]
  /\ TicketsOnly

DeleteTicket(k) ==
  /\ ticket[k] \in {"issued", "transferred", "cancelled"}
  /\ ticket' = [ticket EXCEPT ![k] = "none"]
  /\ TicketsOnly

-----------------------------------------------------------------------------
\* Payments, by what they do to orders, reservations, counters and tickets.

\* createPaymentOrder checks the order and calls the gateway; checkoutWithCoins checks
\* the order and reads the clock before its transaction.  (A hold that has not lapsed
\* by then had not lapsed when the order was read, so one step does both.)
OpenCheckout(o, method) ==
  /\ Exists(o)
  /\ <<o, method>> \notin checkout
  /\ o \notin lapsed
  /\ IF method = "coins"
     THEN order[o] = "pending"
     ELSE /\ order[o] \in {"draft", "pending"}
          /\ \E i \in ItemsOf(o) : Holding(i) /\ i \notin convertedAt \cup releasedAt
  /\ checkout' = checkout \cup {<<o, method>>}
  /\ UNCHANGED <<orderVars, holdVars, cacheVars, ticket, failing, refunding,
                 uncounted, recon>>

\* The gateway has answered and the payment order row is inserted; a booking has
\* at most one (payment_orders_tenant_booking_unique).
CreatePaymentOrder(o) ==
  /\ <<o, "razorpay">> \in checkout
  /\ payOrder[o] = "none"
  /\ payOrder' = [payOrder EXCEPT ![o] = "razorpay"]
  /\ checkout' = checkout \ {<<o, "razorpay">>}
  /\ UNCHANGED <<order, deleted, refundable, holdVars, cacheVars, ticket, failing,
                 refunding, uncounted, recon>>

\* A sale on the word of a clock read earlier: by now the hold may have lapsed.
NoteOverdue(o) == overdue' = IF o \in lapsed THEN overdue \cup {o} ELSE overdue

\* Mutant: the coin checkout looks at the expiry time only.
PayWithCoinsWhenTimely(o) ==
  /\ <<o, "coins">> \in checkout
  /\ checkout' = checkout \ {<<o, "coins">>}
  /\ payOrder[o] = "none"
  /\ o \notin deleted
  /\ ConvertItems(ItemsOf(o), "booked")
  /\ NoteOverdue(o)
  /\ SetOrder(o, "paid")
  /\ IssueTickets(o)
  /\ payOrder' = [payOrder EXCEPT ![o] = "coins"]
  /\ refundable' = refundable \cup {o}
  /\ UNCHANGED <<deleted, punctual, failing, refunding, uncounted, recon>>

\* checkoutWithCoins: the order's status and the clock are not read again.
PayWithCoins(o) ==
  /\ <<o, "coins">> \in checkout
  /\ checkout' = checkout \ {<<o, "coins">>}
  /\ payOrder[o] = "none"
  /\ o \notin deleted
  /\ \A i \in ItemsOf(o) : reservation[i] \notin
       ReleasedStatus \cup {"refund_pending", "refunded"}
  /\ ConvertItems(ItemsOf(o), "booked")
  /\ NoteOverdue(o)
  /\ SetOrder(o, "paid")
  /\ IssueTickets(o)
  /\ payOrder' = [payOrder EXCEPT ![o] = "coins"]
  /\ refundable' = refundable \cup {o}
  /\ UNCHANGED <<deleted, punctual, failing, refunding, uncounted, recon>>

\* A checkout that fails, is refused, or whose process dies.
AbandonCheckout(o, method) ==
  /\ <<o, method>> \in checkout
  /\ checkout' = checkout \ {<<o, method>>}
  /\ UNCHANGED <<orderVars, holdVars, cacheVars, ticket, failing, refunding,
                 uncounted, recon>>

\* Late: the hold ran out before the payment came.
LatePayment(o) == o \in lapsed \/ \E i \in ItemsOf(o) : reservation[i] = "expired"

\* confirmPaymentAndOrder for a payment in time: it has locked the order and its
\* reservations and reads the clock ...
ConfirmReadsClock(o) ==
  /\ payOrder[o] = "razorpay"
  /\ ~ LatePayment(o)
  /\ punctual' = punctual \cup {o}
  /\ UNCHANGED <<orderVars, holdVars, cacheVars, ticket, paymentJobs, uncounted,
                 recon, overdue>>

\* Mutant: the confirmation books the reservations whatever they are.
ConfirmAnything(o) ==
  /\ payOrder[o] = "razorpay"
  /\ o \in punctual
  /\ punctual' = punctual \ {o}
  /\ o \notin failing
  /\ ConvertItems(ItemsOf(o), "booked")
  /\ NoteOverdue(o)
  /\ IF order[o] \in SoldOrder
     THEN UNCHANGED <<order, ticket>>
     ELSE o \notin deleted /\ SetOrder(o, "paid") /\ IssueTickets(o)
  /\ refundable' = refundable \cup {o}
  /\ UNCHANGED <<deleted, payOrder, paymentJobs, uncounted, recon>>

\* ... waits for the ticket types and books.  A failure handler that has written its
\* payment order row holds that row's lock until it ends.
ConfirmPayment(o) ==
  /\ payOrder[o] = "razorpay"
  /\ o \in punctual
  /\ punctual' = punctual \ {o}
  /\ o \notin failing
  /\ \A i \in ItemsOf(o) : ReservationMayMove(reservation[i], "converting")
  /\ ConvertItems(ItemsOf(o), "booked")
  /\ NoteOverdue(o)
  /\ IF order[o] \in SoldOrder
     THEN UNCHANGED <<order, ticket>>
     ELSE o \notin deleted /\ SetOrder(o, "paid") /\ IssueTickets(o)
  /\ refundable' = refundable \cup {o}
  /\ UNCHANGED <<deleted, payOrder, paymentJobs, uncounted, recon>>

ConfirmAborts(o) ==
  /\ o \in punctual
  /\ punctual' = punctual \ {o}
  /\ UNCHANGED <<orderVars, holdVars, cacheVars, ticket, paymentJobs, uncounted,
                 recon, overdue>>

\* confirmPaymentAndOrder for a late payment: captured, then refunded outside the
\* transaction.  The cached counters are not touched.
ConfirmLatePayment(o) ==
  LET expiring == {i \in ItemsOf(o) : reservation[i] # "expired"}
  IN  /\ payOrder[o] = "razorpay"
      /\ o \notin failing
      /\ LatePayment(o)
      /\ \A i \in expiring : ReservationMayMove(reservation[i], "expired")
      /\ SetOrder(o, "expired")
      /\ reservation' = [i \in Items |-> IF ItemOrder[i] = o THEN "refund_pending"
                                         ELSE reservation[i]]
      /\ releasedAt' = releasedAt \cup expiring
      /\ refunding' = refunding \cup {o}
      /\ UNCHANGED <<deleted, payOrder, refundable, convertedAt, lapsed, cacheVars,
                     ticket, checkout, failing, uncounted, recon>>

\* The gateway's answer to the late payment's refund: a refund that failed can be
\* asked for again.
LateRefund(o, outcome) ==
  /\ o \in refunding
  /\ refunding' = refunding \ {o}
  /\ reservation' = [i \in Items |-> IF ItemOrder[i] = o THEN outcome
                                     ELSE reservation[i]]
  /\ refundable' = IF outcome = "failed" THEN refundable \cup {o} ELSE refundable
  /\ UNCHANGED <<order, deleted, payOrder, convertedAt, releasedAt, lapsed,
                 cacheVars, ticket, checkout, failing, uncounted, recon>>

\* The process dies between the commit and the gateway's answer.
LateRefundLost(o) ==
  /\ o \in refunding
  /\ refunding' = refunding \ {o}
  /\ UNCHANGED <<orderVars, holdVars, cacheVars, ticket, checkout, failing,
                 uncounted, recon>>

\* Mutant: a failed payment cancels sold orders too.
FailureReadsAnyOrder(o) ==
  /\ payOrder[o] = "razorpay"
  /\ o \notin failing
  /\ failing' = failing \cup {o}
  /\ UNCHANGED <<orderVars, holdVars, cacheVars, ticket, checkout, refunding,
                 uncounted, recon>>

\* handlePaymentFailure reads the order's status without a lock ...
FailureReadsOrder(o) ==
  /\ payOrder[o] = "razorpay"
  /\ o \notin failing
  /\ order[o] \notin SoldOrder
  /\ failing' = failing \cup {o}
  /\ UNCHANGED <<orderVars, holdVars, cacheVars, ticket, checkout, refunding,
                 uncounted, recon>>

\* Mutant: the cancellation forgets the reservations.
FailureKeepsHolds(o) ==
  /\ o \in failing
  /\ failing' = failing \ {o}
  /\ SetOrder(o, "cancelled")
  /\ UNCHANGED <<deleted, payOrder, refundable, holdVars, cacheVars, ticket,
                 checkout, refunding, uncounted, recon>>

\* ... and then cancels it whatever it has become.
FailureCancelsOrder(o) ==
  /\ o \in failing
  /\ failing' = failing \ {o}
  /\ SetOrder(o, "cancelled")
  /\ ReleaseHolds(o)
  /\ UNCHANGED <<deleted, payOrder, refundable, ticket, checkout, refunding,
                 uncounted, recon>>

FailureAborts(o) ==
  /\ o \in failing
  /\ failing' = failing \ {o}
  /\ UNCHANGED <<orderVars, holdVars, cacheVars, ticket, checkout, refunding,
                 uncounted, recon>>

\* Mutant: the refund gives the capacity back and leaves the order sold.
RefundKeepsOrder(o, status) ==
  /\ o \in refundable
  /\ ApplyTicketStatus(o, status)
  /\ ReleaseHolds(o)
  /\ refundable' = refundable \ {o}
  /\ UNCHANGED <<order, deleted, payOrder, paymentJobs, uncounted, recon>>

\* A refund the gateway has made: refundPayment, approveRefundAdmin or a refund
\* to coins, in full or in part.
Refund(o, status) ==
  /\ o \in refundable
  /\ SetOrder(o, status)
  /\ ApplyTicketStatus(o, status)
  /\ IF status = "refunded"
     THEN ReleaseHolds(o) /\ refundable' = refundable \ {o}
     ELSE UNCHANGED <<holdVars, cacheVars, refundable>>
  /\ UNCHANGED <<deleted, payOrder, paymentJobs, uncounted, recon>>

-----------------------------------------------------------------------------
\* The expiry worker.  It runs outside a transaction: the reservation's row and
\* the cached counter are two statements.

\* Mutant: the worker does not stamp released_at.
ExpireUnstamped(i) ==
  /\ reservation[i] \in ExpirableStatus
  /\ ItemOrder[i] \in lapsed
  /\ i \notin convertedAt \cup releasedAt
  /\ reservation' = [reservation EXCEPT ![i] = "expired"]
  /\ uncounted' = uncounted \cup {i}
  /\ UNCHANGED <<orderVars, convertedAt, releasedAt, lapsed, cacheVars, ticket,
                 paymentJobs, recon>>

ExpireHold(i) ==
  /\ reservation[i] \in ExpirableStatus
  /\ ItemOrder[i] \in lapsed
  /\ i \notin convertedAt \cup releasedAt
  /\ ReservationMayMove(reservation[i], "expired")
  /\ reservation' = [reservation EXCEPT ![i] = "expired"]
  /\ releasedAt' = releasedAt \cup {i}
  /\ uncounted' = uncounted \cup {i}
  /\ UNCHANGED <<orderVars, convertedAt, lapsed, cacheVars, ticket, paymentJobs,
                 recon>>

\* Mutant: a retried batch lowers the counter again.
CountExpiredAgain(i) ==
  /\ i \in uncounted
  /\ reserved' = Lowered(reserved, {i})
  /\ UNCHANGED <<orderVars, holdVars, sold, ticket, paymentJobs, uncounted, recon>>

CountExpired(i) ==
  /\ i \in uncounted
  /\ reserved' = Lowered(reserved, {i})
  /\ uncounted' = uncounted \ {i}
  /\ UNCHANGED <<orderVars, holdVars, sold, ticket, paymentJobs, recon>>

WorkerDies ==
  /\ uncounted # {}
  /\ uncounted' = {}
  /\ UNCHANGED <<orderVars, holdVars, cacheVars, ticket, paymentJobs, recon>>

-----------------------------------------------------------------------------
\* reconcileCachedInventory with repair: three reads, then one update per ticket
\* type, none of them under a lock or in a transaction.

ReconOnly ==
  UNCHANGED <<orderVars, holdVars, ticket, paymentJobs, uncounted>>

ReconReadRows ==
  /\ Reconciles
  /\ recon.pc = "idle"
  /\ recon' = [pc |-> "rows", rowSold |-> sold, rowReserved |-> reserved]
  /\ UNCHANGED cacheVars
  /\ ReconOnly

ReconReadSold ==
  /\ recon.pc = "rows"
  /\ recon' = [pc |-> "sold", rowSold |-> recon.rowSold,
               rowReserved |-> recon.rowReserved, seenSold |-> DerivedSold]
  /\ UNCHANGED cacheVars
  /\ ReconOnly

ReconReadReserved ==
  /\ recon.pc = "sold"
  /\ recon' = [pc |-> "writing", rowSold |-> recon.rowSold,
               rowReserved |-> recon.rowReserved, seenSold |-> recon.seenSold,
               seenReserved |-> DerivedReserved, todo |-> TicketTypes]
  /\ UNCHANGED cacheVars
  /\ ReconOnly

\* The sums come back from the driver as strings, which never equal the row's
\* numbers; a type without sold or reserved tickets yields the number 0.
Drifted(t) ==
  \/ recon.rowSold[t] # recon.seenSold[t]
  \/ recon.rowReserved[t] # recon.seenReserved[t]
  \/ recon.seenSold[t] > 0
  \/ recon.seenReserved[t] > 0

ReconRepair(t) ==
  LET sold1 == [sold EXCEPT ![t] = recon.seenSold[t]]
      reserved1 == [reserved EXCEPT ![t] = recon.seenReserved[t]]
      rest == recon.todo \ {t}
      next == IF rest = {} THEN ReconIdle ELSE [recon EXCEPT !.todo = rest]
  IN  /\ recon.pc = "writing"
      /\ t \in recon.todo
      /\ IF ~ Drifted(t) THEN recon' = next /\ UNCHANGED cacheVars
         ELSE IF WithinCapacity(sold1, reserved1)
         THEN recon' = next /\ sold' = sold1 /\ reserved' = reserved1
         ELSE recon' = ReconIdle /\ UNCHANGED cacheVars   \* the tenant's run ends
      /\ ReconOnly

-----------------------------------------------------------------------------
\* The ticket type catalogue.

CatalogueOnly ==
  UNCHANGED <<orderVars, holdVars, ticket, paymentJobs, uncounted, recon, assignVars,
              saleVars>>

\* Mutant: without the CHECK constraint a request could lower the total below what is
\* sold and reserved.
UpdateTicketTypeUnchecked(t, n, s, r) ==
  /\ total' = [total EXCEPT ![t] = n]
  /\ sold' = [sold EXCEPT ![t] = s]
  /\ reserved' = [reserved EXCEPT ![t] = r]
  /\ CatalogueOnly

\* updateTicketTypeBySlug sets what the request names: the total and, if it says so,
\* the cached counters.  Only the CHECK constraint on the counters stands in the way.
UpdateTicketType(t, n, s, r) ==
  /\ total' = [total EXCEPT ![t] = n]
  /\ sold' = [sold EXCEPT ![t] = s]
  /\ reserved' = [reserved EXCEPT ![t] = r]
  /\ s + r <= n
  /\ CatalogueOnly

-----------------------------------------------------------------------------
OrderNext ==
  \E o \in Orders :
    \/ \E status \in {"draft", "pending", "confirmed"} : CreateOrder(o, status)
    \/ HoldLapses(o)
    \/ \E next \in OrderStatus : UpdateOrder(o, next)
    \/ DeleteOrder(o)

TicketNext ==
  \/ \E o \in Orders : AssignReadsOrder(o) \/ AssignIssuesTickets(o) \/ AssignAborts(o)
  \/ /\ \E k \in Tickets :
          \/ CheckIn(k)
          \/ \E next \in TicketStatus : UpdateTicket(k, next)
          \/ DeleteTicket(k)
     /\ UNCHANGED assignVars

SaleNext ==
  \E o \in Orders :
    \/ PayWithCoins(o)
    \/ ConfirmReadsClock(o)
    \/ ConfirmPayment(o)
    \/ ConfirmAborts(o)

PaymentNext ==
  \E o \in Orders :
    \/ \E method \in {"razorpay", "coins"} :
         OpenCheckout(o, method) \/ AbandonCheckout(o, method)
    \/ CreatePaymentOrder(o)
    \/ ConfirmLatePayment(o)
    \/ \E outcome \in {"refunded", "failed"} : LateRefund(o, outcome)
    \/ LateRefundLost(o)
    \/ FailureReadsOrder(o)
    \/ FailureCancelsOrder(o)
    \/ FailureAborts(o)
    \/ \E status \in {"refunded", "partially_refunded"} : Refund(o, status)

JobNext ==
  \/ \E i \in Items : ExpireHold(i) \/ CountExpired(i)
  \/ WorkerDies
  \/ ReconReadRows
  \/ ReconReadSold
  \/ ReconReadReserved
  \/ \E t \in TicketTypes : ReconRepair(t)

CatalogueNext ==
  \E t \in TicketTypes :
    \E n \in Totals \cup {total[t]}, s \in CounterEdits \cup {sold[t]},
       r \in CounterEdits \cup {reserved[t]} :
      UpdateTicketType(t, n, s, r)

\* What happens to the bookings of the types on sale.
BookingNext ==
  /\ \/ OrderNext /\ UNCHANGED <<assignVars, saleVars>>
     \/ TicketNext /\ UNCHANGED saleVars
     \/ SaleNext /\ UNCHANGED assignVars
     \/ PaymentNext /\ UNCHANGED <<assignVars, saleVars>>
     \/ JobNext /\ UNCHANGED <<assignVars, saleVars>>
  /\ UNCHANGED total

Next == BookingNext \/ CatalogueNext

Spec == Init /\ [][Next]_vars

\* The expiry worker is a cron job, every five minutes, over every tenant.
FairSpec ==
  /\ Spec
  /\ \A i \in Items : WF_vars(ExpireHold(i) /\ UNCHANGED <<total, assignVars, saleVars>>)

-----------------------------------------------------------------------------
\* Properties.

\* The staff requests under which capacity is safe: PATCH never makes a sale of an
\* order that is not sold.  (It would not look at the hold's expiry, and "paid" and
\* "completed" convert no hold at all.)
SafeStaffMoves ==
  \A m \in StaffMoves : m[2] \in SoldOrder => m[1] \in SoldOrder

\* The places of a ticket type that are gone: sold, or validly held.
Taken(t) == SoldTickets(t) \cup HeldTickets(t)

\* No ticket type is ever oversold ("exactly zero ticket overselling", README):
\* what is sold or validly held fits its capacity, whatever order payments,
\* expiries, cancellations, checkouts and changes of the total come in.
NoOversell ==
  \A t \in TicketTypes : Cardinality(Taken(t)) <= total[t]

\* Whatever a repair or a request does to the cached counters, only a sale on the word
\* of an old clock can take a place twice: everything else that is sold or validly held
\* fits the capacity, because availability is derived and not read from the cache.
OnlyOverdueOversell ==
  \A t \in TicketTypes :
    Cardinality({k \in Taken(t) : OrderOf(k) \notin overdue}) <= total[t]

\* What an order has of the pool of places: sold ones if it is a sold order; held ones
\* if one of its holds still counts; overdue ones if they have lapsed and nobody has
\* swept one yet; and none any more once none of this is so.
Live(i) == Holding(i) /\ i \notin convertedAt \cup releasedAt
Stake(o) ==
  CASE order[o] = "none" -> "none"
    [] order[o] \in SoldOrder /\ o \notin deleted -> "sold"
    [] OTHER -> IF o \notin lapsed /\ \E i \in ItemsOf(o) : Live(i) THEN "held"
                ELSE IF \A i \in ItemsOf(o) : Live(i) THEN "overdue" ELSE "gone"

Pool == INSTANCE TicketPool
        WITH Types <- TicketTypes,
             OrderFor <- [k \in Tickets |-> OrderOf(k)],
             TypeFor <- [k \in Tickets |-> TypeOf(k)],
             stake <- [o \in Orders |-> Stake(o)]

\* The tables implement the pool: an order takes its places whole and while they fit,
\* buys what it still holds, or what it no longer holds if the places are still there,
\* and gives up for good -- no payment, refund or retry that comes later revives a
\* released, swept or cancelled claim.
PlacesKept == Pool!Spec

\* A sold order owns its capacity: each of its reservations is booked or converted
\* (the booking_reservation_mismatch check of the ledger reconciliation).
SoldIsBacked ==
  \A i \in Items :
    order[ItemOrder[i]] \in SoldOrder => reservation[i] \in {"booked", "converted"}

\* A ticket its holder can enter with, or has entered with, is of a sold order that
\* was not deleted, or an assignment issued it that had read the order before it ended:
\* no cancellation, expiry or refund leaves another one behind.
LiveTicketsBacked ==
  \A k \in Tickets \ strays :
    ticket[k] \in LiveTicket =>
      /\ OrderOf(k) \notin deleted
      /\ order[OrderOf(k)] \in SoldOrder

\* An order that is over, whichever handler ended it, holds no capacity: none of
\* its reservations is live, so none can be booked by a payment that comes later;
\* and a cancelled or expired one has nothing booked either (the other half of the
\* booking_reservation_mismatch check, which looks at orders that are not deleted).
EndedOrdersHoldNothing ==
  \A i \in Items :
    LET o == ItemOrder[i]
    IN  /\ order[o] \in TerminalOrder \/ o \in deleted => ~ Holding(i)
        /\ order[o] \in {"cancelled", "expired"} /\ o \notin deleted =>
             reservation[i] \notin {"booked", "converted"}

\* The timestamps agree with the status.  A live hold with a stamp would escape
\* both the availability sum and the expiry worker, which test for the stamps, and
\* a spent one without its stamp would leave no trace of when it was given back.
StampsAgree ==
  \A i \in Items :
    /\ Holding(i) => i \notin convertedAt \cup releasedAt
    /\ reservation[i] \in {"booked", "converted"} =>
         i \in convertedAt \ releasedAt
    /\ reservation[i] \in ReleasedStatus \cup {"refund_pending", "refunded"} =>
         i \in releasedAt

\* Nothing that happens to the order afterwards -- a refund, a cancellation, a
\* deletion, a late payment -- undoes a check-in.
CheckInIsFinal ==
  [][\A k \in Tickets : ticket[k] = "checked_in" => ticket'[k] = "checked_in"]_vars

\* Between repairs the cached counters err on the safe side: they count at least
\* what is sold, and at least what is held or being expired.
CountersCover ==
  \A t \in TicketTypes :
    /\ sold[t] >= Cardinality(SoldTickets(t))
    /\ reserved[t] >= Quantity({i \in Items : Holding(i) \/ i \in uncounted}, t)

\* A hold whose time has passed does not stay live for ever: the worker, a payment
\* or a cancellation ends it.
LapsedHoldsSwept ==
  \A i \in Items :
    (Holding(i) /\ ItemOrder[i] \in lapsed) ~> ~ Holding(i)
=============================================================================
