------------------------- MODULE PaymentConfirmation -------------------------
(***************************************************************************)
(* The online payment of one booking order: the payment order, the         *)
(* payments the buyer makes against it at the gateway, and the requests    *)
(* that tell the backend about them.  The shop page calls "verify", the    *)
(* gateway sends webhooks until one is answered with 2xx, staff call       *)
(* "capture" and "sync".  All of them run concurrently, may die at any     *)
(* point and keep Redis locks whose leases may lapse.                      *)
(*                                                                         *)
(* One action is a database transaction, a statement outside of one, or a  *)
(* call of Redis or of the gateway.  The order has one reservation, and    *)
(* what happens to it before and after the payment is in TicketInventory;  *)
(* the money of the organizer is in OrganizerWallet.                       *)
(***************************************************************************)
EXTENDS Lifecycles, FiniteSets

CONSTANTS
  Payments,   \* the gateway payments the buyer attempts
  Calls,      \* requests that run at a time
  NoCall,     \* the holder of a free lock
  Kinds,      \* the requests that are made
  Faulty      \* whether calls die, leases lapse, and the database or gateway fails

ASSUME ConstantsAssumption ==
  /\ NoCall \notin Calls
  /\ Kinds \subseteq {"verify", "captured", "failed", "staff"}
  /\ Faulty \in BOOLEAN

VARIABLES
  booking,    \* booking_orders.status
  hold,       \* inventory_reservations.status
  lapsed,     \* whether expires_at <= now
  ended,      \* history: whether a paid booking was ended on request
  payOrder,   \* payment_orders.status, "none" before the row exists
  tx,         \* payment_transactions.status of each payment
  refund,     \* payment_refunds.status of each payment's automatic refund
  gateway,    \* the payments as the gateway knows them
  event,      \* payment_webhook_events.status of each webhook event
  lock,       \* payment:confirm:<payment>
  call        \* the running requests

deskVars == <<booking, hold, lapsed, ended>>
payVars == <<payOrder, tx, refund>>
vars == <<booking, hold, lapsed, ended, payOrder, tx, refund, gateway, event, lock,
          call>>

-----------------------------------------------------------------------------
PaymentStatus ==
  {"created", "pending", "authorized", "partially_captured", "captured",
   "failed", "cancelled", "expired", "partially_refunded", "refunded"}

\* Where validatePaymentStateTransition lets a payment order go.
PaymentSuccessors(s) ==
  LET captures == {"partially_captured", "captured"}
      ends == {"failed", "cancelled", "expired"}
  IN  CASE s = "created"    -> {"pending", "authorized"} \cup captures \cup ends
        [] s = "pending"    -> {"authorized"} \cup captures \cup ends
        [] s \in {"authorized", "partially_captured"} -> captures \cup ends
        [] s \in {"captured", "partially_refunded"} ->
             {"partially_refunded", "refunded"}
        [] OTHER -> {}

PaymentMayMove(from, to) == from = to \/ to \in PaymentSuccessors(from)

Events == Payments \X {"captured", "failed"}

Idle == [pc |-> "idle"]
Steps ==
  {"lockWebhook", "read", "lock", "confirm", "readFailure", "fail", "fetch",
   "authorize", "insertAuthorized", "askRefund", "noteRefund", "noteRelease",
   "noteOrder", "noteFailure", "noteHeld", "done", "error"}
Running ==
  [kind : Kinds, pay : Payments, pc : Steps, seen : PaymentStatus \cup {"none"}]

TypeOK ==
  /\ booking \in {"pending", "paid", "cancelled", "expired"}
  /\ hold \in ReservationStatus
  /\ lapsed \in BOOLEAN
  /\ ended \in BOOLEAN
  /\ payOrder \in PaymentStatus \cup {"none"}
  /\ tx \in [Payments -> {"none", "authorized", "captured", "failed"}]
  /\ refund \in [Payments -> {"none", "pending", "processed", "failed"}]
  /\ gateway \in [Payments -> {"none", "authorized", "captured", "failed", "refunded"}]
  /\ event \in [Events -> {"none", "pending", "processed", "failed"}]
  /\ lock \in [Payments -> Calls \cup {NoCall}]
  /\ call \in [Calls -> Running \cup {Idle}]

Init ==
  /\ booking = "pending"
  /\ hold = "active"
  /\ lapsed = FALSE
  /\ ended = FALSE
  /\ payOrder = "none"
  /\ tx = [p \in Payments |-> "none"]
  /\ refund = [p \in Payments |-> "none"]
  /\ gateway = [p \in Payments |-> "none"]
  /\ event = [e \in Events |-> "none"]
  /\ lock = [p \in Payments |-> NoCall]
  /\ call = [c \in Calls |-> Idle]

-----------------------------------------------------------------------------
\* The order's life around its payment.

\* The row is read, the gateway asked and the order inserted in three steps; nothing
\* in between depends on the insertion, so one stands for them.
CreatePaymentOrder ==
  /\ payOrder = "none"
  /\ booking = "pending"
  /\ hold = "active" /\ ~ lapsed
  /\ payOrder' = "pending"
  /\ UNCHANGED <<deskVars, tx, refund, gateway, event, lock, call>>

HoldLapses ==
  /\ ~ lapsed
  /\ lapsed' = TRUE
  /\ UNCHANGED <<booking, hold, ended, payVars, gateway, event, lock, call>>

ExpireHold ==
  /\ lapsed
  /\ hold = "active"
  /\ hold' = "expired"
  /\ UNCHANGED <<booking, lapsed, ended, payVars, gateway, event, lock, call>>

\* releaseReservationsForBookingOrder, in the transaction of its caller.
MayRelease == hold \in ReleasedStatus \/ ReservationMayMove(hold, "released")
ReleaseHold == hold' = IF hold \in ReleasedStatus THEN hold ELSE "released"

\* PATCH or DELETE ends an order that is not over, at the request of staff or of the
\* buyer.  If it is paid, its tickets go and nothing is put down for the money.
CancelBooking ==
  /\ booking \in {"pending", "paid"}
  /\ MayRelease
  /\ booking' \in {"cancelled", "expired"}
  /\ ReleaseHold
  /\ ended' = (ended \/ booking = "paid")
  /\ UNCHANGED <<lapsed, payVars, gateway, event, lock, call>>

\* The buyer and the gateway: attempts fail or are authorized, and authorized
\* payments are captured.
GatewayMoves(p) ==
  /\ payOrder # "none"
  /\ \/ gateway[p] = "none" /\ gateway' = [gateway EXCEPT ![p] = "authorized"]
     \/ gateway[p] \in {"none", "authorized"} /\ gateway' = [gateway EXCEPT ![p] = "failed"]
     \/ gateway[p] = "authorized" /\ gateway' = [gateway EXCEPT ![p] = "captured"]
  /\ UNCHANGED <<deskVars, payVars, event, lock, call>>

-----------------------------------------------------------------------------
\* Steps of a request.

At(c, step) == call[c].pc = step
\* What a call has read is used by the transaction that follows and not kept after it.
Goto(c, step) ==
  call' = [call EXCEPT ![c].pc = step,
                       ![c].seen = IF step \in {"lock", "confirm"} THEN @ ELSE "none"]
Begin(c, kind, p, step) ==
  /\ call[c] = Idle
  /\ kind \in Kinds
  /\ call' = [call EXCEPT ![c] = [kind |-> kind, pay |-> p, pc |-> step, seen |-> "none"]]

IsWebhook(c) == call[c].kind \in {"captured", "failed"}
EventOf(c) == <<call[c].pay, call[c].kind>>

\* verifyPayment: the buyer's page brings a signed payment; a held lock turns it away.
Verify(c, p) ==
  /\ payOrder # "none"
  /\ gateway[p] \in {"authorized", "captured", "refunded"}
  /\ lock[p] = NoCall
  /\ lock' = [lock EXCEPT ![p] = c]
  /\ Begin(c, "verify", p, "read")
  /\ UNCHANGED <<deskVars, payVars, gateway, event>>

\* capturePayment: the gateway captures first.
Capture(c, p) ==
  /\ gateway[p] = "authorized"
  /\ gateway' = [gateway EXCEPT ![p] = "captured"]
  /\ Begin(c, "staff", p, "read")
  /\ UNCHANGED <<deskVars, payVars, event, lock>>

\* What the gateway has to tell about payment p.
Sends(p, kind) ==
  \/ kind = "captured" /\ gateway[p] \in {"captured", "refunded"}
  \/ kind = "failed" /\ gateway[p] = "failed"

\* handleWebhook: an event that is new, or failed before, is taken on.  One that is
\* processed, or that somebody seems to be processing, is answered with 200 and nothing
\* happens; so the lock of the event, which is held from before its row is read until
\* after it is written, has nothing left to keep apart.
TakeWebhook(c, p, kind) ==
  /\ Sends(p, kind)
  /\ event[<<p, kind>>] \in {"none", "failed"}
  /\ event' = [event EXCEPT ![<<p, kind>>] = "pending"]
  /\ Begin(c, kind, p, IF kind = "captured" THEN "lockWebhook" ELSE "readFailure")
  /\ UNCHANGED <<deskVars, payVars, gateway, lock>>

\* A webhook skips a payment whose confirmation is under way.
LockWebhook(c) ==
  /\ At(c, "lockWebhook")
  /\ IF lock[call[c].pay] = NoCall
     THEN lock' = [lock EXCEPT ![call[c].pay] = c] /\ Goto(c, "read")
     ELSE UNCHANGED lock /\ Goto(c, "done")
  /\ UNCHANGED <<deskVars, payVars, gateway, event>>

\* confirmPaymentAndOrder reads the payment order and looks for the transaction ...
ReadPaymentOrder(c) ==
  /\ At(c, "read")
  /\ call' = [call EXCEPT ![c].seen = payOrder,
                          ![c].pc = IF tx[call[c].pay] = "captured" THEN "done"
                                    ELSE IF call[c].kind = "verify" THEN "confirm"
                                    ELSE "lock"]
  /\ UNCHANGED <<deskVars, payVars, gateway, event, lock>>

\* ... and takes the payment's lock, unless verifyPayment says that it has it.
LockPayment(c) ==
  /\ At(c, "lock")
  /\ IF lock[call[c].pay] = NoCall
     THEN lock' = [lock EXCEPT ![call[c].pay] = c] /\ Goto(c, "confirm")
     ELSE UNCHANGED lock /\ Goto(c, "error")
  /\ UNCHANGED <<deskVars, payVars, gateway, event>>

-----------------------------------------------------------------------------
\* The transaction of confirmPaymentAndOrder.  It locks the booking order and its
\* reservations; the payment order's status is the one read before.

Late == hold = "expired" \/ lapsed

\* What the transaction records in either case: one row for the payment, which the
\* unique index refuses when there is one already.
RecordCapture(c) ==
  /\ PaymentMayMove(call[c].seen, "captured")
  /\ tx[call[c].pay] = "none"
  /\ payOrder' = "captured"
  /\ tx' = [tx EXCEPT ![call[c].pay] = "captured"]

\* Mutant: whatever is not late is booked, whatever state the reservation is in.
MayBookAnything == ~ Late

\* Mutant: whatever is late expires.
MayExpireAnything == Late

\* The transitions the two branches ask of the reservation.
MayBook == ~ Late /\ ReservationMayMove(hold, "converting")
MayExpire == Late /\ ReservationMayMove(hold, "expired")

\* Paid in time: the reservation is booked and the tickets are issued.
ConfirmBooks(c) ==
  /\ At(c, "confirm")
  /\ MayBook
  /\ RecordCapture(c)
  /\ hold' = "booked"
  /\ booking' = "paid"
  /\ Goto(c, "done")
  /\ UNCHANGED <<lapsed, ended, refund, gateway, event, lock>>

\* Paid too late: the order expires and a refund is put down.
ConfirmLate(c) ==
  /\ At(c, "confirm")
  /\ MayExpire
  /\ RecordCapture(c)
  /\ hold' = "refund_pending"
  /\ booking' = "expired"
  /\ refund' = [refund EXCEPT ![call[c].pay] = "pending"]
  /\ Goto(c, "askRefund")
  /\ UNCHANGED <<lapsed, ended, gateway, event, lock>>

\* Anything else rolls the transaction back: a reservation that is booked, released
\* or being refunded, a payment order that may not be captured, a payment with a row.
ConfirmThrows(c) ==
  /\ At(c, "confirm")
  /\ \/ ~ MayBook /\ ~ MayExpire
     \/ ~ PaymentMayMove(call[c].seen, "captured")
     \/ tx[call[c].pay] # "none"
  /\ Goto(c, "error")
  /\ UNCHANGED <<deskVars, payVars, gateway, event, lock>>

-----------------------------------------------------------------------------
\* The refund of a late payment, after the commit and outside of any transaction.

AskRefund(c) ==
  /\ At(c, "askRefund")
  /\ \/ /\ gateway[call[c].pay] = "captured"
        /\ gateway' = [gateway EXCEPT ![call[c].pay] = "refunded"]
        /\ \/ Goto(c, "noteRefund")
           \/ Faulty /\ Goto(c, "noteFailure")
     \/ /\ gateway[call[c].pay] # "captured" \/ Faulty
        /\ UNCHANGED gateway
        /\ Goto(c, "noteFailure")
  /\ UNCHANGED <<deskVars, payVars, event, lock>>

\* Each of the three statements that note the refund may fail; the handler then
\* puts the refund down as failed, whatever has been noted by then.

NoteRefund(c) ==
  /\ At(c, "noteRefund")
  /\ \/ /\ refund' = [refund EXCEPT ![call[c].pay] = "processed"]
        /\ Goto(c, "noteRelease")
     \/ Faulty /\ UNCHANGED refund /\ Goto(c, "noteFailure")
  /\ UNCHANGED <<deskVars, payOrder, tx, gateway, event, lock>>

NoteRelease(c) ==
  /\ At(c, "noteRelease")
  /\ \/ hold' = "refunded" /\ Goto(c, "noteOrder")
     \/ Faulty /\ UNCHANGED hold /\ Goto(c, "noteFailure")
  /\ UNCHANGED <<booking, lapsed, ended, payVars, gateway, event, lock>>

NoteOrder(c) ==
  /\ At(c, "noteOrder")
  /\ \/ payOrder' = "refunded" /\ Goto(c, "done")
     \/ Faulty /\ UNCHANGED payOrder /\ Goto(c, "noteFailure")
  /\ UNCHANGED <<deskVars, tx, refund, gateway, event, lock>>

NoteFailure(c) ==
  /\ At(c, "noteFailure")
  /\ refund' = [refund EXCEPT ![call[c].pay] = "failed"]
  /\ Goto(c, "noteHeld")
  /\ UNCHANGED <<deskVars, payOrder, tx, gateway, event, lock>>

\* Mutant: the reservation takes a status the column does not know.
NoteUnknown(c) ==
  /\ At(c, "noteHeld")
  /\ hold' = "refund_failed"
  /\ Goto(c, "done")
  /\ UNCHANGED <<booking, lapsed, ended, payVars, gateway, event, lock>>

NoteHeld(c) ==
  /\ At(c, "noteHeld")
  /\ hold' = "failed"
  /\ Goto(c, "done")
  /\ UNCHANGED <<booking, lapsed, ended, payVars, gateway, event, lock>>

-----------------------------------------------------------------------------
\* handlePaymentFailure.

ReadFailedOrder(c) ==
  /\ At(c, "readFailure")
  /\ call' = [call EXCEPT ![c].seen = payOrder, ![c].pc = "fail"]
  /\ UNCHANGED <<deskVars, payVars, gateway, event, lock>>

\* Mutant: a failed attempt cancels the order without looking whether it is paid.
FailPaidOrder(c) ==
  LET p == call[c].pay IN
  /\ At(c, "fail")
  /\ PaymentMayMove(call[c].seen, "failed")
  /\ tx[p] = "none"
  /\ payOrder' = "failed"
  /\ tx' = [tx EXCEPT ![p] = "failed"]
  /\ MayRelease
  /\ booking' = "cancelled"
  /\ ReleaseHold
  /\ Goto(c, "done")
  /\ UNCHANGED <<lapsed, ended, refund, gateway, event, lock>>

\* The transaction judges the status read before it and overwrites the one there is.
\* An order that is not paid is cancelled and lets go of what it held.  It takes the
\* rows in the opposite order of the confirmation: of two that overlap PostgreSQL
\* aborts one.
FailOrder(c) ==
  LET p == call[c].pay IN
  /\ At(c, "fail")
  /\ PaymentMayMove(call[c].seen, "failed")
  /\ tx[p] = "none"
  /\ payOrder' = "failed"
  /\ tx' = [tx EXCEPT ![p] = "failed"]
  /\ \/ booking = "paid" /\ UNCHANGED <<booking, hold>>
     \/ booking # "paid" /\ MayRelease /\ booking' = "cancelled" /\ ReleaseHold
  /\ Goto(c, "done")
  /\ UNCHANGED <<lapsed, ended, refund, gateway, event, lock>>

FailThrows(c) ==
  /\ At(c, "fail")
  /\ \/ ~ PaymentMayMove(call[c].seen, "failed")
     \/ tx[call[c].pay] # "none"
     \/ booking # "paid" /\ ~ MayRelease
  /\ Goto(c, "error")
  /\ UNCHANGED <<deskVars, payVars, gateway, event, lock>>

-----------------------------------------------------------------------------
\* syncPaymentState: staff ask the gateway and apply what it says.  What is captured
\* goes before what is authorized, that before what has failed.

Sync(c, p) ==
  LET known(status) == \E q \in Payments : gateway[q] = status
      paid == known("captured") \/ known("refunded")
      begin(step) == Begin(c, "staff", p, step)
  IN
  /\ payOrder # "none"
  /\ \/ paid /\ gateway[p] = "captured" /\ begin("read")
     \/ /\ ~ paid
        /\ gateway[p] = "authorized"
        /\ PaymentMayMove(payOrder, "authorized")
        /\ begin("authorize")
     \/ ~ paid /\ ~ known("authorized") /\ gateway[p] = "failed" /\ begin("readFailure")
  /\ UNCHANGED <<deskVars, payVars, gateway, event, lock>>

\* Two statements, each on its own.
Authorize(c) ==
  /\ At(c, "authorize")
  /\ payOrder' = "authorized"
  /\ Goto(c, "insertAuthorized")
  /\ UNCHANGED <<deskVars, tx, refund, gateway, event, lock>>

InsertAuthorized(c) ==
  LET p == call[c].pay IN
  /\ At(c, "insertAuthorized")
  /\ IF tx[p] = "none"
     THEN tx' = [tx EXCEPT ![p] = "authorized"] /\ Goto(c, "done")
     ELSE UNCHANGED tx /\ Goto(c, "error")
  /\ UNCHANGED <<deskVars, payOrder, refund, gateway, event, lock>>

-----------------------------------------------------------------------------
\* The end of a call, and faults.

Release(c) == lock' = [p \in Payments |-> IF lock[p] = c THEN NoCall ELSE lock[p]]

\* The lock the call still owns is released; a webhook notes how its event went and
\* answers 200 or 500.
Finish(c) ==
  /\ At(c, "done") \/ At(c, "error")
  /\ Release(c)
  /\ event' = IF IsWebhook(c)
              THEN [event EXCEPT ![EventOf(c)] = IF At(c, "done") THEN "processed" ELSE "failed"]
              ELSE event
  /\ call' = [call EXCEPT ![c] = Idle]
  /\ UNCHANGED <<deskVars, payVars, gateway>>

\* The process dies and the event stays 'pending'.  The lease of its lock is taken to
\* end at once: until it does, others are turned away as they were before.
Crash(c) ==
  /\ Faulty
  /\ call[c] # Idle
  /\ Release(c)
  /\ call' = [call EXCEPT ![c] = Idle]
  /\ UNCHANGED <<deskVars, payVars, gateway, event>>

\* A transaction or a statement fails, as the victim of a deadlock or because the
\* database is gone.
DatabaseAborts(c) ==
  /\ Faulty
  /\ call[c].pc \in {"read", "confirm", "readFailure", "fail", "authorize", "insertAuthorized"}
  /\ Goto(c, "error")
  /\ UNCHANGED <<deskVars, payVars, gateway, event, lock>>

\* A lease of 15 s runs out, or somebody in the same process releases the lock.
LeaseEnds(p) ==
  /\ Faulty
  /\ lock[p] # NoCall
  /\ lock' = [lock EXCEPT ![p] = NoCall]
  /\ UNCHANGED <<deskVars, payVars, gateway, event, call>>

-----------------------------------------------------------------------------
OrderMoves == CreatePaymentOrder \/ HoldLapses \/ ExpireHold \/ CancelBooking

Arrives(c) ==
  \E p \in Payments :
    \/ TakeWebhook(c, p, "captured") \/ TakeWebhook(c, p, "failed")
    \/ Verify(c, p)
    \/ Capture(c, p)
    \/ Sync(c, p)

Confirms(c) ==
  \/ LockWebhook(c) \/ ReadPaymentOrder(c) \/ LockPayment(c)
  \/ ConfirmBooks(c) \/ ConfirmLate(c) \/ ConfirmThrows(c)

Refunds(c) ==
  \/ AskRefund(c) \/ NoteRefund(c) \/ NoteRelease(c) \/ NoteOrder(c)
  \/ NoteFailure(c) \/ NoteHeld(c)

Fails(c) == ReadFailedOrder(c) \/ FailOrder(c) \/ FailThrows(c)

Advances(c) ==
  Confirms(c) \/ Refunds(c) \/ Fails(c) \/ Authorize(c) \/ InsertAuthorized(c) \/ Finish(c)

Next ==
  \/ OrderMoves
  \/ \E p \in Payments : GatewayMoves(p) \/ LeaseEnds(p)
  \/ \E c \in Calls : Arrives(c) \/ Advances(c) \/ Crash(c) \/ DatabaseAborts(c)

Spec == Init /\ [][Next]_vars

\* A call that runs goes on, and the gateway sends an event again until it is
\* taken on and processed.  Nobody has to pay, to load a page or to ask for anything.
Fairness ==
  /\ \A c \in Calls : WF_vars(Advances(c))
  /\ \A p \in Payments, kind \in {"captured", "failed"} :
       WF_vars(\E c \in Calls : TakeWebhook(c, p, kind))

FairSpec == Spec /\ Fairness

-----------------------------------------------------------------------------
\* Of all the payments of an order, whoever reports them and however often, at most
\* one is recorded as captured: the reservation is booked, or put up for a refund,
\* once.  Locks that lapse do not matter.
OneCapture ==
  \A p, q \in Payments : tx[p] = "captured" /\ tx[q] = "captured" => p = q

\* Recorded money has its tickets booked or a refund on file until somebody asks to end
\* the booking: no failure report or sync that was under way at the capture, no cancellation
\* before it, undoes what it did.
CaptureIsAnswered ==
  \A p \in Payments :
    tx[p] = "captured" =>
      (booking = "paid" /\ hold = "booked") \/ refund[p] # "none" \/ ended

\* The buyer's deal, and who keeps the money: what is booked stays booked until it is
\* given up on request, and only what is owed goes back.
deal ==
  IF \E p \in Payments : gateway[p] = "refunded" THEN "returned"
  ELSE IF \E p \in Payments : refund[p] # "none" THEN "owed"
  ELSE IF booking = "paid" THEN "booked"
  ELSE IF ended THEN "givenUp"
  ELSE "open"

Deal == INSTANCE BuyerDeal

\* The confirmation implements BuyerDeal.
KeepsDeal == Deal!Spec

\* A payment the gateway captures after the order's hold ran out goes back to the
\* buyer in the end.
LateCaptureIsRefunded ==
  \A p \in Payments :
    (gateway[p] = "captured" /\ hold = "expired" /\ booking = "pending")
      ~> gateway[p] = "refunded"
=============================================================================
