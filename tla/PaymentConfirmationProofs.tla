---------------------- MODULE PaymentConfirmationProofs ----------------------
(***************************************************************************)
(* Whatever payments are attempted and reported, by however many calls at  *)
(* a time, and whichever of them fail or die: one capture is recorded, it  *)
(* is answered, and the confirmation keeps the deal of BuyerDeal.          *)
(***************************************************************************)
EXTENDS PaymentConfirmation, TLAPS

\* The reservation of an order with a refund on file.
Refunding == {"refund_pending", "refunded", "failed"}

RefundSteps ==
  {"askRefund", "noteRefund", "noteRelease", "noteOrder", "noteFailure", "noteHeld"}

\* What the one capture did to the order, and who may touch it since.
PaidIsBooked == booking = "paid" <=> hold = "booked"
EndedIsReleased == ended => hold = "released"
RefundHolds ==
  \A p \in Payments : refund[p] # "none" => tx[p] = "captured" /\ hold \in Refunding
MoneyBackIsRecorded ==
  \A p \in Payments : gateway[p] = "refunded" => refund[p] # "none"
RefundersHaveOne ==
  \A c \in Calls : call[c].pc \in RefundSteps => refund[call[c].pay] # "none"

CaptureInv ==
  /\ PaidIsBooked
  /\ EndedIsReleased
  /\ RefundHolds
  /\ MoneyBackIsRecorded
  /\ RefundersHaveOne
  /\ CaptureIsAnswered
  /\ OneCapture

\* A reservation that is booked, released or being refunded is neither booked nor expired
\* again, and none that is being refunded is released.
LEMMA SettledHolds ==
  /\ \A s \in Refunding \cup {"booked", "released"} :
       /\ s # "expired"
       /\ ~ ReservationMayMove(s, "converting")
       /\ ~ ReservationMayMove(s, "expired")
  /\ \A s \in Refunding \ ReleasedStatus : ~ ReservationMayMove(s, "released")
  /\ \A s \in Refunding : s # "booked" /\ s # "active"
  /\ "booked" \notin ReleasedStatus /\ "released" \notin Refunding
BY DEF Refunding, ReservationMayMove, ReservationSuccessors, ReleasedStatus

\* A call that goes on keeps its type.
LEMMA GoesOn ==
  ASSUME TypeOK, NEW c \in Calls, NEW at, at # "idle", At(c, at),
         NEW step \in Steps, Goto(c, step)
  PROVE  call' \in [Calls -> Running \cup {Idle}]
<1>1. call[c] \in Running
  BY DEF TypeOK, At, Idle
<1>2. [call[c] EXCEPT !.pc = step,
                      !.seen = IF step \in {"lock", "confirm"} THEN @ ELSE "none"] \in Running
  BY <1>1 DEF Running
<1> QED
  BY <1>2 DEF TypeOK, Goto

\* Every variable keeps its type.
LEMMA PaymentTypes ==
  ASSUME TypeOK, [Next]_vars
  PROVE  TypeOK'
<1> USE ConstantsAssumption
    DEF ConstantsAssumption, TypeOK, deskVars, payVars
<1>1. CASE OrderMoves
  <2>1. CASE CreatePaymentOrder
    BY <2>1 DEF CreatePaymentOrder, PaymentStatus
  <2>2. CASE HoldLapses
    BY <2>2 DEF HoldLapses
  <2>3. CASE ExpireHold
    BY <2>3 DEF ExpireHold, ReservationStatus
  <2>4. CASE CancelBooking
    BY <2>4 DEF CancelBooking, ReleaseHold, ReservationStatus
  <2> QED
    BY <1>1, <2>1, <2>2, <2>3, <2>4 DEF OrderMoves
<1>2. ASSUME NEW p \in Payments, GatewayMoves(p) \/ LeaseEnds(p)
      PROVE  TypeOK'
  BY <1>2 DEF GatewayMoves, LeaseEnds
<1>3. ASSUME NEW c \in Calls, Arrives(c)
      PROVE  TypeOK'
  BY <1>3 DEF Arrives, TakeWebhook, Verify, Capture, Sync, Begin, Events,
              Running, Idle, Steps
<1>g. ASSUME NEW c \in Calls, NEW at \in Steps, At(c, at), NEW step \in Steps, Goto(c, step)
      PROVE  call' \in [Calls -> Running \cup {Idle}]
  <2>1. at # "idle"
    BY DEF Steps
  <2> QED
    BY <1>g, <2>1, GoesOn
<1>s. /\ {"lockWebhook", "read", "lock", "confirm", "done", "error"} \subseteq Steps
      /\ {"readFailure", "fail", "authorize", "insertAuthorized"} \subseteq Steps
      /\ RefundSteps \subseteq Steps
  BY DEF Steps, RefundSteps
<1>r. {"booked", "refund_pending", "refunded", "failed", "released"} \subseteq ReservationStatus
  BY DEF ReservationStatus
<1>p. {"captured", "refunded", "failed", "authorized"} \subseteq PaymentStatus
  BY DEF PaymentStatus
<1>4. ASSUME NEW c \in Calls, Confirms(c)
      PROVE  TypeOK'
  <2>1. CASE LockWebhook(c) \/ LockPayment(c) \/ ConfirmThrows(c)
    <3>1. call' \in [Calls -> Running \cup {Idle}]
      BY <2>1, <1>g, <1>s DEF LockWebhook, LockPayment, ConfirmThrows
    <3> QED
      BY <2>1, <3>1 DEF LockWebhook, LockPayment, ConfirmThrows
  <2>2. CASE ReadPaymentOrder(c)
    BY <2>2 DEF ReadPaymentOrder, At, Running, Idle, Steps
  <2>3. CASE ConfirmBooks(c)
    <3>1. call' \in [Calls -> Running \cup {Idle}]
      BY <2>3, <1>g, <1>s DEF ConfirmBooks
    <3> QED
      BY <2>3, <3>1, <1>r, <1>p DEF ConfirmBooks, RecordCapture
  <2>4. CASE ConfirmLate(c)
    <3>1. call' \in [Calls -> Running \cup {Idle}]
      BY <2>4, <1>g, <1>s DEF ConfirmLate, RefundSteps
    <3> QED
      BY <2>4, <3>1, <1>r, <1>p DEF ConfirmLate, RecordCapture
  <2> QED
    BY <1>4, <2>1, <2>2, <2>3, <2>4 DEF Confirms
<1>5. ASSUME NEW c \in Calls, Refunds(c)
      PROVE  TypeOK'
  <2>1. call' \in [Calls -> Running \cup {Idle}]
    BY <1>5, <1>g, <1>s DEF Refunds, AskRefund, NoteRefund, NoteRelease, NoteOrder,
                            NoteFailure, NoteHeld, RefundSteps
  <2>2. CASE AskRefund(c)
    BY <2>1, <2>2 DEF AskRefund
  <2>3. CASE NoteRefund(c) \/ NoteRelease(c)
    BY <2>1, <2>3, <1>r DEF NoteRefund, NoteRelease
  <2>4. CASE NoteOrder(c) \/ NoteFailure(c) \/ NoteHeld(c)
    BY <2>1, <2>4, <1>r, <1>p DEF NoteOrder, NoteFailure, NoteHeld
  <2> QED
    BY <1>5, <2>2, <2>3, <2>4 DEF Refunds
<1>6. ASSUME NEW c \in Calls,
             Fails(c) \/ Authorize(c) \/ InsertAuthorized(c) \/ DatabaseAborts(c)
      PROVE  TypeOK'
  <2>1. CASE FailOrder(c)
    <3>1. call' \in [Calls -> Running \cup {Idle}]
      BY <2>1, <1>g, <1>s DEF FailOrder
    <3> QED
      BY <2>1, <3>1, <1>r, <1>p DEF FailOrder, ReleaseHold
  <2>2. CASE ReadFailedOrder(c)
    BY <2>2 DEF ReadFailedOrder, At, Running, Idle, Steps
  <2>3. CASE FailThrows(c) \/ DatabaseAborts(c)
    <3>1. call' \in [Calls -> Running \cup {Idle}]
      BY <2>3, <1>g, <1>s DEF FailThrows, DatabaseAborts, At
    <3> QED
      BY <2>3, <3>1 DEF FailThrows, DatabaseAborts
  <2>4. CASE Authorize(c) \/ InsertAuthorized(c)
    <3>1. call' \in [Calls -> Running \cup {Idle}]
      BY <2>4, <1>g, <1>s DEF Authorize, InsertAuthorized
    <3> QED
      BY <2>4, <3>1, <1>p DEF Authorize, InsertAuthorized
  <2> QED
    BY <1>6, <2>1, <2>2, <2>3, <2>4 DEF Fails
<1>7. ASSUME NEW c \in Calls, Finish(c) \/ Crash(c)
      PROVE  TypeOK'
  <2>1. call' \in [Calls -> Running \cup {Idle}]
    BY <1>7 DEF Finish, Crash
  <2>2. lock' \in [Payments -> Calls \cup {NoCall}]
    BY <1>7 DEF Finish, Crash, Release
  <2>3. event' \in [Events -> {"none", "pending", "processed", "failed"}]
    BY <1>7 DEF Finish, Crash
  <2> QED
    BY <1>7, <2>1, <2>2, <2>3 DEF Finish, Crash
<1>8. CASE UNCHANGED vars
  BY <1>8 DEF vars
<1> QED
  BY <1>1, <1>2, <1>3, <1>4, <1>5, <1>6, <1>7, <1>8 DEF Next, Advances

\* No step records a second capture or takes back the answer to the first.
LEMMA CaptureStep ==
  ASSUME TypeOK, CaptureInv, [Next]_vars
  PROVE  CaptureInv'
<1> USE ConstantsAssumption, SettledHolds
    DEF ConstantsAssumption, TypeOK, Running, Idle, deskVars, payVars,
        CaptureInv, PaidIsBooked, EndedIsReleased, RefundHolds, MoneyBackIsRecorded,
        RefundersHaveOne,
        CaptureIsAnswered, OneCapture
<1>1. CASE CreatePaymentOrder \/ HoldLapses
  BY <1>1 DEF CreatePaymentOrder, HoldLapses
<1>2. CASE ExpireHold
  BY <1>2 DEF ExpireHold
<1>3. CASE CancelBooking
  <2>1. UNCHANGED <<payVars, gateway, call>> /\ booking' # "paid"
    BY <1>3 DEF CancelBooking
  <2>2. CASE booking = "paid"
    <3>1. hold = "booked" /\ \A p \in Payments : refund[p] = "none"
      BY <2>2
    <3>2. hold' = "released" /\ ended'
      BY <1>3, <2>2, <3>1 DEF CancelBooking, ReleaseHold, ReleasedStatus
    <3> QED
      BY <2>1, <3>1, <3>2
  <2>3. CASE booking # "paid"
    <3>1. ended' = ended /\ hold' \in {hold, "released"}
      BY <1>3, <2>3 DEF CancelBooking, ReleaseHold
    <3>2. hold' = hold \/ hold \notin Refunding
      BY <1>3 DEF CancelBooking, MayRelease, ReleaseHold
    <3>3. hold # "booked" /\ hold' # "booked"
      BY <2>3, <3>1
    <3>4. \A p \in Payments : refund[p] # "none" => hold' \in Refunding
      BY <3>2
    <3> QED
      BY <2>1, <2>3, <3>1, <3>3, <3>4
  <2> QED
    BY <2>2, <2>3
<1>4. ASSUME NEW p \in Payments, GatewayMoves(p) \/ LeaseEnds(p)
      PROVE  CaptureInv'
  BY <1>4 DEF GatewayMoves, LeaseEnds
<1>5. ASSUME NEW c \in Calls, Arrives(c)
      PROVE  CaptureInv'
  BY <1>5 DEF Arrives, TakeWebhook, Verify, Capture, Sync, Begin, RefundSteps
<1>6. ASSUME NEW c \in Calls,
             LockWebhook(c) \/ ReadPaymentOrder(c) \/ LockPayment(c) \/ ConfirmThrows(c)
      PROVE  CaptureInv'
  BY <1>6 DEF LockWebhook, ReadPaymentOrder, LockPayment, ConfirmThrows, At, Goto,
              RefundSteps
<1>7. ASSUME NEW c \in Calls, ConfirmBooks(c)
      PROVE  CaptureInv'
  <2>1. ~ ended /\ \A p \in Payments : tx[p] # "captured" /\ refund[p] = "none"
    BY <1>7 DEF ConfirmBooks, MayBook
  <2>2. call[c] \in Running
    BY <1>7 DEF ConfirmBooks, At
  <2>3. \A d \in Calls : call'[d].pc \in RefundSteps => call'[d] = call[d]
    BY <1>7, <2>2 DEF ConfirmBooks, Goto, RefundSteps
  <2>4. /\ \A p \in Payments : tx'[p] = "captured" => p = call[c].pay
        /\ refund' = refund /\ gateway' = gateway
        /\ booking' = "paid" /\ hold' = "booked" /\ ended' = ended
    BY <1>7, <2>1, <2>2 DEF ConfirmBooks, RecordCapture
  <2> QED
    BY <2>1, <2>3, <2>4
<1>8. ASSUME NEW c \in Calls, ConfirmLate(c)
      PROVE  CaptureInv'
  <2>1. hold \notin Refunding \cup {"booked", "released"}
    BY <1>8 DEF ConfirmLate, MayExpire
  <2>2. ~ ended /\ \A p \in Payments : tx[p] # "captured" /\ refund[p] = "none"
    BY <2>1
  <2>3. call[c] \in Running
    BY <1>8 DEF ConfirmLate, At
  <2>4. /\ \A p \in Payments : tx'[p] = "captured" <=> p = call[c].pay
        /\ \A p \in Payments : refund'[p] # "none" <=> p = call[c].pay
        /\ gateway' = gateway /\ ended' = ended
        /\ booking' = "expired" /\ hold' = "refund_pending"
    BY <1>8, <2>2, <2>3 DEF ConfirmLate, RecordCapture
  <2>5. call[c].pay \in Payments /\ call'[c].pay = call[c].pay
    BY <1>8, <2>3 DEF ConfirmLate, Goto
  <2>6. ASSUME NEW d \in Calls, call'[d].pc \in RefundSteps
        PROVE  refund'[call'[d].pay] # "none"
    <3>1. CASE d = c
      BY <2>4, <2>5, <3>1
    <3>2. CASE d # c
      <4>1. call'[d] = call[d]
        BY <1>8, <3>2 DEF ConfirmLate, Goto
      <4>2. call[d] \in Running
        BY <2>6, <4>1 DEF RefundSteps
      <4>3. refund[call[d].pay] # "none" /\ call[d].pay \in Payments
        BY <2>6, <4>1, <4>2
      <4> QED
        BY <2>2, <4>3
    <3> QED
      BY <3>1, <3>2
  <2>7. hold' \in Refunding /\ PaidIsBooked' /\ EndedIsReleased'
    BY <2>2, <2>4 DEF Refunding
  <2> QED
    BY <2>2, <2>4, <2>6, <2>7
<1>9. ASSUME NEW c \in Calls, Refunds(c)
      PROVE  CaptureInv'
  <2>1. call[c] \in Running /\ refund[call[c].pay] # "none"
    BY <1>9 DEF Refunds, AskRefund, NoteRefund, NoteRelease, NoteOrder, NoteFailure,
                NoteHeld, At, RefundSteps
  <2>2. hold \in Refunding
    BY <2>1
  <2>3. CASE AskRefund(c)
    BY <2>1, <2>2, <2>3 DEF AskRefund, Goto, RefundSteps
  <2>4. CASE NoteRefund(c) \/ NoteFailure(c)
    BY <2>1, <2>2, <2>4 DEF NoteRefund, NoteFailure, Goto, RefundSteps
  <2>5. CASE NoteRelease(c) \/ NoteHeld(c)
    BY <2>1, <2>2, <2>5 DEF NoteRelease, NoteHeld, At, Goto, RefundSteps, Refunding
  <2>6. CASE NoteOrder(c)
    BY <2>1, <2>2, <2>6 DEF NoteOrder, Goto, RefundSteps
  <2> QED
    BY <1>9, <2>3, <2>4, <2>5, <2>6 DEF Refunds
<1>10. ASSUME NEW c \in Calls, ReadFailedOrder(c) \/ FailThrows(c) \/ DatabaseAborts(c)
       PROVE  CaptureInv'
  BY <1>10 DEF ReadFailedOrder, FailThrows, DatabaseAborts, Goto, RefundSteps
<1>11. ASSUME NEW c \in Calls, FailOrder(c)
       PROVE  CaptureInv'
  BY <1>11 DEF FailOrder, MayRelease, ReleaseHold, At, Goto, RefundSteps, Refunding
<1>12. ASSUME NEW c \in Calls, Authorize(c) \/ InsertAuthorized(c)
       PROVE  CaptureInv'
  BY <1>12 DEF Authorize, InsertAuthorized, Goto, RefundSteps
<1>13. ASSUME NEW c \in Calls, Finish(c) \/ Crash(c)
       PROVE  CaptureInv'
  BY <1>13 DEF Finish, Crash, RefundSteps
<1>14. CASE UNCHANGED vars
  BY <1>14 DEF vars
<1> QED
  BY <1>1, <1>2, <1>3, <1>4, <1>5, <1>6, <1>7, <1>8, <1>9, <1>10, <1>11, <1>12, <1>13, <1>14
  DEF Next, OrderMoves, Advances, Confirms, Fails

\* Every step is a step of the deal, or leaves it as it is.
LEMMA DealStep ==
  ASSUME TypeOK, CaptureInv, [Next]_vars
  PROVE  [Deal!Buy \/ Deal!GiveUp \/ Deal!Owe \/ Deal!GiveBack]_deal
<1> USE ConstantsAssumption, SettledHolds
    DEF ConstantsAssumption, TypeOK, Running, Idle, deskVars, payVars,
        CaptureInv, PaidIsBooked, EndedIsReleased, RefundHolds, MoneyBackIsRecorded,
        RefundersHaveOne
<1>1. CASE CreatePaymentOrder \/ HoldLapses \/ ExpireHold
  BY <1>1 DEF CreatePaymentOrder, HoldLapses, ExpireHold, deal
<1>a. CASE CancelBooking
  <2>1. CASE booking = "paid"
    <3>1. \A p \in Payments : refund[p] = "none" /\ gateway[p] # "refunded"
      BY <2>1
    <3> QED
      BY <1>a, <2>1, <3>1 DEF CancelBooking, deal, Deal!GiveUp
  <2>2. CASE booking = "pending"
    BY <1>a, <2>2 DEF CancelBooking, deal
  <2> QED
    BY <1>a, <2>1, <2>2 DEF CancelBooking
<1>2. ASSUME NEW p \in Payments, GatewayMoves(p) \/ LeaseEnds(p)
      PROVE  UNCHANGED deal
  BY <1>2 DEF GatewayMoves, LeaseEnds, deal
<1>3. ASSUME NEW c \in Calls, Arrives(c)
      PROVE  UNCHANGED deal
  BY <1>3 DEF Arrives, TakeWebhook, Verify, Capture, Sync, Begin, deal
<1>4. ASSUME NEW c \in Calls,
             \/ LockWebhook(c) \/ ReadPaymentOrder(c) \/ LockPayment(c) \/ ConfirmThrows(c)
             \/ ReadFailedOrder(c) \/ FailThrows(c) \/ DatabaseAborts(c)
             \/ Authorize(c) \/ InsertAuthorized(c) \/ Finish(c) \/ Crash(c)
      PROVE  UNCHANGED deal
  BY <1>4 DEF LockWebhook, ReadPaymentOrder, LockPayment, ConfirmThrows, ReadFailedOrder,
              FailThrows, DatabaseAborts, Authorize, InsertAuthorized, Finish, Crash, deal
<1>5. ASSUME NEW c \in Calls, ConfirmBooks(c)
      PROVE  Deal!Buy
  <2>1. \A p \in Payments : refund[p] = "none" /\ gateway[p] # "refunded"
    BY <1>5 DEF ConfirmBooks, MayBook
  <2>2. booking # "paid"
    BY <1>5 DEF ConfirmBooks, MayBook
  <2>3. ~ ended
    BY <1>5 DEF ConfirmBooks, MayBook
  <2>4. UNCHANGED <<gateway, refund, ended>> /\ booking' = "paid"
    BY <1>5 DEF ConfirmBooks
  <2> QED
    BY <2>1, <2>2, <2>3, <2>4 DEF deal, Deal!Buy
<1>6. ASSUME NEW c \in Calls, ConfirmLate(c)
      PROVE  Deal!Owe
  <2>1. hold \notin Refunding \cup {"booked", "released"}
    BY <1>6 DEF ConfirmLate, MayExpire
  <2>2. booking # "paid" /\ ~ ended /\ \A p \in Payments : refund[p] = "none"
        /\ gateway[p] # "refunded"
    BY <2>1
  <2>3. call[c] \in Running
    BY <1>6 DEF ConfirmLate, At
  <2>4. gateway' = gateway /\ \E p \in Payments : refund'[p] # "none"
    BY <1>6, <2>3 DEF ConfirmLate
  <2> QED
    BY <2>2, <2>4 DEF deal, Deal!Owe
<1>7. ASSUME NEW c \in Calls, Refunds(c)
      PROVE  UNCHANGED deal \/ Deal!GiveBack
  <2>1. call[c] \in Running /\ refund[call[c].pay] # "none"
    BY <1>7 DEF Refunds, AskRefund, NoteRefund, NoteRelease, NoteOrder, NoteFailure,
                NoteHeld, At, RefundSteps
  <2>2. CASE AskRefund(c)
    BY <2>1, <2>2 DEF AskRefund, deal, Deal!GiveBack
  <2>3. CASE NoteRefund(c) \/ NoteFailure(c)
    <3>1. \A p \in Payments : refund'[p] # "none" <=> refund[p] # "none"
      BY <2>1, <2>3 DEF NoteRefund, NoteFailure
    <3> QED
      BY <2>3, <3>1 DEF NoteRefund, NoteFailure, deal
  <2>4. CASE NoteRelease(c) \/ NoteHeld(c) \/ NoteOrder(c)
    BY <2>4 DEF NoteRelease, NoteHeld, NoteOrder, deal
  <2> QED
    BY <1>7, <2>2, <2>3, <2>4 DEF Refunds
<1>8. ASSUME NEW c \in Calls, FailOrder(c)
      PROVE  UNCHANGED deal
  BY <1>8 DEF FailOrder, deal
<1>9. CASE UNCHANGED vars
  BY <1>9 DEF vars, deal
<1> QED
  BY <1>1, <1>a, <1>2, <1>3, <1>4, <1>5, <1>6, <1>7, <1>8, <1>9
  DEF Next, OrderMoves, Advances, Confirms, Fails

LEMMA PaymentInv == Spec => [](TypeOK /\ CaptureInv)
<1>1. Init => TypeOK /\ CaptureInv
  <2>1. Init => TypeOK
    <3> SUFFICES ASSUME Init PROVE TypeOK
      OBVIOUS
    <3>1. hold \in ReservationStatus /\ lapsed \in BOOLEAN /\ ended \in BOOLEAN
      BY Zenon DEF Init, ReservationStatus
    <3>2. call \in [Calls -> Running \cup {Idle}]
      BY DEF Init
    <3> QED
      BY <3>1, <3>2, SMT DEF Init, TypeOK
  <2>2. Init => CaptureInv
    BY DEF Init, Idle, CaptureInv, PaidIsBooked, EndedIsReleased, RefundHolds,
           MoneyBackIsRecorded, RefundersHaveOne, RefundSteps, CaptureIsAnswered, OneCapture
  <2> QED
    BY <2>1, <2>2
<1>2. TypeOK /\ CaptureInv /\ [Next]_vars => (TypeOK /\ CaptureInv)'
  BY PaymentTypes, CaptureStep
<1> QED
  BY <1>1, <1>2, PTL DEF Spec

\* The variables of the payment keep their types.
THEOREM PaymentTypeOK == Spec => []TypeOK
BY PaymentInv, PTL

\* However many payments are attempted and however many calls report them at once, with
\* or without the lock, one payment at most is recorded as captured.
THEOREM OneCaptureHolds == Spec => []OneCapture
BY PaymentInv, PTL DEF CaptureInv

\* Until somebody asks to end the booking, what is recorded as captured has its tickets
\* booked or a refund on file: no failure report, no cancellation before the capture and
\* no expiry undoes the answer.
THEOREM CaptureIsAnsweredHolds == Spec => []CaptureIsAnswered
BY PaymentInv, PTL DEF CaptureInv

\* The confirmation keeps the buyer's deal: it books until the booking is given up on
\* request, or owes the money, and pays back only what it owes.
THEOREM ConfirmationKeepsDeal == Spec => KeepsDeal
<1>1. Init => Deal!Init
  BY DEF Init, Deal!Init, deal
<1>2. TypeOK /\ CaptureInv
      /\ [Next]_vars => [Deal!Buy \/ Deal!GiveUp \/ Deal!Owe \/ Deal!GiveBack]_deal
  BY DealStep
<1> QED
  BY PaymentInv, <1>1, <1>2, PTL DEF Spec, KeepsDeal, Deal!Spec
=============================================================================
