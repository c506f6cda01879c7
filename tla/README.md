# Event booking backend: models, checks and proofs

TLA+ models of the booking core of this repository (a multi-tenant event booking backend: Hono,
Drizzle on PostgreSQL, Redis, QStash jobs, Razorpay), the TLC runs that check them on small
instances, and TLAPS proofs of the properties that matter most for every instance.
`PROJECT.json` lists the components, runs, mutants, findings, hazards and theorems, and maps
every definition to the lines of code it stands for. Paths below are relative to the
repository's inner `src/`.

## 1. Inventory of the system

| Part | State it keeps | Operations | What must hold |
|---|---|---|---|
| Inventory reservations, `modules/inventory/service.ts` | `inventory_reservations` (status, `expires_at`, `converted_at`, `released_at`); cached `sold_quantity` and `reserved_quantity` of `ticket_types` | reserve, convert, release, expire due, reconcile | no ticket type is oversold; a reservation's stamps agree with its status; the cached counters cover what they cache |
| Ticket type catalogue, `modules/tickets/service.ts` | `ticket_types` (total, cached counters, prices) | create, update, delete | a lowered total never falls below what is sold and held |
| Booking orders, `modules/booking-orders/` | `booking_orders` and their items | create, PATCH (status; by staff or the purchaser), delete, assign attendees | a sold order owns its capacity; an order that is over owns none |
| Issued tickets, `modules/issued-tickets/` | `issued_tickets.status` | issue, check in, update, delete, follow the order's status | a ticket is live only while its sale is; check-in is final |
| Payments, `modules/payments/service.ts` | `payment_orders`, `payment_transactions`, `payment_refunds`; a Redis lock per payment | create, verify, capture, sync, confirm (in time or late), fail, late refund | one payment per order is recorded, and it is booked or owed back |
| Webhook intake, `modules/payments/controller.ts` | `payment_webhook_events` | take an event on once, dispatch, answer | an event sent again does no harm; a captured payment is dealt with in the end |
| Coin checkout, `modules/consumer/service.ts` | coin wallet, the same booking tables | `checkoutWithCoins` | as payments |
| Organizer wallet, settlement, withdrawal, `modules/payments/service.ts` | `organizer_wallets`, their transactions (credits), `withdrawal_requests` | credit a sale, settle a run, request, approve, complete, return a withdrawal | nothing is paid out that was not settled; the balances are the sums of their rows |
| Refund requests, `modules/payments/service.ts` | `payment_refunds`, coins; a Redis lock per transaction | refund by staff, request, approve, reject, to the payment or as coins | one refund per order, in the tables and at the gateway |
| Disputes, `modules/payments/service.ts` | `payment_disputes`, reserve account of the ledger | receive, hold, reopen, win, lose | money held for a dispute goes one way |
| Ledger, `modules/finance/` | accounts, transactions, entries, hash chain, outbox | post, reverse, reconcile | one posting per idempotency key, one chain, balances equal entries |
| Jobs, `routes/qstash.route.ts`, `jobs/` | replay marker and in-progress lock per message | expire reservations (every 5 minutes), reconcile inventory (hourly), mail, others | a lapsed hold is given back; a job delivered twice does no harm; none is dropped |
| Mail outbox, `lib/email-client.ts`, `jobs/email-processor.ts` | `email_deliveries` | enqueue, send, record, retry, take reports | a mail is sent once, or given up after its retries |
| Redis lock, `lib/cache.ts` | one Redis key per lock, a map of tokens per process | `lock`, `unlock` | two holders never work while both leases run |
| Auth and OTP, group bookings, events and profiles, social, media, analytics | one table or a few each | mostly create, read, update, delete | see section 7 |

**How the parts interact.** A buyer creates an order; in one transaction the ticket types are
locked, availability is *derived* from the orders and the reservations, an `active` reservation
per item is inserted and the cached `reserved_quantity` is raised. A payment (Razorpay by verify
call or webhook, or coins) turns the reservations into `booked`, the order into `paid`, and issues
the tickets. A failed payment cancels the order and releases its reservations; a payment that
comes after `expires_at` is captured and refunded; staff and purchasers move orders by PATCH
(`booking-orders/service.ts` 410 lets both); refunds end orders and release capacity. The expiry
worker and the reconciler come from cron. All of this meets in the same few tables, mostly in READ
COMMITTED transactions, sometimes without one.

A confirmed payment credits the organizer's pending balance and the ledger's escrow. After the
event a settlement run moves each credit from pending to available, and withdrawals take it from
there; refunds and disputes take money back from wherever the credit was when they looked.
Webhooks, cron jobs and mail come through routes that take a Redis lock, look for what was done
before, act, and answer so that the sender does or does not try again.

**What is hard.** Handlers read a status before the transaction that acts on it (coin checkout,
failure, refunds); a gateway call sits between a read and a write; a late payment races the
expiry worker and the next buyer; the worker updates the row and the counter in two statements;
the reconciler writes what it read a while ago; Redis leases are shorter than the work they
protect, and their tokens are shared by a process's requests; a marker or an answer is written
after the work it vouches for, and a crash may come in between. The full list, each at its line,
is `hazards` in `PROJECT.json`.

## 2. Modules

| Module | What it is |
|---|---|
| `Lifecycles` | the status tables of reservations, orders and tickets |
| `TicketInventory` | orders, reservations, cached counters, totals, issued tickets, the payment steps as far as they touch these, the expiry worker and the reconciler |
| `MCTicketInventory` | its instances for TLC |
| `TicketInventoryProofs` | type correctness and what holds under any staff requests |
| `TicketPool` | what the inventory promises all buyers together: an order takes its places whole, buys what it holds, or what has lapsed while the places are free, gives up for good |
| `NoOversellProofs` | what holds when staff requests make no sale; what alone can oversell at fixed totals; the tables implement `TicketPool` while nothing is oversold |
| `CountersProofs` | the cached counters cover what they cache; no overselling, and `TicketPool`, at changing totals |
| `BuyerDeal` | what online payment promises a buyer |
| `PaymentConfirmation`, `MCPaymentConfirmation`, `PaymentConfirmationProofs` | one order's payments, the requests that report them, the automatic refund; instances; the proof that it implements `BuyerDeal` |
| `OrganizerWallet` | credits, settlement, refunds, withdrawals and what they post |
| `PaymentDisputes`, `MCPaymentDisputes` | disputes on top of `OrganizerWallet`, and the instances of both |
| `PaymentDisputesProofs`, `WalletLedgerProofs` | type correctness; what wallet and ledger agree on |
| `LeaseMutex` | what a lock with a time to live promises |
| `RedisLock`, `MCRedisLock` | `cacheService.lock`/`unlock` on one key, and an instance |
| `MailDelivery`, `MCMailDelivery` | the job route and the mail outbox on top of `RedisLock`, and an instance |
| `RedisLockProofs` | that the lock implements `LeaseMutex`, alone and under `MailDelivery`; whose lock a request deletes; what the mail route guarantees |
| `LedgerPosting`, `MCLedgerPosting`, `LedgerPostingProofs` | `LedgerPostingEngine.postTransaction` for one tenant: lock, idempotency key, posting transaction, hash chain; instances; proofs about the keys and the chain |

How they compose: `TicketInventory` and `PaymentConfirmation` share `Lifecycles` and look at the
same handlers from two sides, many orders and their places there, one order and its money here.
`PaymentDisputes` EXTENDS `OrganizerWallet`, whose steps it leaves the disputes out of
(`WalletNext /\ UNCHANGED dispute`). `MailDelivery` EXTENDS `RedisLock` and takes each step of
the lock together with what the route does at it. `RedisLock` refines `LeaseMutex`,
`PaymentConfirmation` refines `BuyerDeal` and `TicketInventory` refines `TicketPool`, each by
`INSTANCE ... WITH`.

### TicketInventory and the code

One action is one database transaction, or one statement where the code has no transaction. A
handler that reads, leaves the database and writes later is two actions with a variable that
remembers it is under way.

| Variable | Code |
|---|---|
| `order`, `deleted` | `booking_orders.status`, `deleted_at` |
| `payOrder` | the one `payment_orders` row a booking may have (unique index), and whether Razorpay or coins made it |
| `refundable` | a captured payment that is not fully refunded |
| `reservation`, `convertedAt`, `releasedAt`, `lapsed` | `inventory_reservations`; an order's reservations share one `expires_at`, so `lapsed` is per order |
| `total` | `ticket_types.total_quantity` |
| `sold`, `reserved` | the cached counters of `ticket_types` |
| `ticket` | `issued_tickets.status` |
| `checkout`, `failing`, `refunding` | handlers between their read and their write |
| `assigning` | assignments of attendees that have read the order as sold and not issued yet |
| `punctual` | confirmations that have compared `expires_at` with their clock and not booked yet |
| `strays`, `overdue` | history: tickets an assignment has issued for an order no longer sold; orders booked after their hold had lapsed |
| `uncounted` | rows the worker has expired without having lowered the counter yet |
| `recon` | the reconciler: its program counter and what it has read |

| Actions | Handler |
|---|---|
| `CreateOrder`, `UpdateOrder`, `DeleteOrder` | `booking-orders/service.ts` 215, 398, 532 |
| `AssignReadsOrder`, `AssignIssuesTickets`, `AssignAborts` | `assignBookingOrderAttendees`: the read before the transaction (628), the tickets it issues (`issued-tickets/service.ts` 365-388), an abort |
| `HoldLapses` | time passes `expires_at` |
| `CheckIn`, `UpdateTicket`, `DeleteTicket` | `issued-tickets/service.ts` 611, 682, 770 |
| `OpenCheckout`, `CreatePaymentOrder`, `AbandonCheckout` | `createPaymentOrder` before and after the gateway call; a checkout that fails or whose process dies |
| `PayWithCoins` | the transaction of `checkoutWithCoins` |
| `ConfirmReadsClock`, `ConfirmPayment`, `ConfirmAborts` | `confirmPaymentAndOrder` in time: the clock (575), the booking after the waits for locks, an abort |
| `ConfirmLatePayment`, `LateRefund`, `LateRefundLost` | `confirmPaymentAndOrder`: late; the gateway's answer to the late refund; a crash before it |
| `FailureReadsOrder`, `FailureCancelsOrder`, `FailureAborts` | `handlePaymentFailure`: the unlocked read, the cancellation, an abort |
| `Refund` | `refundPayment`, `approveRefundAdmin` and `requestCustomerRefund` to coins, inside their transactions |
| `ExpireHold`, `CountExpired`, `WorkerDies` | `expireDueReservations`: the row, the counter, a crash between |
| `ReconReadRows`, `ReconReadSold`, `ReconReadReserved`, `ReconRepair` | `reconcileCachedInventory` statement by statement |
| `UpdateTicketType` | `updateTicketTypeBySlug`, `tickets/service.ts` 161-211: what the request sets, and the CHECK of the table |

Abstractions, and on which side they err:

* Amounts, buyers, tenants, coupons, token checks, events' logs and mail are left out; their
  checks only refuse requests.
* Orders, items and tickets are identities fixed by constants; an item's quantity is the number
  of its tickets. Orders are never recreated, so `CHECK_DEADLOCK FALSE` in the runs of this
  model: when all are used up the system may stop.
* The payment order's own status is not kept. The failure handler's check of it is a read before
  its transaction; without it the model allows more failures than the code, never fewer. A
  failure handler that has written the payment order's row keeps that row's lock, so no
  confirmation commits before it ends: `o \notin failing`.
* Between `ConfirmReadsClock` and `ConfirmPayment` the code holds the row locks of the order and
  its reservations; the model lets any handler run there, which allows more. `PayWithCoins` looks
  at neither the clock nor the order again: its clock is read before the transaction
  (`consumer/service.ts` 409), so a hold may have lapsed when it is booked.
* An assignment reads the order without a lock, and what it issues commits whatever the order has
  become. A missing ticket is issued once: that two assignments at once may both insert it is not
  modelled.
* Several failure handlers of one order at once are one; a second one would find the row locked.
* `extendReservationTTL` and `reserveInventoryWithoutOrder` have no caller.
* Ticket types exist from the start with counters at zero. A type's creation and deletion are
  left out; `Totals` and `CounterEdits` are the values the requests of the catalogue may set.
* The sums come from the driver as strings: `row.soldQuantity !== summary.soldQuantity` is true
  for every type with sold or reserved tickets (`Drifted`).

### PaymentConfirmation and the code

One order with one reservation, and every request that may report its payments.

| Variable | Code |
|---|---|
| `booking`, `hold`, `lapsed` | the order's and the reservation's status, and whether `expires_at` is past |
| `payOrder`, `tx`, `refund` | `payment_orders.status`; the row of each payment in `payment_transactions`; its automatic refund in `payment_refunds` |
| `gateway` | the payments as Razorpay knows them |
| `event` | `payment_webhook_events.status` |
| `lock` | the Redis lock `payment:confirm:<payment>` |
| `call` | the requests under way: kind, payment, next step, the payment order's status as read |

| Actions | Code |
|---|---|
| `Verify`, `Capture`, `TakeWebhook`, `LockWebhook` | how `verifyPayment`, `capturePayment` and `handleWebhook` begin, and what turns them away |
| `ReadPaymentOrder`, `LockPayment`, `ConfirmBooks`, `ConfirmLate`, `ConfirmThrows` | `confirmPaymentAndOrder`: reads, lock, transaction |
| `AskRefund`, `NoteRefund`, `NoteRelease`, `NoteOrder`, `NoteFailure`, `NoteHeld` | the refund of a late payment, statement by statement |
| `ReadFailedOrder`, `FailOrder`, `FailThrows` | `handlePaymentFailure` |
| `Sync`, `Authorize`, `InsertAuthorized` | `syncPaymentState` |
| `Finish`, `Crash`, `DatabaseAborts`, `LeaseEnds` | the end of a request, and faults |

`CancelBooking` is PATCH and DELETE of an order that is pending or paid, by staff or the
purchaser: it releases the hold, booked or not, and puts nothing down for the money; `ended`
(history) says that a paid one was ended so. A deleted order counts as cancelled here. A PATCH
that makes a sale, or moves a sold order between sold statuses, is in `TicketInventory` only.

Amounts, invoices, mail and the tickets are left out. The lock of a webhook event is left out as
well: its row already turns a second delivery away for as long as the lock would. A crash frees
the call's lock at once; until the lease ends others would be turned away as they were before.
What aborts a transaction is not modelled: any may abort.

### OrganizerWallet, PaymentDisputes and the code

| Variable | Code |
|---|---|
| `event`, `order` | `events.status`; `booking_orders.status` as far as money goes |
| `credit` | the order's row in `organizer_wallet_transactions` |
| `refund`, `undecided` | `payment_refunds.status`; the rows whose `approval_status` is still the default, `pending` |
| `paidBack`, `coins` | on whose request the gateway has refunded; orders refunded in coins |
| `withdrawal` | `withdrawal_requests.status` (`failed` and `rejected` are `returned`) |
| `pending`, `available`, `withdrawn` | the balances of `organizer_wallets` |
| `escrow`, `organizer`, `reserve` | three balances of the ledger |
| `keys`, `posted` | `ledger_idempotency_keys`, committed by the callers; how many postings the ledger holds under each |
| `orphans` | history: the postings whose caller rolled back |
| `settleLock`, `refundLock` | the two Redis locks |
| `call`, `dispute` | handlers under way; `payment_disputes.status` |

`Sell` is what `confirmPaymentAndOrder` does to the wallet. `SellLate` is its late branch, which
puts a refund down as `pending` and posts it in the same transaction; `AskLateRefund`,
`NoteLateRefund` and `FailLateRefund` are what comes after the commit, so that the row may end
`processed`, `failed` or, after a crash, stay `pending` with its posting. `StartSettlement`,
`Settle`, `NoteDiscrepancy` and `FinishSettlement` are `approveSettlementRun`, a transaction per
credit. `BeginRefund`, `BeginCoins`, `RequestRefund`, `BeginApproval`, `RejectRefund` are what
`refundPayment`, `requestCustomerRefund`, `approveRefundAdmin` and `rejectRefundAdmin` read and
ask of the gateway; `RecordRefund`, `RecordFailure`, `RefundThrows` are their transactions. The
withdrawal actions are `requestWithdrawal` and the branches of `processWithdrawal` and its
callback. `ReceiveDispute`, `HoldReserve`, `HoldFails`, `ReopenDispute`, `StartResolution`,
`PostOutcome` and `StampOutcome` are the dispute handlers, statement by statement.

Every order has the same amounts (`Net`, `Fee`) and every refund is of the whole amount, every
withdrawal of `Ask`.

A posting commits in a transaction of its own, before its caller's (`engine.ts` 232), and its
key's row with the caller. `Post` is a caller that commits; `LeaveBehind` one that rolls back
after it: the posting and what it did to the balances stay, the key is free again, and a retry
posts anew. `SaleRollsBack`, `NoteDiscrepancy`, `RefundThrows`, `WithdrawalRollsBack`, `HoldFails`
and `OutcomeRollsBack` do that. Posting and commit are one step because what a caller writes
beside the ledger is behind the lock of the wallet's row. A late sale that rolls back after both
of its postings, whose effects cancel out, is left out; one that rolls back after the first is
`SaleRollsBack`.

Staff may approve or reject any undecided row, and the rows of `refundPayment` and of late
payments never are decided: `RejectRefund` takes a processed one as well.

The `settlement_runs` row is left out: a run is
the handler that works it off, and staff may start one whenever the lock is free, which allows
more than the row's status does. The payout provider keeps no state here, so nothing is said
about what a second request to it does.

### MailDelivery and the code

One row of `email_deliveries` and the QStash message that names it; a request of `RedisLock` is
one delivery of the message to the job route.

| Variable | Code |
|---|---|
| `mail` | the row: status (`opened` stands for opened, clicked and bounced), `retry_count`, whether it has a `provider_message_id` |
| `marker` | the replay key in Redis |
| `stage`, `found` | where each delivery is, and the `retry_count` it has read |
| `answered` | QStash has had a 2xx |
| `sends` | how often the provider took the mail, counted up to two |
| `disturbed` | history: a message that came before the row, a lock lapsed under its holder, a sent mail whose record was lost, a report that changed the status |

`Arrive`, `AskLock`, `LockRefused`, `LockGranted`, `Mark`, `Release`, `Respond` are the route
(`routes/qstash.route.ts` 52-112, 895-912); `ReadRow`, `SetProcessing`, `Send`, `AnswerLost`,
`Record`, `Fail`, `DatabaseFails` are `processEmailDelivery` and the provider client with its
retries (`lib/brevo.ts` 96-142); `Report` is `emails/service.ts`; `EndTransaction` is the end of
the campaign's transaction in which `enqueue` has already published the message.

The second worker, `lib/email/worker.ts`, is not modelled; nor are suppressions and preferences.
Two things the model shows in passing: a campaign's mail is lost when its message arrives before
the commit (the row is not found, and the answer is success), and a delivered mail reported as
opened is sent again if its message is delivered again, since only `delivered` is skipped.

### RedisLock and the code

`Lock` draws the token; `SetStores`, `SetRefused` are Redis executing `SET NX EX`;
`GrantArrives` is the answer arriving and the token being remembered; `SetLost` is a lost or
timed-out command that `execute` sends again with the same token; `Unlock` reads the map,
`CompareAndDelete` is the Lua script, `Forget` the removal of the map entry; `Expire` is the
time to live; `Crash` loses a process with its requests and its map. An open circuit breaker
makes `lock` return false, as `SetLost` on the last attempt does. A SET that Redis executes
after the client has given it up is not modelled.

### LedgerPosting and the code

`finance/posting-engine/engine.ts` 20-265, one action per statement that other calls can see. A
call is `nested` when its caller passes a transaction: then the key's row is written in the
caller's transaction (`inserted` until `CommitCaller`), while the posting itself always runs in
`db.transaction`, on a second connection.

| Variable | Code |
|---|---|
| `lease`, `disturbed` | the Redis lock of a key; keys whose lock has lapsed under a call at work, or for which an answer of the database was lost |
| `keyRow`, `inserted` | `ledger_idempotency_keys.status` as committed; rows not committed yet |
| `attempt` | the counter of the retry loop |
| `later`, `overtaken`, `head` | what `getLatestTransaction` finds: `created_at` is when a transaction began, so a posting that began before a committed one is never the latest |
| `chain`, `previous`, `posted` | the advisory lock, `previous_hash`, the committed postings |

`AskLock`, `FindKey`, `InsertKey`, `OpenPosting`, `LockKey`, `TakeChain`, `CommitPosting`,
`MarkFailed`, `Unlock` are the statements in their order; `CommitCaller` and `RollbackCaller`
are what the caller does afterwards; `TransientFault`, `Refuse` and `FindKeyFails` are errors
that are retried, that are not, and of the first query; a commit may be unheard of. A call
crashes alone; a process that takes several with it is several crashes. `Lapse` is the lock's
ten seconds. The lock is `RedisLock`'s, reduced to its holder: a grant or a release whose answer
is lost leaves it behind, and a late `Unlock` may delete another call's. Amounts and accounts
are left out: `Refuse` may happen to any posting.

## 3. Runs

| Run | Question | Bounds |
|---|---|---|
| `capacity` | No overselling, whatever clock a payment has read? Sold orders backed, tickets backed, counters covering? Do the tables implement `TicketPool`? | two orders, one type whose total is set to one or two; any staff request that makes no sale; no reconciler, no overwritten counters; `FewUnderWay` |
| `reconciler` | What can oversell when the reconciler or a request has lowered the counters? Is every lapsed hold given back? | two orders, one place, no staff moves; counters set to zero by request; fair expiry worker; `QuietDesk` |
| `oversell` | README 245, "exactly zero ticket overselling", for any PATCH | two orders, one place; violated |
| `payments` | One capture? Booked or owed, until somebody ends the booking? Is `BuyerDeal` implemented? | two payments of one order, two requests at a time, all kinds, all faults; `StaffBesideWebhooks` |
| `webhook_late` | README 387: a late payment is refunded | one payment, webhook only, no fault, fair; violated |
| `wallet` | One refund on record? Does the ledger hold what the tables say, and else only what rollbacks left? Payouts backed? | two orders, two withdrawals, a dispute, two handlers at a time, one rollback after a posting, all faults; `Modest` |
| `refund_twice` | README 754, "no double-refund" | one order, two handlers, no faults; violated |
| `mail` | Does the lock implement the lease, does a request delete only its own, and is a mail sent once and no message dropped? | two deliveries at a time in two processes, three locks altogether, two attempts of a command, one retry; all faults |
| `lock_shared` | "We only ever release a lock we still own" | two requests share a process; violated |
| `ledger_keys` | What do idempotency keys guarantee, and does every call end? | three calls with one key, two attempts, four connections; `TwoAtATime` |
| `ledger_fork` | README 763, "concurrent postings cannot fork the chain" | three calls with a key each; violated |
| `ledger_twice` | "preserving exactly-once posting" (`engine.ts` 220) | three calls with one key, lock never lapsed, no answer lost; violated |

Why the bounds are enough. Every conflict over capacity is between an order that has the last
place and one that wants it, and every race of handlers is between two handlers of one order;
two orders and one place meet all of them, with all handlers interleaved. In `payments`, two
payments meet each other as a failed and a captured attempt and as two captures, and two
requests are enough because a third can only find what the two have committed; in `wallet`, the
conflicts are between a settlement, a refund and a withdrawal that read the same credit or
balance, and two orders let one be settled for what was taken from the other. `Ask` is two
orders' share, so that a withdrawal needs both. In `mail`, three locks make a slow holder, the
one that took over, and one that a wrong delete would let in, since a delivery slot is used
again; one retry reaches both answers of a failure. In the ledger's model, three calls are one
that fails or is rolled back, its retry, and one concurrent with either; two attempts stand for
six. The theorems remove the bounds for the properties they state.

Five runs have a state constraint; what it drops is covered otherwise.

* `FewUnderWay` (`capacity`): of the handlers between two of their steps (a checkout, a
  confirmation, a failure, a refund, an assignment, an expired row not yet counted) two are under
  way at a time in ordinary states, and one beside an oddity: a total that is not the one the
  type was created with, an order that is a draft, deleted, refunded in part or sold late, a
  ticket that was checked in, transferred, invalidated or is a stray. The theorems of section 5
  state all properties of this run without that bound, and for orders of several items, which
  this run does not have.
* `QuietDesk` (`reconciler`): no check-ins, transfers, invalidations, deletions, assignments,
  drafts and refunds of a part; one checkout, confirmation, failure or refund under way; A is
  created before B, which is like it. The run `capacity` has these without a reconciler, and
  `OnlyOverdueIsOversold` with one. `LapsedHoldsSwept` is checked on behaviours within
  `QuietDesk` only.
* `StaffBesideWebhooks` (`payments`): a call by staff is under way only beside a webhook or
  alone, not beside a verify call or another one by staff. The theorems of
  `PaymentConfirmationProofs` have no such bound.
* `Modest` (`wallet`): at most two of refunds, withdrawals, disputes and postings left behind
  altogether; both refunds of one order, no dispute beside a refund, and one handler at a time
  once a posting is left behind. The theorems of `PaymentDisputesProofs` and `WalletLedgerProofs`
  have no such bound.
* `TwoAtATime` (`ledger_keys`): two calls at work at a time, which begin in a fixed order. The
  theorems of `LedgerPostingProofs` have no such bound; `EveryCallEnds` is checked on these
  behaviours only. The constraint never holds back a call that has begun, and the beginning of a
  call is not fair, so it hides no call that waits for ever.

`mail` has a `VIEW` instead: `Live` leaves out what a request has drawn, tried, read or found
once it is past the last step that looks at it, so states that differ in nothing else are one.

`CHECK_DEADLOCK FALSE` where the system may stop: orders are never recreated, a payment's life
ends, all calls of the ledger end. `mail` and `lock_shared` do check for deadlock.

**Fairness.** Three runs assume some.

* `reconciler`: weak fairness of `ExpireHold` for each item. `jobs/schedules.ts` 23-24 schedules
  the worker every five minutes, QStash repeats a failed delivery, and the job takes every
  tenant's due reservations oldest first, a batch at a time. A due reservation stays due until
  something moves it. The assumption is for a tenant the job reaches: the loop over tenants
  (`routes/qstash.route.ts` 482-489) has no `try`, so a tenant whose sweep throws each time
  would starve those after it.
* `ledger_keys`: weak fairness of what a call does by itself, as the event loop and PostgreSQL
  provide it; errors, crashes and lapses are not fair. `EveryCallEnds` needs a connection more
  than there are calls at work. The code does not see to that: with `DB_POOL_MAX` nested calls
  at once (`Connections = 2` in `LedgerKeys.cfg`) all wait for a second connection for ever.
* `webhook_late`: a call that runs goes on, and the gateway sends an event until it is answered
  with 2xx. Nobody has to pay, load a page or ask for anything.

The mail has no liveness property: QStash delivers a bounded number of times, so a mail may stay
`pending` for ever.

### What the violations show

* `oversell`: a PATCH takes an order to `paid` or `completed` without converting its
  reservations and without looking at `expires_at`; once the worker has released the hold and
  another order has taken the place, both count.
* `webhook_late`: `handleWebhook` takes the lock of the payment and calls
  `confirmPaymentAndOrder`, which asks for the same lock, is refused and throws; the event
  fails, and so does every later delivery. A payment that only the webhook reports is never
  confirmed, and a late one never refunded.
* `refund_twice`: staff refund a payment while the buyer asks for coins. The coins take no lock,
  and the gateway has paid before `refundPayment` looks again.
* `lock_shared`: the token map is keyed by the lock's name, so a holder whose lease has lapsed
  releases the lock of a later request of the same process.
* `ledger_fork`: A begins, B begins and commits, A takes the chain after B and commits following
  B. The head is still B, whose transaction began later, and C follows B as well.
* `ledger_twice`: a nested call posts, its caller rolls back, the key's row is gone and the
  posting is not; the retry posts again.

## 4. Properties

Capacity (`TicketInventory`):

* `NoOversell`: what is sold or validly held fits the total.
* `SoldIsBacked`, `EndedOrdersHoldNothing`: the two halves of the `booking_reservation_mismatch`
  check of `finance/reconciliation/service.ts`, as invariants.
* `OnlyOverdueOversell`: with counters that a repair or a request has made too low, the derived
  sum alone must keep the capacity, and it does but for orders booked on a clock that was read
  before their hold lapsed (see section 6). Where the counters cover what they cache, the CHECK
  refuses these as well, which is `NoOversell` in `capacity`.
* `LiveTicketsBacked`: no ticket survives its sale, and the only ones that come after it are the
  strays of an assignment that had read the order before it ended (section 6).
* `CountersCover`: without repairs the counters err on the safe side only.
* `StampsAgree`: status and timestamps agree; the availability sum and the worker's query both
  rely on it.
* `CheckInIsFinal`: no step undoes a check-in.
* `PlacesKept`: refinement of `TicketPool`. The items of an order enter and leave together
  although each has a row of its own that the worker expires by itself; a hold that has lapsed
  counts again only by a sale, and only if the places are still free; one that was swept, released
  or cancelled never does; and a total is never set below what is taken. An order's stake is sold
  if it has a sale, held if its hold still counts, overdue if it has lapsed and no row is swept
  yet, gone if it exists and has none of these.
* `LapsedHoldsSwept`: a lapsed hold ends.

Payments (`PaymentConfirmation`):

* `OneCapture`: of all payments of an order at most one is recorded, with locks or without.
* `CaptureIsAnswered`: what is recorded is booked, or has a refund on file, and nothing that was
  under way at the capture undoes it; only a PATCH or DELETE of the paid booking does.
* `KeepsDeal`: refinement of `BuyerDeal`; booked until given up on request, or owed and then
  perhaps returned, and never both. That what is given up is paid back is not promised, because
  the code does not do it.
* `LateCaptureIsRefunded`: the README's claim on late webhooks.

Wallet and disputes (`PaymentDisputes`):

* `RefundedOnce`: no order is refunded twice on record. `PaidBackOnce`: the README's claim,
  which is about the money and not the record.
* `LedgerAgrees`: what is sold, settled, refunded or about to be, paid out or decided in the
  tables has its key, what is not yet has none, and the ledger holds one posting for every key.
  Beside these it holds only what callers that rolled back have left behind. A refund that has
  failed or was rejected may have its key: the ledger took a late one when it was put down.
* `WithdrawnMatches`: `withdrawn_balance` is the sum of the completed withdrawals.
* `PayoutsAreBacked`: what was paid out had been settled: two runs do not make one credit
  available twice, nor do cut-off balances, returned requests or postings left behind.

Mail (`MailDelivery`):

* `SentOnce`: a mail is sent twice only after one of three named disturbances.
* `AnsweredIsSettled`: once QStash has a 2xx the mail was sent or has used up its retries,
  unless the message came before the row or a lock lapsed under its holder.

Lock and ledger:

* `LeaseKept`: refinement of `LeaseMutex`. `ReleasesOwnLock`: the comment's claim, violated in
  `lock_shared`. Both hold in `mail` because its deliveries are in processes of their own. That is
  an assumption on the deployment and not a fact of the route: `docker-compose.prod.yml` runs one
  node process, in which two deliveries of a message share the token map as in `lock_shared`.
  `SentOnce` and `AnsweredIsSettled` do not depend on it (section 5).
* `CommittedIsPosted`: no answer of the ledger stands for a posting that is not there.
* `NestedCommitOnce`, `DirectPostedOnce`: how far the keys do protect: of nested callers one
  commits, even if the lock lapses; direct calls post once, until a lock lapses or an answer is
  lost (then the error handler may set a completed key to `failed`).
* `EveryCallEnds`: no call waits for ever. `ChainIsLinear`, `PostedOnce`: the two claims.

Each property of a passing run has a mutant of the code that violates it (`mutants`).

## 5. Proofs

`TicketInventoryProofs`, from `ConstantsAssumption` only:

* `TypeCorrect`: `Spec => []TypeOK`. Non-trivial where counters are lowered: `GREATEST(0, ...)`
  keeps them natural.
* `StampsAlwaysAgree`, `EndedOrdersNeverHold`: neither is inductive. A payment that comes late
  writes `refund_pending` whatever the status was; a refund releases only what may move. The
  invariant `HoldInv` adds: an order that does not exist has no reservations (`Existence`) and
  one that does has them all (`ItemsExist`); an order whose gateway refund is under way is
  `expired` and its reservations are waiting for it (`RefundingIsPending`); an order with a
  refundable payment has no live hold (`RefundableHoldsNothing`). One step per action.
* `CheckInsAreFinal`: from the guards of the ticket actions; every bulk change throws on a
  checked-in ticket.

`NoOversellProofs`, for staff requests that make no sale (`SafeStaffMoves`, a hypothesis of each
theorem; `oversell` shows that it is needed):

* `SoldAlwaysBacked`, `LiveTicketsAlwaysBacked`: `SaleInv` adds that an order a failure handler
  is about to cancel is not sold (`FailingIsUnsold`: it blocks the confirmation by its row lock,
  and a coin payment needs an order without payment order), that a booked reservation is of an
  order that was paid (`BookedIsPaid`), and that a deleted order is over (`DeletedIsOver`).
* `OnlyOverdueIsOversold`, when no total changes (`Totals = {}`): each item *claims* its tickets
  while its reservation is live and validly held, or its order sold. What is taken is claimed
  (`TakenIsClaimed`); no action other than `CreateOrder` and a sale that is overdue adds a claim
  (`ClaimsShrink`); and `CreateOrder` adds claims that fit what is left (`CreateFits`, by
  cardinalities). So no cached counter, and no repair of one, plays a part in the argument, and
  the gap between a clock and its commit is all that it leaves open.
* The refinement of `TicketPool`, as far as it does not rest on the counters: `PoolInv` says that
  the items of an order whose hold has not lapsed hold together (`HeldWhole`) and that only orders
  that exist lapse (`LapsedExist`). Each step concerns one order at most and leaves its items,
  creates them, or changes them all at once (`OneOrderAtATime`); while the hold has not lapsed
  this keeps them whole, and after that nothing makes them hold again, whatever the worker does to
  one row at a time. From there every step moves one stake as `TicketPool` allows, or none
  (`StakeMoves`), and what the pool calls occupied is what the inventory calls taken
  (`OccupiedIsTaken`), so that wherever nothing is oversold the pool's `Fits` holds
  (`PoolRefines`, `PoolWhenItFits`).

`CountersProofs`, when besides no reconciler runs and no request overwrites a counter (`~
Reconciles`, `CounterEdits = {}`):

* `CountersAlwaysCover`: `CounterInv` adds that the reconciler is idle, that a row the worker
  has expired and not yet counted is spent (`UncountedAreSpent`), and that coins buy only orders
  not yet sold (`CoinsBuyUnsold`). A set of items whose quantity a handler adds to or takes from
  a counter is disjoint from, or a part of, the one the counter covers.
* `NeverOversoldAtAnyTotal`: a total is lowered only as far as the CHECK on the row's counters
  allows, and these cover what is taken. This is the one place where capacity rests on the
  cached counters, so a repair that makes one too low would let a total fall below what is sold.
* `PlacesKeptAtAnyTotal`: with that, the refinement of `TicketPool` at changing totals.

`PaymentConfirmationProofs`, from `ConstantsAssumption` only:

* `PaymentTypeOK`, `OneCaptureHolds`, `CaptureIsAnsweredHolds`, `ConfirmationKeepsDeal`: the
  invariant `CaptureInv` says that a paid order is booked and a booked one paid (`PaidIsBooked`),
  that a booking ended on request is released (`EndedIsReleased`), that a refund on file has taken
  the reservation out of reach for good (`RefundHolds`), that the gateway has paid back only what
  has a refund on file (`MoneyBackIsRecorded`), and that a call at work on a refund has put it
  there (`RefundersHaveOne`). No lock appears in it: the reservation's transitions and the unique
  row per payment do the work.

`PaymentDisputesProofs` and `WalletLedgerProofs`, from `WalletAssumption` only:

* `WalletTypeCorrect`: the ledger refuses what would make escrow or the organizer's balance
  negative, and the wallet's balances are cut off at zero.
* `LedgerAgreesHolds`: `Tied` relates each table to the ledger's keys; an order not sold has
  nothing on file (`UnsoldIsUntouched`), and what a handler still remembers fits the tables
  (`CallIsTied`: a late refund under way is in the ledger already). `Counted` is the count of
  postings, which every `Post` and every `LeaveBehind` keeps.
* `RefundedOnceHolds`: the refund of a late payment is noted without a look at the other rows, so
  the re-check in the transactions (`MayRecord`) is not enough. `Once` adds that it is noted only
  after the gateway has paid back at its own request (`Answered`), that a late order has no
  second late refund and no refund to coins (`Apart`), and that, unless staff had the gateway
  refund it first, no other refund of the order is processed (`AloneProcessed`).
* `WithdrawnMatchesHolds`: `withdrawn_balance` moves with the row.
* `PayoutsAreBackedHolds`: `Backed`, a bound on the wallet alone: what is available and what open
  or completed requests claim is at most what was settled. A credit is made available once because
  its key is posted once (`Settle`, from `Tied`); the ledger's own refusal to overdraw is not
  needed, and after a rollback it would not be enough.

`RedisLockProofs`; the theorems on the lock itself are for requests in processes of their own
(`OneRequestPerProcess`, a hypothesis of each; `lock_shared` shows that it is needed, and a
deployment with one process does not meet it), those on the mail for any:

* `LockTypeCorrect` (without that hypothesis), `LockImplementsLease`: `LockInv` says that a
  request at work whose token has not lapsed has its token in Redis and in its process's map,
  and that tokens are drawn once. Then every step of `RedisLock` is a step of `LeaseMutex` or a
  stutter.
* `ReleasesOwn`, `MailReleasesOwn`: under the same hypothesis the token a request finds in its
  process's map is its own, so what it deletes is its own lock, or nothing if that has lapsed.
* `MailTypeCorrect` (without that hypothesis).
* `MailKeepsLease`: every step of the mail's route is a step of the lock or leaves it alone
  (`MailStepsLock`).
* `MailSentOnce`, `MailAnsweredIsSettled`, for deliveries in whatever processes: a token that
  waits for its grant is in nobody's map and no unlock is about to release it (`TokensInv`), and
  until a lock lapses under its holder a process's map cannot hand one delivery the token of
  another that works. So `MailInv` can say where a delivery is in the route while it does or does
  not hold the lock (`Placed`), and without a lapse only one is past it (`Alone`); that a mail
  once sent is `delivered`, or the only request that works is about to record it (`SendInv`); and
  that a marker, or a delivery that is about to set it, stands for a mail that is settled
  (`SettleInv`).

`LedgerPostingProofs`, from `ConstantsAssumption` only:

* `LedgerTypeCorrect`; `CommittedAlwaysPosted`, from `ReceiptsStand` (a completed key and an
  answer stand for a posting).
* `NestedAlwaysOnce`: an uncommitted row is the only one of its key (`UncommittedIsSingle`, the
  unique index), so while all calls of a key are nested its row is never completed or failed, a
  call posts only with a row of its own, and a committed row stops the rest (`NestedKeys`).
* `DirectAlwaysOnce`: the call at work holds the lock until it lapses (`LockIsHeld`), so what it
  found in the key's row still stands when it posts or fails (`DirectKeys`).
* `NestedPostOnce`: what has to be added for `PostedOnce`, which `ledger_twice` violates. All
  calls are nested (`AllCallsNested`) and no caller rolls back or dies once the posting of its
  call is committed (`CallersStand`): then a posting is covered by its caller's uncommitted row
  until the caller commits (`PostingsCovered`), lapsed locks and lost answers notwithstanding.
* `LinearInOrder`: what has to be added for `ChainIsLinear`, which `ledger_fork` violates. If no
  posting commits after one that began later (`CommitsInOrder`), the one that has the chain has
  read the head that is still there (`ChainInv`). So the order by `created_at` is the only way
  to a fork: the advisory lock, retries, refusals and crashes are not.

Only model-checked: the liveness properties `LapsedHoldsSwept` and `EveryCallEnds` (temporal
reasoning about fairness is out of the prover's reach), and the violations.

## 6. Findings

The violated runs are the findings of `PROJECT.json`: an oversold ticket against the README, a
webhook that locks itself out, a refund made twice, an unlock that releases another request's
lock, a hash chain that forks, and a posting that is made twice.

The properties that hold name four more things the code does, because they hold only without
them. No doc or test of the repository speaks of them, so they are no findings; they are defects.

* A live ticket on an order that is over (`strays`): `assignBookingOrderAttendees` reads the order
  before its transaction (`booking-orders/service.ts` 628-637) and the tickets are issued without
  its row lock, so a cancellation, deletion or refund that commits in between leaves them.
* An order sold on an old clock (`overdue`): `expires_at` is compared with a `now` that precedes the
  waits for locks (`consumer/service.ts` 409-424, `payments/service.ts` 575). With counters that a
  repair or a request has made too low the place can be taken twice; otherwise the CHECK stops it.
* A paid booking ended without a refund (`ended`): PATCH and DELETE release the booked hold and
  cancel the tickets (`booking-orders/service.ts` 456-495, 545-560) and put nothing down for the
  captured payment; the purchaser may send the PATCH (410).
* Postings left behind (`orphans`), and a late refund's posting that stays when the refund fails:
  the ledger then shows money movements the tables do not have.

Hazards without a property are in `PROJECT.json` with the reason. Among them: the reconciler
writes sums it read a while ago over counters that have moved since, so a correct counter may
become wrong until the next repair; staff may reject a refund that is processed, since its row is
never decided, and refund the order again, when the gateway repeats its answer and the organizer's
share is taken twice; callers that use up the connection pool wait on each other for ever, which
`ledger_keys` with its spare connection does not meet; a webhook whose process dies leaves its
event `pending`, and all later deliveries are answered with 200 and dropped.

## 7. Not modelled, and the plan

Next, in order:

1. Refunds of part of an order, in `OrganizerWallet`: sums over refund rows in place of "none
   counts".
2. `LedgerBalances`: running balances, their rebuild from unlocked reads, and the outbox whose
   event is looked up before it is committed, beside `LedgerPosting`.
3. `TicketIssuance`: ticket rows, counted and inserted by two assignments at once; the count of
   attendee assignments.
4. `GroupBookings` (`modules/group-bookings/service.ts`): contributions, which take no row
   locks, and the booking order that is made inside their transaction by calls that use the
   global connection.
5. The second mail worker, `lib/email/worker.ts`: its query asks for `pending` rows only, so
   rows that a crash leaves in `processing` are not picked up again and its five-minute timeout
   never applies.
6. One-time codes and rate limits (`modules/auth`).

To be proved next: `PaidBackOnce` when every refund of an order is asked for in one way, which
is what `refund_twice` shows to be missing.

Left out for good: HTTP parsing, permissions, media, analytics, profiles and scripts, which are
row-level operations or pure input and output. They are most of the repository's lines (the
scripts alone are 19,000), have no protocol and keep no invariant across requests; so the share
of lines the map covers stays low although the part of the code in which requests meet is
modelled.
