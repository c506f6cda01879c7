--------------------------- MODULE OrganizerWallet ---------------------------
(***************************************************************************)
(* The organizer's share of what was sold for one event: the wallet row    *)
(* with its three balances, the settlement that makes revenue available    *)
(* once the event is over, refunds of single orders and withdrawals, and   *)
(* what each of them posts to the general ledger.                          *)
(*                                                                         *)
(* A transaction is one action; what a handler reads before its            *)
(* transaction, or does at the gateway, is a step of its own.  All refunds *)
(* are of the whole amount.  A settlement run is the call that works it    *)
(* off; its row in settlement_runs is left out, and staff may approve a    *)
(* new run whenever the lock is free.                                      *)
(***************************************************************************)
EXTENDS Integers, FiniteSets

CONSTANTS
  Orders,       \* booking orders of the event
  Tries,        \* bounds the refund rows of one order
  Withdrawals,  \* bounds the organizer's withdrawal requests
  Disputes,     \* chargebacks, see PaymentDisputes
  Calls,        \* handlers that run at a time
  NoCall,       \* the holder of a free lock
  Net, Fee,     \* the organizer's share of an order, and the platform's with tax
  Ask,          \* what a withdrawal asks for
  Rollbacks,    \* bounds the transactions that roll back after a posting
  Faulty        \* whether calls die, leases lapse and the gateway fails

ASSUME WalletAssumption ==
  /\ NoCall \notin Calls
  /\ Net \in Nat /\ Fee \in Nat /\ Ask \in Nat /\ Rollbacks \in Nat
  /\ Faulty \in BOOLEAN
  /\ IsFiniteSet(Orders) /\ IsFiniteSet(Withdrawals) /\ IsFiniteSet(Disputes)

VARIABLES
  event,         \* events.status: "published" until it is "completed"
  order,         \* booking_orders.status
  credit,        \* the organizer_wallet_transactions row of each order
  refund,        \* payment_refunds.status of each row
  undecided,     \* the rows whose approval_status is 'pending'
  paidBack,      \* at whose request the gateway has refunded the payment of an order
  coins,         \* orders refunded to the buyer's user_wallets balance
  withdrawal,    \* withdrawal_requests.status; 'failed' and 'rejected' are "returned"
  pending, available, withdrawn,   \* organizer_wallets
  escrow,        \* ledger balance PLATFORM_ESCROW
  organizer,     \* ledger balance ORGANIZER_BALANCE
  reserve,       \* ledger balance CHARGEBACK_RESERVE
  keys,          \* ledger_idempotency_keys, each committed by the caller of its posting
  posted,        \* the postings of the ledger under each key
  orphans,       \* history: those whose caller rolled back
  settleLock,    \* settlement:lock:<tenant>
  refundLock,    \* refund:tx:<transaction>
  call           \* the running handlers

buyer == <<order, refund, undecided, paidBack, coins>>
wallet == <<pending, available, withdrawn>>
ledger == <<escrow, organizer, reserve, keys, posted, orphans>>
locks == <<settleLock, refundLock>>
walletVars == <<event, buyer, credit, withdrawal, wallet, ledger, locks, call>>

Gross == Net + Fee
Refunds == Orders \X Tries
RowsOf(o) == {r \in Refunds : r[1] = o}

-----------------------------------------------------------------------------
\* The ledger.  A posting commits in a transaction of its own, inside the one that asks
\* for it and before it; its key's row commits with the caller.  If the caller rolls
\* back, the posting stays and its key is free again.  (What a caller writes beside the
\* ledger is behind the lock of the wallet's row, so posting and commit are one step.)

\* What a journal debits and credits: the change of each balance.
Journal ==
  [capture         |-> [escrow |-> Gross, organizer |-> 0, reserve |-> 0],
   settlement      |-> [escrow |-> - Gross, organizer |-> Net, reserve |-> 0],
   refundEscrow    |-> [escrow |-> - Gross, organizer |-> 0, reserve |-> 0],
   refundOrganizer |-> [escrow |-> 0, organizer |-> - Net, reserve |-> 0],
   withdrawal      |-> [escrow |-> 0, organizer |-> - Ask, reserve |-> 0],
   hold            |-> [escrow |-> 0, organizer |-> - Gross, reserve |-> Gross],
   won             |-> [escrow |-> 0, organizer |-> Gross, reserve |-> - Gross],
   lost            |-> [escrow |-> 0, organizer |-> 0, reserve |-> - Gross]]

Keys ==
  ({"capture", "settlement"} \X Orders) \cup ({"refund"} \X Refunds)
  \cup ({"withdrawal"} \X Withdrawals) \cup ({"hold", "won", "lost"} \X Disputes)

\* Mutant: a key that is there already does not matter.
MayPostAgain(kind, key) ==
  /\ escrow + Journal[kind].escrow >= 0
  /\ organizer + Journal[kind].organizer >= 0

\* A key that is there throws: its row stays 'pending' for ever, since the posting that
\* should complete it does not see it.  Escrow and the organizer's balance are never
\* overdrawn; the reserve may be.
MayPost(kind, key) ==
  /\ key \notin keys
  /\ escrow + Journal[kind].escrow >= 0
  /\ organizer + Journal[kind].organizer >= 0

\* The posting itself.
Enter(kind, key) ==
  /\ MayPost(kind, key)
  /\ posted' = [posted EXCEPT ![key] = @ + 1]
  /\ escrow' = escrow + Journal[kind].escrow
  /\ organizer' = organizer + Journal[kind].organizer
  /\ reserve' = reserve + Journal[kind].reserve

\* It commits with its caller ...
Post(kind, key) == Enter(kind, key) /\ keys' = keys \cup {key} /\ UNCHANGED orphans

\* ... or the caller rolls back and leaves it behind.
MayRollBack == Faulty /\ Cardinality({k \in Keys : orphans[k] > 0}) < Rollbacks

LeaveBehind(kind, key) ==
  /\ MayRollBack /\ orphans[key] < Rollbacks
  /\ Enter(kind, key)
  /\ orphans' = [orphans EXCEPT ![key] = @ + 1]
  /\ UNCHANGED keys

-----------------------------------------------------------------------------
Idle == [pc |-> "idle"]
Settling == [pc : {"settle"}, todo : SUBSET Orders]
\* A refund between what it reads or asks of the gateway and its transaction.
Refunding ==
  [pc : {"record", "coins", "approve"}, order : Orders,
   rows : SUBSET Refunds,   \* the request, or where a new row may go
   share : {"pending", "settled"},   \* where the organizer's share was when it was read
   answer : {"processed", "failed"}]
\* The request that confirmed a late payment, at the refund of it.
LateRefunding == [pc : {"askLate", "noteLate", "failLate"}, row : Refunds]

WalletTypeOK ==
  /\ event \in {"published", "completed"}
  /\ order \in [Orders -> {"none", "paid", "refunded", "expired"}]
  /\ credit \in [Orders -> {"none", "pending", "settled"}]
  /\ refund \in
       [Refunds -> {"none", "pending", "requested", "processed", "rejected", "failed"}]
  /\ undecided \subseteq Refunds
  /\ paidBack \in [Orders -> {"nobody", "capture", "staff", "approval"}]
  /\ coins \subseteq Orders
  /\ withdrawal \in
       [Withdrawals -> {"none", "pending", "processing", "completed", "returned"}]
  /\ pending \in Nat /\ available \in Nat /\ withdrawn \in Nat
  /\ escrow \in Nat /\ organizer \in Nat /\ reserve \in Int
  /\ keys \subseteq Keys
  /\ posted \in [Keys -> Nat] /\ orphans \in [Keys -> Nat]
  /\ settleLock \in Calls \cup {NoCall}
  /\ refundLock \in [Orders -> Calls \cup {NoCall}]

WalletInit ==
  /\ event = "published"
  /\ order = [o \in Orders |-> "none"]
  /\ credit = [o \in Orders |-> "none"]
  /\ refund = [r \in Refunds |-> "none"]
  /\ undecided = {}
  /\ paidBack = [o \in Orders |-> "nobody"]
  /\ coins = {}
  /\ withdrawal = [w \in Withdrawals |-> "none"]
  /\ pending = 0 /\ available = 0 /\ withdrawn = 0
  /\ escrow = 0 /\ organizer = 0 /\ reserve = 0
  /\ keys = {}
  /\ posted = [k \in Keys |-> 0] /\ orphans = [k \in Keys |-> 0]
  /\ settleLock = NoCall
  /\ refundLock = [o \in Orders |-> NoCall]
  /\ call = [c \in Calls |-> Idle]

At(c, step) == call[c].pc = step
Begin(c, what) == call[c] = Idle /\ call' = [call EXCEPT ![c] = what]
End(c) == call' = [call EXCEPT ![c] = Idle]

\* Mutant: balances are not cut off.
LessUncut(balance, amount) == balance - amount

\* Balances are cut off at zero: Math.max(0, ...).
Less(balance, amount) == IF balance > amount THEN balance - amount ELSE 0

\* The rows that use up what may be refunded of an order; a refund of the whole
\* amount needs that there are none, itself aside.
Counts(r) == refund[r] \notin {"none", "rejected", "failed"}
NoneCounts(o) == \A r \in RowsOf(o) : ~ Counts(r)

-----------------------------------------------------------------------------
\* Sales, by confirmPaymentAndOrder.

Sell(o) ==
  /\ order[o] = "none"
  /\ Post("capture", <<"capture", o>>)
  /\ order' = [order EXCEPT ![o] = "paid"]
  /\ credit' = [credit EXCEPT ![o] = "pending"]
  /\ pending' = pending + Net
  /\ UNCHANGED <<event, refund, undecided, paidBack, coins, withdrawal, available, withdrawn,
                 locks, call>>

\* The key is that of a payment row, which rolls back as well: of a sale that rolls back
\* after the posting nothing else remains.
SaleRollsBack(o) ==
  /\ order[o] = "none"
  /\ LeaveBehind("capture", <<"capture", o>>)
  /\ UNCHANGED <<event, buyer, credit, withdrawal, wallet, locks, call>>

\* A late payment is credited and taken back at once, in the wallet and in the ledger, by
\* the row of a refund that has yet to be asked for.  The credit's row stays 'pending'.
SellLate(c, o, r) ==
  LET these == {<<"capture", o>>, <<"refund", r>>} IN
  /\ order[o] = "none"
  /\ r \in RowsOf(o)
  /\ these \cap keys = {}
  /\ keys' = keys \cup these
  /\ posted' = [k \in Keys |-> IF k \in these THEN posted[k] + 1 ELSE posted[k]]
  /\ order' = [order EXCEPT ![o] = "expired"]
  /\ credit' = [credit EXCEPT ![o] = "pending"]
  /\ refund' = [refund EXCEPT ![r] = "pending"]
  /\ undecided' = undecided \cup {r}
  /\ Begin(c, [pc |-> "askLate", row |-> r])
  /\ UNCHANGED <<event, paidBack, coins, withdrawal, wallet, escrow, organizer, reserve,
                 orphans, locks>>

\* After the commit the gateway is asked ...
AskLateRefund(c) ==
  LET o == call[c].row[1]
      goto(step) == call' = [call EXCEPT ![c].pc = step]
  IN
  /\ At(c, "askLate")
  /\ \/ /\ paidBack[o] = "nobody"
        /\ paidBack' = [paidBack EXCEPT ![o] = "capture"]
        /\ \/ goto("noteLate")
           \/ Faulty /\ goto("failLate")
     \/ /\ paidBack[o] # "nobody" \/ Faulty
        /\ UNCHANGED paidBack
        /\ goto("failLate")
  /\ UNCHANGED <<event, order, refund, undecided, coins, credit, withdrawal, wallet, ledger,
                 locks>>

\* ... and its answer noted, whatever has become of the row; if a statement fails, this one
\* or one after it, the row is put down as failed.
NoteLateRefund(c) ==
  LET failing == call' = [call EXCEPT ![c].pc = "failLate"] IN
  /\ At(c, "noteLate")
  /\ \/ /\ refund' = [refund EXCEPT ![call[c].row] = "processed"]
        /\ \/ End(c)
           \/ Faulty /\ failing
     \/ Faulty /\ failing /\ UNCHANGED refund
  /\ UNCHANGED <<event, order, undecided, paidBack, coins, credit, withdrawal, wallet,
                 ledger, locks>>

FailLateRefund(c) ==
  /\ At(c, "failLate")
  /\ refund' = [refund EXCEPT ![call[c].row] = "failed"]
  /\ End(c)
  /\ UNCHANGED <<event, order, undecided, paidBack, coins, credit, withdrawal, wallet,
                 ledger, locks>>

EventEnds ==
  /\ event = "published"
  /\ event' = "completed"
  /\ UNCHANGED <<buyer, credit, withdrawal, wallet, ledger, locks, call>>

-----------------------------------------------------------------------------
\* approveSettlementRun.

\* Under the tenant's lock the pending credits of events that are over are read ...
StartSettlement(c) ==
  /\ event = "completed"
  /\ settleLock = NoCall
  /\ settleLock' = c
  /\ Begin(c, [pc |-> "settle", todo |-> {o \in Orders : credit[o] = "pending"}])
  /\ UNCHANGED <<event, buyer, credit, withdrawal, wallet, ledger, refundLock>>

\* ... and settled in a transaction each, which looks neither at the credit nor at
\* the order's status.
Settle(c, o) ==
  /\ At(c, "settle")
  /\ o \in call[c].todo
  /\ Post("settlement", <<"settlement", o>>)
  /\ pending' = Less(pending, Net)
  /\ available' = available + Net
  /\ credit' = [credit EXCEPT ![o] = "settled"]
  /\ call' = [call EXCEPT ![c].todo = @ \ {o}]
  /\ UNCHANGED <<event, buyer, withdrawal, withdrawn, locks>>

\* Mutant: a credit counts as settled whether or not it could be posted.
NoteDiscrepancySettled(c, o) ==
  /\ At(c, "settle")
  /\ o \in call[c].todo
  /\ ~ MayPost("settlement", <<"settlement", o>>)
  /\ credit' = [credit EXCEPT ![o] = "settled"]
  /\ call' = [call EXCEPT ![c].todo = @ \ {o}]
  /\ UNCHANGED <<event, buyer, withdrawal, wallet, ledger, locks>>

\* What rolls back is noted as a discrepancy and stays pending.
NoteDiscrepancy(c, o) ==
  LET key == <<"settlement", o>> IN
  /\ At(c, "settle")
  /\ o \in call[c].todo
  /\ \/ ~ MayPost("settlement", key) /\ UNCHANGED ledger
     \/ LeaveBehind("settlement", key)
  /\ call' = [call EXCEPT ![c].todo = @ \ {o}]
  /\ UNCHANGED <<event, buyer, credit, withdrawal, wallet, locks>>

FinishSettlement(c) ==
  /\ At(c, "settle")
  /\ call[c].todo = {}
  /\ settleLock' = IF settleLock = c THEN NoCall ELSE settleLock
  /\ End(c)
  /\ UNCHANGED <<event, buyer, credit, withdrawal, wallet, ledger, refundLock>>

-----------------------------------------------------------------------------
\* Refunds.  What is read first, and the gateway's refund, precede the transaction.

BeginRefunding(c, step, o, rows, answer) ==
  Begin(c, [pc |-> step, order |-> o, rows |-> rows,
            share |-> IF credit[o] = "settled" THEN "settled" ELSE "pending", answer |-> answer])

GatewayAnswers == {"processed"} \cup IF Faulty THEN {"failed"} ELSE {}

\* refundPayment, under the lock of the payment.  Its idempotency key makes the
\* gateway answer a repetition as it did the first time; what was refunded without
\* the key it refuses.
BeginRefund(c, o, answer) ==
  /\ order[o] # "none"
  /\ NoneCounts(o)
  /\ refundLock[o] = NoCall
  /\ \/ answer = "processed" /\ paidBack[o] \in {"nobody", "staff"}
        /\ paidBack' = [paidBack EXCEPT ![o] = "staff"]
     \/ answer = "failed" /\ paidBack[o] = "nobody" /\ UNCHANGED paidBack
  /\ refundLock' = [refundLock EXCEPT ![o] = c]
  /\ BeginRefunding(c, "record", o, RowsOf(o), answer)
  /\ UNCHANGED <<event, order, refund, undecided, coins, credit, withdrawal, wallet, ledger,
                 settleLock>>

\* requestCustomerRefund to the buyer's coins: no lock, and no gateway.
BeginCoins(c, o) ==
  /\ order[o] = "paid"
  /\ event = "published"
  /\ BeginRefunding(c, "coins", o, RowsOf(o), "processed")
  /\ UNCHANGED <<event, buyer, credit, withdrawal, wallet, ledger, locks>>

\* requestCustomerRefund to the original payment only puts a request down.
RequestRefund(r) ==
  /\ refund[r] = "none"
  /\ order[r[1]] = "paid"
  /\ event = "published"
  /\ NoneCounts(r[1])
  /\ refund' = [refund EXCEPT ![r] = "requested"]
  /\ undecided' = undecided \cup {r}
  /\ UNCHANGED <<event, order, paidBack, coins, credit, withdrawal, wallet, ledger, locks, call>>

\* approveRefundAdmin: no lock, and no idempotency key.  It takes any row that is not
\* decided, and the rows of refundPayment and of late payments never are.
BeginApproval(c, r, answer) ==
  LET o == r[1] IN
  /\ r \in undecided
  /\ \/ answer = "processed" /\ paidBack[o] = "nobody"
        /\ paidBack' = [paidBack EXCEPT ![o] = "approval"]
     \/ answer = "failed" /\ paidBack[o] = "nobody" /\ UNCHANGED paidBack
  /\ BeginRefunding(c, "approve", o, {r}, answer)
  /\ UNCHANGED <<event, order, refund, undecided, coins, credit, withdrawal, wallet, ledger,
                 locks>>

\* rejectRefundAdmin, of any row that is not decided, refunded or not.
RejectRefund(r) ==
  /\ r \in undecided
  /\ refund' = [refund EXCEPT ![r] = "rejected"]
  /\ undecided' = undecided \ {r}
  /\ UNCHANGED <<event, order, paidBack, coins, credit, withdrawal, wallet, ledger, locks, call>>

\* Mutant: the refunds are not looked at again.
MayRecordUnchecked(c, r) ==
  /\ call[c].pc \in {"record", "coins", "approve"}
  /\ r \in call[c].rows
  /\ IF At(c, "approve") THEN r \in undecided ELSE refund[r] = "none"

\* The transactions lock the payment and look at its refunds again: the row is a new
\* one or still not decided, and no other counts.
MayRecord(c, r) ==
  /\ call[c].pc \in {"record", "coins", "approve"}
  /\ r \in call[c].rows
  /\ IF At(c, "approve") THEN r \in undecided ELSE refund[r] = "none"
  /\ \A q \in RowsOf(call[c].order) \ {r} : ~ Counts(q)

\* The organizer's share is taken from where the credit was when it was read.
RefundKind(c) == IF call[c].share = "settled" THEN "refundOrganizer" ELSE "refundEscrow"

TakeShareBack(c) ==
  /\ UNCHANGED withdrawn
  /\ \/ call[c].share = "settled" /\ available' = Less(available, Net) /\ UNCHANGED pending
     \/ call[c].share = "pending" /\ pending' = Less(pending, Net) /\ UNCHANGED available

\* An approved row is decided with the transaction; refundPayment leaves its row as the
\* column's default has it, 'pending'.
Decide(c, r) ==
  undecided' = CASE At(c, "approve") -> undecided \ {r}
                 [] At(c, "record")  -> undecided \cup {r}
                 [] OTHER            -> undecided

ReleaseRefund(c) ==
  refundLock' = [o \in Orders |-> IF refundLock[o] = c THEN NoCall ELSE refundLock[o]]

RecordRefund(c, r) ==
  LET o == call[c].order IN
  /\ MayRecord(c, r)
  /\ call[c].answer = "processed"
  /\ Post(RefundKind(c), <<"refund", r>>)
  /\ refund' = [refund EXCEPT ![r] = "processed"]
  /\ Decide(c, r)
  /\ order' = [order EXCEPT ![o] = "refunded"]
  /\ coins' = IF At(c, "coins") THEN coins \cup {o} ELSE coins
  /\ TakeShareBack(c)
  /\ ReleaseRefund(c)
  /\ End(c)
  /\ UNCHANGED <<event, paidBack, credit, withdrawal, settleLock>>

\* The gateway's refusal is recorded as well.
RecordFailure(c, r) ==
  /\ MayRecord(c, r)
  /\ call[c].answer = "failed"
  /\ refund' = [refund EXCEPT ![r] = "failed"]
  /\ Decide(c, r)
  /\ ReleaseRefund(c)
  /\ End(c)
  /\ UNCHANGED <<event, order, paidBack, coins, credit, withdrawal, wallet, ledger, settleLock>>

\* The transaction rolls back, whatever the gateway has done: another refund, the
\* ledger, a ticket that is checked in or the database is in the way.  The posting of one
\* that comes that far stays.
RefundThrows(c) ==
  /\ call[c].pc \in {"record", "coins", "approve"}
  /\ \/ UNCHANGED ledger
     \/ \E r \in Refunds :
          /\ MayRecord(c, r)
          /\ call[c].answer = "processed"
          /\ LeaveBehind(RefundKind(c), <<"refund", r>>)
  /\ ReleaseRefund(c)
  /\ End(c)
  /\ UNCHANGED <<event, buyer, credit, withdrawal, wallet, settleLock>>

-----------------------------------------------------------------------------
\* Withdrawals: one transaction each, which locks the request and the wallet.

RequestWithdrawal(w) ==
  /\ withdrawal[w] = "none"
  /\ available >= Ask
  /\ withdrawal' = [withdrawal EXCEPT ![w] = "pending"]
  /\ available' = available - Ask
  /\ pending' = pending + Ask
  /\ UNCHANGED <<event, buyer, credit, withdrawn, ledger, locks, call>>

Open(w) == withdrawal[w] \in {"pending", "processing"}

\* The payout provider, which is asked here and again when staff complete the request,
\* keeps nothing that this module knows of.
ApproveWithdrawal(w) ==
  /\ Open(w)
  /\ withdrawal' = [withdrawal EXCEPT ![w] = "processing"]
  /\ UNCHANGED <<event, buyer, credit, wallet, ledger, locks, call>>

\* By staff, or by the provider's callback if the request is being processed.
CompleteWithdrawal(w) ==
  /\ Open(w)
  /\ Post("withdrawal", <<"withdrawal", w>>)
  /\ pending' = Less(pending, Ask)
  /\ withdrawn' = withdrawn + Ask
  /\ withdrawal' = [withdrawal EXCEPT ![w] = "completed"]
  /\ UNCHANGED <<event, buyer, credit, available, locks, call>>

\* The transaction rolls back after the posting.
WithdrawalRollsBack(w) ==
  /\ Open(w)
  /\ LeaveBehind("withdrawal", <<"withdrawal", w>>)
  /\ UNCHANGED <<event, buyer, credit, withdrawal, wallet, locks, call>>

\* Mutant: a request is returned whatever its status.
ReturnAnyWithdrawal(w) ==
  /\ withdrawal[w] # "none"
  /\ available' = available + Ask
  /\ pending' = Less(pending, Ask)
  /\ withdrawal' = [withdrawal EXCEPT ![w] = "returned"]
  /\ UNCHANGED <<event, buyer, credit, withdrawn, ledger, locks, call>>

ReturnWithdrawal(w) ==
  /\ Open(w)
  /\ available' = available + Ask
  /\ pending' = Less(pending, Ask)
  /\ withdrawal' = [withdrawal EXCEPT ![w] = "returned"]
  /\ UNCHANGED <<event, buyer, credit, withdrawn, ledger, locks, call>>

-----------------------------------------------------------------------------
\* Faults.

\* A handler dies.  The leases of its locks are taken to end at once: until they do,
\* others are turned away as they were before.
Crash(c) ==
  /\ Faulty
  /\ call[c] # Idle
  /\ settleLock' = IF settleLock = c THEN NoCall ELSE settleLock
  /\ ReleaseRefund(c)
  /\ End(c)
  /\ UNCHANGED <<event, buyer, credit, withdrawal, wallet, ledger>>

\* A lease of 120 s or 30 s runs out, or somebody in the same process releases the lock.
LeasesEnd ==
  /\ Faulty
  /\ \/ settleLock # NoCall /\ settleLock' = NoCall /\ UNCHANGED refundLock
     \/ \E o \in Orders :
          /\ refundLock[o] # NoCall
          /\ refundLock' = [refundLock EXCEPT ![o] = NoCall]
          /\ UNCHANGED settleLock
  /\ UNCHANGED <<event, buyer, credit, withdrawal, wallet, ledger, call>>

-----------------------------------------------------------------------------
Sales == EventEnds \/ \E o \in Orders : Sell(o) \/ SaleRollsBack(o)

LateSales(c) ==
  \/ \E o \in Orders, r \in Refunds : SellLate(c, o, r)
  \/ AskLateRefund(c) \/ NoteLateRefund(c) \/ FailLateRefund(c)

Settlements(c) ==
  \/ StartSettlement(c)
  \/ \E o \in Orders : Settle(c, o) \/ NoteDiscrepancy(c, o)
  \/ FinishSettlement(c)

RefundSteps(c) ==
  \/ \E o \in Orders :
       BeginCoins(c, o) \/ \E answer \in GatewayAnswers : BeginRefund(c, o, answer)
  \/ \E r \in Refunds :
       \/ \E answer \in GatewayAnswers : BeginApproval(c, r, answer)
       \/ RecordRefund(c, r) \/ RecordFailure(c, r)
  \/ RefundThrows(c)

WithdrawalSteps ==
  \E w \in Withdrawals :
    \/ RequestWithdrawal(w) \/ ApproveWithdrawal(w)
    \/ CompleteWithdrawal(w) \/ WithdrawalRollsBack(w) \/ ReturnWithdrawal(w)

WalletNext ==
  \/ Sales
  \/ \E c \in Calls : LateSales(c) \/ Settlements(c) \/ RefundSteps(c) \/ Crash(c)
  \/ \E r \in Refunds : RequestRefund(r) \/ RejectRefund(r)
  \/ WithdrawalSteps
  \/ LeasesEnd
=============================================================================
