------------------------ MODULE PaymentDisputesProofs ------------------------
(***************************************************************************)
(* What PaymentDisputes, with OrganizerWallet in it, guarantees for any    *)
(* number of orders, refunds, withdrawals, disputes and handlers and for   *)
(* any amounts.                                                            *)
(***************************************************************************)
EXTENDS PaymentDisputes, FiniteSetTheorems, TLAPS

CallTypes ==
  {Idle} \cup Settling \cup Refunding \cup LateRefunding \cup Holding \cup Resolving
CallsOK == call \in [Calls -> CallTypes]
Outcomes ==
  {"capture", "settlement", "refundEscrow", "refundOrganizer", "withdrawal", "hold", "won", "lost"}
RefundPc == {"record", "coins", "approve"}
LatePc == {"askLate", "noteLate", "failLate"}
LedgerOK ==
  /\ escrow \in Nat /\ organizer \in Nat /\ reserve \in Int
  /\ keys \subseteq Keys
  /\ posted \in [Keys -> Nat] /\ orphans \in [Keys -> Nat]

\* The amounts are natural numbers, and journals change balances by integers.
LEMMA JournalTypes ==
  /\ Net \in Nat /\ Fee \in Nat /\ Ask \in Nat /\ Gross \in Nat
  /\ \A kind \in Outcomes :
       /\ Journal[kind].escrow \in Int
       /\ Journal[kind].organizer \in Int
       /\ Journal[kind].reserve \in Int
<1>1. Net \in Nat /\ Fee \in Nat /\ Ask \in Nat /\ Gross \in Nat
  BY WalletAssumption DEF Gross
<1>2. QED
  BY <1>1 DEF Journal, Outcomes

\* A posting keeps the types of the ledger, whether or not its caller commits.
LEMMA EnterTypes ==
  ASSUME LedgerOK, NEW kind \in Outcomes, NEW key \in Keys, Enter(kind, key)
  PROVE  /\ escrow' \in Nat /\ organizer' \in Nat /\ reserve' \in Int
         /\ posted' \in [Keys -> Nat]
<1> DEFINE change == Journal[kind]
<1>1. escrow + change.escrow >= 0 /\ organizer + change.organizer >= 0
  BY DEF Enter, MayPost
<1>2. /\ escrow' = escrow + change.escrow
      /\ organizer' = organizer + change.organizer
      /\ reserve' = reserve + change.reserve
  BY DEF Enter
<1>3. change.escrow \in Int /\ change.organizer \in Int /\ change.reserve \in Int
  BY JournalTypes
<1>4. posted' \in [Keys -> Nat]
  BY DEF Enter, LedgerOK
<1> HIDE DEF change
<1>5. QED
  BY <1>1, <1>2, <1>3, <1>4 DEF LedgerOK

LEMMA PostTypes ==
  ASSUME LedgerOK, NEW kind \in Outcomes, NEW key \in Keys,
         Post(kind, key) \/ LeaveBehind(kind, key)
  PROVE  LedgerOK'
<1>1. Enter(kind, key)
  BY DEF Post, LeaveBehind
<1>2. keys' \subseteq Keys /\ orphans' \in [Keys -> Nat]
  BY DEF LedgerOK, Post, LeaveBehind
<1>3. QED
  BY <1>1, <1>2, EnterTypes DEF LedgerOK

\* What a handler is at says what its record holds.
LEMMA CallShapes ==
  ASSUME NEW c \in Calls, call \in [Calls -> CallTypes]
  PROVE  /\ At(c, "settle") => call[c] \in Settling
         /\ call[c].pc \in RefundPc => call[c] \in Refunding
         /\ call[c].pc \in LatePc => call[c] \in LateRefunding
         /\ At(c, "hold") => call[c] \in Holding
         /\ At(c, "resolve") \/ At(c, "stamp") => call[c] \in Resolving
<1>1. call[c] \in CallTypes
  OBVIOUS
<1>2. QED
  BY <1>1 DEF CallTypes, Idle, Settling, Refunding, LateRefunding, Holding, Resolving, At,
              RefundPc, LatePc, Decided

\* What a withdrawal or a refund takes leaves a natural number.
LEMMA LessTypes == \A b, a \in Nat : Less(b, a) \in Nat
BY DEF Less

LEMMA KeyTypes ==
  /\ \A o \in Orders : <<"capture", o>> \in Keys /\ <<"settlement", o>> \in Keys
  /\ \A r \in Refunds : <<"refund", r>> \in Keys
  /\ \A w \in Withdrawals : <<"withdrawal", w>> \in Keys
  /\ \A d \in Disputes, k \in {"hold", "won", "lost"} : <<k, d>> \in Keys
BY DEF Keys

-----------------------------------------------------------------------------
\* Every variable keeps its type.
LEMMA WalletTypes ==
  ASSUME WalletTypeOK, CallsOK, WalletNext
  PROVE  WalletTypeOK' /\ CallsOK'
<1> USE DEF CallsOK, WalletTypeOK, LedgerOK, buyer, wallet, ledger, locks
<1> DEFINE Goal == WalletTypeOK' /\ CallsOK'
<1>1. CASE Sales
  <2>1. ASSUME NEW o \in Orders, Sell(o)
        PROVE  Goal
    <3>1. LedgerOK'
      BY <2>1, PostTypes, KeyTypes DEF Sell, Outcomes
    <3>2. QED
      BY <2>1, <3>1, JournalTypes DEF Sell
  <2>2. ASSUME NEW o \in Orders, SaleRollsBack(o)
        PROVE  Goal
    <3>1. LedgerOK'
      BY <2>2, PostTypes, KeyTypes DEF SaleRollsBack, Outcomes
    <3>2. QED
      BY <2>2, <3>1 DEF SaleRollsBack
  <2>3. CASE EventEnds
    BY <2>3 DEF EventEnds
  <2>4. QED
    BY <1>1, <2>1, <2>2, <2>3 DEF Sales
<1>2. ASSUME NEW c \in Calls, Settlements(c)
      PROVE  Goal
  <2>1. CASE StartSettlement(c)
    BY <2>1 DEF StartSettlement, Begin, Settling, CallTypes
  <2>2. ASSUME NEW o \in Orders, Settle(c, o)
        PROVE  Goal
    <3>1. LedgerOK'
      BY <2>2, PostTypes, KeyTypes DEF Settle, Outcomes
    <3>2. CallsOK'
      BY <2>2, CallShapes DEF Settle, Settling, CallTypes
    <3>3. pending' \in Nat /\ available' \in Nat
      BY <2>2, JournalTypes, LessTypes DEF Settle
    <3>4. QED
      BY <2>2, <3>1, <3>2, <3>3 DEF Settle
  <2>3. ASSUME NEW o \in Orders, NoteDiscrepancy(c, o)
        PROVE  Goal
    <3>1. CallsOK'
      BY <2>3, CallShapes DEF NoteDiscrepancy, Settling, CallTypes
    <3>2. LedgerOK'
      BY <2>3, PostTypes, KeyTypes DEF NoteDiscrepancy, Outcomes
    <3>3. QED
      BY <2>3, <3>1, <3>2 DEF NoteDiscrepancy
  <2>4. CASE FinishSettlement(c)
    BY <2>4 DEF FinishSettlement, End, CallTypes
  <2>5. QED
    BY <1>2, <2>1, <2>2, <2>3, <2>4 DEF Settlements
<1>3. ASSUME NEW c \in Calls, RefundSteps(c)
      PROVE  Goal
  <2>1. ASSUME NEW o \in Orders, NEW answer \in GatewayAnswers,
               BeginCoins(c, o) \/ BeginRefund(c, o, answer)
        PROVE  Goal
    <3>1. RowsOf(o) \subseteq Refunds /\ answer \in {"processed", "failed"}
      BY DEF RowsOf, GatewayAnswers
    <3>2. QED
      BY <2>1, <3>1 DEF BeginCoins, BeginRefund, BeginRefunding, Begin, Refunding, CallTypes
  <2>2. ASSUME NEW r \in Refunds, NEW answer \in GatewayAnswers, BeginApproval(c, r, answer)
        PROVE  Goal
    <3>1. r[1] \in Orders /\ answer \in {"processed", "failed"}
      BY DEF Refunds, GatewayAnswers
    <3>2. QED
      BY <2>2, <3>1 DEF BeginApproval, BeginRefunding, Begin, Refunding, CallTypes
  <2>3. ASSUME NEW r \in Refunds, RecordRefund(c, r)
        PROVE  Goal
    <3>1. call[c] \in Refunding
      BY <2>3, CallShapes DEF RecordRefund, MayRecord, RefundPc
    <3>2. LedgerOK'
      BY <2>3, PostTypes, KeyTypes DEF RecordRefund, RefundKind, Outcomes
    <3>3. pending' \in Nat /\ available' \in Nat /\ withdrawn' \in Nat
      BY <2>3, JournalTypes, LessTypes DEF RecordRefund, TakeShareBack
    <3>4. coins' \subseteq Orders
      BY <2>3, <3>1 DEF RecordRefund, Refunding
    <3>5. undecided' \subseteq Refunds
      BY <2>3 DEF RecordRefund, Decide
    <3>6. QED
      BY <2>3, <3>1, <3>2, <3>3, <3>4, <3>5 DEF RecordRefund, ReleaseRefund, End, CallTypes
  <2>4. ASSUME NEW r \in Refunds, RecordFailure(c, r)
        PROVE  Goal
    <3>1. undecided' \subseteq Refunds
      BY <2>4 DEF RecordFailure, Decide
    <3>2. QED
      BY <2>4, <3>1 DEF RecordFailure, ReleaseRefund, End, CallTypes
  <2>5. CASE RefundThrows(c)
    <3>1. LedgerOK'
      BY <2>5, PostTypes, KeyTypes DEF RefundThrows, RefundKind, Outcomes
    <3>2. QED
      BY <2>5, <3>1 DEF RefundThrows, ReleaseRefund, End, CallTypes
  <2>6. "processed" \in GatewayAnswers
    BY DEF GatewayAnswers
  <2>7. QED
    BY <1>3, <2>1, <2>2, <2>3, <2>4, <2>5, <2>6 DEF RefundSteps
<1>4. ASSUME NEW r \in Refunds, RequestRefund(r) \/ RejectRefund(r)
      PROVE  Goal
  BY <1>4 DEF RequestRefund, RejectRefund
<1>5. CASE WithdrawalSteps
  <2>1. ASSUME NEW w \in Withdrawals, RequestWithdrawal(w) \/ ApproveWithdrawal(w)
        PROVE  Goal
    BY <2>1, JournalTypes DEF RequestWithdrawal, ApproveWithdrawal
  <2>2. ASSUME NEW w \in Withdrawals, CompleteWithdrawal(w)
        PROVE  Goal
    <3>1. LedgerOK'
      BY <2>2, PostTypes, KeyTypes DEF CompleteWithdrawal, Outcomes
    <3>2. pending' = Less(pending, Ask) /\ withdrawn' = withdrawn + Ask
      BY <2>2 DEF CompleteWithdrawal
    <3>3. pending' \in Nat
      BY <3>2, JournalTypes, LessTypes
    <3>4. withdrawn' \in Nat
      BY <3>2, JournalTypes
    <3>5. QED
      BY <2>2, <3>1, <3>3, <3>4 DEF CompleteWithdrawal
  <2>3. ASSUME NEW w \in Withdrawals, ReturnWithdrawal(w)
        PROVE  Goal
    <3>1. available' = available + Ask /\ pending' = Less(pending, Ask)
      BY <2>3 DEF ReturnWithdrawal
    <3>2. pending' \in Nat
      BY <3>1, JournalTypes, LessTypes
    <3>3. available' \in Nat
      BY <3>1, JournalTypes
    <3>4. QED
      BY <2>3, <3>2, <3>3 DEF ReturnWithdrawal
  <2>4. ASSUME NEW w \in Withdrawals, WithdrawalRollsBack(w)
        PROVE  Goal
    <3>1. LedgerOK'
      BY <2>4, PostTypes, KeyTypes DEF WithdrawalRollsBack, Outcomes
    <3>2. QED
      BY <2>4, <3>1 DEF WithdrawalRollsBack
  <2>5. QED
    BY <1>5, <2>1, <2>2, <2>3, <2>4 DEF WithdrawalSteps
<1>6. ASSUME NEW c \in Calls, Crash(c)
      PROVE  Goal
  BY <1>6 DEF Crash, ReleaseRefund, End, CallTypes
<1>7. CASE LeasesEnd
  BY <1>7 DEF LeasesEnd
<1>8. ASSUME NEW c \in Calls, LateSales(c)
      PROVE  Goal
  <2>1. ASSUME NEW o \in Orders, NEW r \in Refunds, SellLate(c, o, r)
        PROVE  Goal
    <3>1. LedgerOK'
      <4>1. posted' \in [Keys -> Nat]
        <5>1. \A k \in Keys : posted[k] \in Nat /\ posted[k] + 1 \in Nat
          OBVIOUS
        <5>2. posted' = [k \in Keys |-> IF k \in {<<"capture", o>>, <<"refund", r>>}
                                       THEN posted[k] + 1 ELSE posted[k]]
          BY <2>1 DEF SellLate
        <5>3. QED
          BY <5>1, <5>2
      <4>2. keys' \subseteq Keys
        BY <2>1, KeyTypes DEF SellLate
      <4>3. UNCHANGED <<escrow, organizer, reserve, orphans>>
        BY <2>1 DEF SellLate
      <4>4. QED
        BY <4>1, <4>2, <4>3
    <3>2. QED
      BY <2>1, <3>1 DEF SellLate, Begin, LateRefunding, CallTypes
  <2>2. CASE AskLateRefund(c)
    <3>1. call[c] \in LateRefunding
      BY <2>2, CallShapes DEF AskLateRefund, At, LatePc
    <3>2. call[c].row[1] \in Orders
      BY <3>1 DEF LateRefunding, Refunds
    <3>3. paidBack' \in [Orders -> {"nobody", "capture", "staff", "approval"}]
      BY <2>2, <3>2 DEF AskLateRefund
    <3>4. CallsOK'
      BY <2>2, <3>1 DEF AskLateRefund, LateRefunding, CallTypes
    <3>5. QED
      BY <2>2, <3>3, <3>4 DEF AskLateRefund
  <2>3. CASE NoteLateRefund(c)
    <3>1. call[c] \in LateRefunding
      BY <2>3, CallShapes DEF NoteLateRefund, At, LatePc
    <3>2. CallsOK'
      BY <2>3, <3>1 DEF NoteLateRefund, LateRefunding, End, CallTypes
    <3>3. QED
      BY <2>3, <3>1, <3>2 DEF NoteLateRefund, LateRefunding
  <2>4. CASE FailLateRefund(c)
    <3>1. call[c] \in LateRefunding
      BY <2>4, CallShapes DEF FailLateRefund, At, LatePc
    <3>2. QED
      BY <2>4, <3>1 DEF FailLateRefund, LateRefunding, End, CallTypes
  <2>5. QED
    BY <1>8, <2>1, <2>2, <2>3, <2>4 DEF LateSales
<1>9. QED
  BY <1>1, <1>2, <1>3, <1>4, <1>5, <1>6, <1>7, <1>8 DEF WalletNext

\* The same for the disputes, and for all steps.
LEMMA DisputeTypes ==
  ASSUME TypeOK, NEW c \in Calls, DisputeSteps(c)
  PROVE  TypeOK'
<1> USE DEF TypeOK, WalletTypeOK, LedgerOK, buyer, wallet, ledger, locks
<1>0. call \in [Calls -> CallTypes]
  BY DEF CallTypes
<1>1. ASSUME NEW d \in Disputes, NEW outcome \in Decided,
             ReceiveDispute(c, d) \/ StartResolution(c, d, outcome)
      PROVE  TypeOK'
  BY <1>1 DEF ReceiveDispute, StartResolution, Begin, Holding, Resolving
<1>2. CASE HoldReserve(c)
  <2>1. call[c].dispute \in Disputes
    BY <1>0, <1>2, CallShapes DEF HoldReserve, Holding
  <2>2. LedgerOK'
    BY <1>2, <2>1, PostTypes, KeyTypes DEF HoldReserve, Outcomes
  <2>3. QED
    BY <1>2, <2>2 DEF HoldReserve, End
<1>3. CASE HoldFails(c)
  <2>1. call[c].dispute \in Disputes
    BY <1>0, <1>3, CallShapes DEF HoldFails, Holding
  <2>2. LedgerOK'
    BY <1>3, <2>1, PostTypes, KeyTypes DEF HoldFails, Outcomes
  <2>3. QED
    BY <1>3, <2>2 DEF HoldFails, End
<1>4. CASE PostOutcome(c)
  <2>1. call[c] \in Resolving
    BY <1>0, <1>4, CallShapes DEF PostOutcome
  <2>2. LedgerOK'
    <3>1. call[c].outcome \in {"won", "lost"} /\ call[c].dispute \in Disputes
      BY <2>1 DEF Resolving, Decided
    <3>2. call[c].outcome \in Outcomes /\ <<call[c].outcome, call[c].dispute>> \in Keys
      BY <3>1, KeyTypes DEF Outcomes
    <3>3. \/ Post(call[c].outcome, <<call[c].outcome, call[c].dispute>>)
          \/ UNCHANGED ledger
      BY <1>4 DEF PostOutcome
    <3> QED
      BY <3>2, <3>3, PostTypes
  <2>3. call' \in [Calls -> CallTypes]
    <3>1. [call[c] EXCEPT !.pc = "stamp"] \in Resolving
      BY <2>1 DEF Resolving
    <3>2. call' = [call EXCEPT ![c] = [call[c] EXCEPT !.pc = "stamp"]]
      BY <1>4 DEF PostOutcome
    <3> QED
      BY <1>0, <3>1, <3>2 DEF CallTypes
  <2>4. UNCHANGED <<event, buyer, credit, withdrawal, wallet, locks, dispute>>
    BY <1>4 DEF PostOutcome
  <2>5. QED
    BY <2>2, <2>3, <2>4 DEF CallTypes
<1>5. CASE StampOutcome(c)
  <2>1. call[c] \in Resolving
    BY <1>0, <1>5, CallShapes DEF StampOutcome
  <2>2. QED
    BY <1>5, <2>1 DEF StampOutcome, End, Resolving
<1>6. CASE OutcomeRollsBack(c)
  <2>1. call[c] \in Resolving
    BY <1>0, <1>6, CallShapes DEF OutcomeRollsBack
  <2>2. call[c].outcome \in Outcomes /\ <<call[c].outcome, call[c].dispute>> \in Keys
    BY <2>1, KeyTypes DEF Resolving, Decided, Outcomes
  <2>3. LeaveBehind(call[c].outcome, <<call[c].outcome, call[c].dispute>>)
    BY <1>6 DEF OutcomeRollsBack
  <2>4. LedgerOK'
    BY <2>2, <2>3, PostTypes
  <2>5. QED
    BY <1>6, <2>4 DEF OutcomeRollsBack, End
<1>7. "won" \in Decided
  BY DEF Decided
<1>8. QED
  BY <1>1, <1>2, <1>3, <1>4, <1>5, <1>6, <1>7 DEF DisputeSteps

LEMMA TypesKept ==
  ASSUME TypeOK, [Next]_vars
  PROVE  TypeOK'
<1>1. CallsOK
  BY DEF TypeOK, CallsOK, CallTypes
<1>2. ASSUME WalletNext, UNCHANGED dispute
      PROVE  TypeOK'
  BY <1>1, <1>2, WalletTypes DEF TypeOK, CallsOK, CallTypes
<1>3. ASSUME NEW d \in Disputes, ReopenDispute(d)
      PROVE  TypeOK'
  BY <1>3 DEF ReopenDispute, walletVars, TypeOK, WalletTypeOK, buyer, wallet, ledger, locks
<1>4. CASE UNCHANGED vars
  BY <1>4 DEF vars, walletVars, TypeOK, WalletTypeOK, buyer, wallet, ledger, locks
<1>5. QED
  BY <1>2, <1>3, <1>4, DisputeTypes DEF Next

\* Every table, balance and running handler of OrganizerWallet and PaymentDisputes keeps
\* its type: neither the wallet's balances nor escrow nor the organizer's balance of the
\* ledger is ever negative.
THEOREM WalletTypeCorrect == Spec => []TypeOK
<1>1. Init => TypeOK
  BY DEF Init, WalletInit, TypeOK, WalletTypeOK
<1>2. QED
  BY <1>1, TypesKept, PTL DEF Spec
=============================================================================
