-------------------------- MODULE WalletLedgerProofs --------------------------
(***************************************************************************)
(* The wallet's tables and the ledger agree up to what transactions that   *)
(* rolled back have left behind, no order is refunded twice on record, and *)
(* nothing is paid out that was not settled: for any number of orders,     *)
(* refunds, withdrawals, disputes, handlers and rollbacks and for any      *)
(* amounts.                                                                *)
(***************************************************************************)
EXTENDS PaymentDisputesProofs

\* What is not sold has neither a credit nor a refund, and what is not there is not
\* undecided.
UnsoldIsUntouched ==
  /\ \A o \in Orders :
       order[o] = "none" => credit[o] = "none" /\ \A r \in RowsOf(o) : refund[r] = "none"
  /\ \A r \in undecided : refund[r] # "none"

\* What a handler works on was sold, and not in time if it was late; a decision and a late
\* refund are in the ledger before they are in their rows.
CallIsTied(c) ==
  /\ call[c].pc \in RefundPc =>
       order[call[c].order] # "none" /\ call[c].rows \subseteq RowsOf(call[c].order)
  /\ At(c, "settle") => \A o \in call[c].todo : order[o] # "none"
  /\ At(c, "stamp") => <<call[c].outcome, call[c].dispute>> \in keys
  /\ call[c].pc \in LatePc =>
       order[call[c].row[1]] \notin {"none", "paid"} /\ <<"refund", call[c].row>> \in keys

Tables == UnsoldIsUntouched /\ KeysAgree
Tied == Tables /\ \A c \in Calls : CallIsTied(c)

\* No key is taken back, and nothing becomes unsold, or in time.
Grows ==
  /\ keys \subseteq keys'
  /\ \A o \in Orders :
       /\ order[o] # "none" => order'[o] # "none"
       /\ order[o] \notin {"none", "paid"} => order'[o] \notin {"none", "paid"}

\* What a step may do to the handlers.
CallsFollow == \A d \in Calls : call'[d] = call[d] \/ CallIsTied(d)'

-----------------------------------------------------------------------------
LEMMA RowFacts ==
  /\ \A r \in Refunds : r[1] \in Orders /\ r \in RowsOf(r[1])
  /\ \A o \in Orders : \A r \in RowsOf(o) : r \in Refunds /\ r[1] = o
BY DEF Refunds, RowsOf

LEMMA CallDomain == TypeOK => call \in [Calls -> CallTypes]
BY DEF TypeOK, CallTypes

LEMMA LateRows ==
  ASSUME NEW c \in Calls, call \in [Calls -> CallTypes], call[c].pc \in LatePc
  PROVE  call[c].row \in Refunds /\ call[c].row[1] \in Orders
<1>1. call[c] \in LateRefunding
  BY CallShapes
<1>2. QED
  BY <1>1, RowFacts DEF LateRefunding

\* A handler that ends, or begins on a dispute, needs nothing.
LEMMA EndFollows ==
  ASSUME call \in [Calls -> CallTypes], NEW c \in Calls, End(c)
  PROVE  CallsFollow
<1>1. \A d \in Calls : d # c => call'[d] = call[d]
  BY DEF End
<1>2. call'[c].pc = "idle"
  BY DEF End, Idle
<1>3. CallIsTied(c)'
  BY <1>2 DEF CallIsTied, At, RefundPc, LatePc
<1>4. QED
  BY <1>1, <1>3 DEF CallsFollow

LEMMA DisputeFollows ==
  ASSUME call \in [Calls -> CallTypes], NEW c \in Calls,
         NEW what \in Holding \cup Resolving, what.pc # "stamp", Begin(c, what)
  PROVE  CallsFollow
<1>1. \A d \in Calls : d # c => call'[d] = call[d]
  BY DEF Begin
<1>2. call'[c].pc = what.pc /\ what.pc \in {"hold", "resolve"}
  BY DEF Begin, Holding, Resolving
<1>3. CallIsTied(c)'
  BY <1>2 DEF CallIsTied, At, RefundPc, LatePc
<1>4. QED
  BY <1>1, <1>3 DEF CallsFollow

\* A refund is begun for what was sold.
LEMMA RefundFollows ==
  ASSUME call \in [Calls -> CallTypes], NEW c \in Calls, NEW step \in RefundPc,
         NEW o \in Orders, NEW rows \in SUBSET RowsOf(o), NEW answer,
         BeginRefunding(c, step, o, rows, answer), order'[o] # "none"
  PROVE  CallsFollow
<1>1. \A d \in Calls : d # c => call'[d] = call[d]
  BY DEF BeginRefunding, Begin
<1>2. call'[c].pc = step /\ call'[c].order = o /\ call'[c].rows = rows
  BY DEF BeginRefunding, Begin
<1>3. CallIsTied(c)'
  BY <1>2 DEF CallIsTied, At, RefundPc, LatePc, RowsOf
<1>4. QED
  BY <1>1, <1>3 DEF CallsFollow

\* A late refund stays with its row.
LEMMA LateFollows ==
  ASSUME call \in [Calls -> CallTypes], NEW c \in Calls, NEW row \in Refunds,
         \A d \in Calls : d # c => call'[d] = call[d],
         call'[c].pc \in LatePc \cup {"idle"},
         call'[c].pc # "idle" =>
           /\ call'[c].row = row
           /\ order'[row[1]] \notin {"none", "paid"} /\ <<"refund", row>> \in keys'
  PROVE  CallsFollow
<1>1. CallIsTied(c)'
  BY DEF CallIsTied, At, RefundPc, LatePc
<1>2. QED
  BY <1>1 DEF CallsFollow

\* The tables stay as they are.
LEMMA TablesStutter ==
  ASSUME Tables,
         UNCHANGED <<order, credit, refund, undecided, withdrawal, dispute, keys>>
  PROVE  Tables'
BY DEF Tables, UnsoldIsUntouched, KeysAgree, RowsOf

\* A request, a failure or a rejection, of a refund of what was sold.
LEMMA RefundMoves ==
  ASSUME TypeOK, Tables, NEW r \in Refunds, order[r[1]] # "none",
         NEW status \in {"requested", "rejected", "failed"},
         status = "requested" => refund[r] = "none",
         refund' = [refund EXCEPT ![r] = status],
         undecided' \subseteq undecided \cup {r},
         UNCHANGED <<order, credit, withdrawal, dispute, keys>>
  PROVE  Tables'
<1>1. refund \in [Refunds -> {"none", "pending", "requested", "processed", "rejected",
                               "failed"}]
  BY DEF TypeOK, WalletTypeOK
<1>2. undecided \subseteq Refunds
  BY DEF TypeOK, WalletTypeOK
<1>3. UnsoldIsUntouched'
  BY <1>1, <1>2, RowFacts DEF Tables, UnsoldIsUntouched, RowsOf
<1>4. KeysAgree'
  BY <1>1 DEF Tables, KeysAgree
<1>5. QED
  BY <1>3, <1>4 DEF Tables

\* A refund of a sold order becomes processed, with its key.
LEMMA RefundProcessed ==
  ASSUME TypeOK, Tables, NEW r \in Refunds, order[r[1]] # "none",
         refund' = [refund EXCEPT ![r] = "processed"],
         keys' = keys \cup {<<"refund", r>>},
         undecided' \subseteq undecided \cup {r},
         UNCHANGED order \/ order' = [order EXCEPT ![r[1]] = "refunded"],
         UNCHANGED <<credit, withdrawal, dispute>>
  PROVE  Tables'
<1>1. refund \in [Refunds -> {"none", "pending", "requested", "processed", "rejected",
                               "failed"}]
  BY DEF TypeOK, WalletTypeOK
<1>2. undecided \subseteq Refunds /\ order \in [Orders -> {"none", "paid", "refunded", "expired"}]
  BY DEF TypeOK, WalletTypeOK
<1>3. \A o \in Orders : order'[o] = "none" <=> order[o] = "none"
  BY <1>2, RowFacts
<1>4. UnsoldIsUntouched'
  BY <1>1, <1>2, <1>3, RowFacts DEF Tables, UnsoldIsUntouched, RowsOf
<1>5. KeysAgree'
  <2>1. \A k : k # <<"refund", r>> => (k \in keys' <=> k \in keys)
    OBVIOUS
  <2>2. \A q \in Refunds :
          /\ refund'[q] \in {"pending", "processed"} => <<"refund", q>> \in keys'
          /\ refund'[q] \in {"none", "requested"} => <<"refund", q>> \notin keys'
    <3>1. refund'[r] = "processed" /\ <<"refund", r>> \in keys'
      BY <1>1
    <3>2. ASSUME NEW q \in Refunds, q # r
          PROVE  /\ refund'[q] = refund[q]
                 /\ <<"refund", q>> \in keys' <=> <<"refund", q>> \in keys
      BY <1>1, <3>2
    <3>3. QED
      BY <3>1, <3>2 DEF Tables, KeysAgree
  <2>3. QED
    BY <1>3, <2>1, <2>2 DEF Tables, KeysAgree
<1>6. QED
  BY <1>4, <1>5 DEF Tables

\* A hold or a decision is posted beside the tables.
LEMMA OtherPosted ==
  ASSUME Tables, NEW kind \in {"hold", "won", "lost"}, NEW d \in Disputes,
         keys' = keys \cup {<<kind, d>>},
         UNCHANGED <<order, credit, refund, undecided, withdrawal, dispute>>
  PROVE  Tables'
<1>1. UnsoldIsUntouched'
  BY DEF Tables, UnsoldIsUntouched, RowsOf
<1>2. KeysAgree'
  BY DEF Tables, KeysAgree
<1>3. QED
  BY <1>1, <1>2 DEF Tables

LEMMA SettlementPosted ==
  ASSUME TypeOK, Tables, NEW o \in Orders, order[o] # "none",
         credit' = [credit EXCEPT ![o] = "settled"],
         keys' = keys \cup {<<"settlement", o>>},
         UNCHANGED <<order, refund, undecided, withdrawal, dispute>>
  PROVE  Tables'
<1>1. credit \in [Orders -> {"none", "pending", "settled"}]
  BY DEF TypeOK, WalletTypeOK
<1>2. UnsoldIsUntouched'
  BY <1>1 DEF Tables, UnsoldIsUntouched, RowsOf
<1>3. KeysAgree'
  BY <1>1 DEF Tables, KeysAgree
<1>4. QED
  BY <1>2, <1>3 DEF Tables

LEMMA WithdrawalPosted ==
  ASSUME TypeOK, Tables, NEW w \in Withdrawals,
         withdrawal' = [withdrawal EXCEPT ![w] = "completed"],
         keys' = keys \cup {<<"withdrawal", w>>},
         UNCHANGED <<order, credit, refund, undecided, dispute>>
  PROVE  Tables'
<1>1. withdrawal \in
        [Withdrawals -> {"none", "pending", "processing", "completed", "returned"}]
  BY DEF TypeOK, WalletTypeOK
<1>2. UnsoldIsUntouched'
  BY DEF Tables, UnsoldIsUntouched, RowsOf
<1>3. KeysAgree'
  BY <1>1 DEF Tables, KeysAgree
<1>4. QED
  BY <1>2, <1>3 DEF Tables

\* Any other move of a withdrawal.
LEMMA WithdrawalMoves ==
  ASSUME TypeOK, Tables, NEW w \in Withdrawals,
         NEW status \in {"pending", "processing", "returned"},
         withdrawal[w] # "completed",
         withdrawal' = [withdrawal EXCEPT ![w] = status],
         UNCHANGED <<order, credit, refund, undecided, dispute, keys>>
  PROVE  Tables'
<1>1. withdrawal \in
        [Withdrawals -> {"none", "pending", "processing", "completed", "returned"}]
  BY DEF TypeOK, WalletTypeOK
<1>2. UnsoldIsUntouched'
  BY DEF Tables, UnsoldIsUntouched, RowsOf
<1>3. KeysAgree'
  BY <1>1 DEF Tables, KeysAgree
<1>4. QED
  BY <1>2, <1>3 DEF Tables

\* A dispute's row is decided after the ledger, or opened.
LEMMA DisputeMoves ==
  ASSUME TypeOK, Tables, NEW d \in Disputes, NEW status \in Decided \cup {"open"},
         dispute' = [dispute EXCEPT ![d] = status],
         status = "open" \/ <<status, d>> \in keys,
         UNCHANGED <<order, credit, refund, undecided, withdrawal, keys>>
  PROVE  Tables'
<1>1. UnsoldIsUntouched'
  BY DEF Tables, UnsoldIsUntouched, RowsOf
<1>2. KeysAgree'
  <2>1. "open" \notin Decided
    BY DEF Decided
  <2>2. \A e \in Disputes : dispute'[e] \in Decided => <<dispute'[e], e>> \in keys'
    BY <2>1 DEF TypeOK, Tables, KeysAgree
  <2>3. QED
    BY <2>2 DEF Tables, KeysAgree
<1>3. QED
  BY <1>1, <1>2 DEF Tables

-----------------------------------------------------------------------------
\* What each step keeps.
Kept == Tables' /\ Grows /\ CallsFollow

LEMMA SalesKeep ==
  ASSUME TypeOK, Tied, Sales, UNCHANGED dispute
  PROVE  Kept
<1> USE DEF buyer, wallet, ledger, locks
<1>1. ASSUME NEW o \in Orders, Sell(o)
      PROVE  Kept
  <2>1. /\ order' = [order EXCEPT ![o] = "paid"] /\ order[o] = "none"
        /\ credit' = [credit EXCEPT ![o] = "pending"]
        /\ keys' = keys \cup {<<"capture", o>>}
        /\ UNCHANGED <<refund, undecided, withdrawal, dispute, call>>
    BY <1>1 DEF Sell, Post
  <2>2. /\ order \in [Orders -> {"none", "paid", "refunded", "expired"}]
        /\ credit \in [Orders -> {"none", "pending", "settled"}]
    BY DEF TypeOK, WalletTypeOK
  <2>3. UnsoldIsUntouched'
    BY <2>1, <2>2 DEF Tied, Tables, UnsoldIsUntouched, RowsOf
  <2>4. credit[o] = "none"
    BY <2>1 DEF Tied, Tables, UnsoldIsUntouched
  <2>5. KeysAgree'
    BY <2>1, <2>2, <2>4 DEF Tied, Tables, KeysAgree
  <2>6. Grows /\ CallsFollow
    BY <2>1, <2>2 DEF Grows, CallsFollow
  <2>7. QED
    BY <2>3, <2>5, <2>6 DEF Kept, Tables
<1>2. CASE EventEnds \/ \E o \in Orders : SaleRollsBack(o)
  <2>1. UNCHANGED <<order, credit, refund, undecided, withdrawal, dispute, keys, call>>
    BY <1>2 DEF EventEnds, SaleRollsBack, LeaveBehind
  <2>2. QED
    BY <2>1, TablesStutter DEF Kept, Grows, CallsFollow, Tied
<1>3. QED
  BY <1>1, <1>2 DEF Sales

LEMMA LateSalesKeep ==
  ASSUME TypeOK, Tied, NEW c \in Calls, LateSales(c), UNCHANGED dispute
  PROVE  Kept
<1> USE DEF buyer, wallet, ledger, locks
<1>0. call \in [Calls -> CallTypes]
  BY CallDomain
<1>1. ASSUME NEW o \in Orders, NEW r \in Refunds, SellLate(c, o, r)
      PROVE  Kept
  <2>1. /\ order' = [order EXCEPT ![o] = "expired"] /\ order[o] = "none"
        /\ credit' = [credit EXCEPT ![o] = "pending"]
        /\ refund' = [refund EXCEPT ![r] = "pending"]
        /\ undecided' = undecided \cup {r}
        /\ keys' = keys \cup {<<"capture", o>>, <<"refund", r>>}
        /\ UNCHANGED <<withdrawal, dispute>>
    BY <1>1 DEF SellLate
  <2>2. /\ order \in [Orders -> {"none", "paid", "refunded", "expired"}]
        /\ credit \in [Orders -> {"none", "pending", "settled"}]
        /\ refund \in
             [Refunds -> {"none", "pending", "requested", "processed", "rejected", "failed"}]
        /\ undecided \subseteq Refunds
    BY DEF TypeOK, WalletTypeOK
  <2>3. r[1] = o
    BY <1>1, RowFacts DEF SellLate
  <2>4. UnsoldIsUntouched'
    BY <2>1, <2>2, <2>3, RowFacts DEF Tied, Tables, UnsoldIsUntouched, RowsOf
  <2>5. credit[o] = "none"
    BY <2>1 DEF Tied, Tables, UnsoldIsUntouched
  <2>6. KeysAgree'
    <3>1. \A p \in Orders : order'[p] # "none" <=> <<"capture", p>> \in keys'
      BY <2>1, <2>2 DEF Tied, Tables, KeysAgree
    <3>2. \A p \in Orders : credit'[p] = "settled" <=> <<"settlement", p>> \in keys'
      BY <2>1, <2>2, <2>5 DEF Tied, Tables, KeysAgree
    <3>3. \A q \in Refunds :
            /\ refund'[q] \in {"pending", "processed"} => <<"refund", q>> \in keys'
            /\ refund'[q] \in {"none", "requested"} => <<"refund", q>> \notin keys'
      <4>1. refund'[r] = "pending" /\ <<"refund", r>> \in keys'
        BY <2>1, <2>2
      <4>2. ASSUME NEW q \in Refunds, q # r
            PROVE  /\ refund'[q] = refund[q]
                   /\ <<"refund", q>> \in keys' <=> <<"refund", q>> \in keys
        BY <2>1, <2>2, <4>2
      <4>3. QED
        BY <4>1, <4>2 DEF Tied, Tables, KeysAgree
    <3>4. QED
      BY <2>1, <3>1, <3>2, <3>3 DEF Tied, Tables, KeysAgree
  <2>7. Grows
    BY <2>1, <2>2 DEF Grows
  <2>8. CallsFollow
    <3>1. /\ \A d \in Calls : d # c => call'[d] = call[d]
          /\ call'[c].pc = "askLate" /\ call'[c].row = r
      BY <1>0, <1>1 DEF SellLate, Begin
    <3>2. order'[r[1]] \notin {"none", "paid"} /\ <<"refund", r>> \in keys'
      BY <2>1, <2>2, <2>3
    <3>3. QED
      BY <1>0, <3>1, <3>2, LateFollows DEF LatePc
  <2>9. QED
    BY <2>4, <2>6, <2>7, <2>8 DEF Kept, Tables
<1>2. ASSUME call[c].pc \in LatePc
      PROVE  /\ call[c].row \in Refunds
             /\ order[call[c].row[1]] \notin {"none", "paid"}
             /\ <<"refund", call[c].row>> \in keys
  BY <1>0, <1>2, LateRows DEF Tied, CallIsTied
<1>3. CASE AskLateRefund(c)
  <2>1. UNCHANGED <<order, credit, refund, undecided, withdrawal, dispute, keys>>
    BY <1>3 DEF AskLateRefund
  <2>2. call[c].pc \in LatePc /\ call[c] \in LateRefunding
    BY <1>0, <1>3, CallShapes DEF AskLateRefund, At, LatePc
  <2>3. /\ \A d \in Calls : d # c => call'[d] = call[d]
        /\ call'[c].pc \in LatePc /\ call'[c].row = call[c].row
    BY <1>0, <1>3, <2>2 DEF AskLateRefund, LateRefunding, LatePc
  <2>4. CallsFollow
    <3>1. /\ order'[call[c].row[1]] \notin {"none", "paid"}
          /\ <<"refund", call[c].row>> \in keys'
      BY <1>2, <2>1, <2>2
    <3>2. QED
      BY <1>0, <1>2, <2>2, <2>3, <3>1, LateFollows
  <2>5. QED
    BY <2>1, <2>4, TablesStutter DEF Kept, Grows, Tied
<1>4. CASE NoteLateRefund(c) \/ FailLateRefund(c)
  <2> DEFINE r == call[c].row
  <2>1. call[c].pc \in LatePc /\ call[c] \in LateRefunding
    BY <1>0, <1>4, CallShapes DEF NoteLateRefund, FailLateRefund, At, LatePc
  <2>2. /\ UNCHANGED <<order, credit, undecided, withdrawal, dispute, keys>>
        /\ \/ refund' = [refund EXCEPT ![r] = "processed"]
           \/ refund' = [refund EXCEPT ![r] = "failed"]
           \/ UNCHANGED refund
    BY <1>4 DEF NoteLateRefund, FailLateRefund
  <2>3. /\ \A d \in Calls : d # c => call'[d] = call[d]
        /\ call'[c].pc \in LatePc \cup {"idle"}
        /\ call'[c].pc # "idle" => call'[c].row = r
    BY <1>0, <1>4, <2>1
    DEF NoteLateRefund, FailLateRefund, LateRefunding, LatePc, End, Idle
  <2>4. r \in Refunds /\ order[r[1]] \notin {"none", "paid"} /\ <<"refund", r>> \in keys
    BY <1>2, <2>1
  <2> HIDE DEF r
  <2>5. keys' = keys \cup {<<"refund", r>>} /\ undecided' \subseteq undecided \cup {r}
    BY <2>2, <2>4
  <2>6. Tables'
    <3>1. CASE refund' = [refund EXCEPT ![r] = "processed"]
      BY <2>2, <2>4, <2>5, <3>1, RefundProcessed DEF Tied
    <3>2. CASE refund' = [refund EXCEPT ![r] = "failed"]
      BY <2>2, <2>4, <2>5, <3>2, RefundMoves DEF Tied
    <3>3. CASE UNCHANGED refund
      BY <2>2, <3>3, TablesStutter DEF Tied
    <3>4. QED
      BY <2>2, <3>1, <3>2, <3>3
  <2>7. CallsFollow
    <3>1. order'[r[1]] \notin {"none", "paid"} /\ <<"refund", r>> \in keys'
      BY <2>2, <2>4
    <3>2. QED
      BY <1>0, <2>3, <2>4, <3>1, LateFollows
  <2>8. QED
    BY <2>2, <2>6, <2>7 DEF Kept, Grows
<1>5. QED
  BY <1>1, <1>3, <1>4 DEF LateSales

LEMMA SettlementsKeep ==
  ASSUME TypeOK, Tied, NEW c \in Calls, Settlements(c), UNCHANGED dispute
  PROVE  Kept
<1> USE DEF buyer, wallet, ledger, locks
<1>0. call \in [Calls -> CallTypes]
  BY CallDomain
<1>1. CASE StartSettlement(c)
  <2>1. call'[c] = [pc |-> "settle", todo |-> {o \in Orders : credit[o] = "pending"}]
    BY <1>0, <1>1 DEF StartSettlement, Begin
  <2>2. \A d \in Calls : d # c => call'[d] = call[d]
    BY <1>0, <1>1 DEF StartSettlement, Begin
  <2>3. \A o \in Orders : credit[o] = "pending" => order'[o] # "none"
    BY <1>1 DEF StartSettlement, Tied, Tables, UnsoldIsUntouched
  <2>4. CallIsTied(c)'
    BY <2>1, <2>3 DEF CallIsTied, At, RefundPc, LatePc
  <2>5. QED
    BY <1>1, <2>2, <2>4, TablesStutter DEF StartSettlement, Kept, Grows, CallsFollow, Tied
<1>2. ASSUME NEW o \in Orders, Settle(c, o)
      PROVE  Kept
  <2>1. order[o] # "none"
    BY <1>2 DEF Settle, Tied, CallIsTied
  <2>2. keys' = keys \cup {<<"settlement", o>>}
    BY <1>2 DEF Settle, Post
  <2>3. Tables'
    BY <1>2, <2>1, <2>2, SettlementPosted DEF Settle, Tied
  <2>4. CallsFollow
    <3>1. call[c] \in Settling
      BY <1>0, <1>2, CallShapes DEF Settle
    <3>2. call'[c].pc = "settle" /\ call'[c].todo \subseteq call[c].todo
      BY <1>0, <1>2, <3>1 DEF Settle, Settling
    <3>3. \A d \in Calls : d # c => call'[d] = call[d]
      BY <1>0, <1>2 DEF Settle
    <3>4. CallIsTied(c)'
      BY <1>2, <3>2 DEF Settle, Tied, CallIsTied, At, RefundPc, LatePc
    <3>5. QED
      BY <3>3, <3>4 DEF CallsFollow
  <2>5. QED
    BY <1>2, <2>2, <2>3, <2>4 DEF Settle, Kept, Grows
<1>3. ASSUME NEW o \in Orders, NoteDiscrepancy(c, o)
      PROVE  Kept
  <2>1. call[c] \in Settling
    BY <1>0, <1>3, CallShapes DEF NoteDiscrepancy
  <2>2. call'[c].pc = "settle" /\ call'[c].todo \subseteq call[c].todo
    BY <1>0, <1>3, <2>1 DEF NoteDiscrepancy, Settling
  <2>3. \A d \in Calls : d # c => call'[d] = call[d]
    BY <1>0, <1>3 DEF NoteDiscrepancy
  <2>4. UNCHANGED <<order, credit, refund, undecided, withdrawal, dispute, keys>>
    BY <1>3 DEF NoteDiscrepancy, LeaveBehind
  <2>5. CallIsTied(c)'
    BY <1>3, <2>2, <2>4 DEF NoteDiscrepancy, Tied, CallIsTied, At, RefundPc, LatePc
  <2>6. QED
    BY <2>3, <2>4, <2>5, TablesStutter DEF Kept, Grows, CallsFollow, Tied
<1>4. CASE FinishSettlement(c)
  <2>1. CallsFollow
    BY <1>0, <1>4, EndFollows DEF FinishSettlement
  <2>2. QED
    BY <1>4, <2>1, TablesStutter DEF FinishSettlement, Kept, Grows, Tied
<1>5. QED
  BY <1>1, <1>2, <1>3, <1>4 DEF Settlements

LEMMA RefundsKeep ==
  ASSUME TypeOK, Tied, NEW c \in Calls, RefundSteps(c), UNCHANGED dispute
  PROVE  Kept
<1> USE DEF buyer, wallet, ledger, locks
<1>0. call \in [Calls -> CallTypes]
  BY CallDomain
<1>1. ASSUME NEW o \in Orders, NEW answer \in GatewayAnswers,
             BeginCoins(c, o) \/ BeginRefund(c, o, answer)
      PROVE  Kept
  <2>1. CallsFollow
    <3>1. CASE BeginCoins(c, o)
      BY <1>0, <3>1, RefundFollows DEF BeginCoins, RefundPc
    <3>2. CASE BeginRefund(c, o, answer)
      BY <1>0, <3>2, RefundFollows DEF BeginRefund, RefundPc
    <3>3. QED
      BY <1>1, <3>1, <3>2
  <2>2. UNCHANGED <<order, credit, refund, undecided, withdrawal, dispute, keys>>
    BY <1>1 DEF BeginCoins, BeginRefund
  <2>3. QED
    BY <2>1, <2>2, TablesStutter DEF Kept, Grows, Tied
<1>2. ASSUME NEW r \in Refunds, NEW answer \in GatewayAnswers, BeginApproval(c, r, answer)
      PROVE  Kept
  <2>1. order'[r[1]] # "none"
    BY <1>2, RowFacts DEF BeginApproval, Tied, Tables, UnsoldIsUntouched
  <2>2. {r} \in SUBSET RowsOf(r[1]) /\ r[1] \in Orders
    BY RowFacts
  <2>3. CallsFollow
    BY <1>0, <1>2, <2>1, <2>2, RefundFollows DEF BeginApproval, RefundPc
  <2>4. UNCHANGED <<order, credit, refund, undecided, withdrawal, dispute, keys>>
    BY <1>2 DEF BeginApproval
  <2>5. QED
    BY <2>3, <2>4, TablesStutter DEF Kept, Grows, Tied
<1>3. ASSUME NEW r \in Refunds, MayRecord(c, r)
      PROVE  /\ call[c].order \in Orders /\ r[1] = call[c].order
             /\ order[r[1]] # "none"
  <2>1. r \in call[c].rows /\ call[c].pc \in RefundPc
    BY <1>3 DEF MayRecord, RefundPc
  <2>2. call[c] \in Refunding
    BY <1>0, <2>1, CallShapes
  <2>3. call[c].order \in Orders
    BY <2>2 DEF Refunding
  <2>4. order[call[c].order] # "none" /\ r \in RowsOf(call[c].order)
    BY <2>1 DEF Tied, CallIsTied
  <2>5. QED
    BY <2>3, <2>4, RowFacts
<1>4. ASSUME NEW r \in Refunds, RecordRefund(c, r)
      PROVE  Kept
  <2>1. r[1] = call[c].order /\ order[r[1]] # "none"
    BY <1>3, <1>4 DEF RecordRefund
  <2>2. /\ order' = [order EXCEPT ![r[1]] = "refunded"]
        /\ refund' = [refund EXCEPT ![r] = "processed"]
        /\ keys' = keys \cup {<<"refund", r>>}
        /\ undecided' \subseteq undecided \cup {r}
        /\ UNCHANGED <<credit, withdrawal>>
        /\ End(c)
    BY <1>4, <2>1 DEF RecordRefund, Post, Decide
  <2>3. Tables'
    BY <2>1, <2>2, RefundProcessed DEF Tied
  <2>4. Grows
    BY <2>2 DEF Grows, TypeOK, WalletTypeOK
  <2>5. CallsFollow
    BY <1>0, <2>2, EndFollows
  <2>6. QED
    BY <2>3, <2>4, <2>5 DEF Kept
<1>5. ASSUME NEW r \in Refunds, RecordFailure(c, r)
      PROVE  Kept
  <2>1. order[r[1]] # "none"
    BY <1>3, <1>5 DEF RecordFailure
  <2>2. /\ refund' = [refund EXCEPT ![r] = "failed"]
        /\ undecided' \subseteq undecided \cup {r}
        /\ UNCHANGED <<order, credit, withdrawal, keys>>
        /\ End(c)
    BY <1>5 DEF RecordFailure, Decide
  <2>3. Tables'
    BY <2>1, <2>2, RefundMoves DEF Tied
  <2>4. CallsFollow
    BY <1>0, <2>2, EndFollows
  <2>5. QED
    BY <2>2, <2>3, <2>4 DEF Kept, Grows
<1>6. CASE RefundThrows(c)
  <2>1. CallsFollow
    BY <1>0, <1>6, EndFollows DEF RefundThrows
  <2>2. UNCHANGED <<order, credit, refund, undecided, withdrawal, dispute, keys>>
    BY <1>6 DEF RefundThrows, LeaveBehind
  <2>3. QED
    BY <2>1, <2>2, TablesStutter DEF Kept, Grows, Tied
<1>7. "processed" \in GatewayAnswers
  BY DEF GatewayAnswers
<1>8. QED
  BY <1>1, <1>2, <1>4, <1>5, <1>6, <1>7 DEF RefundSteps

\* Requests and rejections, withdrawals, crashes and leases.
LEMMA OthersKeep ==
  ASSUME TypeOK, Tied, UNCHANGED dispute,
         \/ \E r \in Refunds : RequestRefund(r) \/ RejectRefund(r)
         \/ WithdrawalSteps
         \/ \E c \in Calls : Crash(c)
         \/ LeasesEnd
  PROVE  Kept
<1> USE DEF buyer, wallet, ledger, locks
<1>0. call \in [Calls -> CallTypes]
  BY CallDomain
<1>1. ASSUME NEW r \in Refunds, RequestRefund(r) \/ RejectRefund(r)
      PROVE  Kept
  <2>1. r[1] \in Orders /\ r \in RowsOf(r[1])
    BY RowFacts
  <2>2. order[r[1]] # "none"
    <3>1. CASE RequestRefund(r)
      BY <3>1 DEF RequestRefund
    <3>2. CASE RejectRefund(r)
      BY <2>1, <3>2 DEF RejectRefund, Tied, Tables, UnsoldIsUntouched
    <3>3. QED
      BY <1>1, <3>1, <3>2
  <2>3. \E status \in {"requested", "rejected", "failed"} :
          /\ refund' = [refund EXCEPT ![r] = status]
          /\ status = "requested" => refund[r] = "none"
    BY <1>1 DEF RequestRefund, RejectRefund
  <2>4. /\ undecided' \subseteq undecided \cup {r}
        /\ UNCHANGED <<order, credit, withdrawal, keys, call>>
    BY <1>1 DEF RequestRefund, RejectRefund
  <2>5. Tables'
    BY <2>2, <2>3, <2>4, RefundMoves DEF Tied
  <2>6. QED
    BY <2>4, <2>5 DEF Kept, Grows, CallsFollow
<1>2. ASSUME NEW w \in Withdrawals,
             RequestWithdrawal(w) \/ ApproveWithdrawal(w) \/ ReturnWithdrawal(w)
      PROVE  Kept
  <2>1. \E status \in {"pending", "processing", "returned"} :
          withdrawal' = [withdrawal EXCEPT ![w] = status]
    BY <1>2 DEF RequestWithdrawal, ApproveWithdrawal, ReturnWithdrawal
  <2>2. /\ withdrawal[w] # "completed"
        /\ UNCHANGED <<order, credit, refund, undecided, keys, call>>
    BY <1>2 DEF RequestWithdrawal, ApproveWithdrawal, ReturnWithdrawal, Open
  <2>3. Tables'
    BY <2>1, <2>2, WithdrawalMoves DEF Tied
  <2>4. QED
    BY <2>2, <2>3 DEF Kept, Grows, CallsFollow
<1>3. ASSUME NEW w \in Withdrawals, CompleteWithdrawal(w)
      PROVE  Kept
  <2>1. /\ keys' = keys \cup {<<"withdrawal", w>>}
        /\ withdrawal' = [withdrawal EXCEPT ![w] = "completed"]
        /\ UNCHANGED <<order, credit, refund, undecided, call>>
    BY <1>3 DEF CompleteWithdrawal, Post
  <2>2. Tables'
    BY <2>1, WithdrawalPosted DEF Tied
  <2>3. QED
    BY <2>1, <2>2 DEF Kept, Grows, CallsFollow
<1>4. ASSUME NEW w \in Withdrawals, WithdrawalRollsBack(w)
      PROVE  Kept
  <2>1. UNCHANGED <<order, credit, refund, undecided, withdrawal, keys, call>>
    BY <1>4 DEF WithdrawalRollsBack, LeaveBehind
  <2>2. QED
    BY <2>1, TablesStutter DEF Kept, Grows, CallsFollow, Tied
<1>5. ASSUME NEW c \in Calls, Crash(c)
      PROVE  Kept
  <2>1. CallsFollow
    BY <1>0, <1>5, EndFollows DEF Crash
  <2>2. UNCHANGED <<order, credit, refund, undecided, withdrawal, keys>>
    BY <1>5 DEF Crash
  <2>3. QED
    BY <2>1, <2>2, TablesStutter DEF Kept, Grows, Tied
<1>6. CASE LeasesEnd
  <2>1. UNCHANGED <<order, credit, refund, undecided, withdrawal, keys, call>>
    BY <1>6 DEF LeasesEnd
  <2>2. QED
    BY <2>1, TablesStutter DEF Kept, Grows, CallsFollow, Tied
<1>7. QED
  BY <1>1, <1>2, <1>3, <1>4, <1>5, <1>6 DEF WithdrawalSteps

LEMMA DisputesKeep ==
  ASSUME TypeOK, Tied, NEW c \in Calls, DisputeSteps(c)
  PROVE  Kept
<1> USE DEF buyer, wallet, ledger, locks
<1>0. call \in [Calls -> CallTypes]
  BY CallDomain
<1>1. ASSUME NEW d \in Disputes, ReceiveDispute(c, d)
      PROVE  Kept
  <2>1. CallsFollow
    <3>1. [pc |-> "hold", dispute |-> d] \in Holding
      BY DEF Holding
    <3>2. QED
      BY <1>0, <1>1, <3>1, DisputeFollows DEF ReceiveDispute
  <2>2. Tables'
    BY <1>1, DisputeMoves DEF ReceiveDispute, Tied
  <2>3. QED
    BY <1>1, <2>1, <2>2 DEF ReceiveDispute, Kept, Grows
<1>2. ASSUME NEW d \in Disputes, NEW outcome \in Decided, StartResolution(c, d, outcome)
      PROVE  Kept
  <2>1. CallsFollow
    <3>1. [pc |-> "resolve", dispute |-> d, outcome |-> outcome] \in Resolving
      BY DEF Resolving
    <3>2. QED
      BY <1>0, <1>2, <3>1, DisputeFollows DEF StartResolution
  <2>2. QED
    BY <1>2, <2>1, TablesStutter DEF StartResolution, Kept, Grows, Tied
<1>3. CASE HoldReserve(c)
  <2>1. call[c].dispute \in Disputes
    BY <1>0, <1>3, CallShapes DEF HoldReserve, Holding
  <2>2. keys' = keys \cup {<<"hold", call[c].dispute>>}
    BY <1>3 DEF HoldReserve, Post
  <2>3. Tables'
    BY <1>3, <2>1, <2>2, OtherPosted DEF HoldReserve, Tied
  <2>4. CallsFollow
    BY <1>0, <1>3, EndFollows DEF HoldReserve
  <2>5. QED
    BY <1>3, <2>2, <2>3, <2>4 DEF HoldReserve, Kept, Grows
<1>4. CASE HoldFails(c) \/ OutcomeRollsBack(c)
  <2>1. CallsFollow
    BY <1>0, <1>4, EndFollows DEF HoldFails, OutcomeRollsBack
  <2>2. UNCHANGED <<order, credit, refund, undecided, withdrawal, dispute, keys>>
    BY <1>4 DEF HoldFails, OutcomeRollsBack, LeaveBehind
  <2>3. QED
    BY <2>1, <2>2, TablesStutter DEF Kept, Grows, Tied
<1>5. CASE PostOutcome(c)
  <2>1. call[c] \in Resolving
    BY <1>0, <1>5, CallShapes DEF PostOutcome
  <2>2. call[c].dispute \in Disputes /\ call[c].outcome \in {"hold", "won", "lost"}
    BY <2>1 DEF Resolving, Decided
  <2>3. keys' = keys \cup {<<call[c].outcome, call[c].dispute>>}
    BY <1>5 DEF PostOutcome, Post
  <2>4. Tables'
    BY <1>5, <2>2, <2>3, OtherPosted DEF PostOutcome, Tied
  <2>5. /\ call'[c].pc = "stamp"
        /\ call'[c].outcome = call[c].outcome
        /\ call'[c].dispute = call[c].dispute
    BY <1>0, <1>5, <2>1 DEF PostOutcome, Resolving
  <2>6. \A d \in Calls : d # c => call'[d] = call[d]
    BY <1>0, <1>5 DEF PostOutcome
  <2>7. CallIsTied(c)'
    BY <2>3, <2>5 DEF CallIsTied, At, RefundPc, LatePc
  <2>8. QED
    BY <1>5, <2>3, <2>4, <2>6, <2>7 DEF PostOutcome, Kept, Grows, CallsFollow
<1>6. CASE StampOutcome(c)
  <2>1. call[c] \in Resolving
    BY <1>0, <1>6, CallShapes DEF StampOutcome
  <2>2. call[c].dispute \in Disputes /\ call[c].outcome \in Decided
    BY <2>1 DEF Resolving
  <2>3. <<call[c].outcome, call[c].dispute>> \in keys
    BY <1>6 DEF StampOutcome, Tied, CallIsTied
  <2>4. Tables'
    BY <1>6, <2>2, <2>3, DisputeMoves DEF StampOutcome, Tied
  <2>5. CallsFollow
    BY <1>0, <1>6, EndFollows DEF StampOutcome
  <2>6. QED
    BY <1>6, <2>4, <2>5 DEF StampOutcome, Kept, Grows
<1>7. QED
  BY <1>1, <1>2, <1>3, <1>4, <1>5, <1>6 DEF DisputeSteps

-----------------------------------------------------------------------------
LEMMA StepKeeps ==
  ASSUME TypeOK, Tied, [Next]_vars
  PROVE  Kept
<1>1. ASSUME WalletNext, UNCHANGED dispute
      PROVE  Kept
  BY <1>1, SalesKeep, LateSalesKeep, SettlementsKeep, RefundsKeep, OthersKeep DEF WalletNext
<1>2. ASSUME NEW d \in Disputes, ReopenDispute(d)
      PROVE  Kept
  <2>1. UNCHANGED <<order, credit, refund, undecided, withdrawal, keys, call>>
    BY <1>2 DEF ReopenDispute, walletVars, buyer, ledger
  <2>2. Tables'
    BY <1>2, <2>1, DisputeMoves DEF ReopenDispute, Tied
  <2>3. QED
    BY <2>1, <2>2 DEF Kept, Grows, CallsFollow
<1>3. CASE UNCHANGED vars
  BY <1>3, TablesStutter
  DEF vars, walletVars, buyer, ledger, Kept, Grows, CallsFollow, Tied
<1>4. QED
  BY <1>1, <1>2, <1>3, DisputesKeep DEF Next

LEMMA TiedKept ==
  ASSUME TypeOK, Tied, [Next]_vars
  PROVE  Tied'
<1>1. Tables' /\ Grows /\ CallsFollow
  BY StepKeeps DEF Kept
<1>2. ASSUME NEW d \in Calls, call'[d] = call[d]
      PROVE  CallIsTied(d)'
  <2>1. CallIsTied(d)
    BY DEF Tied
  <2>2. call[d].pc \in RefundPc => call[d].order \in Orders
    BY CallDomain, CallShapes DEF Refunding
  <2>3. At(d, "settle") => call[d].todo \subseteq Orders
    BY CallDomain, CallShapes DEF Settling
  <2>4. call[d].pc \in LatePc => call[d].row[1] \in Orders
    BY CallDomain, LateRows
  <2>5. QED
    BY <1>1, <1>2, <2>1, <2>2, <2>3, <2>4 DEF CallIsTied, At, Grows, RowsOf
<1>3. QED
  BY <1>1, <1>2 DEF Tied, CallsFollow

LEMMA TiedAtFirst == Init => TypeOK /\ Tied
<1>1. Init => TypeOK
  BY DEF Init, WalletInit, TypeOK, WalletTypeOK
<1>2. Init => Tied
  BY DEF Init, WalletInit, Idle, Tied, Tables, UnsoldIsUntouched, KeysAgree, CallIsTied, At,
         RefundPc, LatePc, RowsOf, Decided
<1>3. QED
  BY <1>1, <1>2

LEMMA TiedAlways == Spec => [](TypeOK /\ Tied)
<1>1. TypeOK /\ Tied /\ [Next]_vars => (TypeOK /\ Tied)'
  BY TypesKept, TiedKept
<1>2. QED
  BY <1>1, TiedAtFirst, PTL DEF Spec

-----------------------------------------------------------------------------
\* The ledger holds a posting for each key, and what was left behind.
Counted == \A k \in Keys : posted[k] = orphans[k] + IF k \in keys THEN 1 ELSE 0

LEMMA PostCounted ==
  ASSUME TypeOK, Counted, NEW kind, NEW key, Post(kind, key) \/ LeaveBehind(kind, key)
  PROVE  Counted'
<1>1. posted \in [Keys -> Nat] /\ orphans \in [Keys -> Nat]
  BY DEF TypeOK, WalletTypeOK
<1>2. key \notin keys /\ posted' = [posted EXCEPT ![key] = @ + 1]
  BY DEF Post, LeaveBehind, Enter, MayPost
<1>3. \/ keys' = keys \cup {key} /\ orphans' = orphans
      \/ keys' = keys /\ orphans' = [orphans EXCEPT ![key] = @ + 1]
  BY DEF Post, LeaveBehind
<1>4. QED
  BY <1>1, <1>2, <1>3 DEF Counted

LEMMA LateCounted ==
  ASSUME TypeOK, Counted, NEW c \in Calls, NEW o \in Orders, NEW r \in Refunds,
         SellLate(c, o, r)
  PROVE  Counted'
<1>1. posted \in [Keys -> Nat] /\ orphans \in [Keys -> Nat]
  BY DEF TypeOK, WalletTypeOK
<1> DEFINE these == {<<"capture", o>>, <<"refund", r>>}
<1>2. /\ these \cap keys = {} /\ keys' = keys \cup these /\ orphans' = orphans
      /\ posted' = [k \in Keys |-> IF k \in these THEN posted[k] + 1 ELSE posted[k]]
  BY DEF SellLate
<1> HIDE DEF these
<1>3. QED
  BY <1>1, <1>2 DEF Counted

\* A step posts one key, leaves one posting behind, sells late, or posts nothing.
LEMMA StepCounted ==
  ASSUME TypeOK, Counted, [Next]_vars
  PROVE  Counted'
<1> DEFINE Posts == \E kind, key : Post(kind, key) \/ LeaveBehind(kind, key)
           Quiet == UNCHANGED <<keys, posted, orphans>>
<1> USE DEF ledger
<1>1. ASSUME Posts \/ Quiet
      PROVE  Counted'
  <2>1. CASE Posts
    BY <2>1, PostCounted
  <2>2. CASE Quiet
    BY <2>2 DEF Counted
  <2>3. QED
    BY <1>1, <2>1, <2>2
<1>2. CASE Sales
  BY <1>1, <1>2 DEF Sales, Sell, SaleRollsBack, EventEnds
<1>3. ASSUME NEW c \in Calls, LateSales(c)
      PROVE  Counted'
  <2>1. CASE AskLateRefund(c) \/ NoteLateRefund(c) \/ FailLateRefund(c)
    BY <1>1, <2>1 DEF AskLateRefund, NoteLateRefund, FailLateRefund
  <2>2. QED
    BY <1>3, <2>1, LateCounted DEF LateSales
<1>4. ASSUME NEW c \in Calls, Settlements(c)
      PROVE  Counted'
  BY <1>1, <1>4 DEF Settlements, StartSettlement, Settle, NoteDiscrepancy, FinishSettlement
<1>5. ASSUME NEW c \in Calls, RefundSteps(c)
      PROVE  Counted'
  <2>1. ASSUME NEW r \in Refunds, RecordRefund(c, r)
        PROVE  Counted'
    BY <1>1, <2>1 DEF RecordRefund
  <2>2. CASE RefundThrows(c)
    BY <1>1, <2>2 DEF RefundThrows
  <2>3. ASSUME NEW r \in Refunds, RecordFailure(c, r)
        PROVE  Counted'
    BY <1>1, <2>3 DEF RecordFailure
  <2>4. ASSUME NEW o \in Orders, NEW answer \in GatewayAnswers,
               BeginCoins(c, o) \/ BeginRefund(c, o, answer)
        PROVE  Counted'
    BY <1>1, <2>4 DEF BeginCoins, BeginRefund
  <2>5. "processed" \in GatewayAnswers
    BY DEF GatewayAnswers
  <2>6. ASSUME NEW r \in Refunds, NEW answer \in GatewayAnswers, BeginApproval(c, r, answer)
        PROVE  Counted'
    BY <1>1, <2>6 DEF BeginApproval
  <2>7. QED
    BY <1>5, <2>1, <2>2, <2>3, <2>4, <2>5, <2>6 DEF RefundSteps
<1>6. CASE WithdrawalSteps
  BY <1>1, <1>6
  DEF WithdrawalSteps, RequestWithdrawal, ApproveWithdrawal, CompleteWithdrawal,
      WithdrawalRollsBack, ReturnWithdrawal
<1>7. CASE \/ \E r \in Refunds : RequestRefund(r) \/ RejectRefund(r)
           \/ \E c \in Calls : Crash(c)
           \/ LeasesEnd
           \/ \E d \in Disputes : ReopenDispute(d)
           \/ UNCHANGED vars
  BY <1>1, <1>7
  DEF RequestRefund, RejectRefund, Crash, LeasesEnd, ReopenDispute, walletVars, vars
<1>8. ASSUME NEW c \in Calls, DisputeSteps(c)
      PROVE  Counted'
  BY <1>1, <1>8
  DEF DisputeSteps, ReceiveDispute, StartResolution, HoldReserve, HoldFails, PostOutcome,
      OutcomeRollsBack, StampOutcome
<1>9. QED
  BY <1>2, <1>3, <1>4, <1>5, <1>6, <1>7, <1>8 DEF Next, WalletNext

\* LedgerAgrees of PaymentDisputes: the tables of the wallet and the ledger's keys name the
\* same sales, settlements, refunds, withdrawals and decisions, and the ledger holds one
\* posting for every key, beside those of transactions that rolled back.
THEOREM LedgerAgreesHolds == Spec => []LedgerAgrees
<1>1. Init => Counted
  BY DEF Init, WalletInit, Counted
<1>2. TypeOK /\ Counted /\ [Next]_vars => Counted'
  BY StepCounted
<1>3. Tied /\ Counted => LedgerAgrees
  BY DEF Tied, Tables, Counted, LedgerAgrees
<1>4. QED
  BY <1>1, <1>2, <1>3, TiedAlways, PTL DEF Spec

-----------------------------------------------------------------------------
\* Why no order is refunded twice on record.  A late refund is noted without a look at the
\* others, but only after the gateway has refunded at its request, and then nobody else can
\* have had the gateway refund; the order of a late payment was never paid, so that nothing
\* is refunded as coins.
IsLate(c) == call[c].pc \in LatePc

\* What a handler has got from the gateway.
Answered(c) ==
  /\ At(c, "record") /\ call[c].answer = "processed" => paidBack[call[c].order] = "staff"
  /\ At(c, "approve") /\ call[c].answer = "processed" => paidBack[call[c].order] = "approval"
  /\ At(c, "noteLate") => paidBack[call[c].row[1]] = "capture"

\* A late refund has its order to itself, but for staff.
Apart(c, d) ==
  IsLate(c) =>
    /\ IsLate(d) /\ call[d].row[1] = call[c].row[1] => c = d
    /\ At(d, "coins") => call[d].order # call[c].row[1]

\* Unless staff have refunded the order, no refund of it is processed but this one.
AloneProcessed(c) ==
  IsLate(c) /\ paidBack[call[c].row[1]] \in {"nobody", "capture"} =>
    \A q \in Refunds :
      q[1] = call[c].row[1] /\ refund[q] = "processed" => q = call[c].row

Once ==
  /\ RefundedOnce
  /\ \A c \in Calls : Answered(c) /\ AloneProcessed(c)
  /\ \A c, d \in Calls : Apart(c, d)

\* A handler stays, or is with no refund.
CallsRest == \A d \in Calls : call'[d] = call[d] \/ call'[d].pc \notin RefundPc \cup LatePc

LEMMA RestKeepsOnce ==
  ASSUME Once, CallsRest, UNCHANGED paidBack,
         \A q \in Refunds : refund'[q] = "processed" => refund[q] = "processed"
  PROVE  Once'
<1>1. RefundedOnce'
  BY DEF Once, RefundedOnce
<1>2. ASSUME NEW c \in Calls
      PROVE  Answered(c)' /\ AloneProcessed(c)'
  BY DEF Once, CallsRest, Answered, AloneProcessed, IsLate, At, RefundPc, LatePc
<1>3. ASSUME NEW c \in Calls, NEW d \in Calls
      PROVE  Apart(c, d)'
  BY DEF Once, CallsRest, Apart, IsLate, At, RefundPc, LatePc
<1>4. QED
  BY <1>1, <1>2, <1>3 DEF Once

LEMMA EndRests ==
  ASSUME call \in [Calls -> CallTypes], NEW c \in Calls, End(c)
  PROVE  CallsRest
BY DEF End, Idle, CallsRest, RefundPc, LatePc

\* A handler that has asked the gateway for a refund, or is to pay in coins.
LEMMA BeginKeepsOnce ==
  ASSUME TypeOK, Tied, Once, NEW c \in Calls, call[c] = Idle,
         NEW step \in RefundPc, NEW o \in Orders,
         \A d \in Calls : d # c => call'[d] = call[d],
         call'[c].pc = step, call'[c].order = o,
         \/ UNCHANGED paidBack /\ (call'[c].answer = "processed" => step = "coins")
         \/ /\ step = "record" /\ paidBack[o] \in {"nobody", "staff"}
            /\ paidBack' = [paidBack EXCEPT ![o] = "staff"]
         \/ /\ step = "approve" /\ paidBack[o] = "nobody"
            /\ paidBack' = [paidBack EXCEPT ![o] = "approval"],
         step = "coins" => order[o] = "paid",
         UNCHANGED refund
  PROVE  Once'
<1>0. /\ paidBack \in [Orders -> {"nobody", "capture", "staff", "approval"}]
      /\ call \in [Calls -> CallTypes]
  BY CallDomain DEF TypeOK, WalletTypeOK
<1>1. RefundedOnce'
  BY DEF Once, RefundedOnce
<1>2. /\ ~ IsLate(c) /\ ~ IsLate(c)'
      /\ At(c, step)' /\ (\A p \in RefundPc \cup LatePc : p # step => ~ At(c, p)')
  BY DEF IsLate, At, RefundPc, LatePc, Idle
<1>3. ASSUME NEW d \in Calls
      PROVE  Answered(d)'
  <2>1. CASE d = c
    BY <1>0, <1>2, <2>1 DEF Answered, At, RefundPc, LatePc
  <2>2. CASE d # c
    <3>1. call'[d] = call[d] /\ Answered(d)
      BY <2>2 DEF Once
    <3>2. \A p \in Orders : p # o => paidBack'[p] = paidBack[p]
      BY <1>0
    <3>3. At(d, "record") \/ At(d, "approve") => call[d].order \in Orders
      BY <1>0, CallShapes DEF Refunding, RefundPc, At
    <3>4. At(d, "noteLate") => call[d].row[1] \in Orders
      BY <1>0, LateRows DEF LatePc, At
    <3>5. QED
      BY <1>0, <3>1, <3>2, <3>3, <3>4 DEF Answered, At
  <2>3. QED
    BY <2>1, <2>2
<1>4. ASSUME NEW d \in Calls
      PROVE  AloneProcessed(d)'
  <2>1. CASE d = c
    BY <1>2, <2>1 DEF AloneProcessed, IsLate
  <2>2. CASE d # c
    <3>1. call'[d] = call[d] /\ AloneProcessed(d)
      BY <2>2 DEF Once
    <3>2. \A p \in Orders : paidBack'[p] \in {"nobody", "capture"} => paidBack'[p] = paidBack[p]
      BY <1>0
    <3>3. IsLate(d) => call[d].row[1] \in Orders
      BY <1>0, LateRows DEF IsLate
    <3>4. QED
      BY <3>1, <3>2, <3>3 DEF AloneProcessed, IsLate
  <2>3. QED
    BY <2>1, <2>2
<1>5. ASSUME NEW d \in Calls, NEW e \in Calls
      PROVE  Apart(d, e)'
  <2>1. CASE d = c
    BY <1>2, <2>1 DEF Apart, IsLate
  <2>2. CASE d # c /\ e # c
    BY <2>2 DEF Once, Apart, IsLate, At
  <2>3. CASE d # c /\ e = c
    <3>1. IsLate(d) => order[call[d].row[1]] # "paid"
      BY DEF Tied, CallIsTied, IsLate
    <3>2. At(c, "coins")' => order[o] = "paid"
      BY <1>2 DEF At, RefundPc
    <3>3. QED
      BY <1>2, <2>3, <3>1, <3>2 DEF Apart, IsLate, At
  <2>4. QED
    BY <2>1, <2>2, <2>3
<1>6. QED
  BY <1>1, <1>3, <1>4, <1>5 DEF Once

LEMMA SellLateOnce ==
  ASSUME TypeOK, Tied, Once, NEW c \in Calls, NEW o \in Orders, NEW r \in Refunds,
         SellLate(c, o, r)
  PROVE  Once'
<1>0. /\ call \in [Calls -> CallTypes]
      /\ refund \in
           [Refunds -> {"none", "pending", "requested", "processed", "rejected", "failed"}]
  BY CallDomain DEF TypeOK, WalletTypeOK
<1>1. /\ \A d \in Calls : d # c => call'[d] = call[d]
      /\ call'[c].pc = "askLate" /\ call'[c].row = r /\ r[1] = o
      /\ refund' = [refund EXCEPT ![r] = "pending"]
      /\ UNCHANGED paidBack /\ order[o] = "none"
  BY <1>0, RowFacts DEF SellLate, Begin
<1>2. \A q \in Refunds : refund'[q] = "processed" => refund[q] = "processed"
  BY <1>0, <1>1
<1>3. \A q \in Refunds : q[1] = o => refund[q] = "none"
  BY <1>1, RowFacts DEF Tied, Tables, UnsoldIsUntouched
<1>4. RefundedOnce'
  BY <1>2 DEF Once, RefundedOnce
<1>5. ASSUME NEW d \in Calls
      PROVE  Answered(d)' /\ AloneProcessed(d)'
  <2>1. CASE d = c
    BY <1>1, <1>2, <1>3, <2>1 DEF Answered, AloneProcessed, At
  <2>2. CASE d # c
    BY <1>1, <1>2, <2>2 DEF Once, Answered, AloneProcessed, IsLate, At
  <2>3. QED
    BY <2>1, <2>2
<1>6. \A d \in Calls :
        /\ IsLate(d) => call[d].row[1] # o
        /\ At(d, "coins") => call[d].order # o
  BY <1>1 DEF Tied, CallIsTied, IsLate, At, RefundPc
<1>7. ASSUME NEW d \in Calls, NEW e \in Calls
      PROVE  Apart(d, e)'
  BY <1>1, <1>6 DEF Once, Apart, IsLate, At, LatePc
<1>8. QED
  BY <1>4, <1>5, <1>7 DEF Once

LEMMA AskLateOnce ==
  ASSUME TypeOK, Tied, Once, NEW c \in Calls, AskLateRefund(c)
  PROVE  Once'
<1> DEFINE o == call[c].row[1]
<1>0. /\ paidBack \in [Orders -> {"nobody", "capture", "staff", "approval"}]
      /\ call \in [Calls -> CallTypes]
  BY CallDomain DEF TypeOK, WalletTypeOK
<1>1. call[c] \in LateRefunding /\ IsLate(c) /\ o \in Orders
  BY <1>0, CallShapes, LateRows DEF AskLateRefund, At, LatePc, IsLate
<1>2. /\ \A d \in Calls : d # c => call'[d] = call[d]
      /\ call'[c].row = call[c].row
      /\ call'[c].pc \in {"noteLate", "failLate"}
      /\ UNCHANGED refund
  BY <1>0, <1>1 DEF AskLateRefund, LateRefunding
<1>3. \/ UNCHANGED paidBack /\ call'[c].pc = "failLate"
      \/ paidBack[o] = "nobody" /\ paidBack' = [paidBack EXCEPT ![o] = "capture"]
  BY <1>0, <1>1 DEF AskLateRefund, LateRefunding
<1>4. \A d \in Calls : IsLate(d)' <=> IsLate(d)
  BY <1>1, <1>2 DEF IsLate, LatePc
<1>5. \A d \in Calls : At(d, "coins")' <=> At(d, "coins")
  BY <1>1, <1>2 DEF IsLate, LatePc, At
<1> HIDE DEF o
<1>6. RefundedOnce'
  BY <1>2 DEF Once, RefundedOnce
<1>7. ASSUME NEW d \in Calls
      PROVE  Answered(d)'
  <2>1. CASE d = c
    BY <1>0, <1>1, <1>2, <1>3, <2>1 DEF Answered, At, o
  <2>2. CASE d # c
    <3>1. call'[d] = call[d] /\ Answered(d)
      BY <1>2, <2>2 DEF Once
    <3>2. \A p \in Orders : paidBack[p] # "nobody" => paidBack'[p] = paidBack[p]
      BY <1>0, <1>1, <1>3
    <3>3. At(d, "record") \/ At(d, "approve") => call[d].order \in Orders
      BY <1>0, CallShapes DEF Refunding, RefundPc, At
    <3>4. At(d, "noteLate") => call[d].row[1] \in Orders
      BY <1>0, LateRows DEF LatePc, At
    <3>5. QED
      BY <3>1, <3>2, <3>3, <3>4 DEF Answered, At
  <2>3. QED
    BY <2>1, <2>2
<1>8. ASSUME NEW d \in Calls
      PROVE  AloneProcessed(d)'
  <2>1. call'[d].row = call[d].row /\ AloneProcessed(d)
    BY <1>2 DEF Once
  <2>2. \A p \in Orders :
          paidBack'[p] \in {"nobody", "capture"} => paidBack[p] \in {"nobody", "capture"}
    BY <1>0, <1>1, <1>3
  <2>3. IsLate(d) => call[d].row[1] \in Orders
    BY <1>0, LateRows DEF IsLate
  <2>4. QED
    BY <1>2, <1>4, <2>1, <2>2, <2>3 DEF AloneProcessed
<1>9. ASSUME NEW d \in Calls, NEW e \in Calls
      PROVE  Apart(d, e)'
  <2>1. Apart(d, e) /\ call'[d].row = call[d].row /\ call'[e].row = call[e].row
    BY <1>2 DEF Once
  <2>2. At(e, "coins") => call'[e].order = call[e].order
    <3>1. At(e, "coins") => e # c
      BY <1>1 DEF IsLate, LatePc, At
    <3>2. QED
      BY <1>2, <3>1
  <2>3. QED
    BY <1>4, <1>5, <2>1, <2>2 DEF Apart
<1>10. QED
  BY <1>6, <1>7, <1>8, <1>9 DEF Once

\* A late refund is noted: with the gateway's answer it is the only one.
LEMMA NoteLateOnce ==
  ASSUME TypeOK, Tied, Once, NEW c \in Calls, NoteLateRefund(c)
  PROVE  Once'
<1> DEFINE r == call[c].row
<1>0. /\ refund \in
           [Refunds -> {"none", "pending", "requested", "processed", "rejected", "failed"}]
      /\ call \in [Calls -> CallTypes]
  BY CallDomain DEF TypeOK, WalletTypeOK
<1>1. call[c] \in LateRefunding /\ IsLate(c) /\ r \in Refunds /\ At(c, "noteLate")
  BY <1>0, CallShapes, LateRows DEF NoteLateRefund, At, LatePc, IsLate
<1>2. paidBack[r[1]] = "capture"
  BY <1>1 DEF Once, Answered
<1>3. \A q \in Refunds : q[1] = r[1] /\ refund[q] = "processed" => q = r
  BY <1>1, <1>2 DEF Once, AloneProcessed
<1>4. /\ \A d \in Calls : d # c => call'[d] = call[d]
      /\ call'[c].pc = "idle" \/ (call'[c].pc = "failLate" /\ call'[c].row = r)
      /\ UNCHANGED paidBack
  BY <1>0, <1>1 DEF NoteLateRefund, LateRefunding, End, Idle
<1>5. \A q \in Refunds : refund'[q] = "processed" => refund[q] = "processed" \/ q = r
  BY <1>0, <1>1 DEF NoteLateRefund
<1>6. \A d \in Calls : d # c /\ IsLate(d) => call[d].row[1] # r[1]
  BY <1>1 DEF Once, Apart
<1> HIDE DEF r
<1>7. RefundedOnce'
  BY <1>3, <1>5 DEF Once, RefundedOnce
<1>8. ASSUME NEW d \in Calls
      PROVE  Answered(d)' /\ AloneProcessed(d)'
  <2>1. CASE d = c
    BY <1>3, <1>4, <1>5, <2>1 DEF Answered, AloneProcessed, IsLate, LatePc, At
  <2>2. CASE d # c
    BY <1>4, <1>5, <1>6, <2>2 DEF Once, Answered, AloneProcessed, IsLate, At
  <2>3. QED
    BY <2>1, <2>2
<1>9. ASSUME NEW d \in Calls, NEW e \in Calls
      PROVE  Apart(d, e)'
  <2>1. IsLate(d)' => IsLate(d) /\ call'[d].row = call[d].row
    BY <1>1, <1>4 DEF IsLate, LatePc, r
  <2>2. IsLate(e)' => IsLate(e) /\ call'[e].row = call[e].row
    BY <1>1, <1>4 DEF IsLate, LatePc, r
  <2>3. At(e, "coins")' => At(e, "coins") /\ call'[e].order = call[e].order
    BY <1>4 DEF At
  <2>4. Apart(d, e)
    BY DEF Once
  <2>5. QED
    BY <2>1, <2>2, <2>3, <2>4 DEF Apart
<1>10. QED
  BY <1>7, <1>8, <1>9 DEF Once

\* A refund is recorded where no other counts, and no late one waits for the gateway.
LEMMA RecordOnce ==
  ASSUME TypeOK, Tied, Once, NEW c \in Calls, NEW r \in Refunds, RecordRefund(c, r)
  PROVE  Once'
<1>0. /\ refund \in
           [Refunds -> {"none", "pending", "requested", "processed", "rejected", "failed"}]
      /\ call \in [Calls -> CallTypes]
  BY CallDomain DEF TypeOK, WalletTypeOK
<1> DEFINE o == call[c].order
<1>1. /\ r \in call[c].rows /\ call[c].pc \in RefundPc /\ call[c].answer = "processed"
      /\ \A q \in RowsOf(o) \ {r} : refund[q] # "processed"
      /\ refund' = [refund EXCEPT ![r] = "processed"]
      /\ UNCHANGED paidBack /\ End(c)
  BY DEF RecordRefund, MayRecord, RefundPc, Counts
<1>2. call[c] \in Refunding
  BY <1>0, <1>1, CallShapes
<1>3. o \in Orders /\ r \in RowsOf(o)
  BY <1>1, <1>2 DEF Refunding, Tied, CallIsTied
<1>4. r[1] = o
  BY <1>3, RowFacts
<1>5. \A q \in Refunds : q[1] = o /\ refund[q] = "processed" => q = r
  BY <1>1, RowFacts
<1>6. \A q \in Refunds : refund'[q] = "processed" => refund[q] = "processed" \/ q = r
  BY <1>0, <1>1
<1>7. RefundedOnce'
  BY <1>4, <1>5, <1>6 DEF Once, RefundedOnce
<1>8. \A d \in Calls : d # c => call'[d] = call[d]
  BY <1>1 DEF End
<1>9. call'[c].pc = "idle"
  BY <1>0, <1>1 DEF End, Idle
<1>10. \A d \in Calls :
         IsLate(d) /\ paidBack[call[d].row[1]] \in {"nobody", "capture"} => call[d].row[1] # o
  <2>1. At(c, "coins") => \A d \in Calls : IsLate(d) => call[d].row[1] # o
    BY DEF Once, Apart
  <2>2. ~ At(c, "coins") => paidBack[o] \in {"staff", "approval"}
    BY <1>1 DEF Once, Answered, At, RefundPc
  <2>3. QED
    BY <2>1, <2>2
<1> HIDE DEF o
<1>11. ASSUME NEW d \in Calls
       PROVE  Answered(d)' /\ AloneProcessed(d)'
  <2>1. CASE d = c
    BY <1>9, <2>1 DEF Answered, AloneProcessed, IsLate, LatePc, At
  <2>2. CASE d # c
    BY <1>1, <1>4, <1>6, <1>8, <1>10, <2>2 DEF Once, Answered, AloneProcessed, IsLate, At
  <2>3. QED
    BY <2>1, <2>2
<1>12. ASSUME NEW d \in Calls, NEW e \in Calls
       PROVE  Apart(d, e)'
  BY <1>8, <1>9 DEF Once, Apart, IsLate, LatePc, At
<1>13. QED
  BY <1>7, <1>11, <1>12 DEF Once

LEMMA RefundStepsOnce ==
  ASSUME TypeOK, Tied, Once, NEW c \in Calls, RefundSteps(c)
  PROVE  Once'
<1>0. call \in [Calls -> CallTypes]
  BY CallDomain
<1>1. ASSUME NEW o \in Orders, BeginCoins(c, o)
      PROVE  Once'
  <2>1. /\ call[c] = Idle
        /\ call' = [call EXCEPT ![c] =
             [pc |-> "coins", order |-> o, rows |-> RowsOf(o),
              share |-> IF credit[o] = "settled" THEN "settled" ELSE "pending",
              answer |-> "processed"]]
        /\ UNCHANGED <<paidBack, refund>> /\ order[o] = "paid"
    BY <1>1 DEF BeginCoins, BeginRefunding, Begin, buyer
  <2>2. /\ \A d \in Calls : d # c => call'[d] = call[d]
        /\ call'[c].pc = "coins" /\ call'[c].order = o
    BY <1>0, <2>1
  <2>3. QED
    BY <2>1, <2>2, BeginKeepsOnce DEF RefundPc
<1>2. ASSUME NEW o \in Orders, NEW answer \in GatewayAnswers, BeginRefund(c, o, answer)
      PROVE  Once'
  <2>1. /\ call[c] = Idle
        /\ call' = [call EXCEPT ![c] =
             [pc |-> "record", order |-> o, rows |-> RowsOf(o),
              share |-> IF credit[o] = "settled" THEN "settled" ELSE "pending",
              answer |-> answer]]
        /\ UNCHANGED refund
    BY <1>2 DEF BeginRefund, BeginRefunding, Begin
  <2>2. /\ \A d \in Calls : d # c => call'[d] = call[d]
        /\ call'[c].pc = "record" /\ call'[c].order = o /\ call'[c].answer = answer
    BY <1>0, <2>1
  <2>3. \/ UNCHANGED paidBack /\ answer # "processed"
        \/ /\ paidBack[o] \in {"nobody", "staff"}
           /\ paidBack' = [paidBack EXCEPT ![o] = "staff"]
    BY <1>2 DEF BeginRefund
  <2>4. QED
    BY <2>1, <2>2, <2>3, BeginKeepsOnce DEF RefundPc
<1>3. ASSUME NEW r \in Refunds, NEW answer \in GatewayAnswers, BeginApproval(c, r, answer)
      PROVE  Once'
  <2>1. /\ call[c] = Idle
        /\ call' = [call EXCEPT ![c] =
             [pc |-> "approve", order |-> r[1], rows |-> {r},
              share |-> IF credit[r[1]] = "settled" THEN "settled" ELSE "pending",
              answer |-> answer]]
        /\ UNCHANGED refund /\ r[1] \in Orders
    BY <1>3, RowFacts DEF BeginApproval, BeginRefunding, Begin
  <2>2. /\ \A d \in Calls : d # c => call'[d] = call[d]
        /\ call'[c].pc = "approve" /\ call'[c].order = r[1] /\ call'[c].answer = answer
    BY <1>0, <2>1
  <2>3. \/ UNCHANGED paidBack /\ answer # "processed"
        \/ /\ paidBack[r[1]] = "nobody"
           /\ paidBack' = [paidBack EXCEPT ![r[1]] = "approval"]
    BY <1>3 DEF BeginApproval
  <2>4. QED
    BY <2>1, <2>2, <2>3, BeginKeepsOnce DEF RefundPc
<1>4. ASSUME NEW r \in Refunds, RecordFailure(c, r)
      PROVE  Once'
  <2>1. UNCHANGED paidBack /\ End(c) /\ refund' = [refund EXCEPT ![r] = "failed"]
    BY <1>4 DEF RecordFailure
  <2>2. \A q \in Refunds : refund'[q] = "processed" => refund[q] = "processed"
    BY <2>1 DEF TypeOK, WalletTypeOK
  <2>3. QED
    BY <1>0, <2>1, <2>2, EndRests, RestKeepsOnce
<1>5. CASE RefundThrows(c)
  BY <1>0, <1>5, EndRests, RestKeepsOnce DEF RefundThrows, buyer
<1>6. "processed" \in GatewayAnswers
  BY DEF GatewayAnswers
<1>7. QED
  BY <1>1, <1>2, <1>3, <1>4, <1>5, <1>6, RecordOnce DEF RefundSteps

LEMMA StepOnce ==
  ASSUME TypeOK, Tied, Once, [Next]_vars
  PROVE  Once'
<1>0. call \in [Calls -> CallTypes]
  BY CallDomain
<1> USE DEF buyer
<1>1. ASSUME UNCHANGED <<refund, paidBack, call>>
      PROVE  Once'
  BY <1>1, RestKeepsOnce DEF CallsRest
<1>2. ASSUME NEW c \in Calls, UNCHANGED <<refund, paidBack>>,
             \A d \in Calls : d # c => call'[d] = call[d],
             call'[c].pc \notin RefundPc \cup LatePc
      PROVE  Once'
  BY <1>2, RestKeepsOnce DEF CallsRest
<1>3. CASE Sales
  BY <1>1, <1>3 DEF Sales, Sell, SaleRollsBack, EventEnds
<1>4. ASSUME NEW c \in Calls, LateSales(c)
      PROVE  Once'
  <2>1. CASE FailLateRefund(c)
    <3>1. UNCHANGED paidBack /\ End(c) /\ refund' = [refund EXCEPT ![call[c].row] = "failed"]
      BY <2>1 DEF FailLateRefund
    <3>2. \A q \in Refunds : refund'[q] = "processed" => refund[q] = "processed"
      BY <3>1 DEF TypeOK, WalletTypeOK
    <3>3. QED
      BY <1>0, <3>1, <3>2, EndRests, RestKeepsOnce
  <2>2. QED
    BY <1>4, <2>1, SellLateOnce, AskLateOnce, NoteLateOnce DEF LateSales
<1>5. ASSUME NEW c \in Calls, Settlements(c)
      PROVE  Once'
  <2>1. UNCHANGED <<refund, paidBack>>
    BY <1>5 DEF Settlements, StartSettlement, Settle, NoteDiscrepancy, FinishSettlement
  <2>2. \A d \in Calls : d # c => call'[d] = call[d]
    BY <1>0, <1>5
    DEF Settlements, StartSettlement, Settle, NoteDiscrepancy, FinishSettlement, Begin, End
  <2>3. At(c, "settle") => call[c] \in Settling
    BY <1>0, CallShapes
  <2>4. call'[c].pc \in {"settle", "idle"}
    <3>1. CASE StartSettlement(c)
      BY <1>0, <3>1 DEF StartSettlement, Begin
    <3>2. ASSUME NEW o \in Orders, Settle(c, o) \/ NoteDiscrepancy(c, o)
          PROVE  call'[c].pc = "settle"
      BY <1>0, <2>3, <3>2 DEF Settle, NoteDiscrepancy, Settling
    <3>3. CASE FinishSettlement(c)
      BY <1>0, <3>3 DEF FinishSettlement, End, Idle
    <3>4. QED
      BY <1>5, <3>1, <3>2, <3>3 DEF Settlements
  <2>5. QED
    BY <1>2, <2>1, <2>2, <2>4 DEF RefundPc, LatePc
<1>6. ASSUME NEW r \in Refunds, RequestRefund(r) \/ RejectRefund(r)
      PROVE  Once'
  <2>1. UNCHANGED <<paidBack, call>>
    BY <1>6 DEF RequestRefund, RejectRefund
  <2>2. \E status \in {"requested", "rejected"} : refund' = [refund EXCEPT ![r] = status]
    BY <1>6 DEF RequestRefund, RejectRefund
  <2>3. \A q \in Refunds : refund'[q] = "processed" => refund[q] = "processed"
    BY <2>2 DEF TypeOK, WalletTypeOK
  <2>4. QED
    BY <2>1, <2>3, RestKeepsOnce DEF CallsRest
<1>7. ASSUME NEW c \in Calls, Crash(c)
      PROVE  Once'
  BY <1>0, <1>7, EndRests, RestKeepsOnce DEF Crash
<1>8. CASE WithdrawalSteps
  BY <1>1, <1>8
  DEF WithdrawalSteps, RequestWithdrawal, ApproveWithdrawal, CompleteWithdrawal,
      WithdrawalRollsBack, ReturnWithdrawal
<1>9. CASE LeasesEnd \/ (\E d \in Disputes : ReopenDispute(d)) \/ UNCHANGED vars
  BY <1>1, <1>9 DEF LeasesEnd, ReopenDispute, walletVars, vars
<1>10. ASSUME NEW c \in Calls, DisputeSteps(c)
       PROVE  Once'
  <2>1. UNCHANGED <<refund, paidBack>>
    BY <1>10
    DEF DisputeSteps, ReceiveDispute, StartResolution, HoldReserve, HoldFails, PostOutcome,
        OutcomeRollsBack, StampOutcome
  <2>2. \A d \in Calls : d # c => call'[d] = call[d]
    BY <1>0, <1>10
    DEF DisputeSteps, ReceiveDispute, StartResolution, HoldReserve, HoldFails, PostOutcome,
        OutcomeRollsBack, StampOutcome, Begin, End
  <2>3. At(c, "resolve") => call[c] \in Resolving
    BY <1>0, CallShapes
  <2>4. call'[c].pc \in {"idle", "hold", "resolve", "stamp"}
    BY <1>0, <1>10, <2>3
    DEF DisputeSteps, ReceiveDispute, StartResolution, HoldReserve, HoldFails, PostOutcome,
        OutcomeRollsBack, StampOutcome, Begin, End, Idle, Resolving
  <2>5. QED
    BY <1>2, <2>1, <2>2, <2>4 DEF RefundPc, LatePc
<1>11. QED
  BY <1>3, <1>4, <1>5, <1>6, <1>7, <1>8, <1>9, <1>10, RefundStepsOnce DEF Next, WalletNext

\* RefundedOnce of PaymentDisputes: staff refunds, coins, approved requests and late
\* payments together record no second refund of an order, whatever locks lapse.
THEOREM RefundedOnceHolds == Spec => []RefundedOnce
<1>1. Init => Once
  BY DEF Init, WalletInit, Once, RefundedOnce, Answered, AloneProcessed, Apart, IsLate, At,
         LatePc, Idle
<1>2. TypeOK /\ Tied /\ Once /\ [Next]_vars => Once'
  BY StepOnce
<1>3. Once => RefundedOnce
  BY DEF Once
<1>4. QED
  BY <1>1, <1>2, <1>3, TiedAlways, PTL DEF Spec

-----------------------------------------------------------------------------
\* Why nothing is paid out that was not settled: a credit is made available once, since
\* its key is posted once, and a request that is open or completed has been taken of what
\* is available.
Claimed == {w \in Withdrawals : withdrawal[w] \in {"pending", "processing", "completed"}}

Backed == available + Ask * Cardinality(Claimed) <= Net * Cardinality(Settled)

LEMMA FiniteCounts ==
  /\ IsFiniteSet(Claimed) /\ Cardinality(Claimed) \in Nat
  /\ IsFiniteSet(Completed) /\ Cardinality(Completed) \in Nat
  /\ IsFiniteSet(Settled) /\ Cardinality(Settled) \in Nat
<1>1. IsFiniteSet(Withdrawals) /\ IsFiniteSet(Orders)
  BY WalletAssumption
<1>2. IsFiniteSet(Claimed)
  BY <1>1, FS_Subset DEF Claimed
<1>3. IsFiniteSet(Completed)
  BY <1>1, FS_Subset DEF Completed
<1>4. IsFiniteSet(Settled)
  BY <1>1, FS_Subset DEF Settled
<1>5. QED
  BY <1>2, <1>3, <1>4, FS_CardinalityType

\* One more in a set that counts.
LEMMA OneMore ==
  ASSUME NEW S, IsFiniteSet(S), NEW x, x \notin S, NEW T, T = S \cup {x}, NEW a \in Nat
  PROVE  a * Cardinality(T) = a * Cardinality(S) + a
<1>1. Cardinality(T) = Cardinality(S) + 1
  BY FS_AddElement
<1>2. Cardinality(S) \in Nat
  BY FS_CardinalityType
<1>3. \A n \in Nat : a * (n + 1) = a * n + a
  OBVIOUS
<1>4. QED
  BY <1>1, <1>2, <1>3

LEMMA Products ==
  /\ Ask * Cardinality(Claimed) \in Nat
  /\ Ask * Cardinality(Completed) \in Nat
  /\ Net * Cardinality(Settled) \in Nat
<1>1. \A a, n \in Nat : a * n \in Nat
  OBVIOUS
<1>2. QED
  BY <1>1, FiniteCounts, JournalTypes

\* What makes nothing available backs the rest as before.
LEMMA QuietBacked ==
  ASSUME TypeOK, Backed, available' \in Nat, available' <= available,
         Claimed' = Claimed, Settled' = Settled
  PROVE  Backed'
<1> DEFINE claimed == Ask * Cardinality(Claimed)
           settled == Net * Cardinality(Settled)
<1>1. claimed' = claimed /\ settled' = settled /\ claimed \in Nat /\ settled \in Nat
  BY Products
<1>2. available + claimed <= settled /\ available \in Nat
  BY DEF Backed, TypeOK, WalletTypeOK
<1> HIDE DEF claimed, settled
<1>3. available' + claimed <= settled
  <2>1. \A a, b, m, n \in Nat : a + m <= n /\ b <= a => b + m <= n
    OBVIOUS
  <2>2. QED
    BY <1>1, <1>2, <2>1
<1>4. available' + claimed' <= settled'
  BY <1>1, <1>3
<1>5. QED
  BY <1>4 DEF Backed, claimed, settled

\* A credit is settled once.
LEMMA SettleBacked ==
  ASSUME TypeOK, Tied, Backed, NEW c \in Calls, NEW o \in Orders, Settle(c, o)
  PROVE  Backed'
<1>1. <<"settlement", o>> \notin keys
  BY DEF Settle, Post, Enter, MayPost
<1>2. o \notin Settled
  BY <1>1 DEF Tied, Tables, KeysAgree, Settled
<1>3. Settled' = Settled \cup {o}
  BY DEF Settle, Settled, TypeOK, WalletTypeOK
<1>4. Claimed' = Claimed /\ available' = available + Net
  BY DEF Settle, Claimed
<1> DEFINE claimed == Ask * Cardinality(Claimed)
           settled == Net * Cardinality(Settled)
<1>5. claimed' = claimed /\ claimed \in Nat /\ settled \in Nat /\ Net \in Nat
  BY <1>4, Products, JournalTypes
<1>6. settled' = settled + Net
  BY <1>2, <1>3, FiniteCounts, OneMore, JournalTypes
<1>7. available + claimed <= settled /\ available \in Nat
  BY DEF Backed, TypeOK, WalletTypeOK
<1> HIDE DEF claimed, settled
<1>8. available' + claimed' <= settled'
  BY <1>4, <1>5, <1>6, <1>7
<1>9. QED
  BY <1>8 DEF Backed, claimed, settled

\* A withdrawal is taken of what is available ...
LEMMA RequestBacked ==
  ASSUME TypeOK, Backed, NEW w \in Withdrawals, RequestWithdrawal(w)
  PROVE  Backed'
<1>1. w \notin Claimed /\ Claimed' = Claimed \cup {w}
  BY DEF RequestWithdrawal, Claimed, TypeOK, WalletTypeOK
<1>2. Settled' = Settled /\ available' = available - Ask
  BY DEF RequestWithdrawal, Settled
<1> DEFINE claimed == Ask * Cardinality(Claimed)
           settled == Net * Cardinality(Settled)
<1>3. settled' = settled /\ claimed \in Nat /\ settled \in Nat /\ Ask \in Nat
  BY <1>2, Products, JournalTypes
<1>4. claimed' = claimed + Ask
  BY <1>1, FiniteCounts, OneMore, JournalTypes
<1>5. available + claimed <= settled /\ available \in Nat
  BY DEF Backed, TypeOK, WalletTypeOK
<1> HIDE DEF claimed, settled
<1>6. available' + claimed' <= settled'
  BY <1>2, <1>3, <1>4, <1>5
<1>7. QED
  BY <1>6 DEF Backed, claimed, settled

\* ... and returned to it.
LEMMA ReturnBacked ==
  ASSUME TypeOK, TypeOK', Backed, NEW w \in Withdrawals, ReturnWithdrawal(w)
  PROVE  Backed'
<1>1. w \notin Claimed' /\ Claimed = Claimed' \cup {w}
  BY DEF ReturnWithdrawal, Open, Claimed, TypeOK, WalletTypeOK
<1>2. Settled' = Settled /\ available' = available + Ask
  BY DEF ReturnWithdrawal, Settled
<1> DEFINE claimed == Ask * Cardinality(Claimed)
           settled == Net * Cardinality(Settled)
<1>3. IsFiniteSet(Claimed') /\ Cardinality(Claimed') \in Nat
  <2>1. IsFiniteSet(Claimed')
    BY <1>1, FiniteCounts, FS_Subset
  <2>2. QED
    BY <2>1, FS_CardinalityType
<1>4. claimed' \in Nat
  <2>1. \A a, n \in Nat : a * n \in Nat
    OBVIOUS
  <2>2. QED
    BY <1>3, <2>1, JournalTypes
<1>5. settled' = settled /\ claimed \in Nat /\ settled \in Nat /\ Ask \in Nat
  BY <1>2, Products, JournalTypes
<1>6. claimed = claimed' + Ask
  BY <1>1, <1>3, OneMore, JournalTypes
<1>7. available + claimed <= settled /\ available \in Nat
  BY DEF Backed, TypeOK, WalletTypeOK
<1> HIDE DEF claimed, settled
<1>8. available' + claimed' <= settled'
  <2>1. PICK n \in Nat : n = claimed'
    BY <1>4
  <2>2. claimed = n + Ask
    BY <1>6, <2>1
  <2>3. \A a, b, c, d, e \in Nat : a + c <= d /\ c = b + e => (a + e) + b <= d
    OBVIOUS
  <2>4. available' + n <= settled
    BY <1>2, <1>5, <1>7, <2>2, <2>3
  <2>5. QED
    BY <1>5, <2>1, <2>4
<1>9. QED
  BY <1>8 DEF Backed, claimed, settled

LEMMA StepBacked ==
  ASSUME TypeOK, TypeOK', Tied, Backed, [Next]_vars
  PROVE  Backed'
<1> USE DEF buyer, wallet
<1>0. available \in Nat /\ available' \in Nat
  BY DEF TypeOK, WalletTypeOK
<1>1. ASSUME UNCHANGED <<available, withdrawal, credit>>
      PROVE  Backed'
  <2>1. available' <= available
    BY <1>0, <1>1
  <2>2. Claimed' = Claimed /\ Settled' = Settled
    BY <1>1 DEF Claimed, Settled
  <2>3. QED
    BY <1>0, <2>1, <2>2, QuietBacked
<1>2. ASSUME NEW o \in Orders, UNCHANGED <<available, withdrawal>>, order[o] = "none",
             credit' = [credit EXCEPT ![o] = "pending"]
      PROVE  Backed'
  <2>1. credit[o] = "none"
    BY <1>2 DEF Tied, Tables, UnsoldIsUntouched
  <2>2. Settled' = Settled
    BY <1>2, <2>1 DEF Settled, TypeOK, WalletTypeOK
  <2>3. Claimed' = Claimed /\ available' <= available
    BY <1>0, <1>2 DEF Claimed
  <2>4. QED
    BY <1>0, <2>2, <2>3, QuietBacked
<1>3. CASE Sales
  <2>1. ASSUME NEW o \in Orders, Sell(o)
        PROVE  Backed'
    BY <1>2, <2>1 DEF Sell
  <2>2. CASE EventEnds \/ \E o \in Orders : SaleRollsBack(o)
    BY <1>1, <2>2 DEF EventEnds, SaleRollsBack
  <2>3. QED
    BY <1>3, <2>1, <2>2 DEF Sales
<1>4. ASSUME NEW c \in Calls, LateSales(c)
      PROVE  Backed'
  <2>1. ASSUME NEW o \in Orders, NEW r \in Refunds, SellLate(c, o, r)
        PROVE  Backed'
    BY <1>2, <2>1 DEF SellLate
  <2>2. CASE AskLateRefund(c) \/ NoteLateRefund(c) \/ FailLateRefund(c)
    BY <1>1, <2>2 DEF AskLateRefund, NoteLateRefund, FailLateRefund
  <2>3. QED
    BY <1>4, <2>1, <2>2 DEF LateSales
<1>5. ASSUME NEW c \in Calls, Settlements(c)
      PROVE  Backed'
  <2>1. ASSUME NEW o \in Orders, NoteDiscrepancy(c, o)
        PROVE  Backed'
    BY <1>1, <2>1 DEF NoteDiscrepancy
  <2>2. CASE StartSettlement(c) \/ FinishSettlement(c)
    BY <1>1, <2>2 DEF StartSettlement, FinishSettlement
  <2>3. QED
    BY <1>5, <2>1, <2>2, SettleBacked DEF Settlements
<1>6. ASSUME NEW c \in Calls, RefundSteps(c)
      PROVE  Backed'
  <2>1. ASSUME NEW r \in Refunds, RecordRefund(c, r)
        PROVE  Backed'
    <3>1. UNCHANGED <<withdrawal, credit>>
      BY <2>1 DEF RecordRefund
    <3>2. available' = available \/ available' = Less(available, Net)
      BY <2>1 DEF RecordRefund, TakeShareBack
    <3>3. available' <= available
      BY <1>0, <3>2, JournalTypes DEF Less
    <3>4. Claimed' = Claimed /\ Settled' = Settled
      BY <3>1 DEF Claimed, Settled
    <3>5. QED
      BY <1>0, <3>3, <3>4, QuietBacked
  <2>2. RefundSteps(c) =>
          \/ \E r \in Refunds : RecordRefund(c, r)
          \/ UNCHANGED <<available, withdrawal, credit>>
    BY DEF RefundSteps, BeginCoins, BeginRefund, BeginApproval, RecordFailure, RefundThrows
  <2>3. QED
    BY <1>1, <1>6, <2>1, <2>2
<1>7. CASE WithdrawalSteps
  <2>1. ASSUME NEW w \in Withdrawals, ApproveWithdrawal(w) \/ CompleteWithdrawal(w)
        PROVE  Backed'
    <3>1. UNCHANGED <<available, credit>>
      BY <2>1 DEF ApproveWithdrawal, CompleteWithdrawal
    <3>2. Claimed' = Claimed
      BY <2>1 DEF ApproveWithdrawal, CompleteWithdrawal, Open, Claimed, TypeOK, WalletTypeOK
    <3>3. Settled' = Settled /\ available' <= available
      BY <1>0, <3>1 DEF Settled
    <3>4. QED
      BY <1>0, <3>2, <3>3, QuietBacked
  <2>2. ASSUME NEW w \in Withdrawals, WithdrawalRollsBack(w)
        PROVE  Backed'
    BY <1>1, <2>2 DEF WithdrawalRollsBack
  <2>3. QED
    BY <1>7, <2>1, <2>2, RequestBacked, ReturnBacked DEF WithdrawalSteps
<1>8. CASE \/ \E r \in Refunds : RequestRefund(r) \/ RejectRefund(r)
           \/ \E c \in Calls : Crash(c)
           \/ LeasesEnd
           \/ \E d \in Disputes : ReopenDispute(d)
           \/ UNCHANGED vars
  BY <1>1, <1>8
  DEF RequestRefund, RejectRefund, Crash, LeasesEnd, ReopenDispute, walletVars, vars
<1>9. ASSUME NEW c \in Calls, DisputeSteps(c)
      PROVE  Backed'
  BY <1>1, <1>9
  DEF DisputeSteps, ReceiveDispute, StartResolution, HoldReserve, HoldFails, PostOutcome,
      OutcomeRollsBack, StampOutcome
<1>10. QED
  BY <1>3, <1>4, <1>5, <1>6, <1>7, <1>8, <1>9 DEF Next, WalletNext

\* PayoutsAreBacked of PaymentDisputes: whatever settlement runs, refunds, disputes and
\* rollbacks do at once, completed withdrawals do not exceed what was settled.
THEOREM PayoutsAreBackedHolds == Spec => []PayoutsAreBacked
<1>1. Init => Backed
  <2> SUFFICES ASSUME Init
               PROVE  Backed
    OBVIOUS
  <2>1. Claimed = {} /\ Settled = {} /\ available = 0
    BY DEF Init, WalletInit, Claimed, Settled
  <2>2. Cardinality({}) = 0
    BY FS_EmptySet
  <2>3. Ask * 0 = 0 /\ Net * 0 = 0
    BY JournalTypes
  <2>4. QED
    BY <2>1, <2>2, <2>3 DEF Backed
<1>2. TypeOK /\ Tied /\ Backed /\ [Next]_vars => Backed'
  BY TypesKept, StepBacked
<1>3. TypeOK /\ Backed => PayoutsAreBacked
  <2> SUFFICES ASSUME TypeOK, Backed
               PROVE  PayoutsAreBacked
    OBVIOUS
  <2>1. Completed \subseteq Claimed
    BY DEF Completed, Claimed
  <2>2. Cardinality(Completed) <= Cardinality(Claimed)
    BY <2>1, FiniteCounts, FS_Subset
  <2>3. \A a, m, n \in Nat : m <= n => a * m <= a * n
    OBVIOUS
  <2>4. Ask * Cardinality(Completed) <= Ask * Cardinality(Claimed)
    BY <2>2, <2>3, FiniteCounts, JournalTypes
  <2> DEFINE claimed == Ask * Cardinality(Claimed)
             completed == Ask * Cardinality(Completed)
             settled == Net * Cardinality(Settled)
  <2>5. claimed \in Nat /\ completed \in Nat /\ settled \in Nat /\ available \in Nat
    BY Products DEF TypeOK, WalletTypeOK
  <2>6. available + claimed <= settled /\ completed <= claimed
    BY <2>4 DEF Backed
  <2> HIDE DEF claimed, completed, settled
  <2>7. completed <= settled
    BY <2>5, <2>6
  <2>8. QED
    BY <2>7 DEF PayoutsAreBacked, completed, settled
<1>4. QED
  BY <1>1, <1>2, <1>3, TiedAlways, PTL DEF Spec

-----------------------------------------------------------------------------
\* withdrawn_balance moves with the rows.
LEMMA CompleteMatched ==
  ASSUME TypeOK, WithdrawnMatches, NEW w \in Withdrawals, CompleteWithdrawal(w)
  PROVE  WithdrawnMatches'
<1>1. w \notin Completed /\ Completed' = Completed \cup {w}
  BY DEF CompleteWithdrawal, Open, Completed, TypeOK, WalletTypeOK
<1>2. withdrawn' = withdrawn + Ask
  BY DEF CompleteWithdrawal
<1>3. Ask * Cardinality(Completed') = Ask * Cardinality(Completed) + Ask
  BY <1>1, FiniteCounts, OneMore, JournalTypes
<1>4. QED
  BY <1>2, <1>3 DEF WithdrawnMatches

LEMMA StepMatched ==
  ASSUME TypeOK, WithdrawnMatches, [Next]_vars
  PROVE  WithdrawnMatches'
<1> USE DEF buyer, wallet
<1>1. ASSUME UNCHANGED <<withdrawn, withdrawal>>
      PROVE  WithdrawnMatches'
  BY <1>1 DEF WithdrawnMatches, Completed
<1>2. CASE WithdrawalSteps
  <2>1. ASSUME NEW w \in Withdrawals,
               RequestWithdrawal(w) \/ ApproveWithdrawal(w) \/ ReturnWithdrawal(w)
        PROVE  WithdrawnMatches'
    <3>1. withdrawn' = withdrawn
      BY <2>1 DEF RequestWithdrawal, ApproveWithdrawal, ReturnWithdrawal
    <3>2. Completed' = Completed
      BY <2>1
      DEF RequestWithdrawal, ApproveWithdrawal, ReturnWithdrawal, Open, Completed, TypeOK,
          WalletTypeOK
    <3>3. QED
      BY <3>1, <3>2 DEF WithdrawnMatches
  <2>2. ASSUME NEW w \in Withdrawals, WithdrawalRollsBack(w)
        PROVE  WithdrawnMatches'
    BY <1>1, <2>2 DEF WithdrawalRollsBack
  <2>3. QED
    BY <1>2, <2>1, <2>2, CompleteMatched DEF WithdrawalSteps
<1>3. CASE Sales
  BY <1>1, <1>3 DEF Sales, Sell, SaleRollsBack, EventEnds
<1>4. ASSUME NEW c \in Calls, LateSales(c)
      PROVE  WithdrawnMatches'
  BY <1>1, <1>4 DEF LateSales, SellLate, AskLateRefund, NoteLateRefund, FailLateRefund
<1>5. ASSUME NEW c \in Calls, Settlements(c)
      PROVE  WithdrawnMatches'
  BY <1>1, <1>5 DEF Settlements, StartSettlement, Settle, NoteDiscrepancy, FinishSettlement
<1>6. ASSUME NEW c \in Calls, RefundSteps(c)
      PROVE  WithdrawnMatches'
  BY <1>1, <1>6
  DEF RefundSteps, BeginCoins, BeginRefund, BeginApproval, RecordRefund, TakeShareBack,
      RecordFailure, RefundThrows
<1>7. CASE \/ \E r \in Refunds : RequestRefund(r) \/ RejectRefund(r)
           \/ \E c \in Calls : Crash(c)
           \/ LeasesEnd
           \/ \E d \in Disputes : ReopenDispute(d)
           \/ UNCHANGED vars
  BY <1>1, <1>7
  DEF RequestRefund, RejectRefund, Crash, LeasesEnd, ReopenDispute, walletVars, vars
<1>8. ASSUME NEW c \in Calls, DisputeSteps(c)
      PROVE  WithdrawnMatches'
  BY <1>1, <1>8
  DEF DisputeSteps, ReceiveDispute, StartResolution, HoldReserve, HoldFails, PostOutcome,
      OutcomeRollsBack, StampOutcome
<1>9. QED
  BY <1>2, <1>3, <1>4, <1>5, <1>6, <1>7, <1>8 DEF Next, WalletNext

\* WithdrawnMatches of PaymentDisputes: withdrawn_balance is what the completed
\* withdrawals add up to.
THEOREM WithdrawnMatchesHolds == Spec => []WithdrawnMatches
<1>1. Init => WithdrawnMatches
  <2> SUFFICES ASSUME Init
               PROVE  WithdrawnMatches
    OBVIOUS
  <2>1. Completed = {} /\ withdrawn = 0
    BY DEF Init, WalletInit, Completed
  <2>2. Cardinality({}) = 0 /\ Ask * 0 = 0
    BY FS_EmptySet, JournalTypes
  <2>3. QED
    BY <2>1, <2>2 DEF WithdrawnMatches
<1>2. TypeOK /\ WithdrawnMatches /\ [Next]_vars => WithdrawnMatches'
  BY StepMatched
<1>3. QED
  BY <1>1, <1>2, TiedAlways, PTL DEF Spec
=============================================================================
