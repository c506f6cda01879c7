--------------------------- MODULE PaymentDisputes ---------------------------
(***************************************************************************)
(* Chargebacks: the bank takes a payment back and the backend holds the    *)
(* amount of the organizer's balance until the dispute is decided.  What   *)
(* the gateway's webhooks and staff report is applied without any lock,    *)
(* beside everything OrganizerWallet does.                                 *)
(***************************************************************************)
EXTENDS OrganizerWallet

VARIABLE dispute   \* payment_disputes.status; "open" is any that is not decided

vars == <<walletVars, dispute>>

Decided == {"won", "lost"}

Holding == [pc : {"hold"}, dispute : Disputes]
Resolving == [pc : {"resolve", "stamp"}, dispute : Disputes, outcome : Decided]

TypeOK ==
  /\ WalletTypeOK
  /\ call \in [Calls -> {Idle} \cup Settling \cup Refunding \cup LateRefunding
                         \cup Holding \cup Resolving]
  /\ dispute \in [Disputes -> {"none", "open"} \cup Decided]

Init == WalletInit /\ dispute = [d \in Disputes |-> "none"]

-----------------------------------------------------------------------------
\* handleDisputeCreated inserts the row ...
ReceiveDispute(c, d) ==
  /\ dispute[d] = "none"
  /\ \E o \in Orders : order[o] # "none"
  /\ dispute' = [dispute EXCEPT ![d] = "open"]
  /\ Begin(c, [pc |-> "hold", dispute |-> d])
  /\ UNCHANGED <<event, buyer, credit, withdrawal, wallet, ledger, locks>>

\* ... and then holds the amount.
HoldReserve(c) ==
  /\ At(c, "hold")
  /\ Post("hold", <<"hold", call[c].dispute>>)
  /\ End(c)
  /\ UNCHANGED <<event, buyer, credit, withdrawal, wallet, locks, dispute>>

\* What the organizer's balance does not cover is not held, and never will be: the
\* webhook is sent again, finds the row and skips the rest.
HoldFails(c) ==
  LET key == <<"hold", call[c].dispute>> IN
  /\ At(c, "hold")
  /\ \/ ~ MayPost("hold", key) /\ UNCHANGED ledger
     \/ LeaveBehind("hold", key)
  /\ End(c)
  /\ UNCHANGED <<event, buyer, credit, withdrawal, wallet, locks, dispute>>

\* handleDisputeUnderReview and uploadDisputeEvidence set their status whatever it
\* was: they open a dispute that is decided again.
ReopenDispute(d) ==
  /\ dispute[d] # "none"
  /\ dispute' = [dispute EXCEPT ![d] = "open"]
  /\ UNCHANGED walletVars

\* handleDisputeWon and handleDisputeLost, called by a webhook or by staff: the
\* status is read, the ledger posted and the status written, one after the other.  The
\* operation that posts is found completed, and skipped, where its key is there.
StartResolution(c, d, outcome) ==
  /\ dispute[d] = "open"
  /\ Begin(c, [pc |-> "resolve", dispute |-> d, outcome |-> outcome])
  /\ UNCHANGED <<event, buyer, credit, withdrawal, wallet, ledger, locks, dispute>>

PostOutcome(c) ==
  LET key == <<call[c].outcome, call[c].dispute>> IN
  /\ At(c, "resolve")
  /\ \/ key \in keys /\ UNCHANGED ledger
     \/ Post(call[c].outcome, key)
  /\ call' = [call EXCEPT ![c].pc = "stamp"]
  /\ UNCHANGED <<event, buyer, credit, withdrawal, wallet, locks, dispute>>

OutcomeRollsBack(c) ==
  /\ At(c, "resolve")
  /\ LeaveBehind(call[c].outcome, <<call[c].outcome, call[c].dispute>>)
  /\ End(c)
  /\ UNCHANGED <<event, buyer, credit, withdrawal, wallet, locks, dispute>>

StampOutcome(c) ==
  /\ At(c, "stamp")
  /\ dispute' = [dispute EXCEPT ![call[c].dispute] = call[c].outcome]
  /\ End(c)
  /\ UNCHANGED <<event, buyer, credit, withdrawal, wallet, ledger, locks>>

DisputeSteps(c) ==
  \/ \E d \in Disputes :
       ReceiveDispute(c, d) \/ \E outcome \in Decided : StartResolution(c, d, outcome)
  \/ HoldReserve(c) \/ HoldFails(c)
  \/ PostOutcome(c) \/ OutcomeRollsBack(c) \/ StampOutcome(c)

Next ==
  \/ WalletNext /\ UNCHANGED dispute
  \/ \E c \in Calls : DisputeSteps(c)
  \/ \E d \in Disputes : ReopenDispute(d)

Spec == Init /\ [][Next]_vars

-----------------------------------------------------------------------------
\* Properties.

Completed == {w \in Withdrawals : withdrawal[w] = "completed"}
Settled == {o \in Orders : credit[o] = "settled"}

\* No order is refunded twice on record, whether by staff, by an approved request, as
\* coins or for being late, with any locks lapsed ("Refund exceeds captured payment"
\* in runIntegrityCheck).
RefundedOnce ==
  \A r, q \in Refunds :
    r[1] = q[1] /\ refund[r] = "processed" /\ refund[q] = "processed" => r = q

\* The tables beside the ledger and its keys agree: what is sold, settled, refunded or
\* about to be, paid out or decided has its key; what is not yet has none.  (A refund that
\* has failed or was rejected has one if the ledger took it before.)
KeysAgree ==
  /\ \A o \in Orders : order[o] # "none" <=> <<"capture", o>> \in keys
  /\ \A o \in Orders : credit[o] = "settled" <=> <<"settlement", o>> \in keys
  /\ \A r \in Refunds :
       /\ refund[r] \in {"pending", "processed"} => <<"refund", r>> \in keys
       /\ refund[r] \in {"none", "requested"} => <<"refund", r>> \notin keys
  /\ \A w \in Withdrawals : withdrawal[w] = "completed" <=> <<"withdrawal", w>> \in keys
  /\ \A d \in Disputes : dispute[d] \in Decided => <<dispute[d], d>> \in keys

\* The ledger agrees with the tables: it holds one posting for every key, and beside it
\* only what transactions that rolled back have left behind.
LedgerAgrees ==
  /\ KeysAgree
  /\ \A k \in Keys : posted[k] = orphans[k] + IF k \in keys THEN 1 ELSE 0

\* withdrawn_balance is the sum of the completed withdrawals ("withdrawals mismatch" in
\* runIntegrityCheck).
WithdrawnMatches == withdrawn = Ask * Cardinality(Completed)

\* What is paid out has been settled: runs that work off the same credits do not make
\* them available twice, and neither do balances that are cut off at zero, requests that
\* are returned, or postings left behind in the ledger.
PayoutsAreBacked ==
  Ask * Cardinality(Completed) <= Net * Cardinality(Settled)

\* The buyer gets the money back once, from the gateway or as coins ("no double-refund",
\* README.md).
PaidBackOnce == \A o \in coins : paidBack[o] = "nobody"
=============================================================================
