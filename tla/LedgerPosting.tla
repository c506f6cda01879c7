---------------------------- MODULE LedgerPosting ----------------------------
(***************************************************************************)
(* LedgerPostingEngine.postTransaction for one tenant: the Redis lock and  *)
(* the idempotency key of a posting, the database transaction it posts in, *)
(* its retries, and the hash chain of the ledger.                          *)
(*                                                                         *)
(* A call is nested when its caller passes a transaction of its own.  The  *)
(* key's row is then written in the caller's transaction, while the        *)
(* posting always runs in a transaction of its own, on another connection  *)
(* of the pool.  Amounts and accounts are not here: a posting may be       *)
(* refused for lack of funds.                                              *)
(***************************************************************************)
EXTENDS Naturals, FiniteSets

CONSTANTS
  Calls,        \* calls of postTransaction, each used once
  Keys,         \* idempotency keys
  KeyOf,        \* Calls -> Keys
  Connections,  \* DB_POOL_MAX, the size of the connection pool
  MaxAttempts,  \* maxPostingAttempts
  Nobody        \* no call; in the chain, the genesis hash

ASSUME ConstantsAssumption ==
  /\ KeyOf \in [Calls -> Keys]
  /\ Connections \in Nat
  /\ MaxAttempts \in Nat \ {0}
  /\ Nobody \notin Calls

VARIABLES
  pc,        \* where each call is
  nested,    \* calls made inside a transaction of the caller
  lease,     \* who holds the Redis lock of each key
  disturbed, \* keys whose lock has lapsed under a call at work, or for which an answer
             \* of the database has been lost
  keyRow,    \* ledger_idempotency_keys.status as committed
  inserted,  \* nested calls whose new key row is not committed yet
  attempt,   \* attempts of the posting transaction
  later,     \* of each posting transaction under way, those that began after it
  overtaken, \* posting transactions under way that began before a committed one
  head,      \* the posting with the latest created_at: what getLatestTransaction finds
  chain,     \* who holds the advisory lock of the tenant's chain
  previous,  \* whose hash the posting follows: previous_hash
  posted     \* calls whose posting is committed

row == <<keyRow, inserted>>
order == <<later, overtaken, head>>
hash == <<chain, previous, posted>>
vars == <<pc, nested, lease, disturbed, row, attempt, order, hash>>

\* In the order of the code; the last two are ends.
AtWork ==
  {"finding", "inserting", "ready", "opened", "keyed", "chained", "answered",
   "failing", "failed"}
Ended == {"committed", "over"}
Labels == {"idle", "asking", "returned", "aborting"} \cup AtWork \cup Ended

Posting == {c \in Calls : pc[c] \in {"opened", "keyed", "chained"}}

TypeOK ==
  /\ pc \in [Calls -> Labels]
  /\ nested \subseteq Calls
  /\ lease \in [Keys -> Calls \cup {Nobody}]
  /\ disturbed \subseteq Keys
  /\ keyRow \in [Keys -> {"none", "pending", "completed", "failed"}]
  /\ inserted \subseteq nested
  /\ attempt \in [Calls -> 1..MaxAttempts]
  /\ later \in [Calls -> SUBSET Calls]
  /\ overtaken \subseteq Calls
  /\ head \in Calls \cup {Nobody}
  /\ chain \in Calls \cup {Nobody}
  /\ previous \in [Calls -> Calls \cup {Nobody}]
  /\ posted \subseteq Calls

Init ==
  /\ pc = [c \in Calls |-> "idle"]
  /\ nested = {}
  /\ lease = [k \in Keys |-> Nobody]
  /\ disturbed = {}
  /\ keyRow = [k \in Keys |-> "none"]
  /\ inserted = {}
  /\ attempt = [c \in Calls |-> 1]
  /\ later = [c \in Calls |-> {}]
  /\ overtaken = {}
  /\ head = Nobody
  /\ chain = Nobody
  /\ previous = [c \in Calls |-> Nobody]
  /\ posted = {}

-----------------------------------------------------------------------------
Goto(c, label) == pc' = [pc EXCEPT ![c] = label]

\* The pool: a nested call's caller keeps a connection, and so does every posting
\* transaction; a single statement takes one for a moment.
CallersAtWork == {c \in nested : pc[c] \notin {"idle"} \cup Ended}
ConnectionFree == Cardinality(CallersAtWork) + Cardinality(Posting) < Connections

-----------------------------------------------------------------------------
\* The lock and the idempotency key.

Start(c) ==
  /\ pc[c] = "idle"
  /\ Goto(c, "asking")
  /\ \/ ConnectionFree /\ nested' = nested \cup {c}
     \/ UNCHANGED nested
  /\ UNCHANGED <<lease, disturbed, row, attempt, order, hash>>

\* A lock not granted, or granted by an answer that is lost, is an error raised
\* outside the try block: nothing is undone.
AskLock(c) ==
  /\ pc[c] = "asking"
  /\ \/ /\ lease[KeyOf[c]] = Nobody
        /\ lease' = [lease EXCEPT ![KeyOf[c]] = c]
        /\ Goto(c, "finding")
     \/ /\ lease' \in {lease, [lease EXCEPT ![KeyOf[c]] = IF @ = Nobody THEN c ELSE @]}
        /\ Goto(c, IF c \in nested THEN "aborting" ELSE "over")
  /\ UNCHANGED <<nested, disturbed, row, attempt, order, hash>>

\* Mutant: a pending key is answered as a completed one.
FindKeyAnyReceipt(c) ==
  /\ pc[c] = "finding"
  /\ c \in nested \/ ConnectionFree
  /\ Goto(c, CASE keyRow[KeyOf[c]] = "none"   -> "inserting"
               [] keyRow[KeyOf[c]] = "failed" -> "ready"
               [] OTHER -> "answered")
  /\ UNCHANGED <<nested, lease, disturbed, row, attempt, order, hash>>

\* A completed key is answered with its receipt, a pending one is an error, and a
\* failed one may be tried again.
FindKey(c) ==
  /\ pc[c] = "finding"
  /\ c \in nested \/ ConnectionFree
  /\ Goto(c, CASE keyRow[KeyOf[c]] = "none"      -> "inserting"
               [] keyRow[KeyOf[c]] = "failed"    -> "ready"
               [] keyRow[KeyOf[c]] = "pending"   -> "failing"
               [] keyRow[KeyOf[c]] = "completed" -> "answered")
  /\ UNCHANGED <<nested, lease, disturbed, row, attempt, order, hash>>

\* Mutant: no unique index on the keys.
InsertKeyAgain(c) ==
  /\ pc[c] = "inserting"
  /\ c \in nested \/ ConnectionFree
  /\ Goto(c, "ready")
  /\ IF c \in nested
     THEN inserted' = inserted \cup {c} /\ UNCHANGED keyRow
     ELSE keyRow' = [keyRow EXCEPT ![KeyOf[c]] = "pending"] /\ UNCHANGED inserted
  /\ UNCHANGED <<nested, lease, disturbed, attempt, order, hash>>

\* The unique index makes the insert wait for a row that is not committed yet, and
\* fail if one has been.
InsertKey(c) ==
  /\ pc[c] = "inserting"
  /\ c \in nested \/ ConnectionFree
  /\ \A d \in inserted : KeyOf[d] # KeyOf[c]
  /\ IF keyRow[KeyOf[c]] # "none"
     THEN Goto(c, "failing") /\ UNCHANGED row
     ELSE /\ Goto(c, "ready")
          /\ IF c \in nested
             THEN inserted' = inserted \cup {c} /\ UNCHANGED keyRow
             ELSE keyRow' = [keyRow EXCEPT ![KeyOf[c]] = "pending"] /\ UNCHANGED inserted
  /\ UNCHANGED <<nested, lease, disturbed, attempt, order, hash>>

\* The query for the key times out, or its connection breaks.
FindKeyFails(c) ==
  /\ pc[c] = "finding"
  /\ Goto(c, "failing")
  /\ disturbed' = disturbed \cup {KeyOf[c]}
  /\ UNCHANGED <<nested, lease, row, attempt, order, hash>>

-----------------------------------------------------------------------------
\* The posting transaction.

OpenPosting(c) ==
  /\ pc[c] = "ready"
  /\ ConnectionFree
  /\ Goto(c, "opened")
  /\ later' = [d \in Calls |-> IF d \in Posting THEN later[d] \cup {c} ELSE later[d]]
  /\ UNCHANGED <<nested, lease, disturbed, row, attempt, overtaken, head, hash>>

\* acquireDbLock: the row it inserts is deleted before the transaction ends, so a
\* second one waits for the first to end and then goes on.
LockKey(c) ==
  /\ pc[c] = "opened"
  /\ \A d \in Calls : KeyOf[d] = KeyOf[c] => pc[d] \notin {"keyed", "chained"}
  /\ Goto(c, "keyed")
  /\ UNCHANGED <<nested, lease, disturbed, row, attempt, order, hash>>

\* The advisory lock of the chain, then the head of the chain.
TakeChain(c) ==
  /\ pc[c] = "keyed"
  /\ chain = Nobody
  /\ chain' = c
  /\ previous' = [previous EXCEPT ![c] = head]
  /\ Goto(c, "chained")
  /\ UNCHANGED <<nested, lease, disturbed, row, attempt, order, posted>>

Close(c) == later' = [d \in Calls |-> IF d = c THEN {} ELSE later[d] \ {c}]

\* created_at is the time at which a transaction began: a posting is found as the
\* latest only if none that began after it has been committed.
Commit(c) ==
  /\ posted' = posted \cup {c}
  /\ chain' = Nobody
  /\ head' = IF c \in overtaken THEN head ELSE c
  /\ overtaken' = (overtaken \cup {d \in Calls : c \in later[d]}) \ {c}
  /\ Close(c)
  /\ attempt' = [attempt EXCEPT ![c] = 1]
  /\ UNCHANGED <<nested, lease, inserted, previous>>

\* Mutant: the key is not completed with the posting.
CommitPostingOnly(c) ==
  /\ pc[c] = "chained"
  /\ UNCHANGED <<keyRow, disturbed>>
  /\ Commit(c)
  /\ Goto(c, "answered")

\* The key is completed in the same transaction, if its row can be seen from there.
\* If the connection breaks the commit looks like an error.
CommitPosting(c) ==
  /\ pc[c] = "chained"
  /\ Commit(c)
  /\ keyRow' = IF keyRow[KeyOf[c]] = "none" THEN keyRow
               ELSE [keyRow EXCEPT ![KeyOf[c]] = "completed"]
  /\ \/ Goto(c, "answered") /\ UNCHANGED disturbed
     \/ Goto(c, "failing") /\ disturbed' = disturbed \cup {KeyOf[c]}

\* Mutant: an aborted transaction keeps the lock of the chain.
AbortChained(c) ==
  /\ Close(c)
  /\ overtaken' = overtaken \ {c}
  /\ UNCHANGED <<head, chain, previous, posted>>

\* What a transaction that ends without a commit leaves behind: nothing.
Abort(c) ==
  /\ chain' = IF chain = c THEN Nobody ELSE chain
  /\ Close(c)
  /\ overtaken' = overtaken \ {c}
  /\ previous' = IF c \in Posting THEN [previous EXCEPT ![c] = Nobody] ELSE previous
  /\ UNCHANGED <<head, posted>>

\* Mutant: one attempt too many.
TransientFaultOnceMore(c) ==
  /\ c \in Posting
  /\ Abort(c)
  /\ IF attempt[c] <= MaxAttempts
     THEN Goto(c, "ready") /\ attempt' = [attempt EXCEPT ![c] = @ + 1]
     ELSE Goto(c, "failing") /\ attempt' = [attempt EXCEPT ![c] = 1]
  /\ UNCHANGED <<nested, lease, disturbed, row>>

\* A deadlock, a serialization failure or a unique violation: tried again.
TransientFault(c) ==
  /\ c \in Posting
  /\ Abort(c)
  /\ IF attempt[c] < MaxAttempts
     THEN Goto(c, "ready") /\ attempt' = [attempt EXCEPT ![c] = @ + 1]
     ELSE Goto(c, "failing") /\ attempt' = [attempt EXCEPT ![c] = 1]
  /\ UNCHANGED <<nested, lease, disturbed, row>>

\* Insufficient funds, a currency that does not match, a statement that times out: not
\* tried again.
Refuse(c) ==
  /\ pc[c] \in {"inserting", "ready", "opened", "keyed", "chained"}
  /\ Abort(c)
  /\ Goto(c, "failing")
  /\ attempt' = [attempt EXCEPT ![c] = 1]
  /\ UNCHANGED <<nested, lease, disturbed, row>>

-----------------------------------------------------------------------------
\* The end of a call.

\* The error handler: whoever raised the error, the key's committed row is set to
\* failed, unless that update fails as well; what a nested call writes is rolled back
\* with its caller.
MarkFailed(c) ==
  /\ pc[c] = "failing"
  /\ c \in nested \/ ConnectionFree
  /\ Goto(c, "failed")
  /\ \/ UNCHANGED keyRow
     \/ /\ c \notin nested
        /\ keyRow[KeyOf[c]] # "none"
        /\ keyRow' = [keyRow EXCEPT ![KeyOf[c]] = "failed"]
  /\ UNCHANGED <<nested, lease, disturbed, inserted, attempt, order, hash>>

\* The lock may stay, if Redis does not answer; and if it has lapsed, it may be
\* another call's that is deleted (ReleasesOwnLock in RedisLock).
Unlock(c) ==
  /\ pc[c] \in {"answered", "failed"}
  /\ Goto(c, IF c \notin nested THEN "over"
             ELSE IF pc[c] = "failed" THEN "aborting" ELSE "returned")
  /\ \/ UNCHANGED lease
     \/ /\ lease[KeyOf[c]] = c \/ KeyOf[c] \in disturbed
        /\ lease' = [lease EXCEPT ![KeyOf[c]] = Nobody]
  /\ UNCHANGED <<nested, disturbed, row, attempt, order, hash>>

CommitCaller(c) ==
  /\ pc[c] = "returned"
  /\ keyRow' = IF c \in inserted THEN [keyRow EXCEPT ![KeyOf[c]] = "pending"] ELSE keyRow
  /\ inserted' = inserted \ {c}
  /\ Goto(c, "committed")
  /\ UNCHANGED <<nested, lease, disturbed, attempt, order, hash>>

\* The error of the posting, or one the caller meets later.
RollbackCaller(c) ==
  /\ pc[c] \in {"returned", "aborting"}
  /\ inserted' = inserted \ {c}
  /\ Goto(c, "over")
  /\ UNCHANGED <<nested, lease, disturbed, keyRow, attempt, order, hash>>

Crash(c) ==
  /\ pc[c] \notin {"idle"} \cup Ended
  /\ Abort(c)
  /\ inserted' = inserted \ {c}
  /\ attempt' = [attempt EXCEPT ![c] = 1]
  /\ Goto(c, "over")
  /\ UNCHANGED <<nested, lease, disturbed, keyRow>>

\* The lock's ten seconds are over.
Lapse(k) ==
  /\ lease[k] # Nobody
  /\ lease' = [lease EXCEPT ![k] = Nobody]
  /\ disturbed' = IF pc[lease[k]] \in AtWork THEN disturbed \cup {k} ELSE disturbed
  /\ UNCHANGED <<pc, nested, row, attempt, order, hash>>

\* What a call does by itself, once it has started.
Proceed(c) ==
  \/ AskLock(c)
  \/ FindKey(c)
  \/ InsertKey(c)
  \/ OpenPosting(c)
  \/ LockKey(c)
  \/ TakeChain(c)
  \/ CommitPosting(c)
  \/ MarkFailed(c)
  \/ Unlock(c)
  \/ CommitCaller(c)
  \/ RollbackCaller(c)

Next ==
  \/ \E c \in Calls :
       \/ Start(c)
       \/ Proceed(c)
       \/ TransientFault(c)
       \/ FindKeyFails(c)
       \/ Refuse(c)
       \/ Crash(c)
  \/ \E k \in Keys : Lapse(k)

Spec == Init /\ [][Next]_vars

\* The event loop and PostgreSQL go on with every call.
FairSpec == Spec /\ \A c \in Calls : WF_vars(Proceed(c))

-----------------------------------------------------------------------------
\* Properties.

\* A caller that has committed has its posting in the ledger: no reply of the
\* engine, first or repeated, stands for a posting that is not there.
CommittedIsPosted ==
  \A c \in Calls :
    pc[c] = "committed" => \E d \in posted : KeyOf[d] = KeyOf[c]

\* Among callers that pass their transaction, one at most commits a posting of a
\* key, even if the lock has lapsed: the unique index on the keys sees to it.
NestedCommitOnce ==
  \A c, d \in posted :
    /\ KeyOf[c] = KeyOf[d] /\ pc[c] = "committed" /\ pc[d] = "committed"
    /\ \A e \in Calls : KeyOf[e] = KeyOf[c] /\ pc[e] # "idle" => e \in nested
    => c = d

\* Calls outside a transaction post a key once, whatever crashes and however often
\* they are repeated, as long as the lock does not lapse under one of them and no
\* answer of the database to one of them is lost.
DirectPostedOnce ==
  \A c, d \in posted :
    /\ KeyOf[c] = KeyOf[d] /\ KeyOf[c] \notin disturbed
    /\ \A e \in Calls : KeyOf[e] = KeyOf[c] => e \notin nested
    => c = d

\* The same for any calls ("preserving exactly-once posting").
PostedOnce ==
  \A c, d \in posted : KeyOf[c] = KeyOf[d] /\ KeyOf[c] \notin disturbed => c = d

\* No two postings follow the same one ("concurrent postings cannot fork the chain").
ChainIsLinear == \A c, d \in posted : previous[c] = previous[d] => c = d

\* Every call ends: none waits for ever for the lock of the chain, the key of another
\* or a connection, with one connection more than there are callers.
EveryCallEnds == \A c \in Calls : pc[c] # "idle" ~> pc[c] \in Ended
=============================================================================
