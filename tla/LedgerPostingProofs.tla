------------------------- MODULE LedgerPostingProofs -------------------------
(***************************************************************************)
(* What the idempotency keys of LedgerPosting guarantee, for any number of *)
(* calls, keys, attempts and connections.                                  *)
(***************************************************************************)
EXTENDS LedgerPosting, TLAPS

AllNested(k) == \A e \in Calls : KeyOf[e] = k /\ pc[e] # "idle" => e \in nested
AllDirect(k) == \A e \in Calls : KeyOf[e] = k => e \notin nested

\* A row not committed yet is the only one of its key.
UncommittedIsSingle ==
  \A c \in inserted :
    /\ keyRow[KeyOf[c]] = "none"
    /\ \A d \in inserted : KeyOf[d] = KeyOf[c] => d = c

\* A completed key and an answer stand for a posting.
ReceiptsStand ==
  /\ \A k \in Keys :
       keyRow[k] = "completed" => \E d \in posted : KeyOf[d] = k
  /\ \A c \in Calls :
       pc[c] \in {"answered", "returned", "committed"} =>
         \E d \in posted : KeyOf[d] = KeyOf[c]

\* While all calls of a key are nested its row is never completed or failed, so a call
\* posts only with a row of its own, and the first caller to commit is the last.
NestedKeys ==
  \A c \in Calls : AllNested(KeyOf[c]) =>
    /\ keyRow[KeyOf[c]] \in {"none", "pending"}
    /\ pc[c] \in {"ready", "opened", "keyed", "chained", "answered", "returned"} =>
         c \in inserted
    /\ pc[c] = "committed" => keyRow[KeyOf[c]] = "pending"
    /\ \A d \in Calls :
         KeyOf[d] = KeyOf[c] /\ pc[c] = "committed" /\ pc[d] = "committed" => d = c

\* Until the lock of a key lapses, the call at work holds it.
LockIsHeld ==
  \A c \in Calls :
    pc[c] \in AtWork /\ KeyOf[c] \notin disturbed => lease[KeyOf[c]] = c

\* While all calls of a key are direct, what a call has found in its row still stands.
DirectKeys ==
  \A c \in Calls : AllDirect(KeyOf[c]) /\ KeyOf[c] \notin disturbed =>
    /\ pc[c] = "inserting" => keyRow[KeyOf[c]] = "none"
    /\ pc[c] \in {"ready", "opened", "keyed", "chained"} =>
         keyRow[KeyOf[c]] \in {"pending", "failed"}
    /\ pc[c] = "failing" => keyRow[KeyOf[c]] # "completed"
    /\ c \in posted => keyRow[KeyOf[c]] = "completed"
    /\ \A d \in posted : c \in posted /\ KeyOf[d] = KeyOf[c] => d = c

-----------------------------------------------------------------------------
\* Every variable keeps its type.
LEMMA LedgerTypes ==
  ASSUME TypeOK, [Next]_vars
  PROVE  TypeOK'
<1> USE ConstantsAssumption
    DEF ConstantsAssumption, TypeOK, Goto, Labels, AtWork, Ended, row, order, hash
<1>1. ASSUME NEW c \in Calls,
             Start(c) \/ AskLock(c) \/ FindKey(c) \/ FindKeyFails(c) \/ InsertKey(c)
      PROVE  TypeOK'
  BY <1>1 DEF Start, AskLock, FindKey, FindKeyFails, InsertKey
<1>2. ASSUME NEW c \in Calls, OpenPosting(c) \/ LockKey(c) \/ TakeChain(c)
      PROVE  TypeOK'
  BY <1>2 DEF OpenPosting, LockKey, TakeChain
<1>3. ASSUME NEW c \in Calls, CommitPosting(c)
      PROVE  TypeOK'
  BY <1>3 DEF CommitPosting, Commit, Close
<1>4. ASSUME NEW c \in Calls, TransientFault(c) \/ Refuse(c) \/ Crash(c)
      PROVE  TypeOK'
  BY <1>4 DEF TransientFault, Refuse, Crash, Abort, Close
<1>5. ASSUME NEW c \in Calls,
             MarkFailed(c) \/ Unlock(c) \/ CommitCaller(c) \/ RollbackCaller(c)
      PROVE  TypeOK'
  BY <1>5 DEF MarkFailed, Unlock, CommitCaller, RollbackCaller
<1>6. ASSUME NEW k \in Keys, Lapse(k)
      PROVE  TypeOK'
  BY <1>6 DEF Lapse
<1>7. CASE UNCHANGED vars
  BY <1>7 DEF vars
<1> QED
  BY <1>1, <1>2, <1>3, <1>4, <1>5, <1>6, <1>7 DEF Next, Proceed

\* Every variable of LedgerPosting keeps its type.
THEOREM LedgerTypeCorrect == Spec => []TypeOK
<1>1. Init => TypeOK
  BY ConstantsAssumption DEF ConstantsAssumption, Init, TypeOK, Labels
<1> QED
  BY <1>1, LedgerTypes, PTL DEF Spec

-----------------------------------------------------------------------------
\* The unique index.
LEMMA SingleStep ==
  ASSUME TypeOK, UncommittedIsSingle, [Next]_vars
  PROVE  UncommittedIsSingle'
<1> USE ConstantsAssumption
    DEF ConstantsAssumption, TypeOK, row, UncommittedIsSingle
<1>1. ASSUME NEW c \in Calls,
             \/ Start(c) \/ AskLock(c) \/ FindKey(c) \/ FindKeyFails(c)
             \/ OpenPosting(c) \/ LockKey(c) \/ TakeChain(c)
             \/ TransientFault(c) \/ Refuse(c) \/ Unlock(c)
      PROVE  UncommittedIsSingle'
  BY <1>1 DEF Start, AskLock, FindKey, FindKeyFails, OpenPosting, LockKey, TakeChain,
              TransientFault, Refuse, Unlock
<1>2. ASSUME NEW c \in Calls, InsertKey(c)
      PROVE  UncommittedIsSingle'
  BY <1>2 DEF InsertKey
<1>3. ASSUME NEW c \in Calls, CommitPosting(c) \/ MarkFailed(c)
      PROVE  UncommittedIsSingle'
  BY <1>3 DEF CommitPosting, Commit, MarkFailed
<1>4. ASSUME NEW c \in Calls, CommitCaller(c) \/ RollbackCaller(c) \/ Crash(c)
      PROVE  UncommittedIsSingle'
  BY <1>4 DEF CommitCaller, RollbackCaller, Crash
<1>5. ASSUME NEW k \in Keys, Lapse(k)
      PROVE  UncommittedIsSingle'
  BY <1>5 DEF Lapse
<1>6. CASE UNCHANGED vars
  BY <1>6 DEF vars
<1> QED
  BY <1>1, <1>2, <1>3, <1>4, <1>5, <1>6 DEF Next, Proceed

\* No answer without a posting.
LEMMA ReceiptsStep ==
  ASSUME TypeOK, ReceiptsStand, [Next]_vars
  PROVE  ReceiptsStand'
<1> USE ConstantsAssumption
    DEF ConstantsAssumption, TypeOK, Goto, row, hash, ReceiptsStand
<1>1. ASSUME NEW c \in Calls,
             Start(c) \/ AskLock(c) \/ FindKey(c) \/ FindKeyFails(c) \/ InsertKey(c)
      PROVE  ReceiptsStand'
  BY <1>1 DEF Start, AskLock, FindKey, FindKeyFails, InsertKey
<1>2. ASSUME NEW c \in Calls, OpenPosting(c) \/ LockKey(c) \/ TakeChain(c)
      PROVE  ReceiptsStand'
  BY <1>2 DEF OpenPosting, LockKey, TakeChain
<1>3. ASSUME NEW c \in Calls, CommitPosting(c)
      PROVE  ReceiptsStand'
  BY <1>3 DEF CommitPosting, Commit
<1>4. ASSUME NEW c \in Calls, TransientFault(c) \/ Refuse(c) \/ Crash(c)
      PROVE  ReceiptsStand'
  BY <1>4 DEF TransientFault, Refuse, Crash, Abort
<1>5. ASSUME NEW c \in Calls,
             MarkFailed(c) \/ Unlock(c) \/ CommitCaller(c) \/ RollbackCaller(c)
      PROVE  ReceiptsStand'
  BY <1>5 DEF MarkFailed, Unlock, CommitCaller, RollbackCaller
<1>6. ASSUME NEW k \in Keys, Lapse(k)
      PROVE  ReceiptsStand'
  BY <1>6 DEF Lapse
<1>7. CASE UNCHANGED vars
  BY <1>7 DEF vars
<1> QED
  BY <1>1, <1>2, <1>3, <1>4, <1>5, <1>6, <1>7 DEF Next, Proceed

\* No caller commits on an answer of the engine, first or repeated, unless a posting of
\* its key is in the ledger.
THEOREM CommittedAlwaysPosted == Spec => []CommittedIsPosted
<1>1. Init => TypeOK /\ ReceiptsStand
  BY ConstantsAssumption DEF ConstantsAssumption, Init, TypeOK, Labels, ReceiptsStand
<1>2. TypeOK /\ ReceiptsStand /\ [Next]_vars => (TypeOK /\ ReceiptsStand)'
  BY LedgerTypes, ReceiptsStep
<1>3. ReceiptsStand => CommittedIsPosted
  BY DEF ReceiptsStand, CommittedIsPosted
<1> QED
  BY <1>1, <1>2, <1>3, PTL DEF Spec

-----------------------------------------------------------------------------
\* Nested calls of one key.
LEMMA NestedStep ==
  ASSUME TypeOK, UncommittedIsSingle, NestedKeys, [Next]_vars
  PROVE  NestedKeys'
<1> USE ConstantsAssumption
    DEF ConstantsAssumption, TypeOK, Goto, row, hash, AllNested,
        UncommittedIsSingle, NestedKeys
<1>1. ASSUME NEW c \in Calls, Start(c) \/ AskLock(c)
      PROVE  NestedKeys'
  BY <1>1 DEF Start, AskLock
<1>2. ASSUME NEW c \in Calls, FindKey(c) \/ FindKeyFails(c)
      PROVE  NestedKeys'
  BY <1>2 DEF FindKey, FindKeyFails
<1>3. ASSUME NEW c \in Calls, InsertKey(c)
      PROVE  NestedKeys'
  BY <1>3 DEF InsertKey
<1>4. ASSUME NEW c \in Calls, OpenPosting(c) \/ LockKey(c) \/ TakeChain(c)
      PROVE  NestedKeys'
  BY <1>4 DEF OpenPosting, LockKey, TakeChain
<1>5. ASSUME NEW c \in Calls, CommitPosting(c)
      PROVE  NestedKeys'
  BY <1>5 DEF CommitPosting, Commit
<1>6. ASSUME NEW c \in Calls, TransientFault(c) \/ Refuse(c)
      PROVE  NestedKeys'
  BY <1>6 DEF TransientFault, Refuse, Abort, Posting
<1>7. ASSUME NEW c \in Calls, Crash(c)
      PROVE  NestedKeys'
  BY <1>7 DEF Crash, Abort
<1>8. ASSUME NEW c \in Calls, MarkFailed(c)
      PROVE  NestedKeys'
  BY <1>8 DEF MarkFailed
<1>9. ASSUME NEW c \in Calls, Unlock(c)
      PROVE  NestedKeys'
  BY <1>9 DEF Unlock
<1>10. ASSUME NEW c \in Calls, CommitCaller(c) \/ RollbackCaller(c)
       PROVE  NestedKeys'
  BY <1>10 DEF CommitCaller, RollbackCaller
<1>11. ASSUME NEW k \in Keys, Lapse(k)
       PROVE  NestedKeys'
  BY <1>11 DEF Lapse
<1>12. CASE UNCHANGED vars
  BY <1>12 DEF vars
<1> QED
  BY <1>1, <1>2, <1>3, <1>4, <1>5, <1>6, <1>7, <1>8, <1>9, <1>10, <1>11, <1>12
  DEF Next, Proceed

\* Of the nested calls of a key at most one has its caller commit, even after the lock
\* has lapsed: the other callers are refused by the key's row.
THEOREM NestedAlwaysOnce == Spec => []NestedCommitOnce
<1> DEFINE Inv == TypeOK /\ UncommittedIsSingle /\ NestedKeys
<1>1. Init => Inv
  BY ConstantsAssumption
  DEF ConstantsAssumption, Init, TypeOK, Labels, UncommittedIsSingle, NestedKeys
<1>2. Inv /\ [Next]_vars => Inv'
  BY LedgerTypes, SingleStep, NestedStep
<1>3. Inv => NestedCommitOnce
  BY DEF TypeOK, NestedKeys, AllNested, NestedCommitOnce
<1> QED
  BY <1>1, <1>2, <1>3, PTL DEF Spec

-----------------------------------------------------------------------------
\* The lock of a key is the lock of the call at work.
LEMMA LockStep ==
  ASSUME TypeOK, LockIsHeld, [Next]_vars
  PROVE  LockIsHeld'
<1> USE ConstantsAssumption
    DEF ConstantsAssumption, TypeOK, Goto, row, hash, AtWork, LockIsHeld
<1>1. ASSUME NEW c \in Calls, Start(c) \/ AskLock(c)
      PROVE  LockIsHeld'
  BY <1>1 DEF Start, AskLock
<1>2. ASSUME NEW c \in Calls, FindKey(c) \/ FindKeyFails(c)
      PROVE  LockIsHeld'
  BY <1>2 DEF FindKey, FindKeyFails
<1>3. ASSUME NEW c \in Calls, InsertKey(c)
      PROVE  LockIsHeld'
  BY <1>3 DEF InsertKey
<1>4. ASSUME NEW c \in Calls, OpenPosting(c) \/ LockKey(c) \/ TakeChain(c)
      PROVE  LockIsHeld'
  BY <1>4 DEF OpenPosting, LockKey, TakeChain
<1>5. ASSUME NEW c \in Calls, CommitPosting(c)
      PROVE  LockIsHeld'
  BY <1>5 DEF CommitPosting, Commit
<1>6. ASSUME NEW c \in Calls, TransientFault(c) \/ Refuse(c)
      PROVE  LockIsHeld'
  BY <1>6 DEF TransientFault, Refuse, Abort, Posting
<1>7. ASSUME NEW c \in Calls, Crash(c)
      PROVE  LockIsHeld'
  BY <1>7 DEF Crash, Abort
<1>8. ASSUME NEW c \in Calls, MarkFailed(c)
      PROVE  LockIsHeld'
  BY <1>8 DEF MarkFailed
<1>9. ASSUME NEW c \in Calls, Unlock(c)
      PROVE  LockIsHeld'
  BY <1>9 DEF Unlock
<1>10. ASSUME NEW c \in Calls, CommitCaller(c) \/ RollbackCaller(c)
       PROVE  LockIsHeld'
  BY <1>10 DEF CommitCaller, RollbackCaller
<1>11. ASSUME NEW k \in Keys, Lapse(k)
       PROVE  LockIsHeld'
  BY <1>11 DEF Lapse
<1>12. CASE UNCHANGED vars
  BY <1>12 DEF vars
<1> QED
  BY <1>1, <1>2, <1>3, <1>4, <1>5, <1>6, <1>7, <1>8, <1>9, <1>10, <1>11, <1>12
  DEF Next, Proceed

\* Direct calls of one key.
LEMMA DirectStep ==
  ASSUME TypeOK, LockIsHeld, DirectKeys, [Next]_vars
  PROVE  DirectKeys'
<1> USE ConstantsAssumption
    DEF ConstantsAssumption, TypeOK, Goto, row, hash, AllDirect, AtWork,
        LockIsHeld, DirectKeys
<1>1. ASSUME NEW c \in Calls, Start(c) \/ AskLock(c)
      PROVE  DirectKeys'
  BY <1>1 DEF Start, AskLock
<1>2. ASSUME NEW c \in Calls, FindKey(c) \/ FindKeyFails(c)
      PROVE  DirectKeys'
  BY <1>2 DEF FindKey, FindKeyFails
<1>3. ASSUME NEW c \in Calls, InsertKey(c)
      PROVE  DirectKeys'
  BY <1>3 DEF InsertKey
<1>4. ASSUME NEW c \in Calls, OpenPosting(c) \/ LockKey(c) \/ TakeChain(c)
      PROVE  DirectKeys'
  BY <1>4 DEF OpenPosting, LockKey, TakeChain
<1>5. ASSUME NEW c \in Calls, CommitPosting(c)
      PROVE  DirectKeys'
  BY <1>5 DEF CommitPosting, Commit
<1>6. ASSUME NEW c \in Calls, TransientFault(c) \/ Refuse(c)
      PROVE  DirectKeys'
  BY <1>6 DEF TransientFault, Refuse, Abort, Posting
<1>7. ASSUME NEW c \in Calls, Crash(c)
      PROVE  DirectKeys'
  BY <1>7 DEF Crash, Abort
<1>8. ASSUME NEW c \in Calls, MarkFailed(c)
      PROVE  DirectKeys'
  BY <1>8 DEF MarkFailed
<1>9. ASSUME NEW c \in Calls, Unlock(c)
      PROVE  DirectKeys'
  BY <1>9 DEF Unlock
<1>10. ASSUME NEW c \in Calls, CommitCaller(c) \/ RollbackCaller(c)
       PROVE  DirectKeys'
  BY <1>10 DEF CommitCaller, RollbackCaller
<1>11. ASSUME NEW k \in Keys, Lapse(k)
       PROVE  DirectKeys'
  BY <1>11 DEF Lapse
<1>12. CASE UNCHANGED vars
  BY <1>12 DEF vars
<1> QED
  BY <1>1, <1>2, <1>3, <1>4, <1>5, <1>6, <1>7, <1>8, <1>9, <1>10, <1>11, <1>12
  DEF Next, Proceed

\* The direct calls of a key post it once at most, whatever crashes, fails and is tried
\* again, unless the lock lapses under one of them or an answer of the database is lost.
THEOREM DirectAlwaysOnce == Spec => []DirectPostedOnce
<1> DEFINE Inv == TypeOK /\ LockIsHeld /\ DirectKeys
<1>1. Init => Inv
  BY ConstantsAssumption
  DEF ConstantsAssumption, Init, TypeOK, Labels, AtWork, LockIsHeld, DirectKeys
<1>2. Inv /\ [Next]_vars => Inv'
  BY LedgerTypes, LockStep, DirectStep
<1>3. Inv => DirectPostedOnce
  BY DEF TypeOK, DirectKeys, AllDirect, DirectPostedOnce
<1> QED
  BY <1>1, <1>2, <1>3, PTL DEF Spec

-----------------------------------------------------------------------------
\* Nested calls whose callers stand by what was posted.

\* A caller neither rolls back nor dies once the posting of its call is committed.
CallersStand == [][\A c \in posted : pc'[c] = "over" => pc[c] = "over"]_vars

AllCallsNested == \A c \in Calls : pc[c] # "idle" => c \in nested

\* Until its caller commits, a posting is covered by the caller's uncommitted key row.
PostingsCovered == \A c \in posted : c \in inserted \/ pc[c] = "committed"

LEMMA CoveredStep ==
  ASSUME TypeOK, NestedKeys, AllCallsNested, PostingsCovered, [Next]_vars,
         \A c \in posted : pc'[c] = "over" => pc[c] = "over"
  PROVE  PostingsCovered'
<1> USE DEF TypeOK, Goto, row, hash, order, PostingsCovered
<1>1. ASSUME NEW c \in Calls, CommitPosting(c)
      PROVE  PostingsCovered'
  <2>1. c \in inserted
    BY <1>1 DEF CommitPosting, AllCallsNested, NestedKeys, AllNested
  <2> QED
    BY <1>1, <2>1 DEF CommitPosting, Commit
<1>2. ASSUME NEW c \in Calls, CommitCaller(c)
      PROVE  PostingsCovered'
  BY <1>2 DEF CommitCaller
<1>3. ASSUME NEW c \in Calls, RollbackCaller(c) \/ Crash(c)
      PROVE  PostingsCovered'
  <2>1. pc'[c] = "over" /\ pc[c] # "over" /\ UNCHANGED posted /\ inserted' = inserted \ {c}
    BY <1>3 DEF RollbackCaller, Crash, Abort, Ended
  <2>2. \A d \in Calls \ {c} : pc'[d] = pc[d]
    BY <1>3 DEF RollbackCaller, Crash
  <2> QED
    BY <2>1, <2>2
<1>4. ASSUME NEW c \in Calls, TransientFault(c) \/ Refuse(c)
      PROVE  PostingsCovered'
  BY <1>4 DEF TransientFault, Refuse, Abort, Posting
<1>5. ASSUME NEW c \in Calls,
             \/ Start(c) \/ AskLock(c) \/ FindKey(c) \/ FindKeyFails(c) \/ InsertKey(c)
             \/ OpenPosting(c) \/ LockKey(c) \/ TakeChain(c) \/ MarkFailed(c) \/ Unlock(c)
      PROVE  PostingsCovered'
  <2>1. UNCHANGED posted /\ inserted \subseteq inserted'
    BY <1>5
    DEF Start, AskLock, FindKey, FindKeyFails, InsertKey, OpenPosting, LockKey, TakeChain,
        MarkFailed, Unlock
  <2>2. \A d \in Calls : pc[d] = "committed" => pc'[d] = "committed"
    BY <1>5
    DEF Start, AskLock, FindKey, FindKeyFails, InsertKey, OpenPosting, LockKey, TakeChain,
        MarkFailed, Unlock
  <2> QED
    BY <2>1, <2>2
<1>6. ASSUME NEW k \in Keys, Lapse(k)
      PROVE  PostingsCovered'
  BY <1>6 DEF Lapse
<1>7. CASE UNCHANGED vars
  BY <1>7 DEF vars
<1> QED
  BY <1>1, <1>2, <1>3, <1>4, <1>5, <1>6, <1>7 DEF Next, Proceed

\* Calls that are all made inside a transaction of their caller post a key once, even if
\* locks lapse and answers are lost, as long as no caller rolls back or dies after the
\* posting, which has a transaction of its own, was committed.
THEOREM NestedPostOnce ==
  Spec /\ []AllCallsNested /\ CallersStand => []PostedOnce
<1> DEFINE Inv == TypeOK /\ UncommittedIsSingle /\ NestedKeys
           Stand == \A c \in posted : pc'[c] = "over" => pc[c] = "over"
<1>1. Init => Inv /\ PostingsCovered
  BY ConstantsAssumption
  DEF ConstantsAssumption, Init, TypeOK, Labels, UncommittedIsSingle, NestedKeys,
      PostingsCovered
<1>2. Inv /\ [Next]_vars => Inv'
  BY LedgerTypes, SingleStep, NestedStep
<1>3. Inv /\ AllCallsNested /\ PostingsCovered /\ [Next]_vars /\ [Stand]_vars
        => PostingsCovered'
  <2>1. CASE Stand
    BY <2>1, CoveredStep
  <2>2. CASE UNCHANGED vars
    BY <2>2 DEF vars, row, hash, PostingsCovered
  <2> QED
    BY <2>1, <2>2
<1>4. Inv /\ AllCallsNested /\ PostingsCovered => PostedOnce
  <2> SUFFICES ASSUME Inv, AllCallsNested, PostingsCovered,
                      NEW c \in posted, NEW d \in posted, KeyOf[c] = KeyOf[d]
               PROVE  c = d
    BY DEF PostedOnce
  <2>1. c \in Calls /\ d \in Calls /\ AllNested(KeyOf[c]) /\ AllNested(KeyOf[d])
    BY DEF TypeOK, AllCallsNested, AllNested
  <2>2. CASE c \in inserted
    BY <2>1, <2>2 DEF UncommittedIsSingle, NestedKeys, PostingsCovered
  <2>3. CASE pc[c] = "committed"
    BY <2>1, <2>3 DEF UncommittedIsSingle, NestedKeys, PostingsCovered
  <2> QED
    BY <2>2, <2>3 DEF PostingsCovered
<1> HIDE DEF Inv, Stand
<1>5. CallersStand <=> [][Stand]_vars
  BY PTL DEF CallersStand, Stand
<1> QED
  BY <1>1, <1>2, <1>3, <1>4, <1>5, PTL DEF Spec

-----------------------------------------------------------------------------
\* The hash chain.

\* No posting is committed after one that began later: the order in which postings are
\* found is the order of their commits.
CommitsInOrder == [][\A c \in posted' \ posted : c \notin overtaken]_vars

ChainInv ==
  /\ \A c \in Calls : pc[c] = "chained" <=> chain = c
  /\ \A c \in Calls : pc[c] = "chained" => previous[c] = head
  /\ \A c \in posted : pc[c] \notin {"idle", "asking", "finding", "inserting", "ready",
                                     "opened", "keyed", "chained"}
  /\ head \in posted \cup {Nobody}
  /\ \A c \in posted : previous[c] \in posted \cup {Nobody} /\ previous[c] # head

\* A posting that takes the lock of the chain follows its head, and nothing else does.
LEMMA ChainStep ==
  ASSUME TypeOK, ChainInv, ChainIsLinear, [Next]_vars,
         \A c \in posted' \ posted : c \notin overtaken
  PROVE  ChainInv' /\ ChainIsLinear'
<1> USE ConstantsAssumption
    DEF ConstantsAssumption, TypeOK, Goto, row, hash, order, ChainInv, ChainIsLinear
<1>1. ASSUME NEW c \in Calls, CommitPosting(c)
      PROVE  ChainInv' /\ ChainIsLinear'
  <2>1. /\ pc[c] = "chained" /\ c \notin posted /\ chain = c /\ previous[c] = head
        /\ chain' = Nobody /\ posted' = posted \cup {c} /\ UNCHANGED previous
        /\ pc' = [pc EXCEPT ![c] = "answered"] \/ pc' = [pc EXCEPT ![c] = "failing"]
    BY <1>1 DEF CommitPosting, Commit
  <2>2. head' = c
    BY <1>1, <2>1 DEF CommitPosting, Commit
  <2>3. \A d \in Calls \ {c} : pc[d] # "chained" /\ pc'[d] = pc[d]
    BY <2>1
  <2>4. pc'[c] \in {"answered", "failing"}
    BY <2>1
  <2>5. head # c /\ head \in posted' \cup {Nobody}
    BY <2>1
  <2>6. \A d \in posted : previous[d] # c /\ previous[d] # head
    BY <2>1
  <2>7. ChainInv'
    BY <2>1, <2>2, <2>3, <2>4, <2>5, <2>6
  <2>8. ChainIsLinear'
    BY <2>1, <2>6
  <2> QED
    BY <2>7, <2>8
<1>2. ASSUME NEW c \in Calls, TakeChain(c)
      PROVE  ChainInv' /\ ChainIsLinear'
  BY <1>2 DEF TakeChain
<1>3. ASSUME NEW c \in Calls, TransientFault(c) \/ Refuse(c) \/ Crash(c)
      PROVE  ChainInv' /\ ChainIsLinear'
  <2>1. /\ UNCHANGED <<head, posted>>
        /\ chain' = IF chain = c THEN Nobody ELSE chain
        /\ \A d \in posted \cup (Calls \ {c}) : previous'[d] = previous[d]
    BY <1>3 DEF TransientFault, Refuse, Crash, Abort, Posting
  <2>2. /\ \A d \in Calls \ {c} : pc'[d] = pc[d]
        /\ \/ pc'[c] = "ready" /\ c \notin posted
           \/ pc'[c] \in {"failing", "over"}
    BY <1>3 DEF TransientFault, Refuse, Crash, Posting
  <2> QED
    BY <2>1, <2>2
<1>4. ASSUME NEW c \in Calls,
             \/ Start(c) \/ AskLock(c) \/ FindKey(c) \/ FindKeyFails(c) \/ InsertKey(c)
             \/ OpenPosting(c) \/ LockKey(c) \/ MarkFailed(c) \/ Unlock(c)
             \/ CommitCaller(c) \/ RollbackCaller(c)
      PROVE  ChainInv' /\ ChainIsLinear'
  <2>1. UNCHANGED <<chain, head, previous, posted>>
    BY <1>4
    DEF Start, AskLock, FindKey, FindKeyFails, InsertKey, OpenPosting, LockKey,
        MarkFailed, Unlock, CommitCaller, RollbackCaller
  <2>2. /\ \A d \in Calls \ {c} : pc'[d] = pc[d]
        /\ pc[c] # "chained" /\ pc'[c] # "chained"
        /\ pc'[c] \in {"asking", "finding", "inserting", "ready", "opened", "keyed"} =>
             pc[c] \in {"idle", "asking", "finding", "inserting", "ready", "opened"}
        /\ pc'[c] # "idle"
    <3>1. CASE Start(c) \/ AskLock(c) \/ FindKey(c) \/ FindKeyFails(c) \/ InsertKey(c)
      BY <3>1 DEF Start, AskLock, FindKey, FindKeyFails, InsertKey
    <3>2. CASE OpenPosting(c) \/ LockKey(c) \/ MarkFailed(c) \/ Unlock(c)
                 \/ CommitCaller(c) \/ RollbackCaller(c)
      BY <3>2 DEF OpenPosting, LockKey, MarkFailed, Unlock, CommitCaller, RollbackCaller
    <3> QED
      BY <1>4, <3>1, <3>2
  <2> QED
    BY <2>1, <2>2
<1>5. ASSUME NEW k \in Keys, Lapse(k)
      PROVE  ChainInv' /\ ChainIsLinear'
  BY <1>5 DEF Lapse
<1>6. CASE UNCHANGED vars
  BY <1>6 DEF vars
<1> QED
  BY <1>1, <1>2, <1>3, <1>4, <1>5, <1>6 DEF Next, Proceed

\* If no posting commits after one that began later, the hash chain of the tenant never
\* forks, whatever is retried, refused or crashes: the lookup of the head by created_at
\* is the only way to a fork.
THEOREM LinearInOrder ==
  Spec /\ CommitsInOrder => []ChainIsLinear
<1> DEFINE InOrder == \A c \in posted' \ posted : c \notin overtaken
<1>1. Init => TypeOK /\ ChainInv /\ ChainIsLinear
  BY ConstantsAssumption
  DEF ConstantsAssumption, Init, TypeOK, Labels, ChainInv, ChainIsLinear
<1>2. TypeOK /\ [Next]_vars => TypeOK'
  BY LedgerTypes
<1>3. TypeOK /\ ChainInv /\ ChainIsLinear /\ [Next]_vars /\ [InOrder]_vars
        => ChainInv' /\ ChainIsLinear'
  <2>1. CASE InOrder
    BY <2>1, ChainStep
  <2>2. CASE UNCHANGED vars
    BY <2>2 DEF vars, hash, order, ChainInv, ChainIsLinear
  <2> QED
    BY <2>1, <2>2
<1> HIDE DEF InOrder
<1>4. CommitsInOrder <=> [][InOrder]_vars
  BY PTL DEF CommitsInOrder, InOrder
<1> QED
  BY <1>1, <1>2, <1>3, <1>4, PTL DEF Spec
=============================================================================
