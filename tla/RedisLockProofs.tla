--------------------------- MODULE RedisLockProofs ---------------------------
(***************************************************************************)
(* RedisLock implements LeaseMutex for any number of requests, as long as  *)
(* no two of them are in the same process.  MailDelivery, which is built   *)
(* on it, sends a mail once and drops none wherever its deliveries run:    *)
(* what that needs of the tokens holds in a shared process as well.        *)
(***************************************************************************)
EXTENDS MailDelivery, TLAPS

\* A request that works in time finds its own token in Redis; what a process has
\* remembered and what a request is about to release is that request's token; and
\* no two requests ever have the same one.
LockInv ==
  \A r \in Requests :
    /\ pc[r] \in {"granted", "working"} /\ token[r] \notin lapsed => stored = token[r]
    /\ pc[r] \in {"working", "unlocking", "unlocked"} =>
         remembered[ProcessOf[r]] \in {token[r], NoToken}
    /\ pc[r] \in {"idle", "asking", "granted"} => remembered[ProcessOf[r]] = NoToken
    /\ pc[r] = "unlocking" => releasing[r] = token[r]
    /\ pc[r] # "idle" => token[r] # NoToken
    /\ token[r] \in drawn \cup {NoToken}
    /\ \A q \in Requests : token[q] = token[r] => q = r \/ token[r] = NoToken

\* Every variable keeps its type.
LEMMA LockTypes ==
  ASSUME TypeOK, [Next]_vars
  PROVE  TypeOK'
<1> USE ConstantsAssumption DEF ConstantsAssumption, TypeOK, Value, Goto
<1>1. ASSUME NEW r \in Requests,
             \/ Lock(r) \/ SetStores(r) \/ SetRefused(r) \/ GrantArrives(r)
             \/ SetLost(r) \/ Unlock(r) \/ CompareAndDelete(r) \/ Forget(r)
      PROVE  TypeOK'
  BY <1>1 DEF Lock, SetStores, SetRefused, GrantArrives, SetLost, Unlock,
              CompareAndDelete, Forget
<1>2. CASE Expire \/ \E p \in Processes : Crash(p)
  BY <1>2 DEF Expire, Crash
<1>3. CASE UNCHANGED vars
  BY <1>3 DEF vars
<1> QED
  BY <1>1, <1>2, <1>3 DEF Next

\* Whatever requests share a process, every variable always has its type: no key and
\* no map holds anything but tokens, and no call makes more attempts than it may.
THEOREM LockTypeCorrect == Spec => []TypeOK
<1>1. Init => TypeOK
  BY ConstantsAssumption DEF ConstantsAssumption, Init, TypeOK, Value
<1>2. TypeOK /\ [Next]_vars => TypeOK'
  BY LockTypes
<1> QED
  BY <1>1, <1>2, PTL DEF Spec

\* With one request per process every step keeps the invariant.
LEMMA LockStep ==
  ASSUME OneRequestPerProcess, TypeOK, LockInv, [Next]_vars
  PROVE  LockInv'
<1> USE ConstantsAssumption DEF ConstantsAssumption, TypeOK, Value, Goto, LockInv,
                                OneRequestPerProcess
<1>1. ASSUME NEW r \in Requests, Lock(r)
      PROVE  LockInv'
  BY <1>1 DEF Lock
<1>2. ASSUME NEW r \in Requests, SetStores(r)
      PROVE  LockInv'
  BY <1>2 DEF SetStores
<1>3. ASSUME NEW r \in Requests, SetRefused(r) \/ SetLost(r)
      PROVE  LockInv'
  BY <1>3 DEF SetRefused, SetLost
<1>4. ASSUME NEW r \in Requests, GrantArrives(r)
      PROVE  LockInv'
  BY <1>4 DEF GrantArrives
<1>5. ASSUME NEW r \in Requests, Unlock(r)
      PROVE  LockInv'
  BY <1>5 DEF Unlock
<1>6. ASSUME NEW r \in Requests, CompareAndDelete(r)
      PROVE  LockInv'
  BY <1>6 DEF CompareAndDelete
<1>7. ASSUME NEW r \in Requests, Forget(r)
      PROVE  LockInv'
  BY <1>7 DEF Forget
<1>8. CASE Expire
  BY <1>8 DEF Expire
<1>9. ASSUME NEW p \in Processes, Crash(p)
      PROVE  LockInv'
  BY <1>9 DEF Crash
<1>10. CASE UNCHANGED vars
  BY <1>10 DEF vars
<1> QED
  BY <1>1, <1>2, <1>3, <1>4, <1>5, <1>6, <1>7, <1>8, <1>9, <1>10 DEF Next

\* Every step of the lock is a step of its promise, or leaves the leases alone.
LEMMA LeaseStep ==
  ASSUME OneRequestPerProcess, TypeOK, LockInv, [Next]_vars
  PROVE  [Lease!Next]_leases
<1> USE ConstantsAssumption DEF ConstantsAssumption, TypeOK, Value, Goto, leases
<1>1. ASSUME NEW r \in Requests,
             Lock(r) \/ SetStores(r) \/ SetRefused(r) \/ SetLost(r)
               \/ CompareAndDelete(r) \/ Forget(r)
      PROVE  UNCHANGED leases
  BY <1>1 DEF Lock, SetStores, SetRefused, SetLost, CompareAndDelete, Forget
<1>2. ASSUME NEW r \in Requests, GrantArrives(r)
      PROVE  Lease!Start(r)
  <2>1. leases[r] = "none"
    BY <1>2 DEF GrantArrives
  <2>2. CASE token[r] \in lapsed
    BY <1>2, <2>1, <2>2 DEF GrantArrives, Lease!Start
  <2>3. CASE token[r] \notin lapsed
    <3>1. ASSUME NEW q \in Requests
          PROVE  leases[q] # "held"
      BY <1>2, <2>3 DEF GrantArrives, LockInv
    <3>2. leases' = [leases EXCEPT ![r] = "held"]
      BY <1>2, <2>3 DEF GrantArrives
    <3> QED
      BY <2>1, <3>1, <3>2 DEF Lease!Start, Lease!Held
  <2> QED
    BY <2>2, <2>3
<1>3. ASSUME NEW r \in Requests, Unlock(r)
      PROVE  Lease!Stop({r})
  BY <1>3 DEF Unlock, Lease!Stop
<1>4. CASE Expire
  <2>1. CASE \E r \in Requests : pc[r] = "working" /\ token[r] = stored /\ token[r] \notin lapsed
    <3>1. PICK r \in Requests : pc[r] = "working" /\ token[r] = stored /\ token[r] \notin lapsed
      BY <2>1
    <3>2. \A q \in Requests \ {r} : token[q] # stored
      BY <3>1, <1>4 DEF LockInv, Expire
    <3> QED
      BY <1>4, <3>1, <3>2 DEF Expire, Lease!Lapse, Lease!Next
  <2>2. CASE ~ \E r \in Requests : pc[r] = "working" /\ token[r] = stored /\ token[r] \notin lapsed
    BY <1>4, <2>2 DEF Expire
  <2> QED
    BY <2>1, <2>2
<1>5. ASSUME NEW p \in Processes, Crash(p)
      PROVE  Lease!Stop({r \in Requests : ProcessOf[r] = p})
  BY <1>5 DEF Crash, Lease!Stop
<1>6. CASE UNCHANGED vars
  BY <1>6 DEF vars
<1>7. ASSUME NEW S \in SUBSET Requests, Lease!Stop(S)
      PROVE  Lease!Next
  BY <1>7 DEF Lease!Next
<1>8. ASSUME NEW r \in Requests, Lease!Start(r)
      PROVE  Lease!Next
  BY <1>8 DEF Lease!Next
<1>9. ASSUME NEW r \in Requests, Unlock(r)
      PROVE  Lease!Next
  BY <1>3, <1>7, <1>9
<1>10. ASSUME NEW p \in Processes, Crash(p)
       PROVE  Lease!Next
  BY <1>5, <1>7, <1>10
<1> HIDE DEF leases
<1> QED
  BY <1>1, <1>2, <1>4, <1>6, <1>8, <1>9, <1>10 DEF Next

\* With one request per process the lock keeps its promise, whatever commands and
\* answers are lost, whatever processes die and however late its holders are: two
\* requests never work at a time while both leases run.
THEOREM LockImplementsLease ==
  ASSUME OneRequestPerProcess
  PROVE  Spec => LeaseKept
<1>1. Init => TypeOK /\ LockInv /\ Lease!Init
  BY ConstantsAssumption
  DEF ConstantsAssumption, Init, TypeOK, Value, LockInv, leases, Lease!Init
<1>2. TypeOK /\ LockInv /\ [Next]_vars => (TypeOK /\ LockInv)'
  BY LockTypes, LockStep
<1>3. TypeOK /\ LockInv /\ [Next]_vars => [Lease!Next]_leases
  BY LeaseStep
<1> QED
  BY <1>1, <1>2, <1>3, PTL DEF Spec, LeaseKept, Lease!Spec

\* What unlock deletes is the token it has read from its process's map, which is the
\* caller's own while no other request of the process uses the key.
LEMMA OwnRelease ==
  ASSUME LockInv, NEW r \in Requests, CompareAndDelete(r), stored' # stored
  PROVE  stored = token[r]
BY DEF LockInv, CompareAndDelete

\* With one request per process unlock only ever deletes the caller's own lock, even
\* if the lock has lapsed and somebody else holds the key: what lock_shared shows to
\* fail takes two requests of one process.
THEOREM ReleasesOwn ==
  ASSUME OneRequestPerProcess
  PROVE  Spec => ReleasesOwnLock
<1>1. Init => TypeOK /\ LockInv
  BY ConstantsAssumption DEF ConstantsAssumption, Init, TypeOK, Value, LockInv
<1>2. TypeOK /\ LockInv /\ [Next]_vars => (TypeOK /\ LockInv)'
  BY LockTypes, LockStep
<1>3. LockInv /\ [Next]_vars =>
        [\A r \in Requests : CompareAndDelete(r) /\ stored' # stored => stored = token[r]]_vars
  BY OwnRelease
<1> QED
  BY <1>1, <1>2, <1>3, PTL DEF Spec, ReleasesOwnLock

-----------------------------------------------------------------------------
\* Mail delivery.

\* Whatever a request, the provider or a process does to the mail, it does to the lock
\* what RedisLock allows.
LEMMA MailStepsLock ==
  ASSUME [MailNext]_<<vars, mailVars>>
  PROVE  [Next]_vars
<1>1. CASE MailNext
  BY <1>1 DEF MailNext, Arrive, AskLock, LockRefused, LockGranted, Mark, Release, Respond,
     ReadRow, SetProcessing, Send, AnswerLost, Record, Fail, DatabaseFails,
     EndTransaction, Report,
     LockLapses, ProcessDies, Next
<1>2. CASE UNCHANGED <<vars, mailVars>>
  BY <1>2
<1> QED
  BY <1>1, <1>2

\* The lock of a message's deliveries keeps the promise of LeaseMutex.
THEOREM MailKeepsLease ==
  ASSUME OneRequestPerProcess
  PROVE  MailSpec => LeaseKept
<1>1. MailInit => Init
  BY DEF MailInit
<1>2. [MailNext]_<<vars, mailVars>> => [Next]_vars
  BY MailStepsLock
<1>3. Spec => LeaseKept
  BY LockImplementsLease
<1> QED
  BY <1>1, <1>2, <1>3, PTL DEF MailSpec, Spec

\* What holds of the tokens whatever requests share a process: none is drawn twice, and
\* the one of a request that is still waiting for its lock is in nobody's map and no
\* unlock is about to release it.
TokensInv ==
  /\ \A p \in Processes : remembered[p] \in drawn \cup {NoToken}
  /\ \A r \in Requests :
       /\ token[r] \in drawn \cup {NoToken}
       /\ pc[r] # "idle" => token[r] # NoToken
       /\ pc[r] = "unlocking" => releasing[r] \in drawn
       /\ pc[r] \in {"asking", "granted"} =>
            \A p \in Processes : remembered[p] # token[r]
       /\ \A q \in Requests :
            /\ token[q] = token[r] => q = r \/ token[r] = NoToken
            /\ pc[r] = "unlocking" /\ pc[q] \in {"asking", "granted"} =>
                 releasing[r] # token[q]

\* Every step keeps that.
LEMMA TokensStep ==
  ASSUME TypeOK, TokensInv, [Next]_vars
  PROVE  TokensInv'
<1> USE ConstantsAssumption DEF ConstantsAssumption, TypeOK, Value, Goto, TokensInv
<1>1. ASSUME NEW r \in Requests, Lock(r)
      PROVE  TokensInv'
  BY <1>1 DEF Lock
<1>2. ASSUME NEW r \in Requests, SetStores(r)
      PROVE  TokensInv'
  BY <1>2 DEF SetStores
<1>3. ASSUME NEW r \in Requests, SetRefused(r) \/ SetLost(r)
      PROVE  TokensInv'
  BY <1>3 DEF SetRefused, SetLost
<1>4. ASSUME NEW r \in Requests, GrantArrives(r)
      PROVE  TokensInv'
  BY <1>4 DEF GrantArrives
<1>5. ASSUME NEW r \in Requests, Unlock(r)
      PROVE  TokensInv'
  BY <1>5 DEF Unlock
<1>6. ASSUME NEW r \in Requests, CompareAndDelete(r)
      PROVE  TokensInv'
  BY <1>6 DEF CompareAndDelete
<1>7. ASSUME NEW r \in Requests, Forget(r)
      PROVE  TokensInv'
  BY <1>7 DEF Forget
<1>8. CASE Expire
  BY <1>8 DEF Expire
<1>9. ASSUME NEW p \in Processes, Crash(p)
      PROVE  TokensInv'
  BY <1>9 DEF Crash
<1>10. CASE UNCHANGED vars
  BY <1>10 DEF vars
<1> QED
  BY <1>1, <1>2, <1>3, <1>4, <1>5, <1>6, <1>7, <1>8, <1>9, <1>10 DEF Next

InHandler == {"claiming", "sending", "sent", "failing", "served"}

\* Where a request is in the route and where it is in the lock go together; and unless a
\* lock has lapsed under its holder, a request that was granted the lock has it, and no
\* unlock is about to release it.
Placed ==
  \A r \in Requests :
    /\ stage[r] \in InHandler => pc[r] = "working"
    /\ stage[r] = "checked" => pc[r] \in {"idle", "asking", "granted", "working"}
    /\ stage[r] = "away" => pc[r] = "idle"
    /\ pc[r] \in {"granted", "working"} => stored = token[r] \/ "late" \in disturbed
    /\ pc[r] = "unlocking" =>
         \A q \in Requests :
           pc[q] = "working" => releasing[r] # token[q] \/ "late" \in disturbed

\* A sent mail is on record, or about to be by the request that has sent it, and who is
\* still to send has found it unsent.
SendInv ==
  disturbed \cap {"late", "unrecorded", "reported"} = {} =>
    /\ sends <= 1
    /\ sends > 0 => mail.status = "delivered" \/ \E r \in Requests : stage[r] = "sent"
    /\ \A r \in Requests : stage[r] \in {"claiming", "sending", "failing"} => sends = 0

\* A request ends in success, and the marker is set, only for a settled mail.
SettleInv ==
  disturbed \cap {"early", "late"} = {} =>
    /\ answered \/ marker \/ (\E r \in Requests : stage[r] \in {"served", "marked"}) => Settled
    /\ mail.status = "delivered" \/ mail.traced => sends > 0
    /\ \A r \in Requests :
         /\ stage[r] = "sent" => sends > 0
         /\ stage[r] \in InHandler \ {"served"} => found[r] = mail.retries

\* The outbox keeps its types.
LEMMA MailTypes ==
  ASSUME MailTypeOK, [MailNext]_<<vars, mailVars>>
  PROVE  MailTypeOK'
<1> USE RetriesAssumption DEF RetriesAssumption, MailTypeOK, Stages, Statuses, StepTo, Disturb
<1>1. ASSUME NEW r \in Requests,
             Arrive(r) \/ AskLock(r) \/ LockGranted(r) \/ Mark(r) \/ Release(r) \/ Respond(r)
      PROVE  MailTypeOK'
  BY <1>1 DEF Arrive, AskLock, LockGranted, Mark, Release, Respond, mailVars
<1>2. ASSUME NEW r \in Requests, LockRefused(r)
      PROVE  MailTypeOK'
  BY <1>2 DEF LockRefused
<1>3. ASSUME NEW r \in Requests, ReadRow(r) \/ DatabaseFails(r)
      PROVE  MailTypeOK'
  BY <1>3 DEF ReadRow, DatabaseFails
<1>3a. ASSUME NEW r \in Requests, SetProcessing(r) \/ Record(r)
      PROVE  MailTypeOK'
  BY <1>3a DEF SetProcessing, Record
<1>4. ASSUME NEW r \in Requests, Send(r) \/ AnswerLost(r)
      PROVE  MailTypeOK'
  <2>1. sends' \in 0..2
    BY <1>4 DEF Send, AnswerLost, AcceptMail
  <2>2. /\ stage' \in [Requests -> Stages]
        /\ disturbed' \subseteq {"early", "late", "unrecorded", "reported"}
    BY <1>4 DEF Send, AnswerLost
  <2> QED
    BY <1>4, <2>1, <2>2 DEF Send, AnswerLost
<1>5. ASSUME NEW r \in Requests, Fail(r)
      PROVE  MailTypeOK'
  <2>1. CASE found[r] < MaxRetries
    <3>1. found[r] + 1 \in 0..MaxRetries
      BY <2>1
    <3>2. mail' = [mail EXCEPT !.status = "pending", !.retries = found[r] + 1]
      BY <1>5, <2>1 DEF Fail
    <3>3. mail' \in [status : Statuses, retries : 0..MaxRetries, traced : BOOLEAN]
      BY <3>1, <3>2
    <3> QED
      BY <1>5, <2>1, <3>3 DEF Fail
  <2>2. CASE ~ (found[r] < MaxRetries)
    BY <1>5, <2>2 DEF Fail
  <2> QED
    BY <2>1, <2>2
<1>6. CASE EndTransaction \/ \E s \in {"delivered", "opened"} : Report(s)
  BY <1>6 DEF EndTransaction, Report
<1>7. CASE LockLapses \/ \E p \in Processes : ProcessDies(p)
  BY <1>7 DEF LockLapses, ProcessDies
<1>8. CASE UNCHANGED <<vars, mailVars>>
  BY <1>8 DEF mailVars
<1> QED
  BY <1>1, <1>2, <1>3, <1>3a, <1>4, <1>5, <1>6, <1>7, <1>8 DEF MailNext

\* Requests stay placed.
LEMMA PlacedStep ==
  ASSUME TypeOK, TokensInv, MailTypeOK, Placed,
         [MailNext]_<<vars, mailVars>>
  PROVE  Placed'
<1> USE ConstantsAssumption DEF ConstantsAssumption, TokensInv, Value, Placed,
          InHandler, TypeOK, MailTypeOK, Stages, StepTo, Disturb, Goto
<1>1. ASSUME NEW r \in Requests, Arrive(r) \/ Mark(r) \/ Respond(r)
      PROVE  Placed'
  <2>1. CASE Arrive(r)
    BY <2>1 DEF Arrive, vars
  <2>2. CASE Mark(r)
    BY <2>2 DEF Mark, vars
  <2>3. CASE Respond(r)
    BY <2>3 DEF Respond, vars
  <2> QED
    BY <1>1, <2>1, <2>2, <2>3
<1>2. ASSUME NEW r \in Requests, AskLock(r)
      PROVE  Placed'
  BY <1>2 DEF AskLock, Lock, mailVars
<1>3. ASSUME NEW r \in Requests, LockRefused(r)
      PROVE  Placed'
  BY <1>3 DEF LockRefused, SetRefused, SetLost
<1>4. ASSUME NEW r \in Requests, LockGranted(r)
      PROVE  Placed'
  BY <1>4 DEF LockGranted, SetStores, GrantArrives, mailVars
<1>5. ASSUME NEW r \in Requests, Release(r)
      PROVE  Placed'
  BY <1>5 DEF Release, Unlock, CompareAndDelete, Forget, mailVars
<1>6. ASSUME NEW r \in Requests,
             \/ ReadRow(r) \/ SetProcessing(r) \/ Send(r) \/ AnswerLost(r) \/ Record(r)
             \/ Fail(r) \/ DatabaseFails(r)
      PROVE  Placed'
  BY <1>6 DEF ReadRow, SetProcessing, Send, AnswerLost, Record, Fail, DatabaseFails, vars
<1>7. CASE EndTransaction \/ \E s \in {"delivered", "opened"} : Report(s)
  BY <1>7 DEF EndTransaction, Report, vars
<1>8. CASE LockLapses
  BY <1>8 DEF LockLapses, Expire
<1>9. ASSUME NEW p \in Processes, ProcessDies(p)
      PROVE  Placed'
  BY <1>9 DEF ProcessDies, Crash
<1>10. CASE UNCHANGED <<vars, mailVars>>
  BY <1>10 DEF vars, mailVars
<1> QED
  BY <1>1, <1>2, <1>3, <1>4, <1>5, <1>6, <1>7, <1>8, <1>9, <1>10 DEF MailNext

\* Unless a lock lapsed under its holder, requests that were granted the lock are one.
LEMMA Alone ==
  ASSUME TypeOK, TokensInv, Placed, "late" \notin disturbed,
         NEW r \in Requests, pc[r] \in {"granted", "working"},
         NEW q \in Requests, pc[q] \in {"granted", "working"}
  PROVE  q = r
BY DEF TokensInv, Placed

MailInv == MailTypeOK /\ Placed /\ SendInv /\ SettleInv

\* No step sends what has been sent, unless something went wrong.
LEMMA SendStep ==
  ASSUME TypeOK, TokensInv, MailInv, [MailNext]_<<vars, mailVars>>
  PROVE  SendInv'
<1> SUFFICES ASSUME disturbed' \cap {"late", "unrecorded", "reported"} = {}
             PROVE  /\ sends' <= 1
                    /\ sends' > 0 => \/ mail'.status = "delivered"
                                     \/ \E r \in Requests : stage'[r] = "sent"
                    /\ \A r \in Requests :
                         stage'[r] \in {"claiming", "sending", "failing"} => sends' = 0
  BY DEF SendInv
<1> disturbed \subseteq disturbed'
  BY DEF MailNext, Disturb, mailVars, Arrive, AskLock, LockRefused, LockGranted, Mark,
         Release,
     Respond, ReadRow, SetProcessing, Send, AnswerLost, Record, Fail, DatabaseFails,
     EndTransaction, Report,
     LockLapses, ProcessDies
<1> /\ disturbed \cap {"late", "unrecorded", "reported"} = {}
    /\ sends <= 1
    /\ sends > 0 => mail.status = "delivered" \/ \E r \in Requests : stage[r] = "sent"
    /\ \A r \in Requests : stage[r] \in {"claiming", "sending", "failing"} => sends = 0
  BY DEF MailInv, SendInv
<1> USE DEF MailInv, MailTypeOK, Stages, StepTo, Disturb
<1> DEFINE Goal == /\ sends' <= 1
                   /\ sends' > 0 => \/ mail'.status = "delivered"
                                    \/ \E r \in Requests : stage'[r] = "sent"
                   /\ \A r \in Requests :
                        stage'[r] \in {"claiming", "sending", "failing"} => sends' = 0
<1>1. ASSUME NEW r \in Requests, Arrive(r) \/ Mark(r) \/ Respond(r) \/ LockRefused(r)
      PROVE  Goal
  <2>1. UNCHANGED <<mail, sends>>
    BY <1>1 DEF Arrive, Mark, Respond, LockRefused
  <2>2. stage[r] \in {"away", "checked", "served", "marked", "refused"}
    BY <1>1 DEF Arrive, Mark, Respond, LockRefused, SetRefused, SetLost, Placed, InHandler
  <2>3. \E s \in {"away", "checked", "marked", "refused"} : stage' = [stage EXCEPT ![r] = s]
    <3>1. CASE Arrive(r)
      BY <3>1 DEF Arrive
    <3>2. CASE Mark(r) \/ Respond(r)
      BY <3>2 DEF Mark, Respond
    <3>3. CASE LockRefused(r)
      BY <3>3 DEF LockRefused, SetRefused, SetLost, Placed, InHandler
    <3> QED
      BY <1>1, <3>1, <3>2, <3>3
  <2> QED
    BY <2>1, <2>2, <2>3
<1>2. ASSUME NEW r \in Requests, AskLock(r) \/ LockGranted(r) \/ Release(r)
      PROVE  Goal
  BY <1>2 DEF AskLock, LockGranted, Release, mailVars
<1>3. ASSUME NEW r \in Requests, ReadRow(r)
      PROVE  Goal
  <2>1. \A q \in Requests : stage[q] = "sent" => q = r
    BY <1>3, Alone DEF ReadRow, Placed, InHandler
  <2>2. \A q \in Requests : stage[q] # "sent"
    BY <1>3, <2>1 DEF ReadRow
  <2> QED
    BY <1>3, <2>2 DEF ReadRow
<1>4. ASSUME NEW r \in Requests, SetProcessing(r)
      PROVE  Goal
  BY <1>4 DEF SetProcessing
<1>5. ASSUME NEW r \in Requests, Send(r) \/ AnswerLost(r)
      PROVE  Goal
  <2>1. \A q \in Requests : stage[q] \in {"claiming", "sending", "failing"} => q = r
    BY <1>5, Alone DEF Send, AnswerLost, Disturb, Placed, InHandler
  <2>2. CASE sends' = sends
    BY <1>5, <2>2 DEF Send, AnswerLost, AcceptMail
  <2>3. CASE sends' # sends
    <3>1. sends = 0 /\ sends' = 1 /\ stage' = [stage EXCEPT ![r] = "sent"]
      BY <1>5, <2>3 DEF Send, AnswerLost, AcceptMail
    <3> QED
      BY <2>1, <3>1
  <2> QED
    BY <2>2, <2>3
<1>6. ASSUME NEW r \in Requests, Record(r)
      PROVE  Goal
  <2>1. \A q \in Requests : stage[q] \in InHandler => q = r
    BY <1>6, Alone DEF Record, Placed, InHandler
  <2> QED
    BY <1>6, <2>1 DEF Record, InHandler
<1>7. ASSUME NEW r \in Requests, Fail(r)
      PROVE  Goal
  BY <1>7 DEF Fail
<1>8. ASSUME NEW r \in Requests, DatabaseFails(r)
      PROVE  Goal
  BY <1>8 DEF DatabaseFails
<1>9. CASE EndTransaction \/ \E s \in {"delivered", "opened"} : Report(s)
  BY <1>9 DEF EndTransaction, Report
<1>10. CASE LockLapses
  BY <1>10 DEF LockLapses
<1>11. ASSUME NEW p \in Processes, ProcessDies(p)
      PROVE  Goal
  BY <1>11 DEF ProcessDies
<1>12. CASE UNCHANGED <<vars, mailVars>>
  BY <1>12 DEF mailVars
<1> QED
  BY <1>1, <1>2, <1>3, <1>4, <1>5, <1>6, <1>7, <1>8, <1>9, <1>10, <1>11, <1>12 DEF MailNext

\* No step lets a request, the marker or QStash believe in a success that is none.
LEMMA SettleStep ==
  ASSUME TypeOK, TokensInv, MailInv, [MailNext]_<<vars, mailVars>>
  PROVE  SettleInv'
<1> SUFFICES ASSUME disturbed' \cap {"early", "late"} = {}
             PROVE  /\ \/ answered' \/ marker'
                       \/ \E r \in Requests : stage'[r] \in {"served", "marked"}
                       => Settled'
                    /\ mail'.status = "delivered" \/ mail'.traced => sends' > 0
                    /\ \A r \in Requests :
                         /\ stage'[r] = "sent" => sends' > 0
                         /\ stage'[r] \in InHandler \ {"served"} => found'[r] = mail'.retries
  BY DEF SettleInv, InHandler
<1> disturbed \subseteq disturbed'
  BY DEF MailNext, Disturb, mailVars, Arrive, AskLock, LockRefused, LockGranted, Mark,
         Release,
     Respond, ReadRow, SetProcessing, Send, AnswerLost, Record, Fail, DatabaseFails,
     EndTransaction, Report,
     LockLapses, ProcessDies
<1> /\ disturbed \cap {"early", "late"} = {}
    /\ answered \/ marker \/ (\E r \in Requests : stage[r] \in {"served", "marked"}) => Settled
    /\ mail.status = "delivered" \/ mail.traced => sends > 0
    /\ \A r \in Requests :
         /\ stage[r] = "sent" => sends > 0
         /\ stage[r] \in InHandler \ {"served"} => found[r] = mail.retries
  BY DEF MailInv, SettleInv
<1> USE RetriesAssumption
    DEF RetriesAssumption, MailInv, MailTypeOK, Stages, StepTo, Disturb, Settled, InHandler
<1> DEFINE Goal == /\ \/ answered' \/ marker'
                      \/ \E r \in Requests : stage'[r] \in {"served", "marked"}
                      => Settled'
                   /\ mail'.status = "delivered" \/ mail'.traced => sends' > 0
                   /\ \A r \in Requests :
                        /\ stage'[r] = "sent" => sends' > 0
                        /\ stage'[r] \in InHandler \ {"served"} => found'[r] = mail'.retries
<1>1. ASSUME NEW r \in Requests, Arrive(r)
      PROVE  Goal
  BY <1>1 DEF Arrive
<1>2. ASSUME NEW r \in Requests, Mark(r)
      PROVE  Goal
  BY <1>2 DEF Mark
<1>3. ASSUME NEW r \in Requests, Respond(r)
      PROVE  Goal
  BY <1>3 DEF Respond
<1>4. ASSUME NEW r \in Requests, LockRefused(r)
      PROVE  Goal
  BY <1>4 DEF LockRefused
<1>5. ASSUME NEW r \in Requests, AskLock(r) \/ LockGranted(r) \/ Release(r)
      PROVE  Goal
  BY <1>5 DEF AskLock, LockGranted, Release, mailVars
<1>6. ASSUME NEW r \in Requests, ReadRow(r)
      PROVE  Goal
  BY <1>6 DEF ReadRow
<1>7. ASSUME NEW r \in Requests, SetProcessing(r)
      PROVE  Goal
  BY <1>7 DEF SetProcessing
<1>8. ASSUME NEW r \in Requests, Send(r) \/ AnswerLost(r)
      PROVE  Goal
  BY <1>8 DEF Send, AnswerLost, AcceptMail
<1>9. ASSUME NEW r \in Requests, Record(r)
      PROVE  Goal
  BY <1>9 DEF Record
<1>10. ASSUME NEW r \in Requests, Fail(r)
       PROVE  Goal
  <2>1. \A q \in Requests : stage[q] \in InHandler => q = r
    BY <1>10, Alone DEF Fail, Placed
  <2>2. found[r] = mail.retries
    BY <1>10 DEF Fail
  <2>3. CASE found[r] < MaxRetries
    <3>1. mail' = [mail EXCEPT !.status = "pending", !.retries = mail.retries + 1]
      BY <1>10, <2>2, <2>3 DEF Fail
    <3>2. mail'.status = "pending" /\ mail'.retries = mail.retries + 1 /\ mail'.traced = mail.traced
      BY <3>1
    <3>3. stage' = [stage EXCEPT ![r] = "refused"]
      BY <1>10, <2>3 DEF Fail
    <3>4. answered' = answered /\ marker' = marker /\ found' = found /\ sends' = sends
      BY <1>10 DEF Fail
    <3>5. mail.retries # MaxRetries
      BY <2>2, <2>3
    <3> QED
      BY <2>1, <3>2, <3>3, <3>4, <3>5
  <2>4. CASE ~ (found[r] < MaxRetries)
    <3>1. mail.retries = MaxRetries
      BY <2>2, <2>4
    <3>2. mail'.status = "failed" /\ mail'.retries = mail.retries /\ mail'.traced = mail.traced
      BY <1>10, <2>4 DEF Fail
    <3> QED
      BY <1>10, <2>1, <2>4, <3>1, <3>2 DEF Fail
  <2> QED
    BY <2>3, <2>4
<1>11. ASSUME NEW r \in Requests, DatabaseFails(r)
       PROVE  Goal
  BY <1>11 DEF DatabaseFails
<1>12. CASE EndTransaction \/ \E s \in {"delivered", "opened"} : Report(s)
  BY <1>12 DEF EndTransaction, Report
<1>13. CASE LockLapses
  BY <1>13 DEF LockLapses
<1>14. ASSUME NEW p \in Processes, ProcessDies(p)
       PROVE  Goal
  BY <1>14 DEF ProcessDies
<1>15. CASE UNCHANGED <<vars, mailVars>>
  BY <1>15 DEF mailVars
<1> QED
  BY <1>1, <1>2, <1>3, <1>4, <1>5, <1>6, <1>7, <1>8, <1>9, <1>10, <1>11, <1>12, <1>13,
     <1>14,
     <1>15 DEF MailNext

\* The row starts within its types.
LEMMA MailInitTypes ==
  ASSUME MailInit
  PROVE  MailTypeOK /\ mail.status \in {"pending", "uncommitted"} /\ mail.retries = 0
         /\ mail.traced = FALSE
<1>1. mail \in [status : {"pending", "uncommitted"}, retries : {0}, traced : {FALSE}]
  BY DEF MailInit
<1>2. 0 \in 0..MaxRetries
  BY RetriesAssumption DEF RetriesAssumption
<1>3. mail \in [status : Statuses, retries : 0..MaxRetries, traced : BOOLEAN]
  BY <1>1, <1>2 DEF Statuses
<1>4. /\ marker = FALSE /\ answered = FALSE /\ sends = 0 /\ disturbed = {}
      /\ stage = [r \in Requests |-> "away"] /\ found = [r \in Requests |-> 0]
  BY DEF MailInit
<1>5. marker \in BOOLEAN /\ answered \in BOOLEAN
  BY <1>4
<1>6. stage \in [Requests -> Stages] /\ found \in [Requests -> 0..MaxRetries]
  BY <1>2, <1>4 DEF Stages
<1>7. sends \in 0..2 /\ disturbed \subseteq {"early", "late", "unrecorded", "reported"}
  BY <1>4
<1> QED
  BY <1>1, <1>3, <1>5, <1>6, <1>7 DEF MailTypeOK

\* The invariant of the deliveries, in whatever processes they run.
LEMMA MailInvariant ==
  MailSpec => [](TypeOK /\ TokensInv /\ MailInv)
<1>1. MailInit => TypeOK /\ TokensInv /\ MailInv
  <2> SUFFICES ASSUME MailInit
               PROVE  TypeOK /\ TokensInv /\ MailInv
    OBVIOUS
  <2>1. TypeOK /\ TokensInv
    <3>1. Init
      BY DEF MailInit
    <3> QED
      BY <3>1, ConstantsAssumption DEF ConstantsAssumption, Init, TypeOK, Value, TokensInv
  <2>2. /\ mail.status \in {"pending", "uncommitted"} /\ mail.retries = 0 /\ mail.traced = FALSE
        /\ MailTypeOK
    BY MailInitTypes
  <2>4. Placed
    BY DEF Placed, InHandler, MailInit, Init
  <2>5. SendInv /\ SettleInv
    BY <2>2 DEF SendInv, SettleInv, InHandler, MailInit
  <2> QED
    BY <2>1, <2>2, <2>4, <2>5 DEF MailInv
<1>2. TypeOK /\ TokensInv /\ MailInv /\ [MailNext]_<<vars, mailVars>>
        => (TypeOK /\ TokensInv /\ MailInv)'
  BY MailStepsLock, LockTypes, TokensStep, MailTypes, PlacedStep, SendStep, SettleStep
   DEF MailInv
<1> QED
  BY <1>1, <1>2, PTL DEF MailSpec

\* Wherever the deliveries run and whatever locks they share, the outbox row, the marker
\* and the requests keep their types: a row never has more retries than it may.
THEOREM MailTypeCorrect == MailSpec => []MailTypeOK
<1>1. MailInit => MailTypeOK
  BY MailInitTypes
<1>2. MailTypeOK /\ [MailNext]_<<vars, mailVars>> => MailTypeOK'
  BY MailTypes
<1> QED
  BY <1>1, <1>2, PTL DEF MailSpec

\* The deliveries of a message, one per process, release only locks of their own.
THEOREM MailReleasesOwn ==
  ASSUME OneRequestPerProcess
  PROVE  MailSpec => ReleasesOwnLock
<1>1. MailInit => Init
  BY DEF MailInit
<1>2. [MailNext]_<<vars, mailVars>> => [Next]_vars
  BY MailStepsLock
<1>3. Spec => ReleasesOwnLock
  BY ReleasesOwn
<1> QED
  BY <1>1, <1>2, <1>3, PTL DEF MailSpec, Spec

\* However many deliveries of a message there are, and in whatever processes, only a lock
\* that lapses under its holder, a lost record or a report makes the code send a mail twice.
THEOREM MailSentOnce == MailSpec => []SentOnce
<1>1. MailInv => SentOnce
  BY DEF MailInv, SendInv, SentOnce
<1> QED
  BY <1>1, MailInvariant, PTL

\* Nor is a message answered with success for a mail that was neither sent nor given up,
\* unless it came too early or a lock lapsed under its holder.
THEOREM MailAnsweredIsSettled == MailSpec => []AnsweredIsSettled
<1>1. MailInv => AnsweredIsSettled
  BY DEF MailInv, SettleInv, AnsweredIsSettled
<1> QED
  BY <1>1, MailInvariant, PTL
=============================================================================
