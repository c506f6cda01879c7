------------------------------ MODULE RedisLock ------------------------------
(***************************************************************************)
(* cacheService.lock and unlock on one key: a Redis key set with NX and a  *)
(* time to live, whose value is a random token, and in each process a map  *)
(* that remembers the token under the key's name.  A request is one caller *)
(* of lock and unlock; requests of one process run interleaved and share   *)
(* the map.                                                                *)
(***************************************************************************)
EXTENDS Naturals

CONSTANTS
  Requests,
  Processes,
  ProcessOf,    \* Requests -> Processes
  Tokens,       \* the random UUIDs, never drawn twice
  NoToken,
  MaxAttempts   \* how often execute() tries a Redis command

ASSUME ConstantsAssumption ==
  /\ ProcessOf \in [Requests -> Processes]
  /\ NoToken \notin Tokens
  /\ MaxAttempts \in Nat \ {0}

VARIABLES
  stored,      \* the value of the Redis key, or NoToken
  remembered,  \* the token under the key in each process's lockTokens
  pc,          \* where each request is in lock ... unlock
  token,       \* the token of its last call of lock
  attempt,     \* the attempts of the Redis command it is waiting for
  releasing,   \* the token its unlock has read from the map
  drawn,       \* tokens drawn so far
  lapsed       \* tokens whose key has expired

vars == <<stored, remembered, pc, token, attempt, releasing, drawn, lapsed>>

Value == Tokens \cup {NoToken}

TypeOK ==
  /\ stored \in Value
  /\ remembered \in [Processes -> Value]
  /\ pc \in [Requests -> {"idle", "asking", "granted", "working", "unlocking", "unlocked"}]
  /\ token \in [Requests -> Value]
  /\ attempt \in [Requests -> 1..MaxAttempts]
  /\ releasing \in [Requests -> Value]
  /\ drawn \subseteq Tokens
  /\ lapsed \subseteq Tokens

Init ==
  /\ stored = NoToken
  /\ remembered = [p \in Processes |-> NoToken]
  /\ pc = [r \in Requests |-> "idle"]
  /\ token = [r \in Requests |-> NoToken]
  /\ attempt = [r \in Requests |-> 1]
  /\ releasing = [r \in Requests |-> NoToken]
  /\ drawn = {}
  /\ lapsed = {}

Goto(r, label) == pc' = [pc EXCEPT ![r] = label]

-----------------------------------------------------------------------------
\* lock: SET key token NX EX ttl.

Lock(r) ==
  /\ pc[r] = "idle"
  /\ \E t \in Tokens \ drawn :
       /\ token' = [token EXCEPT ![r] = t]
       /\ drawn' = drawn \cup {t}
  /\ Goto(r, "asking")
  /\ attempt' = [attempt EXCEPT ![r] = 1]
  /\ UNCHANGED <<stored, remembered, releasing, lapsed>>

\* Redis stores the token when the key is free ...
SetStores(r) ==
  /\ pc[r] = "asking"
  /\ stored = NoToken
  /\ stored' = token[r]
  /\ Goto(r, "granted")
  /\ UNCHANGED <<remembered, token, attempt, releasing, drawn, lapsed>>

\* ... and refuses otherwise: lock returns false.
SetRefused(r) ==
  /\ pc[r] = "asking"
  /\ stored # NoToken
  /\ Goto(r, "idle")
  /\ UNCHANGED <<stored, remembered, token, attempt, releasing, drawn, lapsed>>

\* The answer arrives: lock remembers the token and returns true.
GrantArrives(r) ==
  /\ pc[r] = "granted"
  /\ remembered' = [remembered EXCEPT ![ProcessOf[r]] = token[r]]
  /\ Goto(r, "working")
  /\ UNCHANGED <<stored, token, attempt, releasing, drawn, lapsed>>

\* Mutant: one attempt too many.
SetLostOnceMore(r) ==
  /\ pc[r] \in {"asking", "granted"}
  /\ IF attempt[r] <= MaxAttempts
     THEN Goto(r, "asking") /\ attempt' = [attempt EXCEPT ![r] = @ + 1]
     ELSE Goto(r, "idle") /\ UNCHANGED attempt
  /\ UNCHANGED <<stored, remembered, token, releasing, drawn, lapsed>>

\* The command or its answer is lost or times out: execute tries again, with the
\* same token, and in the end lock returns false.
SetLost(r) ==
  /\ pc[r] \in {"asking", "granted"}
  /\ IF attempt[r] < MaxAttempts
     THEN Goto(r, "asking") /\ attempt' = [attempt EXCEPT ![r] = @ + 1]
     ELSE Goto(r, "idle") /\ UNCHANGED attempt
  /\ UNCHANGED <<stored, remembered, token, releasing, drawn, lapsed>>

-----------------------------------------------------------------------------
\* unlock: compare and delete, with the token the process's map holds by then.

Unlock(r) ==
  /\ pc[r] = "working"
  /\ releasing' = [releasing EXCEPT ![r] = remembered[ProcessOf[r]]]
  /\ Goto(r, IF remembered[ProcessOf[r]] = NoToken THEN "idle" ELSE "unlocking")
  /\ UNCHANGED <<stored, remembered, token, attempt, drawn, lapsed>>

\* Mutant: the key is deleted without comparing.
DeleteAnyway(r) ==
  /\ pc[r] = "unlocking"
  /\ stored' = NoToken
  /\ Goto(r, "unlocked")
  /\ UNCHANGED <<remembered, token, attempt, releasing, drawn, lapsed>>

CompareAndDelete(r) ==
  /\ pc[r] = "unlocking"
  /\ stored' = IF stored = releasing[r] THEN NoToken ELSE stored
  /\ Goto(r, "unlocked")
  /\ UNCHANGED <<remembered, token, attempt, releasing, drawn, lapsed>>

\* The script was executed, or given up on: the map entry goes in either case.
Forget(r) ==
  /\ pc[r] \in {"unlocking", "unlocked"}
  /\ remembered' = [remembered EXCEPT ![ProcessOf[r]] = NoToken]
  /\ Goto(r, "idle")
  /\ UNCHANGED <<stored, token, attempt, releasing, drawn, lapsed>>

-----------------------------------------------------------------------------
\* The key's time to live runs out.
Expire ==
  /\ stored # NoToken
  /\ stored' = NoToken
  /\ lapsed' = lapsed \cup {stored}
  /\ UNCHANGED <<remembered, pc, token, attempt, releasing, drawn>>

\* A process dies with its requests and its map; the key stays in Redis.
Crash(p) ==
  /\ remembered' = [remembered EXCEPT ![p] = NoToken]
  /\ pc' = [r \in Requests |-> IF ProcessOf[r] = p THEN "idle" ELSE pc[r]]
  /\ UNCHANGED <<stored, token, attempt, releasing, drawn, lapsed>>

Next ==
  \/ \E r \in Requests :
       \/ Lock(r)
       \/ SetStores(r)
       \/ SetRefused(r)
       \/ GrantArrives(r)
       \/ SetLost(r)
       \/ Unlock(r)
       \/ CompareAndDelete(r)
       \/ Forget(r)
  \/ Expire
  \/ \E p \in Processes : Crash(p)

Spec == Init /\ [][Next]_vars

-----------------------------------------------------------------------------
\* Properties.

\* No two requests of one process use the key at a time.
OneRequestPerProcess ==
  \A r, q \in Requests : ProcessOf[r] = ProcessOf[q] => r = q

\* The leases as the promise of a lock sees them.
leases ==
  [r \in Requests |-> IF pc[r] # "working" THEN "none"
                      ELSE IF token[r] \in lapsed THEN "lapsed"
                      ELSE "held"]

Lease == INSTANCE LeaseMutex WITH Clients <- Requests, lease <- leases

\* The lock keeps the promise of LeaseMutex: retried commands, lost answers, crashes
\* and slow holders never let two requests work at a time while both leases run.
LeaseKept == Lease!Spec

\* "We only ever release a lock we still own" (lib/cache.ts): the key that unlock
\* deletes carries the token of the caller's own lock.
ReleasesOwnLock ==
  [][\A r \in Requests : CompareAndDelete(r) /\ stored' # stored => stored = token[r]]_vars
=============================================================================
