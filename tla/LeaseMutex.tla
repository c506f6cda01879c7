------------------------------ MODULE LeaseMutex ------------------------------
(***************************************************************************)
(* What a lock with a time to live promises its clients: until its lease   *)
(* lapses, or it stops by itself, a client works alone among those whose   *)
(* lease has not lapsed.                                                   *)
(***************************************************************************)
CONSTANT Clients

VARIABLE lease   \* "none": not at work; "held", "lapsed": at work, in or out of time

Init == lease = [c \in Clients |-> "none"]

Held == {c \in Clients : lease[c] = "held"}

\* The lock's answer reaches a client, perhaps after the lease has lapsed already.
Start(c) ==
  /\ lease[c] = "none"
  /\ \/ Held = {} /\ lease' = [lease EXCEPT ![c] = "held"]
     \/ lease' = [lease EXCEPT ![c] = "lapsed"]

Lapse(c) ==
  /\ lease[c] = "held"
  /\ lease' = [lease EXCEPT ![c] = "lapsed"]

\* Clients stop: one that is done, or all those of a process that dies.
Stop(S) == lease' = [c \in Clients |-> IF c \in S THEN "none" ELSE lease[c]]

Next ==
  \/ \E c \in Clients : Start(c) \/ Lapse(c)
  \/ \E S \in SUBSET Clients : Stop(S)

Spec == Init /\ [][Next]_lease
=============================================================================
