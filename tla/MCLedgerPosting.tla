---------------------------- MODULE MCLedgerPosting ----------------------------
(***************************************************************************)
(* Instances of LedgerPosting: three calls with one key, or each with its  *)
(* own.                                                                    *)
(***************************************************************************)
EXTENDS LedgerPosting

CONSTANTS A, B, C

OneKey == [c \in Calls |-> "withdrawal"]
OwnKeys == [c \in Calls |-> c]

\* Two calls run at a time; and they start in the order of the alphabet, since they are
\* alike.
TwoAtATime ==
  /\ Cardinality({c \in Calls : pc[c] \notin {"idle"} \cup Ended}) <= 2
  /\ pc[B] # "idle" => pc[A] # "idle"
  /\ pc[C] # "idle" => pc[B] # "idle"
=============================================================================
