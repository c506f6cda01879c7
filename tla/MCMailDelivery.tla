---------------------------- MODULE MCMailDelivery ----------------------------
(***************************************************************************)
(* An instance of MailDelivery: two deliveries at once, in two processes,  *)
(* and as many one after the other as there are tokens.                    *)
(***************************************************************************)
EXTENDS MailDelivery, TLC, FiniteSets

CONSTANTS A, B, P, Q

OwnProcess == A :> P @@ B :> Q

TokenSymmetry == Permutations(Tokens)

\* What a request has drawn, tried, read or found is of no account once it is past it.
Live ==
  LET keep(f, S, g, none) == [r \in Requests |-> IF f[r] \in S THEN g[r] ELSE none]
      held == keep(pc, {"asking", "granted", "working", "unlocking", "unlocked"}, token, NoToken)
  IN  <<stored, remembered, pc, held, keep(pc, {"asking", "granted"}, attempt, 1),
        keep(pc, {"unlocking", "unlocked"}, releasing, NoToken), drawn,
        {r \in Requests : held[r] \in lapsed}, mail, marker, stage,
        keep(stage, {"claiming", "sending", "sent", "failing"}, found, 0),
        answered, sends, disturbed>>
=============================================================================
