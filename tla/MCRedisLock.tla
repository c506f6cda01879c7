----------------------------- MODULE MCRedisLock -----------------------------
(***************************************************************************)
(* An instance of RedisLock: three requests on one key, two of them in the *)
(* same process.                                                           *)
(***************************************************************************)
EXTENDS RedisLock, TLC

CONSTANTS A, B, C, P, Q, R

SharedProcess == A :> P @@ B :> P @@ C :> Q

TokenSymmetry == Permutations(Tokens)
=============================================================================
