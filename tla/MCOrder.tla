------------------------------- MODULE MCOrder -------------------------------
(* Instances of OrderLifecycle small enough for TLC. *)
EXTENDS OrderClaims, TLC

CONSTANTS i1, i2, c1, c2

TwoPrices   == (i1 :> 2) @@ (i2 :> 1)

(* Requests differ only in what they read and decided. *)
CallerSymmetry == Permutations({c1, c2})
=============================================================================
