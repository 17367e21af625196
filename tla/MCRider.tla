------------------------------- MODULE MCRider -------------------------------
(* Instances of RiderJobs small enough for TLC. *)
EXTENDS RiderProperties, TLC

CONSTANTS r1, r2, j1, j2, j3, d1, d2, p1

TwoThenOne == [j \in Jobs |-> IF j = j1 THEN 2 ELSE 1]
OneEach   == [j \in Jobs |-> 1]
AllCash   == [j \in Jobs |-> "cash"]
TwoCash   == [j \in Jobs |-> IF j = j3 THEN "unpaid" ELSE "cash"]
CashFirst == [j \in Jobs |-> IF j = j1 THEN "cash" ELSE "unpaid"]

RiderSymmetry == Permutations(Riders) \union Permutations(Jobs \ {j3})
=============================================================================
