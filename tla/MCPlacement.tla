----------------------------- MODULE MCPlacement -----------------------------
(* Instances of Placement small enough for TLC. *)
EXTENDS PlacementProperties, TLC

CONSTANTS u1, u2, t1, t2, t3, d1, d2, o1, o2, o3, q1, q2

BothDishes == [u \in Customers |-> IF u = u1 THEN {d1, d2} ELSE {d1}]
Button(code, deliveryKnown) == [code |-> code, deliveryKnown |-> deliveryKnown]
WholeOrPart == [t \in Tabs |-> IF t = t2 THEN {Button(TRUE, TRUE), Button(FALSE, FALSE)}
                               ELSE {Button(TRUE, TRUE)}]
Prices == [u \in Customers |-> 3]
Limits == [p \in Promotions |-> 2]
Portions == [d \in Dishes |-> IF d = d1 THEN 1 ELSE 2]
Balances == [u \in Customers |-> 5]
Owners == [t \in Tabs |-> IF t = t3 THEN u2 ELSE u1]
TwoThenOne == [t \in Tabs |-> IF t = t1 THEN 2 ELSE 1]

Sym == Permutations(Orders) \union Permutations(Requests)
=============================================================================
