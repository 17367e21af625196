-------------------------------- MODULE MCPayouts --------------------------------
(* Instances of Payouts small enough for TLC. *)
EXTENDS PayoutProperties, TLC

CONSTANTS o1, o2, o3, o4, c1, f1, f2

Kinds4 == o1 :> "rider" @@ o2 :> "kitchen" @@ o3 :> "online" @@ o4 :> "elsewhere"
KindOf == [o \in Orders |-> Kinds4[o]]
TotalOf == [o \in Orders |-> IF o = o1 THEN 3 ELSE 2]
ShareOf == [o \in Orders |-> IF o = o1 THEN 4 ELSE 1]
=============================================================================
