-------------------------------- MODULE MCHub --------------------------------
(* An instance of HubStock small enough for TLC. *)
EXTENDS HubStock

CONSTANTS l1, l2, l3

Wants == [l \in Lines |-> IF l = l1 THEN 2 ELSE 1]
=============================================================================
