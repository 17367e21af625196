------------------------------ MODULE RiderSlots ------------------------------
(* What a rider's dashboard and the dispatcher promise together, without how:
   a job is held by one rider or by nobody, it changes hands only through the
   pool, and no rider holds more jobs than there are slots. *)
EXTENDS Naturals, FiniteSets

CONSTANTS Riders, Jobs,
          Slots,    \* MAX_ACTIVE_JOBS
          Nobody    \* a job no rider holds

(* What the theorems about the board ask of its constants. *)
BoardAssumption == /\ Slots \in Nat
                   /\ Nobody \notin Riders
                   /\ IsFiniteSet(Jobs)

VARIABLE holder

HeldBy(r) == {j \in Jobs : holder[j] = r}

Init == holder = [j \in Jobs |-> Nobody]

(* A rider takes a job out of the pool. *)
Take(r, j) ==
  /\ holder[j] = Nobody
  /\ Cardinality(HeldBy(r)) < Slots
  /\ holder' = [holder EXCEPT ![j] = r]

(* Jobs end, or go back to the pool; one event may end several. *)
Drop(S) == holder' = [j \in Jobs |-> IF j \in S THEN Nobody ELSE holder[j]]

Next == \/ \E r \in Riders, j \in Jobs : Take(r, j)
        \/ \E S \in SUBSET Jobs : Drop(S)

Spec == Init /\ [][Next]_holder

TypeOK == holder \in [Jobs -> Riders \union {Nobody}]

(* At most two active jobs per rider, however many claims and assignments are
   under way. *)
WithinSlots == \A r \in Riders : Cardinality(HeldBy(r)) <= Slots
=============================================================================
