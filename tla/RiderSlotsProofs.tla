--------------------------- MODULE RiderSlotsProofs ---------------------------
(* The board's promise follows from its one guarded step. *)
EXTENDS RiderSlots, FiniteSetTheorems, TLAPS

(* What a rider holds is a finite set of jobs. *)
LEMMA HeldIsFinite ==
  ASSUME BoardAssumption, NEW r
  PROVE  IsFiniteSet(HeldBy(r)) /\ Cardinality(HeldBy(r)) \in Nat
<1>1. HeldBy(r) \subseteq Jobs
  BY DEF HeldBy
<1> QED
  BY <1>1, FS_Subset, FS_CardinalityType DEF BoardAssumption

(* Taking one job adds one to what that rider holds, and nothing to the others. *)
LEMMA TakeKeepsSlots ==
  ASSUME BoardAssumption, TypeOK, WithinSlots, NEW r \in Riders, NEW j \in Jobs, Take(r, j)
  PROVE  WithinSlots'
<1>1. ASSUME NEW s \in Riders PROVE Cardinality(HeldBy(s)') <= Slots
  <2>1. CASE s = r
    <3>1. HeldBy(r)' = HeldBy(r) \union {j}
      BY DEF TypeOK, HeldBy, Take
    <3>2. j \notin HeldBy(r)
      BY DEF BoardAssumption, HeldBy, Take
    <3>3. Cardinality(HeldBy(r)') = Cardinality(HeldBy(r)) + 1
      BY <3>1, <3>2, HeldIsFinite, FS_AddElement
    <3> QED
      BY <2>1, <3>3, HeldIsFinite DEF BoardAssumption, Take
  <2>2. CASE s # r
    <3>1. HeldBy(s)' = HeldBy(s)
      BY <2>2 DEF BoardAssumption, TypeOK, HeldBy, Take
    <3> QED
      BY <3>1 DEF WithinSlots
  <2> QED
    BY <2>1, <2>2
<1> QED
  BY <1>1 DEF WithinSlots

(* Dropping jobs only takes some away. *)
LEMMA DropKeepsSlots ==
  ASSUME BoardAssumption, WithinSlots, NEW S, Drop(S)
  PROVE  WithinSlots'
<1>1. ASSUME NEW s \in Riders PROVE Cardinality(HeldBy(s)') <= Slots
  <2>1. HeldBy(s)' \subseteq HeldBy(s)
    BY DEF BoardAssumption, HeldBy, Drop
  <2>2. /\ Cardinality(HeldBy(s)') <= Cardinality(HeldBy(s))
        /\ Cardinality(HeldBy(s)') \in Nat
    BY <2>1, HeldIsFinite, FS_Subset, FS_CardinalityType
  <2> QED
    BY <2>2, HeldIsFinite DEF BoardAssumption, WithinSlots
<1> QED
  BY <1>1 DEF WithinSlots

(* However many riders take and drop jobs, none holds more than the slots. *)
THEOREM BoardKeepsSlots ==
  ASSUME BoardAssumption
  PROVE  Spec => [](TypeOK /\ WithinSlots)
<1>1. Init => TypeOK /\ WithinSlots
  <2> SUFFICES ASSUME Init PROVE TypeOK /\ WithinSlots
    OBVIOUS
  <2>1. ASSUME NEW r \in Riders PROVE Cardinality(HeldBy(r)) <= Slots
    <3>1. HeldBy(r) = {}
      BY DEF BoardAssumption, Init, HeldBy
    <3> QED
      BY <3>1, FS_EmptySet DEF BoardAssumption
  <2> QED
    BY <2>1 DEF Init, TypeOK, WithinSlots
<1>2. TypeOK /\ WithinSlots /\ [Next]_holder => TypeOK' /\ WithinSlots'
  <2> SUFFICES ASSUME TypeOK, WithinSlots, [Next]_holder
               PROVE  TypeOK' /\ WithinSlots'
    OBVIOUS
  <2>1. TypeOK'
    BY DEF TypeOK, Next, Take, Drop
  <2>2. CASE \E r \in Riders, j \in Jobs : Take(r, j)
    BY <2>1, <2>2, TakeKeepsSlots
  <2>3. CASE \E S \in SUBSET Jobs : Drop(S)
    BY <2>1, <2>3, DropKeepsSlots
  <2>4. CASE UNCHANGED holder
    BY <2>1, <2>4 DEF WithinSlots, HeldBy
  <2> QED
    BY <2>2, <2>3, <2>4 DEF Next
<1> QED
  BY <1>1, <1>2, PTL DEF Spec
=============================================================================
