------------------------------- MODULE HubProofs -------------------------------
(* The units of a hub, proved for any order lines, batches, deliveries and dates:
   none is lost or sold twice, what is off sale stays there, and batches go out in
   the order of their dates. *)
EXTENDS HubStock, Sums

(* A batch, and the part of it that orders hold. *)
Stocked ==
  /\ batch \in [Batches -> [status : Statuses, quantity : Nat, expiry : Nat]]
  /\ received \in [Batches -> Nat]
  /\ now \in Nat
  /\ intakes \in Nat
  /\ off \subseteq Batches

(* Only a placed line holds units; one that allocates knows the dates it read. *)
Held ==
  /\ line \in [Lines -> {"new", "reading", "placed", "refused", "cancelled"}]
  /\ taken \in [Lines -> [Batches -> Nat]]
  /\ \A l \in Lines : line[l] # "placed" => taken[l] = Nothing
  /\ read \in [Lines -> UNION {[B -> Nat] : B \in SUBSET Batches}]

(* What is off sale has units: an emptied batch is reserved too, and goes back on
   sale with the first units that return to it. *)
OffHasUnits ==
  \A b \in off : batch[b].status \in {"damaged", "reserved"} /\ batch[b].quantity > 0

(* A number not given out yet has no units anywhere. *)
Unopened ==
  \A b \in Batches : batch[b].status = "none" =>
    batch[b].quantity = 0 /\ \A l \in Lines : taken[l][b] = 0

HubInvariant == Stocked /\ Held /\ OffHasUnits /\ Unopened /\ UnitsAreKept

-----------------------------------------------------------------------------
LEMMA FiniteHub == IsFiniteSet(Lines) /\ IsFiniteSet(Batches)
BY LineAssumption, BatchAssumption, FS_Interval DEF Batches

LEMMA MinIs ==
  ASSUME NEW m \in Nat, NEW n \in Nat
  PROVE  /\ Min({m, n}) \in Nat /\ Min({m, n}) =< m /\ Min({m, n}) =< n
         /\ m =< n => Min({m, n}) = m
         /\ n =< m => Min({m, n}) = n
<1>1. \E x \in {m, n} : \A y \in {m, n} : x =< y
  OBVIOUS
<1>2. Min({m, n}) \in {m, n} /\ \A y \in {m, n} : Min({m, n}) =< y
  BY <1>1 DEF Min
<1> HIDE DEF Min
<1> QED BY <1>2

Ahead(l, b) == SumFunctionOnSet([a \in Batches |-> batch[a].quantity], InFront(l, b))

LEMMA TakeIs ==
  ASSUME Stocked, Held, NEW l \in Lines, NEW b \in Batches
  PROVE  /\ Ahead(l, b) \in Nat
         /\ Take(l, b) \in Nat
         /\ Take(l, b) =< batch[b].quantity
         /\ Take(l, b) > 0 => b \in Found(l) /\ Ahead(l, b) < Want[l]
         /\ b \in Found(l) /\ Ahead(l, b) + batch[b].quantity =< Want[l]
              => Take(l, b) = batch[b].quantity
<1> DEFINE f == [a \in Batches |-> batch[a].quantity]
<1>1. InFront(l, b) \subseteq Batches /\ DOMAIN read[l] \subseteq Batches
  BY DEF InFront, Found, Held
<1>2. IsFiniteSet(InFront(l, b))
  BY <1>1, FiniteHub, FS_Subset
<1>3. \A a \in Batches : f[a] \in Nat
  BY DEF Stocked
<1>4. Ahead(l, b) \in Nat
  <2> HIDE DEF f
  <2>1. SumFunctionOnSet(f, InFront(l, b)) \in Nat
    BY <1>1, <1>2, <1>3, SumNat
  <2> QED BY <2>1 DEF Ahead, f
<1>5. Want[l] \in Nat \ {0} /\ batch[b].quantity \in Nat
  BY LineAssumption DEF Stocked
<1>6. Take(l, b) = IF b \notin Found(l) THEN 0
                   ELSE Min({batch[b].quantity, AtLeastZero(Want[l] - Ahead(l, b))})
  BY DEF Take, Ahead
<1> DEFINE n == AtLeastZero(Want[l] - Ahead(l, b))
           q == batch[b].quantity
<1>7. n \in Nat /\ (n > 0 => Ahead(l, b) < Want[l])
        /\ (Ahead(l, b) + q =< Want[l] => q =< n)
  BY <1>4, <1>5 DEF AtLeastZero
<1>8. q \in Nat
  BY <1>5
<1> HIDE DEF n, q
<1>9. Min({q, n}) \in Nat /\ Min({q, n}) =< q /\ Min({q, n}) =< n /\ (q =< n => Min({q, n}) = q)
  BY <1>7, <1>8, MinIs
<1>10. Take(l, b) = IF b \notin Found(l) THEN 0 ELSE Min({q, n})
  BY <1>6 DEF n, q
<1>11. /\ Take(l, b) \in Nat
       /\ Take(l, b) =< q
       /\ Take(l, b) > 0 => b \in Found(l) /\ Ahead(l, b) < Want[l]
       /\ b \in Found(l) /\ Ahead(l, b) + q =< Want[l] => Take(l, b) = q
  BY <1>7, <1>8, <1>9, <1>10
<1> QED BY <1>4, <1>11 DEF q

(* One line's units change in one batch. *)
LEMMA HoldingChanges ==
  ASSUME NEW t, NEW u, NEW l \in Lines, NEW b, \A k \in Lines : t[k][b] \in Nat,
         u[l][b] \in Nat, \A k \in Lines \ {l} : u[k] = t[k]
  PROVE  SumFunctionOnSet([k \in Lines |-> u[k][b]], Lines)
           = SumFunctionOnSet([k \in Lines |-> t[k][b]], Lines) - t[l][b] + u[l][b]
<1> DEFINE f == [k \in Lines |-> t[k][b]]
           g == [k \in Lines |-> u[k][b]]
<1>1. /\ \A k \in Lines : f[k] \in Int
      /\ g[l] \in Int /\ g[l] = u[l][b] /\ f[l] = t[l][b]
      /\ \A k \in Lines \ {l} : g[k] = f[k]
  OBVIOUS
<1> HIDE DEF f, g
<1>2. SumFunctionOnSet(g, Lines) = SumFunctionOnSet(f, Lines) - f[l] + g[l]
  BY <1>1, FiniteHub, SumUpdate
<1> QED BY <1>1, <1>2 DEF f, g

HeldOf(b) == SumFunctionOnSet([l \in Lines |-> taken[l][b]], Lines)

LEMMA HeldOfIsNat == ASSUME Held, NEW b \in Batches PROVE HeldOf(b) \in Nat
<1> DEFINE f == [l \in Lines |-> taken[l][b]]
<1>1. \A l \in Lines : f[l] \in Nat
  BY DEF Held
<1> HIDE DEF f
<1>2. SumFunctionOnSet(f, Lines) \in Nat
  BY <1>1, FiniteHub, SumNat
<1> QED BY <1>2 DEF f, HeldOf

LEMMA UnitsAre ==
  UnitsAreKept <=> /\ \A b \in Batches : batch[b].quantity >= 0 /\ batch[b].quantity + HeldOf(b) = received[b]
                   /\ \A l \in Lines : line[l] = "placed" => SumFunction(taken[l]) = Want[l]
BY DEF UnitsAreKept, HeldOf

LEMMA NothingIs == Nothing \in [Batches -> Nat] /\ \A b \in Batches : Nothing[b] = 0
BY DEF Nothing

-----------------------------------------------------------------------------
LEMMA HubBegins == Init => HubInvariant
<1> SUFFICES ASSUME Init PROVE HubInvariant
  OBVIOUS
<1>1. Stocked
  BY DEF Init, Stocked, Statuses, Nothing
<1>2. Held
  <2>1. Unread \in [{} -> Nat] /\ {} \in SUBSET Batches
    BY DEF Unread
  <2> QED BY <2>1, NothingIs DEF Init, Held
<1>3. OffHasUnits
  BY DEF Init, OffHasUnits
<1>5. Unopened
  BY NothingIs DEF Init, Unopened
<1>4. UnitsAreKept
  <2>1. ASSUME NEW b \in Batches PROVE HeldOf(b) = 0
    <3> DEFINE f == [l \in Lines |-> taken[l][b]]
    <3>1. \A l \in Lines : f[l] = 0
      BY NothingIs DEF Init
    <3> HIDE DEF f
    <3>2. SumFunctionOnSet(f, Lines) = 0
      BY <3>1, FiniteHub, SumZero
    <3> QED BY <3>2 DEF f, HeldOf
  <2>2. \A b \in Batches : batch[b].quantity = 0 /\ received[b] = 0
    BY NothingIs DEF Init
  <2>3. \A l \in Lines : line[l] # "placed"
    BY DEF Init
  <2> QED BY <2>1, <2>2, <2>3, UnitsAre
<1> QED BY <1>1, <1>2, <1>3, <1>4, <1>5 DEF HubInvariant

(* Units go between a batch and a line, and no line but this one changes. *)
LEMMA UnitsMove ==
  ASSUME HubInvariant, Stocked', Held', NEW l \in Lines, UNCHANGED received,
         \A k \in Lines \ {l} : taken'[k] = taken[k] /\ line'[k] = line[k],
         \A b \in Batches : batch'[b].quantity + taken'[l][b] = batch[b].quantity + taken[l][b],
         line'[l] = "placed" => SumFunction(taken'[l]) = Want[l]
  PROVE  UnitsAreKept'
<1>1. ASSUME NEW b \in Batches
      PROVE  batch'[b].quantity >= 0 /\ batch'[b].quantity + HeldOf(b)' = received'[b]
  <2>1. \A k \in Lines : taken[k][b] \in Nat /\ taken'[k][b] \in Nat
    BY DEF HubInvariant, Held
  <2>2. HeldOf(b)' = HeldOf(b) - taken[l][b] + taken'[l][b]
    BY <2>1, HoldingChanges DEF HeldOf
  <2>3. HeldOf(b) \in Nat
    BY HeldOfIsNat DEF HubInvariant
  <2>4. batch[b].quantity \in Nat /\ batch'[b].quantity \in Nat /\ received[b] \in Nat
    BY DEF HubInvariant, Stocked
  <2>5. batch[b].quantity + HeldOf(b) = received[b]
    BY UnitsAre DEF HubInvariant
  <2>6. batch'[b].quantity + taken'[l][b] = batch[b].quantity + taken[l][b]
    OBVIOUS
  <2>7. taken[l][b] \in Nat /\ taken'[l][b] \in Nat
    BY <2>1
  <2> QED BY <2>2, <2>3, <2>4, <2>5, <2>6, <2>7
<1>2. ASSUME NEW k \in Lines, line'[k] = "placed" PROVE SumFunction(taken'[k]) = Want[k]
  <2>1. CASE k = l
    BY <1>2, <2>1
  <2>2. CASE k # l
    BY <1>2, <2>2, UnitsAre DEF HubInvariant
  <2> QED BY <2>1, <2>2
<1> QED BY <1>1, <1>2, UnitsAre DEF UnitsAreKept, HeldOf

(* No line's units change, and the batches get what is received. *)
LEMMA UnitsCome ==
  ASSUME HubInvariant, Stocked', UNCHANGED <<line, taken>>,
         \A b \in Batches : batch'[b].quantity - batch[b].quantity = received'[b] - received[b]
  PROVE  UnitsAreKept'
<1>1. \A b \in Batches : HeldOf(b)' = HeldOf(b)
  BY DEF HeldOf
<1>2. \A b \in Batches : /\ batch[b].quantity \in Nat /\ batch'[b].quantity \in Nat
                         /\ received[b] \in Nat /\ received'[b] \in Nat
  BY DEF HubInvariant, Stocked
<1>3. \A b \in Batches : HeldOf(b) \in Nat /\ batch[b].quantity + HeldOf(b) = received[b]
  BY HeldOfIsNat, UnitsAre DEF HubInvariant
<1>4. \A b \in Batches : batch'[b].quantity >= 0 /\ batch'[b].quantity + HeldOf(b)' = received'[b]
  BY <1>1, <1>2, <1>3
<1>5. \A l \in Lines : line'[l] = "placed" => SumFunction(taken'[l]) = Want[l]
  BY UnitsAre DEF HubInvariant
<1> QED BY <1>4, <1>5 DEF UnitsAreKept, HeldOf

-----------------------------------------------------------------------------
LEMMA ReadKeepsHub == ASSUME HubInvariant, NEW l \in Lines, ReadBatches(l) PROVE HubInvariant'
<1>1. Stocked' /\ OffHasUnits' /\ Unopened'
  BY DEF HubInvariant, ReadBatches, Stocked, OffHasUnits, Unopened
<1>2. Held'
  <2> DEFINE B == {c \in Batches : Sellable(c)}
             r == [b \in B |-> batch[b].expiry]
  <2>1. B \in SUBSET Batches /\ r \in [B -> Nat]
    BY DEF HubInvariant, Stocked
  <2>2. read' = [read EXCEPT ![l] = r] /\ line' = [line EXCEPT ![l] = "reading"] /\ UNCHANGED taken
    BY DEF ReadBatches
  <2> HIDE DEF B, r
  <2>3. r \in UNION {[C -> Nat] : C \in SUBSET Batches}
    BY <2>1
  <2>4. read' \in [Lines -> UNION {[C -> Nat] : C \in SUBSET Batches}]
    BY <2>2, <2>3 DEF HubInvariant, Held
  <2>5. \A k \in Lines : line'[k] # "placed" => taken'[k] = Nothing
    BY <2>2 DEF HubInvariant, Held, ReadBatches
  <2> QED BY <2>2, <2>4, <2>5 DEF HubInvariant, Held
<1>3. UnitsAreKept'
  <2>1. \A k \in Lines : line'[k] = "placed" => line[k] = "placed"
    BY DEF HubInvariant, Held, ReadBatches
  <2> QED BY <2>1 DEF HubInvariant, UnitsAreKept, ReadBatches
<1> QED BY <1>1, <1>2, <1>3 DEF HubInvariant

(* A batch gives what it has, and only while it is on sale. *)
LEMMA EmptiedIs ==
  ASSUME NEW row \in [status : Statuses, quantity : Nat, expiry : Nat], NEW n \in Nat, n =< row.quantity
  PROVE  /\ Emptied(row, n) \in [status : Statuses, quantity : Nat, expiry : Nat]
         /\ Emptied(row, n).quantity + n = row.quantity
         /\ n = 0 => Emptied(row, n) = row
         /\ Emptied(row, n).status = "none" => row.status = "none"
<1> DEFINE q == row.quantity
           st == IF n = row.quantity /\ n > 0 THEN "reserved" ELSE row.status
<1>1. q \in Nat /\ q - n \in Nat /\ (q - n) + n = q /\ q - 0 = q
  OBVIOUS
<1>2. st \in Statuses /\ (n = 0 => st = row.status) /\ (st = "none" => row.status = "none")
  BY DEF Statuses
<1>3. Emptied(row, n) = [status |-> st, quantity |-> q - n, expiry |-> row.expiry]
  <2>1. DOMAIN row = {"status", "quantity", "expiry"}
    OBVIOUS
  <2>2. Emptied(row, n) = [row EXCEPT !.quantity = q - n, !.status = st]
    BY DEF Emptied
  <2> HIDE DEF q, st
  <2> QED BY <2>1, <2>2
<1>4. row = [status |-> row.status, quantity |-> q, expiry |-> row.expiry] /\ row.expiry \in Nat
  OBVIOUS
<1> HIDE DEF q, st
<1>5. Emptied(row, n).quantity + n = row.quantity
  BY <1>1, <1>3 DEF q
<1>6. n = 0 => Emptied(row, n) = row
  BY <1>1, <1>2, <1>3, <1>4
<1> QED BY <1>1, <1>2, <1>3, <1>4, <1>5, <1>6

LEMMA ReturnedIs ==
  ASSUME NEW row \in [status : Statuses, quantity : Nat, expiry : Nat], NEW n \in Nat
  PROVE  /\ Returned(row, n) \in [status : Statuses, quantity : Nat, expiry : Nat]
         /\ Returned(row, n).quantity = row.quantity + n
         /\ row.quantity > 0 => Returned(row, n).status = row.status
         /\ Returned(row, n).status = "none" => row.status = "none"
<1> DEFINE q == row.quantity + n
           st == IF n > 0 /\ row.quantity = 0 /\ row.status = "reserved" /\ row.expiry > now
                 THEN "available" ELSE row.status
<1>1. q \in Nat /\ row.expiry \in Nat
  OBVIOUS
<1>2. st \in Statuses /\ (row.quantity > 0 => st = row.status) /\ (st = "none" => row.status = "none")
  BY DEF Statuses
<1>3. Returned(row, n) = [status |-> st, quantity |-> q, expiry |-> row.expiry]
  <2>1. DOMAIN row = {"status", "quantity", "expiry"}
    OBVIOUS
  <2>2. Returned(row, n) = [row EXCEPT !.quantity = q, !.status = st]
    BY DEF Returned
  <2> HIDE DEF q, st
  <2> QED BY <2>1, <2>2
<1>4. Returned(row, n).quantity = row.quantity + n
  BY <1>3
<1> HIDE DEF q, st
<1> QED BY <1>1, <1>2, <1>3, <1>4

LEMMA AllocateKeepsHub == ASSUME HubInvariant, NEW l \in Lines, Allocate(l) PROVE HubInvariant'
<1> DEFINE took == SumFunction(Takes(l)) = Want[l]
<1>1. \A b \in Batches : /\ Takes(l)[b] \in Nat /\ Takes(l)[b] =< batch[b].quantity
                         /\ Takes(l)[b] > 0 => Sellable(b)
  BY TakeIs DEF HubInvariant, Takes, Found
<1>2. Unread \in UNION {[B -> Nat] : B \in SUBSET Batches}
  BY DEF Unread
<1>3. CASE ~took
  <2>1. /\ line' = [line EXCEPT ![l] = "refused"] /\ read' = [read EXCEPT ![l] = Unread]
        /\ UNCHANGED <<batch, taken, now, intakes, received, off>>
    BY <1>3 DEF Allocate
  <2>2. Stocked' /\ OffHasUnits' /\ Unopened'
    BY <2>1 DEF HubInvariant, Stocked, OffHasUnits, Unopened
  <2>3. Held'
    BY <1>2, <2>1 DEF HubInvariant, Held, Allocate
  <2>4. \A k \in Lines : line'[k] = "placed" => line[k] = "placed"
    BY <2>1 DEF HubInvariant, Held
  <2>5. UnitsAreKept'
    BY <2>1, <2>4 DEF HubInvariant, UnitsAreKept
  <2> QED BY <2>2, <2>3, <2>5 DEF HubInvariant
<1>4. CASE took
  <2>1. /\ batch' = [b \in Batches |-> Emptied(batch[b], Takes(l)[b])]
        /\ taken' = [taken EXCEPT ![l] = Takes(l)]
        /\ line' = [line EXCEPT ![l] = "placed"] /\ read' = [read EXCEPT ![l] = Unread]
        /\ UNCHANGED <<now, intakes, received, off>>
    BY <1>4 DEF Allocate
  <2>2. \A b \in Batches : batch[b] \in [status : Statuses, quantity : Nat, expiry : Nat]
    BY DEF HubInvariant, Stocked
  <2>3. Stocked'
    <3>1. \A b \in Batches : Emptied(batch[b], Takes(l)[b]) \in [status : Statuses, quantity : Nat, expiry : Nat]
      BY <1>1, <2>2, EmptiedIs
    <3> QED BY <2>1, <3>1 DEF HubInvariant, Stocked
  <2>4. Takes(l) \in [Batches -> Nat]
    BY <1>1 DEF Takes
  <2>5. Held'
    BY <1>2, <2>1, <2>4 DEF HubInvariant, Held
  <2>6. OffHasUnits'
    <3> SUFFICES ASSUME NEW b \in off'
                 PROVE  batch'[b].status \in {"damaged", "reserved"} /\ batch'[b].quantity > 0
      BY DEF OffHasUnits
    <3>1. b \in off /\ b \in Batches
      BY <2>1 DEF HubInvariant, Stocked
    <3>2. batch[b].status \in {"damaged", "reserved"} /\ batch[b].quantity > 0
      BY <3>1 DEF HubInvariant, OffHasUnits
    <3>3. Takes(l)[b] = 0
      BY <1>1, <3>1, <3>2 DEF Sellable
    <3>4. batch'[b] = batch[b]
      BY <1>1, <2>1, <2>2, <3>1, <3>3, EmptiedIs
    <3> QED BY <3>2, <3>4
  <2>7. UnitsAreKept'
    <3>1. l \in DOMAIN taken /\ taken[l] = Nothing /\ taken'[l] = Takes(l) /\ line'[l] = "placed"
      BY <2>1 DEF HubInvariant, Held, Allocate
    <3>2. \A k \in Lines \ {l} : taken'[k] = taken[k] /\ line'[k] = line[k]
      BY <2>1 DEF HubInvariant, Held
    <3>3. ASSUME NEW b \in Batches
          PROVE  batch'[b].quantity + taken'[l][b] = batch[b].quantity + taken[l][b]
      <4>1. Emptied(batch[b], Takes(l)[b]).quantity + Takes(l)[b] = batch[b].quantity
        BY <1>1, <2>2, EmptiedIs
      <4>2. taken[l][b] = 0 /\ batch[b].quantity \in Nat
        BY <3>1, NothingIs DEF HubInvariant, Stocked
      <4> QED BY <2>1, <3>1, <4>1, <4>2
    <3>4. SumFunction(taken'[l]) = Want[l]
      BY <1>4, <3>1
    <3> QED BY <2>1, <2>3, <2>5, <3>2, <3>3, <3>4, UnitsMove
  <2>8. Unopened'
    <3> SUFFICES ASSUME NEW b \in Batches, batch'[b].status = "none"
                 PROVE  batch'[b].quantity = 0 /\ \A k \in Lines : taken'[k][b] = 0
      BY DEF Unopened
    <3>1. batch'[b] = Emptied(batch[b], Takes(l)[b])
      BY <2>1
    <3>2. batch[b].status = "none"
      BY <1>1, <2>2, <3>1, EmptiedIs
    <3>3. Takes(l)[b] = 0
      BY <1>1, <3>2 DEF Sellable
    <3>4. batch'[b] = batch[b]
      BY <1>1, <2>2, <3>1, <3>3, EmptiedIs
    <3>5. batch[b].quantity = 0 /\ \A k \in Lines : taken[k][b] = 0
      BY <3>2 DEF HubInvariant, Unopened
    <3>6. \A k \in Lines : taken'[k] = IF k = l THEN Takes(l) ELSE taken[k]
      BY <2>1 DEF HubInvariant, Held
    <3> QED BY <3>3, <3>4, <3>5, <3>6
  <2> QED BY <2>3, <2>5, <2>6, <2>7, <2>8 DEF HubInvariant
<1> QED BY <1>3, <1>4

LEMMA CancelKeepsHub == ASSUME HubInvariant, NEW l \in Lines, CancelLine(l) PROVE HubInvariant'
<1>1. /\ line' = [line EXCEPT ![l] = "cancelled"]
      /\ batch' = [b \in Batches |-> Returned(batch[b], taken[l][b])]
      /\ taken' = [taken EXCEPT ![l] = Nothing]
      /\ UNCHANGED <<read, now, intakes, received, off>>
  BY DEF CancelLine
<1>2. \A b \in Batches : /\ batch[b] \in [status : Statuses, quantity : Nat, expiry : Nat]
                         /\ taken[l][b] \in Nat
  BY DEF HubInvariant, Stocked, Held
<1>3. \A b \in Batches : /\ batch'[b] \in [status : Statuses, quantity : Nat, expiry : Nat]
                         /\ batch'[b].quantity = batch[b].quantity + taken[l][b]
                         /\ batch[b].quantity > 0 => batch'[b].status = batch[b].status
                         /\ batch'[b].status = "none" => batch[b].status = "none"
  BY <1>1, <1>2, ReturnedIs
<1>4. Stocked'
  BY <1>1, <1>3 DEF HubInvariant, Stocked
<1>5. Held'
  BY <1>1, NothingIs DEF HubInvariant, Held
<1>6. OffHasUnits'
  <2> SUFFICES ASSUME NEW b \in off'
               PROVE  batch'[b].status \in {"damaged", "reserved"} /\ batch'[b].quantity > 0
    BY DEF OffHasUnits
  <2>1. b \in Batches /\ batch[b].status \in {"damaged", "reserved"} /\ batch[b].quantity > 0
    BY <1>1 DEF HubInvariant, Stocked, OffHasUnits
  <2>2. batch[b].quantity \in Nat
    BY <1>2, <2>1
  <2> QED BY <1>2, <1>3, <2>1, <2>2
<1>7. UnitsAreKept'
  <2>1. \A k \in Lines \ {l} : taken'[k] = taken[k] /\ line'[k] = line[k]
    BY <1>1 DEF HubInvariant, Held
  <2>2. taken'[l] = Nothing /\ line'[l] = "cancelled"
    BY <1>1 DEF HubInvariant, Held
  <2>3. \A b \in Batches : batch'[b].quantity + taken'[l][b] = batch[b].quantity + taken[l][b]
    <3>1. \A b \in Batches : taken'[l][b] = 0 /\ batch[b].quantity \in Nat
      BY <1>2, <2>2, NothingIs
    <3> QED BY <1>2, <1>3, <3>1
  <2> QED BY <1>1, <1>4, <1>5, <2>1, <2>2, <2>3, UnitsMove
<1>8. Unopened'
  <2> SUFFICES ASSUME NEW b \in Batches, batch'[b].status = "none"
               PROVE  batch'[b].quantity = 0 /\ \A k \in Lines : taken'[k][b] = 0
    BY DEF Unopened
  <2>1. batch[b].quantity = 0 /\ \A k \in Lines : taken[k][b] = 0
    BY <1>3 DEF HubInvariant, Unopened
  <2>2. \A k \in Lines : taken'[k] = IF k = l THEN Nothing ELSE taken[k]
    BY <1>1 DEF HubInvariant, Held
  <2> QED BY <1>3, <2>1, <2>2, NothingIs
<1> QED BY <1>4, <1>5, <1>6, <1>7, <1>8 DEF HubInvariant

(* What is off sale keeps its units, and the numbers unopened have none. *)
OffSaleKept == \A b \in off \intersect off' : batch'[b].quantity >= batch[b].quantity

(* One batch changes, no unit leaves it, and it is off sale only with units. *)
LEMMA OneBatchChanges ==
  ASSUME HubInvariant, NEW b \in Batches,
         NEW row \in [status : Statuses \ {"none"}, quantity : Nat, expiry : Nat],
         batch' = [batch EXCEPT ![b] = row],
         row.quantity >= batch[b].quantity,
         received' = [received EXCEPT ![b] = @ + (row.quantity - batch[b].quantity)],
         off' \subseteq off \union {b},
         b \in off' => row.status \in {"damaged", "reserved"} /\ row.quantity > 0,
         intakes' \in Nat, UNCHANGED <<line, read, taken, now>>
  PROVE  HubInvariant' /\ OffSaleKept
<1> DEFINE Row == [status : Statuses, quantity : Nat, expiry : Nat]
           n == row.quantity - batch[b].quantity
<1>1. \A a \in Batches : batch[a] \in Row /\ batch[a].quantity \in Nat
  BY DEF HubInvariant, Stocked
<1>2. row \in Row /\ row.quantity \in Nat
  OBVIOUS
<1>3. n \in Nat /\ n = row.quantity - batch[b].quantity
  BY <1>1, <1>2
<1>4. \A a \in Batches : batch'[a] = IF a = b THEN row ELSE batch[a]
  BY DEF HubInvariant, Stocked
<1>5. \A a \in Batches : received[a] \in Nat /\ received'[a] = IF a = b THEN received[a] + n ELSE received[a]
  BY DEF HubInvariant, Stocked
<1> HIDE DEF n
<1>6. Stocked'
  <2>1. batch' \in [Batches -> Row]
    BY <1>2 DEF HubInvariant, Stocked
  <2>2. received' \in [Batches -> Nat]
    <3>1. \A a \in Batches : received'[a] \in Nat
      BY <1>3, <1>5
    <3>2. received' = [a \in Batches |-> received'[a]]
      BY DEF HubInvariant, Stocked
    <3> QED BY <3>1, <3>2
  <2> QED BY <2>1, <2>2 DEF HubInvariant, Stocked
<1>7. Held'
  BY DEF HubInvariant, Held
<1>8. OffHasUnits'
  BY <1>4 DEF HubInvariant, Stocked, OffHasUnits
<1>9. Unopened'
  <2>1. row.status # "none"
    OBVIOUS
  <2> QED BY <1>4, <2>1 DEF HubInvariant, Unopened
<1>10. UnitsAreKept'
  <2>1. ASSUME NEW a \in Batches
        PROVE  batch'[a].quantity - batch[a].quantity = received'[a] - received[a]
    <3>1. CASE a = b
      <4>1. batch'[a].quantity = row.quantity /\ received'[a] = received[a] + n
        BY <1>4, <1>5, <3>1
      <4> QED BY <1>1, <1>2, <1>3, <1>5, <3>1, <4>1
    <3>2. CASE a # b
      BY <1>1, <1>4, <1>5, <3>2
    <3> QED BY <3>1, <3>2
  <2> QED BY <1>6, <2>1, UnitsCome
<1>11. OffSaleKept
  <2> SUFFICES ASSUME NEW a \in Batches PROVE batch'[a].quantity >= batch[a].quantity
    BY DEF OffSaleKept, HubInvariant, Stocked
  <2> QED BY <1>1, <1>4
<1> QED BY <1>6, <1>7, <1>8, <1>9, <1>10, <1>11 DEF HubInvariant

LEMMA IntakeKeepsHub ==
  ASSUME HubInvariant, NEW b \in Batches, NEW n \in Deliveries, NEW expiry \in ShelfLife,
         NEW breach \in BOOLEAN, RecordIntake(b, n, expiry, breach)
  PROVE  HubInvariant' /\ OffSaleKept
<1> DEFINE row == IF batch[b].status = "none" THEN Created(n, expiry, breach) ELSE Merged(batch[b], n, expiry)
           good == [status : Statuses \ {"none"}, quantity : Nat, expiry : Nat]
<1>1. n \in Nat /\ n > 0 /\ expiry \in Nat
  BY IntakeAssumption
<1>2. batch[b].expiry \in Nat /\ batch[b].quantity \in Nat /\ received[b] \in Nat
  BY DEF HubInvariant, Stocked
<1>3. Min({expiry, batch[b].expiry}) \in Nat
  BY <1>1, <1>2, MinIs
<1>4. /\ batch' = [batch EXCEPT ![b] = row]
      /\ received' = [received EXCEPT ![b] = @ + n]
      /\ intakes' = intakes + 1
      /\ UNCHANGED <<line, read, taken, now>>
  BY DEF RecordIntake
<1>5. CASE batch[b].status = "none"
  <2>1. row = Created(n, expiry, breach) /\ off' = IF breach THEN off \union {b} ELSE off
    BY <1>5 DEF RecordIntake
  <2>2. b \notin off /\ batch[b].quantity = 0
    BY <1>5 DEF HubInvariant, OffHasUnits, Unopened
  <2>3. row.quantity = n /\ (breach => row.status = "damaged") /\ row \in good
    BY <1>1, <2>1 DEF Created, Statuses
  <2>4. intakes' \in Nat /\ off' \subseteq off \union {b}
    BY <1>4, <2>1 DEF HubInvariant, Stocked
  <2>5. n = row.quantity - batch[b].quantity /\ row.quantity >= batch[b].quantity
    BY <1>1, <2>2, <2>3
  <2>6. b \in off' => row.status \in {"damaged", "reserved"} /\ row.quantity > 0
    BY <1>1, <2>1, <2>2, <2>3
  <2> HIDE DEF row
  <2> QED BY <1>4, <2>3, <2>4, <2>5, <2>6, OneBatchChanges
<1>6. CASE batch[b].status # "none"
  <2>1. row = Merged(batch[b], n, expiry) /\ off' = off
    BY <1>6 DEF RecordIntake
  <2>2. row.quantity = batch[b].quantity + n /\ row \in good
    <3>1. batch[b].status \in Statuses \ {"none"}
      BY <1>6 DEF HubInvariant, Stocked
    <3>2. batch[b].quantity + n \in Nat
      BY <1>1, <1>2
    <3> QED BY <1>3, <2>1, <3>1, <3>2 DEF Merged, Statuses
  <2>3. b \in off => row.status \in {"damaged", "reserved"} /\ row.quantity > 0
    <3> SUFFICES ASSUME b \in off PROVE row.status \in {"damaged", "reserved"} /\ row.quantity > 0
      OBVIOUS
    <3>1. batch[b].status \in {"damaged", "reserved"} /\ batch[b].quantity > 0
      BY DEF HubInvariant, OffHasUnits
    <3>2. row.status = batch[b].status
      BY <2>1, <3>1 DEF Merged
    <3> QED BY <1>1, <1>2, <2>2, <3>1, <3>2
  <2>4. n = row.quantity - batch[b].quantity /\ row.quantity >= batch[b].quantity
    BY <1>1, <1>2, <2>2
  <2>5. intakes' \in Nat /\ off' \subseteq off \union {b}
    BY <1>4, <2>1 DEF HubInvariant, Stocked
  <2> HIDE DEF row
  <2> QED BY <1>4, <2>1, <2>2, <2>3, <2>4, <2>5, OneBatchChanges
<1> QED BY <1>5, <1>6

LEMMA SetStatusKeepsHub ==
  ASSUME HubInvariant, NEW b \in Batches, NEW status \in Statuses \ {"none"}, SetStatus(b, status)
  PROVE  HubInvariant' /\ OffSaleKept
<1> DEFINE row == [batch[b] EXCEPT !.status = status]
<1>1. batch[b] \in [status : Statuses, quantity : Nat, expiry : Nat] /\ batch[b].quantity \in Nat
  BY DEF HubInvariant, Stocked
<1>2. row \in [status : Statuses \ {"none"}, quantity : Nat, expiry : Nat]
  BY <1>1
<1>3. row.quantity = batch[b].quantity /\ row.status = status
  BY <1>1
<1>4. /\ batch' = [batch EXCEPT ![b] = row]
      /\ off' = IF status \in {"damaged", "reserved"} /\ batch[b].quantity > 0
                THEN off \union {b} ELSE off \ {b}
      /\ UNCHANGED <<line, read, taken, now, intakes, received>>
  BY DEF SetStatus, HubInvariant, Stocked
<1> HIDE DEF row
<1>5. row.quantity >= batch[b].quantity /\ row.quantity - batch[b].quantity = 0
  BY <1>1, <1>3
<1>6. received' = [received EXCEPT ![b] = @ + (row.quantity - batch[b].quantity)]
  BY <1>4, <1>5 DEF HubInvariant, Stocked
<1>7. off' \subseteq off \union {b} /\ (b \in off' => row.status \in {"damaged", "reserved"} /\ row.quantity > 0)
  BY <1>3, <1>4
<1>8. intakes' \in Nat
  BY <1>4 DEF HubInvariant, Stocked
<1> QED BY <1>2, <1>4, <1>5, <1>6, <1>7, <1>8, OneBatchChanges

LEMMA SweepKeepsHub == ASSUME HubInvariant, ExpireStaleBatches PROVE HubInvariant' /\ OffSaleKept
<1> DEFINE Row == [status : Statuses, quantity : Nat, expiry : Nat]
           stale(b) == batch[b].status = "available" /\ batch[b].expiry <= now
<1>1. \A b \in Batches : batch[b] \in Row /\ batch[b].quantity \in Nat
  BY DEF HubInvariant, Stocked
<1>2. /\ batch' = [b \in Batches |-> IF stale(b) THEN [batch[b] EXCEPT !.status = "expired"] ELSE batch[b]]
      /\ UNCHANGED <<line, read, taken, now, intakes, received, off>>
  BY DEF ExpireStaleBatches
<1>3. \A b \in Batches : batch'[b] \in Row /\ batch'[b].quantity = batch[b].quantity
                         /\ (batch[b].status # "available" => batch'[b] = batch[b])
                         /\ (batch[b].status = "available" => batch'[b].status # "none")
  BY <1>1, <1>2 DEF Statuses
<1>4. Stocked'
  BY <1>2, <1>3 DEF HubInvariant, Stocked
<1>5. Held'
  BY <1>2 DEF HubInvariant, Held
<1>6. OffHasUnits' /\ Unopened' /\ OffSaleKept
  BY <1>1, <1>2, <1>3 DEF HubInvariant, Stocked, OffHasUnits, Unopened, OffSaleKept
<1>7. UnitsAreKept'
  <2>1. \A b \in Batches : batch'[b].quantity - batch[b].quantity = received'[b] - received[b]
    <3>1. \A b \in Batches : received[b] \in Nat /\ received'[b] = received[b]
      BY <1>2 DEF HubInvariant, Stocked
    <3> QED BY <1>1, <1>3, <3>1
  <2> QED BY <1>2, <1>4, <2>1, UnitsCome
<1> QED BY <1>4, <1>5, <1>6, <1>7 DEF HubInvariant

LEMMA TickKeepsHub == ASSUME HubInvariant, Tick PROVE HubInvariant' /\ OffSaleKept
<1>1. Stocked' /\ Held' /\ OffHasUnits' /\ Unopened' /\ UnitsAreKept'
  BY DEF HubInvariant, Tick, Stocked, Held, OffHasUnits, Unopened, UnitsAreKept
<1>2. OffSaleKept
  BY DEF HubInvariant, Tick, Stocked, OffSaleKept
<1> QED BY <1>1, <1>2 DEF HubInvariant

LEMMA StandingKeepsHub == ASSUME HubInvariant, UNCHANGED vars PROVE HubInvariant' /\ OffSaleKept
<1>1. Stocked' /\ Held' /\ OffHasUnits' /\ Unopened' /\ UnitsAreKept'
  BY DEF HubInvariant, vars, Stocked, Held, OffHasUnits, Unopened, UnitsAreKept
<1>2. OffSaleKept
  BY DEF HubInvariant, vars, Stocked, OffSaleKept
<1> QED BY <1>1, <1>2 DEF HubInvariant

(* An allocation takes from no batch that is off sale, and a cancel gives back. *)
LEMMA LinesKeepOffSale ==
  ASSUME HubInvariant, NEW l \in Lines, ReadBatches(l) \/ Allocate(l) \/ CancelLine(l)
  PROVE  OffSaleKept
<1> SUFFICES ASSUME NEW b \in off PROVE batch'[b].quantity >= batch[b].quantity
  BY DEF OffSaleKept
<1>1. b \in Batches /\ batch[b] \in [status : Statuses, quantity : Nat, expiry : Nat]
        /\ batch[b].quantity \in Nat /\ batch[b].status # "available"
  BY DEF HubInvariant, Stocked, OffHasUnits
<1>2. CASE UNCHANGED batch
  BY <1>1, <1>2
<1>3. CASE Allocate(l) /\ ~UNCHANGED batch
  <2>1. batch'[b] = Emptied(batch[b], Takes(l)[b])
    BY <1>1, <1>3 DEF Allocate
  <2>2. Takes(l)[b] = 0
    BY <1>1, TakeIs DEF HubInvariant, Takes, Found, Sellable
  <2>3. batch'[b] = batch[b]
    <3>1. 0 \in Nat /\ 0 =< batch[b].quantity
      BY <1>1
    <3> QED BY <1>1, <2>1, <2>2, <3>1, EmptiedIs
  <2> QED BY <1>1, <2>3
<1>4. CASE CancelLine(l)
  <2>1. taken[l][b] \in Nat
    BY <1>1 DEF HubInvariant, Held
  <2>2. batch'[b].quantity = batch[b].quantity + taken[l][b]
    BY <1>1, <1>4, <2>1, ReturnedIs DEF CancelLine
  <2> QED BY <1>1, <2>1, <2>2
<1> QED BY <1>2, <1>3, <1>4 DEF ReadBatches

LEMMA HubStep == HubInvariant /\ [Next]_vars => HubInvariant' /\ OffSaleKept
<1> SUFFICES ASSUME HubInvariant, [Next]_vars PROVE HubInvariant' /\ OffSaleKept
  OBVIOUS
<1>1. CASE \E l \in Lines : ReadBatches(l) \/ Allocate(l) \/ CancelLine(l)
  BY <1>1, ReadKeepsHub, AllocateKeepsHub, CancelKeepsHub, LinesKeepOffSale
<1>2. CASE \E b \in Batches, n \in Deliveries, expiry \in ShelfLife, breach \in BOOLEAN :
             RecordIntake(b, n, expiry, breach)
  BY <1>2, IntakeKeepsHub
<1>3. CASE \E b \in Batches, status \in Statuses \ {"none"} : SetStatus(b, status)
  BY <1>3, SetStatusKeepsHub
<1>4. CASE ExpireStaleBatches
  BY <1>4, SweepKeepsHub
<1>5. CASE Tick
  BY <1>5, TickKeepsHub
<1>6. CASE UNCHANGED vars
  BY <1>6, StandingKeepsHub
<1> QED BY <1>1, <1>2, <1>3, <1>4, <1>5, <1>6 DEF Next

-----------------------------------------------------------------------------
(* However allocations, cancels and deliveries cross, the units of a batch and the
   units orders hold of it are what was received, and a placed line has all it asked
   for, for any lines, batches and deliveries. *)
THEOREM NoUnitIsLostOrSoldTwice == Spec => []UnitsAreKept
<1>1. HubInvariant => UnitsAreKept
  BY DEF HubInvariant
<1> QED BY <1>1, HubBegins, HubStep, PTL DEF Spec

(* Stock kept apart or held back comes back on sale by the staff's word only, and no
   order takes from it meanwhile. *)
THEOREM HeldBackStays == Spec => OffSaleStays
<1> DEFINE Apart == \A b \in off : batch[b].status \in {"damaged", "reserved"}
<1>1. HubInvariant => Apart
  BY DEF HubInvariant, OffHasUnits
<1>2. HubInvariant /\ [Next]_vars
        => [\A b \in off \intersect off' : batch'[b].quantity >= batch[b].quantity]_vars
  BY HubStep DEF OffSaleKept
<1>3. Spec => []Apart
  BY <1>1, HubBegins, HubStep, PTL DEF Spec
<1>4. Spec => [][\A b \in off \intersect off' : batch'[b].quantity >= batch[b].quantity]_vars
  BY <1>2, HubBegins, HubStep, PTL DEF Spec
<1> QED BY <1>3, <1>4 DEF OffSaleStays

LEMMA ReadIs ==
  ASSUME Held, NEW l \in Lines
  PROVE  \A c \in DOMAIN read[l] : c \in Nat /\ read[l][c] \in Nat
<1>1. PICK B \in SUBSET Batches : read[l] \in [B -> Nat]
  BY DEF Held
<1>2. \A c \in Batches : c \in Nat
  BY BatchAssumption DEF Batches
<1>3. DOMAIN read[l] = B
  BY <1>1
<1> QED BY <1>1, <1>2, <1>3

(* What goes out before a batch is summed before it: an allocation that takes from a
   batch empties those it read with an earlier date. *)
LEMMA EarlierGoFirst ==
  ASSUME HubInvariant, NEW l \in Lines, Allocate(l), line'[l] = "placed",
         NEW b \in Batches, taken'[l][b] > 0
  PROVE  /\ batch[b].expiry > now + MinLife
         /\ \A a \in DOMAIN read[l] :
              Sellable(a) /\ read[l][a] < read[l][b] => batch'[a].quantity = 0
<1>1. /\ batch' = [a \in Batches |-> Emptied(batch[a], Takes(l)[a])]
      /\ taken'[l] = Takes(l)
  BY DEF Allocate, HubInvariant, Held
<1>2. taken'[l][b] = Take(l, b)
  BY <1>1 DEF Takes
<1>3. b \in Found(l) /\ Ahead(l, b) < Want[l] /\ Ahead(l, b) \in Nat
  BY <1>2, TakeIs DEF HubInvariant
<1>4. batch[b].expiry > now + MinLife
  BY <1>3 DEF Found, Sellable
<1>5. ASSUME NEW a \in DOMAIN read[l], Sellable(a), read[l][a] < read[l][b]
      PROVE  batch'[a].quantity = 0
  <2>1. a \in Batches /\ a \in Found(l) /\ a \in InFront(l, b)
    BY <1>3, <1>5 DEF HubInvariant, Held, Found, InFront, FirstOut
  <2>2. InFront(l, a) \subseteq InFront(l, b) \ {a}
    <3> SUFFICES ASSUME NEW c \in InFront(l, a) PROVE c \in InFront(l, b) /\ c # a
      OBVIOUS
    <3>1. /\ c \in DOMAIN read[l] /\ a \in DOMAIN read[l] /\ b \in DOMAIN read[l]
          /\ c \in Found(l)
          /\ FirstOut(read[l], c, a)
      BY <1>3, <2>1 DEF InFront, Found
    <3>2. /\ c \in Nat /\ a \in Nat
          /\ read[l][c] \in Nat /\ read[l][a] \in Nat /\ read[l][b] \in Nat
      BY <3>1, ReadIs DEF HubInvariant
    <3>3. c # a /\ FirstOut(read[l], c, b)
      BY <1>5, <3>1, <3>2 DEF FirstOut
    <3> QED BY <3>1, <3>3 DEF InFront
  <2> DEFINE f == [c \in Batches |-> batch[c].quantity]
             S == InFront(l, b)
             A == InFront(l, a)
  <2>3. S \subseteq Batches /\ IsFiniteSet(S) /\ IsFiniteSet(S \ {a}) /\ \A c \in Batches : f[c] \in Nat
    <3>1. S \subseteq Batches
      BY DEF InFront, Found, HubInvariant, Held
    <3>2. IsFiniteSet(S) /\ IsFiniteSet(S \ {a})
      BY <3>1, FiniteHub, FS_Subset
    <3> QED BY <3>1, <3>2 DEF HubInvariant, Stocked
  <2>4. Ahead(l, b) = SumFunctionOnSet(f, S) /\ Ahead(l, a) = SumFunctionOnSet(f, A) /\ f[a] = batch[a].quantity
    BY <2>1 DEF Ahead
  <2>5. a \in S /\ A \subseteq S \ {a}
    BY <2>1, <2>2
  <2> HIDE DEF f, S, A
  <2>6. \A c \in S : f[c] \in Int
    BY <2>3
  <2>7. SumFunctionOnSet(f, S) = f[a] + SumFunctionOnSet(f, S \ {a})
    BY <2>3, <2>5, <2>6, SumRemove
  <2>8. \A c \in S \ {a} : f[c] \in Nat
    BY <2>3
  <2>9. /\ SumFunctionOnSet(f, A) =< SumFunctionOnSet(f, S \ {a})
        /\ SumFunctionOnSet(f, A) \in Nat
        /\ SumFunctionOnSet(f, S \ {a}) \in Nat
    BY <2>3, <2>5, <2>8, SumPart, SumNat
  <2>10. f[a] \in Nat /\ Want[l] \in Nat
    BY <2>1, <2>3, LineAssumption
  <2>11. Ahead(l, a) + batch[a].quantity =< Want[l]
    BY <1>3, <2>4, <2>7, <2>9, <2>10
  <2>12. Take(l, a) = batch[a].quantity
    BY <2>1, <2>11, TakeIs DEF HubInvariant
  <2>13. /\ batch[a] \in [status : Statuses, quantity : Nat, expiry : Nat]
         /\ batch[a].quantity \in Nat
    BY <2>1 DEF HubInvariant, Stocked
  <2>14. batch'[a] = Emptied(batch[a], batch[a].quantity)
    BY <1>1, <2>1, <2>12 DEF Takes
  <2>15. Emptied(batch[a], batch[a].quantity) \in [status : Statuses, quantity : Nat, expiry : Nat]
           /\ Emptied(batch[a], batch[a].quantity).quantity + batch[a].quantity = batch[a].quantity
    BY <2>13, EmptiedIs
  <2>16. Emptied(batch[a], batch[a].quantity).quantity \in Nat
    BY <2>15
  <2> QED BY <2>13, <2>14, <2>15, <2>16
<1> QED BY <1>4, <1>5

FirstExpired ==
  \A l \in Lines : line[l] = "reading" /\ line'[l] = "placed" =>
    \A b \in Batches : taken'[l][b] > 0 =>
      /\ batch[b].expiry > now + MinLife
      /\ \A a \in DOMAIN read[l] :
           Sellable(a) /\ read[l][a] < read[l][b] => batch'[a].quantity = 0

LEMMA OnlyAllocatePlaces ==
  ASSUME HubInvariant, [Next]_vars, NEW l \in Lines, line[l] = "reading", line'[l] = "placed"
  PROVE  Allocate(l)
<1>1. UNCHANGED line \/ \E k \in Lines : ReadBatches(k) \/ Allocate(k) \/ CancelLine(k)
  BY DEF Next, vars, RecordIntake, SetStatus, ExpireStaleBatches, Tick
<1>2. line \in [Lines -> {"new", "reading", "placed", "refused", "cancelled"}]
  BY DEF HubInvariant, Held
<1>3. PICK k \in Lines : ReadBatches(k) \/ Allocate(k) \/ CancelLine(k)
  BY <1>1
<1>4. k = l
  BY <1>2, <1>3 DEF ReadBatches, Allocate, CancelLine
<1> QED BY <1>2, <1>3, <1>4 DEF ReadBatches, CancelLine

(* An order leaves no unit of a batch that goes out first by the dates it read while it
   takes from a later one, and what it takes has its day of shelf life. *)
THEOREM BatchesGoOutInOrder == Spec => FirstExpiredFirst
<1>1. HubInvariant /\ [Next]_vars => FirstExpired
  BY OnlyAllocatePlaces, EarlierGoFirst DEF FirstExpired
<1>2. HubInvariant /\ [Next]_vars => [FirstExpired]_vars
  BY <1>1
<1>3. Spec => [][FirstExpired]_vars
  BY <1>2, HubBegins, HubStep, PTL DEF Spec
<1> QED BY <1>3 DEF FirstExpiredFirst, FirstExpired

(* Nothing past its date is put on sale, by staff, a delivery or units that return. *)
LEMMA StaleIsNotSold ==
  ASSUME HubInvariant, [Next]_vars, NEW b \in Batches,
         batch'[b].status = "available", batch[b].status # "available"
  PROVE  batch'[b].expiry > now
<1>1. batch[b] \in [status : Statuses, quantity : Nat, expiry : Nat] /\ now \in Nat
  BY DEF HubInvariant, Stocked
<1>2. batch'[b] # batch[b]
  OBVIOUS
<1>3. CASE \E l \in Lines : Allocate(l) /\ batch'[b] = Emptied(batch[b], Takes(l)[b])
  <2>1. PICK l \in Lines : batch'[b] = Emptied(batch[b], Takes(l)[b])
    BY <1>3
  <2>2. batch'[b].status \in {"reserved", batch[b].status}
    BY <1>1, <2>1 DEF Emptied
  <2> QED BY <2>2
<1>4. CASE \E l \in Lines : CancelLine(l)
  <2>1. PICK l \in Lines : batch'[b] = Returned(batch[b], taken[l][b])
    BY <1>4 DEF CancelLine
  <2>2. batch'[b].expiry = batch[b].expiry
    BY <1>1, <2>1 DEF Returned
  <2>3. batch[b].expiry > now
    BY <1>1, <2>1 DEF Returned
  <2> QED BY <2>2, <2>3
<1>5. CASE \E n \in Deliveries, expiry \in ShelfLife, breach \in BOOLEAN : RecordIntake(b, n, expiry, breach)
  <2>1. PICK n \in Deliveries, expiry \in ShelfLife, breach \in BOOLEAN : RecordIntake(b, n, expiry, breach)
    BY <1>5
  <2>2. expiry \in Nat /\ expiry > now
    BY <2>1, IntakeAssumption DEF RecordIntake
  <2>3. CASE batch[b].status = "none"
    <3>1. batch'[b] = Created(n, expiry, breach)
      BY <2>1, <2>3 DEF RecordIntake, HubInvariant, Stocked
    <3> QED BY <2>2, <3>1 DEF Created
  <2>4. CASE batch[b].status # "none"
    <3>1. batch'[b] = Merged(batch[b], n, expiry) /\ batch[b].expiry > now /\ batch[b].expiry \in Nat
      BY <1>1, <2>1, <2>4 DEF RecordIntake, HubInvariant, Stocked
    <3>2. batch'[b].expiry = Min({expiry, batch[b].expiry})
      BY <3>1 DEF Merged
    <3>3. expiry =< batch[b].expiry \/ batch[b].expiry =< expiry
      BY <2>2, <3>1
    <3>4. Min({expiry, batch[b].expiry}) \in {expiry, batch[b].expiry}
      BY <2>2, <3>1, <3>3, MinIs
    <3> QED BY <2>2, <3>1, <3>2, <3>4
  <2> QED BY <2>3, <2>4
<1>6. CASE \E status \in Statuses : SetStatus(b, status)
  <2>1. PICK status \in Statuses : SetStatus(b, status)
    BY <1>6
  <2>2. batch'[b] = [batch[b] EXCEPT !.status = status]
    BY <2>1 DEF SetStatus, HubInvariant, Stocked
  <2>3. status = "available" /\ batch'[b].expiry = batch[b].expiry
    BY <1>1, <2>2
  <2> QED BY <2>1, <2>3 DEF SetStatus
<1>7. \/ \E l \in Lines : Allocate(l) /\ batch'[b] = Emptied(batch[b], Takes(l)[b])
      \/ \E l \in Lines : CancelLine(l)
      \/ \E n \in Deliveries, expiry \in ShelfLife, breach \in BOOLEAN : RecordIntake(b, n, expiry, breach)
      \/ \E status \in Statuses : SetStatus(b, status)
  <2>1. CASE \E l \in Lines : ReadBatches(l) \/ Allocate(l) \/ CancelLine(l)
    <3>1. PICK l \in Lines : ReadBatches(l) \/ Allocate(l) \/ CancelLine(l)
      BY <2>1
    <3>2. CASE ReadBatches(l)
      BY <1>2, <3>2 DEF ReadBatches
    <3>3. CASE Allocate(l)
      BY <1>2, <3>3 DEF Allocate
    <3> QED BY <3>1, <3>2, <3>3
  <2>2. CASE \E a \in Batches, n \in Deliveries, expiry \in ShelfLife, breach \in BOOLEAN :
               RecordIntake(a, n, expiry, breach)
    <3>1. PICK a \in Batches, n \in Deliveries, expiry \in ShelfLife, breach \in BOOLEAN :
               RecordIntake(a, n, expiry, breach)
      BY <2>2
    <3>2. \E row : batch' = [batch EXCEPT ![a] = row]
      BY <3>1 DEF RecordIntake
    <3>3. a = b
      BY <1>2, <3>2 DEF HubInvariant, Stocked
    <3> QED BY <3>1, <3>3
  <2>3. CASE \E a \in Batches, status \in Statuses \ {"none"} : SetStatus(a, status)
    BY <1>2, <2>3 DEF SetStatus, HubInvariant, Stocked
  <2>4. CASE ExpireStaleBatches
    <3>1. batch'[b] = batch[b]
      BY <2>4 DEF ExpireStaleBatches
    <3> QED BY <1>2, <3>1
  <2>5. CASE Tick \/ UNCHANGED vars
    BY <1>2, <2>5 DEF Tick, vars
  <2> QED BY <2>1, <2>2, <2>3, <2>4, <2>5 DEF Next
<1> QED BY <1>3, <1>4, <1>5, <1>6, <1>7

(* The part of StaleIsTakenDown that says what no step may do; that what stands on sale
   past its date is taken down in the end is the models' to check. *)
THEOREM NothingStaleGoesOnSale ==
  Spec => [][\A b \in Batches : batch'[b].status = "available" /\ batch[b].status # "available"
                                  => batch'[b].expiry > now]_vars
<1>1. HubInvariant /\ [Next]_vars
        => [\A b \in Batches : batch'[b].status = "available" /\ batch[b].status # "available"
                                 => batch'[b].expiry > now]_vars
  BY StaleIsNotSold
<1> QED BY <1>1, HubBegins, HubStep, PTL DEF Spec
=================================================================================
