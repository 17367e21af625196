------------------------------- MODULE HubStock -------------------------------
(* One product at one hub: the batches received, the order lines that take units
   from them first-expired-first-out, what a cancel puts back, and what the hub's
   staff and the expiry sweep do to a batch meanwhile.

   An allocation reads the sellable batches in order, waits for their row locks and
   looks at each row again before it takes from it. PostgreSQL keeps the order of
   the first reading and leaves out a row that no longer matches; rows that began
   to match meanwhile are not seen. *)
EXTENDS Integers, FiniteSets, FiniteSetsExt, Functions

CONSTANTS Lines,      \* order lines of this product fulfilled by this hub
          Want,       \* the units each line asks for
          LastBatch,  \* bound: batches a hub may open, numbered as they come
          Deliveries, \* sizes of the deliveries a hub may take in
          ShelfLife,  \* expiry dates a delivery may carry
          MinLife,    \* HUB_MIN_SHELF_LIFE_MS, in ticks
          MaxTime,    \* bound: ticks
          MaxIntakes  \* bound: deliveries taken in

ASSUME LineAssumption  == IsFiniteSet(Lines) /\ Want \in [Lines -> Nat \ {0}]
ASSUME BatchAssumption == LastBatch \in Nat
ASSUME IntakeAssumption == Deliveries \subseteq Nat \ {0} /\ ShelfLife \subseteq Nat
ASSUME TimeAssumption  == MinLife \in Nat /\ MaxTime \in Nat /\ MaxIntakes \in Nat

Batches == 1..LastBatch

VARIABLES
  batch,    \* the hub_inventory rows
  line,     \* "new", "reading", "placed", "refused", "cancelled"
  read,     \* the expiry dates each allocation under way has read
  taken,    \* unreleased HubBatchAllocation units of each line and batch
  now,      \* the clock
  intakes,  \* deliveries taken in so far
  received, \* history: units ever received into each batch
  off       \* history: batches with stock that staff took off sale

vars == <<batch, line, read, taken, now, intakes, received, off>>

Statuses == {"none", "available", "reserved", "damaged", "expired"}

Nothing == [b \in Batches |-> 0]
Unread  == [b \in {} |-> 0]

Init ==
  /\ batch = [b \in Batches |-> [status |-> "none", quantity |-> 0, expiry |-> 0]]
  /\ line = [l \in Lines |-> "new"]
  /\ read = [l \in Lines |-> Unread]
  /\ taken = [l \in Lines |-> Nothing]
  /\ now = 0
  /\ intakes = 0
  /\ received = Nothing
  /\ off = {}

AtLeastZero(n) == IF n > 0 THEN n ELSE 0

-----------------------------------------------------------------------------
(* Orders. *)

Sellable(b) ==
  /\ batch[b].status = "available"
  /\ batch[b].quantity > 0
  /\ batch[b].expiry > now + MinLife

(* allocateHubStock up to its row locks. *)
ReadBatches(l) ==
  /\ line[l] = "new"
  /\ line' = [line EXCEPT ![l] = "reading"]
  /\ read' = [read EXCEPT ![l] = [b \in {c \in Batches : Sellable(c)} |-> batch[b].expiry]]
  /\ UNCHANGED <<batch, taken, now, intakes, received, off>>

FirstOut_Newest(seen, a, b) == a > b   \* slip: the newest delivery goes first

FirstOut(seen, a, b) == seen[a] < seen[b] \/ (seen[a] = seen[b] /\ a < b)

Found(l) == {b \in DOMAIN read[l] : Sellable(b)}

InFront(l, b) == {a \in Found(l) : FirstOut(read[l], a, b)}

(* What line l takes from batch b: what it still needs after the batches that go
   out before it. *)
Take(l, b) ==
  IF b \notin Found(l) THEN 0
  ELSE LET ahead == SumFunctionOnSet([a \in Batches |-> batch[a].quantity], InFront(l, b))
       IN  Min({batch[b].quantity, AtLeastZero(Want[l] - ahead)})

Takes(l) == [b \in Batches |-> Take(l, b)]

(* An emptied batch is marked reserved. *)
Emptied(row, n) ==
  [row EXCEPT !.quantity = @ - n,
              !.status = IF n = row.quantity /\ n > 0 THEN "reserved" ELSE @]

Allocate_Short(l) ==   \* slip: the order is placed with the units there are
  /\ line[l] = "reading"
  /\ batch' = [b \in Batches |-> Emptied(batch[b], Takes(l)[b])]
  /\ taken' = [taken EXCEPT ![l] = Takes(l)]
  /\ line' = [line EXCEPT ![l] = "placed"]
  /\ read' = [read EXCEPT ![l] = Unread]
  /\ UNCHANGED <<now, intakes, received, off>>

(* The rest of it, under the locks: all the units, or the order is rolled back. *)
Allocate(l) ==
  /\ line[l] = "reading"
  /\ IF SumFunction(Takes(l)) = Want[l]
     THEN /\ batch' = [b \in Batches |-> Emptied(batch[b], Takes(l)[b])]
          /\ taken' = [taken EXCEPT ![l] = Takes(l)]
          /\ line' = [line EXCEPT ![l] = "placed"]
     ELSE /\ line' = [line EXCEPT ![l] = "refused"]
          /\ UNCHANGED <<batch, taken>>
  /\ read' = [read EXCEPT ![l] = Unread]
  /\ UNCHANGED <<now, intakes, received, off>>

Returned_Reopened(row, n) ==   \* slip: whatever gets units back goes on sale
  [row EXCEPT !.quantity = @ + n,
              !.status = IF n > 0 /\ @ = "reserved" THEN "available" ELSE @]

Returned_Stale(row, n) ==   \* slip: the dates are not looked at
  [row EXCEPT !.quantity = @ + n,
              !.status = IF n > 0 /\ row.quantity = 0 /\ @ = "reserved"
                         THEN "available" ELSE @]

(* Only a batch the allocations emptied is reopened, and only in date. *)
Returned(row, n) ==
  [row EXCEPT !.quantity = @ + n,
              !.status = IF /\ n > 0 /\ row.quantity = 0 /\ @ = "reserved"
                            /\ row.expiry > now
                         THEN "available" ELSE @]

(* releaseHubAllocations, with the cancel that calls it: the cancel of the order
   or of the item claims the line once. *)
CancelLine(l) ==
  /\ line[l] = "placed"
  /\ line' = [line EXCEPT ![l] = "cancelled"]
  /\ batch' = [b \in Batches |-> Returned(batch[b], taken[l][b])]
  /\ taken' = [taken EXCEPT ![l] = Nothing]
  /\ UNCHANGED <<read, now, intakes, received, off>>

-----------------------------------------------------------------------------
(* The hub. *)

(* recordBatchIntake into a batch there is: a good delivery reopens an emptied
   batch only; a quarantined or held one stays as it is. *)
Merged(row, n, expiry) ==
  [status   |-> IF row.status = "damaged" \/ (row.status = "reserved" /\ row.quantity > 0)
                THEN row.status ELSE "available",
   quantity |-> row.quantity + n,
   expiry   |-> Min({expiry, row.expiry})]

Created(n, expiry, breach) ==
  [status |-> IF breach THEN "damaged" ELSE "available", quantity |-> n, expiry |-> expiry]

NextNumber(b) == batch[b].status = "none" /\ \A a \in 1..(b - 1) : batch[a].status # "none"

(* A delivery over -18 degrees is kept apart under a number of its own. *)
RecordIntake(b, n, expiry, breach) ==
  /\ intakes < MaxIntakes
  /\ expiry > now
  /\ IF batch[b].status = "none"
     THEN /\ NextNumber(b)
          /\ batch' = [batch EXCEPT ![b] = Created(n, expiry, breach)]
          /\ off' = IF breach THEN off \union {b} ELSE off
     ELSE /\ batch[b].status # "expired" /\ batch[b].expiry > now
          /\ ~breach
          /\ batch' = [batch EXCEPT ![b] = Merged(@, n, expiry)]
          /\ UNCHANGED off
  /\ received' = [received EXCEPT ![b] = @ + n]
  /\ intakes' = intakes + 1
  /\ UNCHANGED <<line, read, taken, now>>

(* updateBatchStatus. A batch without stock that is held looks like one that was
   sold out: the next units to come back put it on sale. *)
SetStatus(b, status) ==
  /\ batch[b].status # "none"
  /\ status = "available" => batch[b].expiry > now
  /\ batch' = [batch EXCEPT ![b].status = status]
  /\ off' = IF status \in {"damaged", "reserved"} /\ batch[b].quantity > 0
            THEN off \union {b} ELSE off \ {b}
  /\ UNCHANGED <<line, read, taken, now, intakes, received>>

ExpireStaleBatches ==
  /\ \E b \in Batches : batch[b].status = "available" /\ batch[b].expiry <= now
  /\ batch' = [b \in Batches |->
                 IF batch[b].status = "available" /\ batch[b].expiry <= now
                 THEN [batch[b] EXCEPT !.status = "expired"] ELSE batch[b]]
  /\ UNCHANGED <<line, read, taken, now, intakes, received, off>>

(* A tick is hours: a transaction is over before it, or times out. *)
Tick ==
  /\ now < MaxTime
  /\ \A l \in Lines : line[l] # "reading"
  /\ now' = now + 1
  /\ UNCHANGED <<batch, line, read, taken, intakes, received, off>>

Next ==
  \/ \E l \in Lines : ReadBatches(l) \/ Allocate(l) \/ CancelLine(l)
  \/ \E b \in Batches, n \in Deliveries, expiry \in ShelfLife, breach \in BOOLEAN :
       RecordIntake(b, n, expiry, breach)
  \/ \E b \in Batches, status \in Statuses \ {"none"} : SetStatus(b, status)
  \/ ExpireStaleBatches
  \/ Tick

Spec == Init /\ [][Next]_vars /\ WF_vars(ExpireStaleBatches)

-----------------------------------------------------------------------------
(* However allocations, cancels and deliveries cross, no unit is sold twice, lost
   or returned twice: what is in a batch and what orders hold of it is what was
   received, and a placed line has all its units. *)
UnitsAreKept ==
  /\ \A b \in Batches :
       /\ batch[b].quantity >= 0
       /\ batch[b].quantity + SumFunctionOnSet([l \in Lines |-> taken[l][b]], Lines) = received[b]
  /\ \A l \in Lines : line[l] = "placed" => SumFunction(taken[l]) = Want[l]

(* Stock that failed the cold chain, or that staff took off sale, comes back on
   sale by their word only: no delivery, cancel or sweep releases it, and no order
   takes from it meanwhile. *)
OffSaleStays ==
  /\ [](\A b \in off : batch[b].status \in {"damaged", "reserved"})
  /\ [][\A b \in off \intersect off' : batch'[b].quantity >= batch[b].quantity]_vars

(* First-expired-first-out: an order leaves no sellable unit of a batch that went
   out first by the dates it read while it takes from a later one; and what is
   sold has its day of shelf life. *)
FirstExpiredFirst ==
  [][\A l \in Lines : line[l] = "reading" /\ line'[l] = "placed" =>
       \A b \in Batches : taken'[l][b] > 0 =>
         /\ batch[b].expiry > now + MinLife
         /\ \A a \in DOMAIN read[l] :
              Sellable(a) /\ read[l][a] < read[l][b] => batch'[a].quantity = 0]_vars

(* A batch past its date is put on sale by nothing, and what stands as on sale is
   taken down. *)
StaleIsTakenDown ==
  /\ [][\A b \in Batches : batch'[b].status = "available" /\ batch[b].status # "available"
                             => batch'[b].expiry > now]_vars
  /\ \A b \in Batches : batch[b].expiry <= now /\ batch[b].status = "available"
                          ~> batch[b].status # "available"
=============================================================================
