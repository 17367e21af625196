------------------------------- MODULE RiderJobs -------------------------------
(* The rider jobs of many orders and the riders who share them: the pool, the
   dispatcher, claims, the limits on jobs and cash, duty and suspension, and the
   rider ledger.

   The dispatcher and a rider's claim read riders and jobs, and commit later under
   the rider's row lock: each is a Begin... step that keeps in call[c] what was
   read and a step of its own that commits, or gives up. The stale reads of the
   order itself are OrderLifecycle's subject: here cancels, admin steps and the
   rider's moves are one step each, and an order is only as detailed as its rider
   job sees it. How far a kitchen is with the food is left open. *)
EXTENDS Integers, FiniteSets, Functions

CONSTANTS Riders, Jobs, Slots, Nobody,
          Amount,       \* the total of each job's order
          PlacedPaying, \* how each order is to be paid when it is placed
          Fee,          \* a rider's pay for a job, route bonus included
          DefaultLimit, \* cashLimit of a rider no admin set one for
          Limits,       \* limits an admin may set
          Sums,         \* amounts an admin may record
          Corrections,  \* signed amounts an admin may correct a ledger by
          Dispatchers,  \* dispatcher runs that can be under way at once
          Claims,       \* claims that can be under way at once
          Happens,      \* which of the optional events happen
          MaxChanges    \* bound: changes of a rider's standing or limit, corrections

Events == {"release", "fail", "retry", "cancel", "adminDeliver", "cash", "pay",
           "duty", "limit", "suspendRider", "suspendUser", "reactivate",
           "settle", "payout", "correct"}

ASSUME RiderAssumption  == Nobody \notin Riders
ASSUME SlotAssumption   == Slots \in Nat
ASSUME FiniteAssumption == IsFiniteSet(Jobs)
ASSUME AmountAssumption == Amount \in [Jobs -> Nat] /\ Fee \in Nat
ASSUME PayingAssumption == PlacedPaying \in [Jobs -> {"cash", "unpaid"}]
ASSUME LimitAssumption  == DefaultLimit \in Nat /\ Limits \subseteq Nat
ASSUME SumAssumption    == Sums \subseteq Nat \ {0} /\ Corrections \subseteq Int
ASSUME EventAssumption  == Happens \subseteq Events
ASSUME CallerAssumption == Dispatchers \intersect Claims = {}
ASSUME BoundAssumption  == MaxChanges \in Nat

Callers == Dispatchers \union Claims

VARIABLES
  job,      \* the Delivery rows: status, riderId, releasedRiderIds
  order,    \* what a job sees of its order: live, failed, delivered, cancelled
  payment,  \* "cash" to take at the door, "unpaid" by another method, "paid"
  rider,    \* the Rider rows: isAvailable, status, cashLimit
  entry,    \* the ledger entries of each delivery: whose they are, and the cash
  desk,     \* what admins recorded: cash handed in, pay paid out, corrections
  call,     \* what each dispatcher run and claim under way has read
  ceiling,  \* history: the highest limit each rider has had
  switched, \* history: some order was put on cash after it was placed
  changes   \* changes of riders so far

recordVars == <<entry, desk>>
boundVars  == <<ceiling, switched, changes>>
vars == <<job, order, payment, rider, recordVars, call, boundVars>>

(* BEFORE_PICKUP_STATUSES are "assigned" here, ON_THE_WAY_STATUSES "carried". *)
JobStatuses == {"none", "pending", "assigned", "carried", "delivered",
                "delivery_failed", "cancelled"}

Active == {"assigned", "carried"}

Idle == [job |-> Nobody, rider |-> Nobody, cash |-> FALSE, limit |-> 0]

Init ==
  /\ job = [j \in Jobs |-> [status |-> "none", rider |-> Nobody, released |-> {}]]
  /\ order = [j \in Jobs |-> "live"]
  /\ payment = PlacedPaying
  /\ rider = [r \in Riders |-> [onDuty |-> TRUE, active |-> TRUE,
                                limit |-> DefaultLimit]]
  /\ entry = [j \in Jobs |-> [to |-> Nobody, cash |-> 0]]
  /\ desk = [r \in Riders |-> [handedIn |-> 0, paidOut |-> 0, corrected |-> 0]]
  /\ call = [c \in Callers |-> Idle]
  /\ ceiling = [r \in Riders |-> DefaultLimit]
  /\ switched = FALSE
  /\ changes = 0

-----------------------------------------------------------------------------
(* A rider's jobs and money, as the handlers compute them. *)

ActiveJobs(r) == {j \in Jobs : job[j].rider = r /\ job[j].status \in Active}

CashAtDoor(j) == payment[j] = "cash"

Total(S) == SumFunctionOnSet(Amount, S)

CashToCollect(r) == Total({j \in ActiveJobs(r) : CashAtDoor(j)})

EntriesOf(r) == {j \in Jobs : entry[j].to = r}

CashCollected(r) ==
  SumFunctionOnSet([j \in Jobs |-> entry[j].cash], EntriesOf(r))

(* riderMoney: cash held, pay not yet paid, and what the platform owes. *)
CashHeld(r) == CashCollected(r) - desk[r].handedIn
Unpaid(r)   == Fee * Cardinality(EntriesOf(r)) + desk[r].corrected - desk[r].paidOut
Balance(r)  == Unpaid(r) - CashHeld(r)

(* The cash a rider holds or is due to take at the doors ahead. *)
CashCommitted(r) == CashHeld(r) + CashToCollect(r)

HasRoom(r) == Cardinality(ActiveJobs(r)) < Slots

Within_Held(r, j, limit) ==   \* slip: the doors ahead are forgotten
  CashHeld(r) + Amount[j] <= limit

Within(r, j, limit) == CashCommitted(r) + Amount[j] <= limit

Open(j) == job[j].status = "pending" /\ job[j].rider = Nobody

-----------------------------------------------------------------------------
(* The pool. *)

(* ensureDeliveryForOrder: an order that goes somewhere gets a job, once. *)
PostJob(j) ==
  /\ job[j].status = "none" /\ order[j] \in {"live", "failed"}
  /\ job' = [job EXCEPT ![j].status = "pending"]
  /\ UNCHANGED <<order, payment, rider, recordVars, call, boundVars>>

OnDuty(r) == rider[r].onDuty /\ rider[r].active

(* chooseRider passes over riders off duty, without a slot, past their limit, or
   who handed the job back. Which of the others is best depends on places and on
   the day's deliveries. *)
Candidate(r, j) ==
  /\ OnDuty(r) /\ r \notin job[j].released
  /\ HasRoom(r)
  /\ CashAtDoor(j) => Within(r, j, rider[r].limit)

(* dispatchDelivery up to its choice: nothing is locked. *)
BeginDispatch(c, r, j) ==
  /\ call[c] = Idle
  /\ Open(j) /\ order[j] \in {"live", "failed"}
  /\ Candidate(r, j)
  /\ call' = [call EXCEPT ![c] = [Idle EXCEPT !.job = j, !.rider = r,
                                              !.cash = CashAtDoor(j)]]
  /\ UNCHANGED <<job, order, payment, rider, recordVars, boundVars>>

Return(c) == call' = [call EXCEPT ![c] = Idle]

MayAssign_AsChosen(k) ==   \* slip: the rider's jobs are not counted again
  /\ OnDuty(k.rider) /\ Open(k.job)
  /\ k.cash => Within(k.rider, k.job, rider[k.rider].limit)

MayAssign_AnyOrder(k) ==   \* slip: the cash limit is applied to paid orders too
  /\ OnDuty(k.rider) /\ HasRoom(k.rider) /\ Open(k.job)
  /\ Within(k.rider, k.job, rider[k.rider].limit)

(* Its transaction repeats the rider's part of the choice, and the cash part if
   the order was cash when the job was read. Not the order's, nor who handed the
   job back. *)
MayAssign(k) ==
  /\ OnDuty(k.rider) /\ HasRoom(k.rider)
  /\ k.cash => Within(k.rider, k.job, rider[k.rider].limit)
  /\ Open(k.job)

GiveTo(r, j) ==
  job' = [job EXCEPT ![j].status = "assigned", ![j].rider = r]

AssignJob(c) ==
  /\ call[c] # Idle
  /\ IF MayAssign(call[c]) THEN GiveTo(call[c].rider, call[c].job)
                           ELSE UNCHANGED job
  /\ Return(c)
  /\ UNCHANGED <<order, payment, rider, recordVars, boundVars>>

(* claimDelivery up to its transaction: the rider's standing, duty and limit are
   read here and not again. A rider may claim a job they handed back. *)
BeginClaim(c, r, j) ==
  /\ call[c] = Idle
  /\ OnDuty(r) /\ job[j].status = "pending"
  /\ call' = [call EXCEPT ![c] = [Idle EXCEPT !.job = j, !.rider = r,
                                              !.limit = rider[r].limit]]
  /\ UNCHANGED <<job, order, payment, rider, recordVars, boundVars>>

MayClaim(k) ==
  /\ HasRoom(k.rider)
  /\ order[k.job] \in {"live", "failed"}
  /\ CashAtDoor(k.job) => Within(k.rider, k.job, k.limit)
  /\ Open(k.job)

ClaimJob(c) ==
  /\ call[c] # Idle
  /\ IF MayClaim(call[c]) THEN GiveTo(call[c].rider, call[c].job)
                          ELSE UNCHANGED job
  /\ Return(c)
  /\ UNCHANGED <<order, payment, rider, recordVars, boundVars>>

Reopened_Held(row) == [row EXCEPT !.status = "pending"]   \* slip: no reset

(* reopenDeliveryData: back to the pool, remembering who had it. *)
Reopened(row) ==
  [status |-> "pending", rider |-> Nobody,
   released |-> row.released \union ({row.rider} \ {Nobody})]

(* releaseDelivery. *)
ReleaseJob(j) ==
  /\ "release" \in Happens
  /\ job[j].status = "assigned" /\ rider[job[j].rider].active
  /\ job' = [job EXCEPT ![j] = Reopened(job[j])]
  /\ UNCHANGED <<order, payment, rider, recordVars, call, boundVars>>

-----------------------------------------------------------------------------
(* The way of a job. *)

(* postDeliveryEntries: once per delivery; cash only if it was taken. *)
PostEntries(j, cash) ==
  entry' = [entry EXCEPT ![j] =
              IF entry[j].to = Nobody THEN [to |-> job[j].rider, cash |-> cash]
              ELSE entry[j]]

DoorCash(j) == IF CashAtDoor(j) THEN Amount[j] ELSE 0

(* updateDeliveryStatus by the rider, who must not be suspended. *)
PickUp(j) ==
  /\ job[j].status = "assigned" /\ rider[job[j].rider].active
  /\ order[j] = "live"
  /\ job' = [job EXCEPT ![j].status = "carried"]
  /\ UNCHANGED <<order, payment, rider, recordVars, call, boundVars>>

FinishJob_Unpaid(j) ==   \* slip: the rider's pay is posted with the cash only
  /\ job' = [job EXCEPT ![j].status = "delivered"]
  /\ order' = [order EXCEPT ![j] = "delivered"]
  /\ payment' = [payment EXCEPT ![j] = IF CashAtDoor(j) THEN "paid" ELSE @]
  /\ IF CashAtDoor(j) THEN PostEntries(j, Amount[j]) ELSE UNCHANGED entry

FinishJob(j) ==
  /\ job' = [job EXCEPT ![j].status = "delivered"]
  /\ order' = [order EXCEPT ![j] = "delivered"]
  /\ payment' = [payment EXCEPT ![j] = IF CashAtDoor(j) THEN "paid" ELSE @]
  /\ PostEntries(j, DoorCash(j))

DeliverJob(j) ==
  /\ job[j].status = "carried" /\ rider[job[j].rider].active
  /\ order[j] # "cancelled"
  /\ FinishJob(j)
  /\ UNCHANGED <<rider, desk, call, boundVars>>

(* At the kitchen a delivery can fail once there is food. *)
FailJob(j) ==
  /\ "fail" \in Happens
  /\ job[j].status \in Active /\ rider[job[j].rider].active
  /\ \/ order[j] = "live"
     \/ job[j].status = "carried" /\ order[j] # "cancelled"
  /\ job' = [job EXCEPT ![j].status = "delivery_failed"]
  /\ order' = [order EXCEPT ![j] = "failed"]
  /\ UNCHANGED <<payment, rider, recordVars, call, boundVars>>

-----------------------------------------------------------------------------
(* What happens to the order meanwhile. *)

(* Every path that calls an order off closes its job with it; the kitchen's
   cancel of its items does not ask whether the food is out. *)
CancelOrder(j) ==
  /\ "cancel" \in Happens
  /\ order[j] \in {"live", "failed"}
  /\ order' = [order EXCEPT ![j] = "cancelled"]
  /\ job' = [job EXCEPT ![j].status =
               IF @ \in {"none", "delivered"} THEN @ ELSE "cancelled"]
  /\ UNCHANGED <<payment, rider, recordVars, call, boundVars>>

(* An admin records the delivery: a job a rider holds is finished for them. *)
AdminDeliver(j) ==
  /\ "adminDeliver" \in Happens
  /\ order[j] = "live"
  /\ IF job[j].status \in Active
     THEN FinishJob(j)
     ELSE /\ order' = [order EXCEPT ![j] = "delivered"]
          /\ payment' = [payment EXCEPT ![j] = IF CashAtDoor(j) THEN "paid" ELSE @]
          /\ UNCHANGED <<job, entry>>
  /\ UNCHANGED <<rider, desk, call, boundVars>>

(* An admin records a failure: the job stays with its rider. *)
AdminFail(j) ==
  /\ "fail" \in Happens
  /\ order[j] = "live"
  /\ order' = [order EXCEPT ![j] = "failed"]
  /\ UNCHANGED <<job, payment, rider, recordVars, call, boundVars>>

(* retryDelivery reopens the job whoever has it. *)
RetryDelivery(j) ==
  /\ "retry" \in Happens
  /\ order[j] = "failed"
  /\ order' = [order EXCEPT ![j] = "live"]
  /\ job' = [job EXCEPT ![j] = IF @.status = "none" THEN @ ELSE Reopened(@)]
  /\ UNCHANGED <<payment, rider, recordVars, call, boundVars>>

(* The customer changes to cash, or pays before the delivery. *)
ChooseCash(j) ==
  /\ "cash" \in Happens
  /\ payment[j] = "unpaid" /\ order[j] # "cancelled"
  /\ payment' = [payment EXCEPT ![j] = "cash"]
  /\ switched' = TRUE
  /\ UNCHANGED <<job, order, rider, recordVars, call, ceiling, changes>>

PayAhead(j) ==
  /\ "pay" \in Happens
  /\ payment[j] # "paid" /\ order[j] # "cancelled"
  /\ payment' = [payment EXCEPT ![j] = "paid"]
  /\ UNCHANGED <<job, order, rider, recordVars, call, boundVars>>

-----------------------------------------------------------------------------
(* The riders. *)

Change(event) ==
  /\ event \in Happens /\ changes < MaxChanges
  /\ changes' = changes + 1
  /\ UNCHANGED <<order, payment, entry, call, switched>>

(* toggleDutyStatus. *)
SwitchDuty(r) ==
  /\ Change("duty")
  /\ rider[r].active
  /\ rider' = [rider EXCEPT ![r].onDuty = ~@]
  /\ UNCHANGED <<job, desk, ceiling>>

SetLimit(r, limit) ==
  /\ Change("limit")
  /\ rider' = [rider EXCEPT ![r].limit = limit]
  /\ ceiling' = [ceiling EXCEPT ![r] = IF limit > @ THEN limit ELSE @]
  /\ UNCHANGED <<job, desk>>

(* setRiderStatus: jobs not picked up go back to the pool, under the rider's row
   lock. *)
SuspendRider(r) ==
  /\ Change("suspendRider")
  /\ rider' = [rider EXCEPT ![r].active = FALSE, ![r].onDuty = FALSE]
  /\ job' = [j \in Jobs |->
               IF job[j].rider = r /\ job[j].status = "assigned"
               THEN Reopened(job[j]) ELSE job[j]]
  /\ UNCHANGED <<desk, ceiling>>

(* setUserStatus: the whole account, which leaves duty and jobs as they are. *)
SuspendUser(r) ==
  /\ Change("suspendUser")
  /\ rider' = [rider EXCEPT ![r].active = FALSE]
  /\ UNCHANGED <<job, desk, ceiling>>

Reactivate(r) ==
  /\ Change("reactivate")
  /\ rider' = [rider EXCEPT ![r].active = TRUE]
  /\ UNCHANGED <<job, desk, ceiling>>

Record(r, handedIn, paidOut) ==
  desk' = [desk EXCEPT ![r].handedIn = @ + handedIn, ![r].paidOut = @ + paidOut]

MayKeep_FromCash(r, kept) == kept <= CashHeld(r)   \* slip: pay is not looked at

MayKeep(r, kept) == kept = 0 \/ kept <= Unpaid(r)

(* recordSettlement: cash handed in, and pay kept from the cash held. *)
SettleUp(r, handedIn, kept) ==
  /\ "settle" \in Happens
  /\ handedIn + kept > 0 /\ handedIn + kept <= CashHeld(r)
  /\ MayKeep(r, kept)
  /\ Record(r, handedIn + kept, kept)
  /\ UNCHANGED <<job, order, payment, rider, entry, call, boundVars>>

RecordPayout(r, amount) ==
  /\ "payout" \in Happens
  /\ amount > 0 /\ amount <= Balance(r)
  /\ Record(r, 0, amount)
  /\ UNCHANGED <<job, order, payment, rider, entry, call, boundVars>>

RecordAdjustment(r, amount) ==
  /\ Change("correct")
  /\ desk' = [desk EXCEPT ![r].corrected = @ + amount]
  /\ UNCHANGED <<job, rider, ceiling>>

-----------------------------------------------------------------------------
JobStep(j) ==
  \/ PostJob(j)
  \/ ReleaseJob(j)
  \/ PickUp(j)
  \/ DeliverJob(j)
  \/ FailJob(j)
  \/ CancelOrder(j)
  \/ AdminDeliver(j)
  \/ AdminFail(j)
  \/ RetryDelivery(j)
  \/ ChooseCash(j)
  \/ PayAhead(j)

RiderStep(r) ==
  \/ SwitchDuty(r)
  \/ \E limit \in Limits : SetLimit(r, limit)
  \/ SuspendRider(r)
  \/ SuspendUser(r)
  \/ Reactivate(r)
  \/ \E handedIn, kept \in Sums \union {0} : SettleUp(r, handedIn, kept)
  \/ \E amount \in Sums : RecordPayout(r, amount)
  \/ \E amount \in Corrections : RecordAdjustment(r, amount)

Dispatch(j) == \E c \in Dispatchers, r \in Riders : BeginDispatch(c, r, j)

Next ==
  \/ \E j \in Jobs : JobStep(j) \/ Dispatch(j)
  \/ \E c \in Dispatchers : AssignJob(c)
  \/ \E c \in Claims, r \in Riders, j \in Jobs : BeginClaim(c, r, j)
  \/ \E c \in Claims : ClaimJob(c)
  \/ \E r \in Riders : RiderStep(r)

Spec == Init /\ [][Next]_vars

(* Every minute the dispatcher tries each job in the pool, and what it began it
   ends. No rider, customer or admin is obliged to act. *)
Fairness ==
  /\ \A j \in Jobs : SF_vars(Dispatch(j))
  /\ \A c \in Dispatchers : WF_vars(AssignJob(c))

FairSpec == Spec /\ Fairness
=============================================================================
