---------------------------- MODULE RiderProperties ----------------------------
(* What the pool, the dispatcher, the claims and the rider ledger promise together,
   and a promise of the documents they do not keep. *)
EXTENDS RiderJobs

Rows == [status : JobStatuses, rider : Riders \union {Nobody},
         released : SUBSET Riders]

(* The rows have their types, and a job has a rider exactly from the claim on. *)
JobsTyped ==
  /\ job \in [Jobs -> Rows]
  /\ \A j \in Jobs :
       /\ job[j].status \in {"none", "pending"} => job[j].rider = Nobody
       /\ job[j].status \in Active \union {"delivered", "delivery_failed"}
            => job[j].rider \in Riders

TypeOK ==
  /\ JobsTyped
  /\ order \in [Jobs -> {"live", "failed", "delivered", "cancelled"}]
  /\ payment \in [Jobs -> {"cash", "unpaid", "paid"}]
  /\ rider \in [Riders -> [onDuty : BOOLEAN, active : BOOLEAN, limit : Nat]]
  /\ entry \in [Jobs -> [to : Riders \union {Nobody}, cash : Nat]]
  /\ desk \in [Riders -> [handedIn : Nat, paidOut : Nat, corrected : Int]]
  /\ call \in [Callers -> [job : Jobs \union {Nobody}, rider : Riders \union {Nobody},
                           cash : BOOLEAN, limit : Nat]]
  /\ ceiling \in [Riders -> Nat]
  /\ switched \in BOOLEAN
  /\ changes \in 0 .. MaxChanges

-----------------------------------------------------------------------------
(* Claims and assignments that race, releases, suspensions and retries never give
   a job to a second rider while the first has it, nor a rider more jobs than
   there are slots: the jobs refine the board of RiderSlots. *)
Holder == [j \in Jobs |-> IF job[j].status \in Active THEN job[j].rider ELSE Nobody]

Board == INSTANCE RiderSlots WITH holder <- Holder

KeepsTheBoard == Board!Spec

(* The cash a rider holds, with what they are still to take at the door, stays
   within the highest limit they have had, whatever is claimed, assigned,
   delivered or reopened, and however the limit moves meanwhile. Only
   a customer's change to cash after the job was given away can pass it. *)
CashWithinLimit ==
  ~switched => \A r \in Riders : CashCommitted(r) <= ceiling[r]

(* Each delivery is paid once, to the rider who has it when it ends, whether the
   rider or an admin records it, after any number of riders had it before. *)
DeliveryIsPaid ==
  \A j \in Jobs : entry[j].to = IF job[j].status = "delivered" THEN job[j].rider
                                ELSE Nobody

(* Nothing an admin records turns a rider's books round: no more cash is taken
   off a rider than they collected, and no more pay is sent or kept than they
   earned, although pay kept from cash is both at once. *)
BooksStayEven ==
  Corrections \subseteq Nat =>
    \A r \in Riders : CashHeld(r) >= 0 /\ Unpaid(r) >= 0

(* Once riders, customers, kitchens and admins pause, whatever went before, the
   dispatcher empties the pool: no job stays in it that some rider on duty has a
   slot and the cash limit for and has not handed back. *)
CouldTake(r, j) ==
  /\ rider[r].onDuty /\ rider[r].active
  /\ r \notin job[j].released
  /\ Cardinality(ActiveJobs(r)) < Slots
  /\ payment[j] = "cash" => CashCommitted(r) + Amount[j] <= rider[r].limit

Waiting(j) == /\ job[j].status = "pending" /\ order[j] \in {"live", "failed"}
              /\ \E r \in Riders : CouldTake(r, j)

DispatcherActs == \/ \E j \in Jobs : Dispatch(j)
                  \/ \E c \in Dispatchers : AssignJob(c)

PoolIsEmptied ==
  <>[][DispatcherActs]_vars => \A j \in Jobs : []<>~Waiting(j)

-----------------------------------------------------------------------------
(* "Jobs they have not picked up yet go back to the pool" (ADMIN_GUIDE.md:112): a
   rider an admin suspended is not left with a job to pick up. *)
SuspendedHasNoPickup ==
  \A j \in Jobs : job[j].status = "assigned" => rider[job[j].rider].active
=============================================================================
