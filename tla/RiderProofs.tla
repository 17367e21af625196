------------------------------ MODULE RiderProofs ------------------------------
(* Proofs about RiderJobs, for any riders, jobs, slots, amounts and limits, and
   any number of dispatcher runs and claims under way. *)
EXTENDS RiderProperties, Sums

USE DEF JobStatuses, Active, Rows, Callers

(* What a dispatcher run or a claim under way has read is a job and a rider. *)
CallRows == [job : Jobs \union {Nobody}, rider : Riders \union {Nobody},
             cash : BOOLEAN, limit : Nat]

CallsTyped ==
  /\ call \in [Callers -> CallRows]
  /\ \A c \in Callers : call[c] # Idle => call[c].job \in Jobs /\ call[c].rider \in Riders

EntryRows == [to : Riders \union {Nobody}, cash : Nat]
DeskRows  == [handedIn : Nat, paidOut : Nat, corrected : Int]
RiderRows == [onDuty : BOOLEAN, active : BOOLEAN, limit : Nat]

(* The rest of TypeOK. *)
RestTyped ==
  /\ order \in [Jobs -> {"live", "failed", "delivered", "cancelled"}]
  /\ payment \in [Jobs -> {"cash", "unpaid", "paid"}]
  /\ rider \in [Riders -> RiderRows]
  /\ entry \in [Jobs -> EntryRows]
  /\ desk \in [Riders -> DeskRows]
  /\ ceiling \in [Riders -> Nat]
  /\ switched \in BOOLEAN
  /\ changes \in 0 .. MaxChanges

TypeInv == JobsTyped /\ CallsTyped /\ RestTyped

LEMMA TypeInvIsEnough == TypeInv => TypeOK
  BY DEF TypeInv, TypeOK, CallsTyped, RestTyped, CallRows, EntryRows, DeskRows, RiderRows

-----------------------------------------------------------------------------
(* The rows of the jobs. *)

(* A row as JobsTyped asks of each. *)
GoodRow(row) ==
  /\ row \in Rows
  /\ row.status \in {"none", "pending"} => row.rider = Nobody
  /\ row.status \in Active \union {"delivered", "delivery_failed"} => row.rider \in Riders

LEMMA RowsAreGood == JobsTyped <=> /\ job \in [Jobs -> Rows]
                                   /\ \A j \in Jobs : GoodRow(job[j])
  BY DEF JobsTyped, GoodRow

LEMMA SetRow ==
  ASSUME JobsTyped, NEW j \in Jobs, NEW row, GoodRow(row), job' = [job EXCEPT ![j] = row]
  PROVE  JobsTyped'
  BY DEF JobsTyped, GoodRow

(* A new status keeps a row good if its rider goes with it. *)
LEMMA SetStatus ==
  ASSUME JobsTyped, NEW j \in Jobs, NEW status \in JobStatuses,
         job' = [job EXCEPT ![j].status = status],
         \/ status \in {"none", "pending"} /\ job[j].rider = Nobody
         \/ status = "cancelled"
         \/ job[j].rider \in Riders /\ status \notin {"none", "pending"}
  PROVE  JobsTyped'
<1> DEFINE row == [job[j] EXCEPT !.status = status]
<1>1. GoodRow(row)
  BY DEF JobsTyped, GoodRow
<1>2. job' = [job EXCEPT ![j] = row]
  BY DEF JobsTyped
<1> QED
  BY <1>1, <1>2, SetRow

(* A row that goes back to the pool is good: it has no rider. *)
LEMMA ReopenedIsGood ==
  ASSUME JobsTyped, NEW j \in Jobs
  PROVE  GoodRow(Reopened(job[j]))
  BY RiderAssumption DEF JobsTyped, GoodRow, Reopened

LEMMA GiveToTyped ==
  ASSUME JobsTyped, NEW j \in Jobs, NEW r \in Riders, GiveTo(r, j)
  PROVE  JobsTyped'
<1> DEFINE row == [job[j] EXCEPT !.status = "assigned", !.rider = r]
<1>1. GoodRow(row)
  BY DEF JobsTyped, GoodRow
<1>2. job' = [job EXCEPT ![j] = row]
  BY DEF JobsTyped, GiveTo
<1> QED
  BY <1>1, <1>2, SetRow

-----------------------------------------------------------------------------
(* Every step keeps the jobs' rows. *)

LEMMA JobStepKeepsRows ==
  ASSUME JobsTyped, NEW j \in Jobs, JobStep(j)
  PROVE  JobsTyped'
<1>1. CASE UNCHANGED job
  BY <1>1 DEF JobsTyped
<1>2. CASE PostJob(j)
  BY <1>2, SetStatus DEF PostJob, JobsTyped
<1>3. CASE ReleaseJob(j)
  BY <1>3, ReopenedIsGood, SetRow DEF ReleaseJob
<1>4. CASE PickUp(j)
  BY <1>4, SetStatus DEF PickUp, JobsTyped
<1>5. ASSUME FinishJob(j), job[j].status \in Active PROVE JobsTyped'
  BY <1>5, SetStatus DEF FinishJob, JobsTyped
<1>6. CASE DeliverJob(j)
  BY <1>5, <1>6 DEF DeliverJob
<1>7. CASE FailJob(j)
  BY <1>7, SetStatus DEF FailJob, JobsTyped
<1>8. CASE CancelOrder(j)
  <2>1. CASE job[j].status \in {"none", "delivered"}
    <3>1. job' = [job EXCEPT ![j] = job[j]]
      BY <1>8, <2>1 DEF CancelOrder, JobsTyped
    <3> QED
      BY <3>1, RowsAreGood, SetRow
  <2>2. CASE job[j].status \notin {"none", "delivered"}
    BY <1>8, <2>2, SetStatus DEF CancelOrder, JobsTyped
  <2> QED
    BY <2>1, <2>2
<1>9. CASE AdminDeliver(j)
  BY <1>1, <1>5, <1>9 DEF AdminDeliver
<1>10. CASE RetryDelivery(j)
  <2>1. CASE job[j].status = "none"
    <3>1. job' = [job EXCEPT ![j] = job[j]]
      BY <1>10, <2>1 DEF RetryDelivery, JobsTyped
    <3> QED
      BY <3>1, RowsAreGood, SetRow
  <2>2. CASE job[j].status # "none"
    <3>1. job' = [job EXCEPT ![j] = Reopened(job[j])]
      BY <1>10, <2>2 DEF RetryDelivery, JobsTyped
    <3> QED
      BY <3>1, ReopenedIsGood, SetRow
  <2> QED
    BY <2>1, <2>2
<1> QED
  BY <1>1, <1>2, <1>3, <1>4, <1>6, <1>7, <1>8, <1>9, <1>10
  DEF JobStep, AdminFail, ChooseCash, PayAhead

(* What is committed for a call is the job and the rider it read. *)
LEMMA CommitKeepsRows ==
  ASSUME JobsTyped, CallsTyped, NEW c \in Callers, AssignJob(c) \/ ClaimJob(c)
  PROVE  JobsTyped'
<1>1. call[c].job \in Jobs /\ call[c].rider \in Riders
  BY DEF CallsTyped, AssignJob, ClaimJob
<1>2. GiveTo(call[c].rider, call[c].job) \/ UNCHANGED job
  BY DEF AssignJob, ClaimJob
<1> QED
  BY <1>1, <1>2, GiveToTyped DEF JobsTyped

LEMMA RiderStepKeepsRows ==
  ASSUME JobsTyped, NEW r \in Riders, RiderStep(r)
  PROVE  JobsTyped'
<1>1. CASE UNCHANGED job
  BY <1>1 DEF JobsTyped
<1>2. CASE SuspendRider(r)
  <2>1. ASSUME NEW j \in Jobs PROVE GoodRow(job'[j])
    BY <1>2, RowsAreGood, ReopenedIsGood DEF SuspendRider
  <2> QED
    BY <1>2, <2>1 DEF SuspendRider, GoodRow, JobsTyped
<1> QED
  BY <1>1, <1>2
  DEF RiderStep, SwitchDuty, SetLimit, SuspendUser, Reactivate, SettleUp,
      RecordPayout, RecordAdjustment

-----------------------------------------------------------------------------
(* Every step keeps the other types. *)

LEMMA BeginKeepsCalls ==
  ASSUME TypeInv, NEW c \in Callers, NEW r \in Riders, NEW j \in Jobs,
         BeginDispatch(c, r, j) \/ BeginClaim(c, r, j)
  PROVE  CallsTyped'
<1> DEFINE read == call'[c]
<1>1. /\ read \in CallRows
      /\ read.job \in Jobs /\ read.rider \in Riders
      /\ call' = [call EXCEPT ![c] = read]
  <2>1. rider[r].limit \in Nat
    BY DEF TypeInv, RestTyped, RiderRows
  <2>2. ASSUME NEW cash \in BOOLEAN, NEW limit \in Nat
        PROVE  [job |-> j, rider |-> r, cash |-> cash, limit |-> limit] \in CallRows
    BY DEF CallRows
  <2>3. CASE BeginDispatch(c, r, j)
    <3>1. read = [job |-> j, rider |-> r, cash |-> CashAtDoor(j), limit |-> 0]
      BY <2>3 DEF BeginDispatch, TypeInv, CallsTyped, Idle
    <3>2. read \in CallRows
      BY <2>2, <3>1 DEF CashAtDoor
    <3> QED
      BY <2>3, <3>1, <3>2 DEF BeginDispatch, TypeInv, CallsTyped
  <2>4. CASE BeginClaim(c, r, j)
    <3>1. read = [job |-> j, rider |-> r, cash |-> FALSE, limit |-> rider[r].limit]
      BY <2>4 DEF BeginClaim, TypeInv, CallsTyped, Idle
    <3> QED
      BY <2>1, <2>2, <2>4, <3>1 DEF BeginClaim, TypeInv, CallsTyped
  <2> QED
    BY <2>3, <2>4
<1> QED
  BY <1>1 DEF TypeInv, CallsTyped

LEMMA ReturnKeepsCalls ==
  ASSUME CallsTyped, NEW c \in Callers, Return(c)
  PROVE  CallsTyped'
<1>1. Idle \in CallRows
  BY DEF Idle, CallRows
<1> QED
  BY <1>1 DEF CallsTyped, Return

LEMMA FinishKeepsRest ==
  ASSUME JobsTyped, RestTyped, NEW j \in Jobs, job[j].status \in Active, FinishJob(j),
         UNCHANGED <<rider, desk, boundVars>>
  PROVE  RestTyped'
<1>1. [to |-> job[j].rider, cash |-> DoorCash(j)] \in EntryRows
  BY AmountAssumption DEF JobsTyped, EntryRows, DoorCash
<1>2. entry' \in [Jobs -> EntryRows]
  BY <1>1 DEF FinishJob, PostEntries, RestTyped
<1>3. /\ order' \in [Jobs -> {"live", "failed", "delivered", "cancelled"}]
      /\ payment' \in [Jobs -> {"cash", "unpaid", "paid"}]
  BY DEF FinishJob, RestTyped
<1> QED
  BY <1>2, <1>3 DEF RestTyped, boundVars

LEMMA JobStepKeepsRest ==
  ASSUME JobsTyped, RestTyped, NEW j \in Jobs, JobStep(j)
  PROVE  RestTyped'
<1> USE DEF recordVars, boundVars
<1>1. CASE PostJob(j) \/ ReleaseJob(j) \/ PickUp(j)
  BY <1>1 DEF PostJob, ReleaseJob, PickUp, RestTyped
<1>2. CASE DeliverJob(j)
  BY <1>2, FinishKeepsRest DEF DeliverJob
<1>3. CASE FailJob(j) \/ CancelOrder(j) \/ AdminFail(j) \/ RetryDelivery(j)
  BY <1>3 DEF FailJob, CancelOrder, AdminFail, RetryDelivery, RestTyped
<1>4. CASE AdminDeliver(j)
  <2>1. CASE job[j].status \in Active
    BY <1>4, <2>1, FinishKeepsRest DEF AdminDeliver
  <2>2. CASE job[j].status \notin Active
    BY <1>4, <2>2 DEF AdminDeliver, RestTyped
  <2> QED
    BY <2>1, <2>2
<1>5. CASE ChooseCash(j) \/ PayAhead(j)
  BY <1>5 DEF ChooseCash, PayAhead, RestTyped
<1> QED
  BY <1>1, <1>2, <1>3, <1>4, <1>5 DEF JobStep

(* A rider's row, or what is recorded for them, is replaced by one of its type. *)
LEMMA ChangeKeepsRest ==
  ASSUME RestTyped, NEW r \in Riders, NEW event, Change(event), NEW row \in RiderRows,
         rider' = [rider EXCEPT ![r] = row], ceiling' \in [Riders -> Nat],
         UNCHANGED desk
  PROVE  RestTyped'
<1>1. changes' \in 0 .. MaxChanges
  BY BoundAssumption DEF Change, RestTyped
<1>2. rider' \in [Riders -> RiderRows]
  BY DEF RestTyped
<1> QED
  BY <1>1, <1>2 DEF RestTyped, Change

LEMMA RecordKeepsRest ==
  ASSUME RestTyped, NEW r \in Riders, NEW handedIn \in Nat, NEW paidOut \in Nat,
         Record(r, handedIn, paidOut),
         UNCHANGED <<order, payment, rider, entry, boundVars>>
  PROVE  RestTyped'
<1> DEFINE row == [desk[r] EXCEPT !.handedIn = @ + handedIn, !.paidOut = @ + paidOut]
<1>1. desk[r] \in DeskRows
  BY DEF RestTyped
<1>2. row \in DeskRows
  <2>1. desk[r].handedIn + handedIn \in Nat /\ desk[r].paidOut + paidOut \in Nat
    BY <1>1 DEF DeskRows
  <2> QED
    BY <1>1, <2>1 DEF DeskRows
<1>3. desk' = [desk EXCEPT ![r] = row]
  BY DEF Record
<1>4. desk' \in [Riders -> DeskRows]
  BY <1>2, <1>3 DEF RestTyped
<1> QED
  BY <1>4 DEF RestTyped, boundVars

LEMMA RiderStepKeepsRest ==
  ASSUME RestTyped, NEW r \in Riders, RiderStep(r)
  PROVE  RestTyped'
<1> DEFINE old == rider[r]
<1>1. old \in RiderRows /\ ceiling \in [Riders -> Nat]
  BY DEF RestTyped
<1>2. CASE SwitchDuty(r)
  <2>1. [old EXCEPT !.onDuty = ~@] \in RiderRows
    BY <1>1 DEF RiderRows
  <2> QED
    BY <1>1, <1>2, <2>1, ChangeKeepsRest DEF SwitchDuty
<1>3. ASSUME NEW limit \in Limits, SetLimit(r, limit) PROVE RestTyped'
  <2>1. [old EXCEPT !.limit = limit] \in RiderRows
    BY <1>1, LimitAssumption DEF RiderRows
  <2>2. ceiling' \in [Riders -> Nat]
    BY <1>3, LimitAssumption DEF SetLimit, RestTyped
  <2> QED
    BY <1>3, <2>1, <2>2, ChangeKeepsRest DEF SetLimit
<1>4. CASE SuspendRider(r)
  <2>1. [old EXCEPT !.active = FALSE, !.onDuty = FALSE] \in RiderRows
    BY <1>1 DEF RiderRows
  <2> QED
    BY <1>1, <1>4, <2>1, ChangeKeepsRest DEF SuspendRider
<1>5. CASE SuspendUser(r) \/ Reactivate(r)
  <2>1. \A active \in BOOLEAN : [old EXCEPT !.active = active] \in RiderRows
    BY <1>1 DEF RiderRows
  <2> QED
    BY <1>1, <1>5, <2>1, ChangeKeepsRest DEF SuspendUser, Reactivate
<1>6. ASSUME NEW handedIn \in Sums \union {0}, NEW kept \in Sums \union {0},
             SettleUp(r, handedIn, kept)
      PROVE  RestTyped'
  <2>1. handedIn + kept \in Nat /\ kept \in Nat
    BY SumAssumption
  <2> QED
    BY <1>6, <2>1, RecordKeepsRest DEF SettleUp
<1>7. ASSUME NEW amount \in Sums, RecordPayout(r, amount) PROVE RestTyped'
  BY <1>7, SumAssumption, RecordKeepsRest DEF RecordPayout
<1>8. ASSUME NEW amount \in Corrections, RecordAdjustment(r, amount) PROVE RestTyped'
  <2> DEFINE row == [desk[r] EXCEPT !.corrected = @ + amount]
  <2>1. desk[r] \in DeskRows
    BY DEF RestTyped
  <2>2. row \in DeskRows
    BY <2>1, SumAssumption DEF DeskRows
  <2>3. desk' \in [Riders -> DeskRows]
    BY <1>8, <2>2 DEF RecordAdjustment, RestTyped
  <2>4. changes' \in 0 .. MaxChanges
    BY <1>8, BoundAssumption DEF RecordAdjustment, Change, RestTyped
  <2> QED
    BY <1>8, <2>3, <2>4 DEF RecordAdjustment, Change, RestTyped
<1> QED
  BY <1>2, <1>3, <1>4, <1>5, <1>6, <1>7, <1>8 DEF RiderStep

-----------------------------------------------------------------------------
LEMMA InitTyped == Init => TypeInv
<1> SUFFICES ASSUME Init PROVE TypeInv
  OBVIOUS
<1>1. JobsTyped
  BY RiderAssumption DEF Init, JobsTyped
<1>2. CallsTyped
  BY DEF Init, CallsTyped, CallRows, Idle
<1>3. /\ [onDuty |-> TRUE, active |-> TRUE, limit |-> DefaultLimit] \in RiderRows
      /\ [to |-> Nobody, cash |-> 0] \in EntryRows
      /\ [handedIn |-> 0, paidOut |-> 0, corrected |-> 0] \in DeskRows
  BY LimitAssumption DEF RiderRows, EntryRows, DeskRows
<1>4. payment \in [Jobs -> {"cash", "unpaid", "paid"}] /\ changes \in 0 .. MaxChanges
  BY PayingAssumption, BoundAssumption DEF Init
<1>5. RestTyped
  BY <1>3, <1>4, LimitAssumption DEF Init, RestTyped
<1> QED
  BY <1>1, <1>2, <1>5 DEF TypeInv

LEMMA NextTyped == TypeInv /\ [Next]_vars => TypeInv'
<1> SUFFICES ASSUME TypeInv, [Next]_vars PROVE TypeInv'
  OBVIOUS
<1> USE DEF TypeInv
<1>1. ASSUME UNCHANGED call PROVE CallsTyped'
  BY <1>1 DEF CallsTyped
<1>2. ASSUME UNCHANGED <<order, payment, rider, entry, desk, ceiling, switched, changes>>
      PROVE  RestTyped'
  BY <1>2 DEF RestTyped
<1> USE DEF recordVars, boundVars
<1>3. ASSUME NEW j \in Jobs, JobStep(j) PROVE TypeInv'
  <2>1. UNCHANGED call
    BY <1>3 DEF JobStep, PostJob, ReleaseJob, PickUp, DeliverJob, FailJob, CancelOrder,
                AdminDeliver, AdminFail, RetryDelivery, ChooseCash, PayAhead
  <2> QED
    BY <1>1, <1>3, <2>1, JobStepKeepsRows, JobStepKeepsRest
<1>4. ASSUME NEW c \in Callers, NEW r \in Riders, NEW j \in Jobs,
             BeginDispatch(c, r, j) \/ BeginClaim(c, r, j)
      PROVE  TypeInv'
  <2>1. JobsTyped' /\ RestTyped'
    BY <1>2, <1>4 DEF BeginDispatch, BeginClaim, JobsTyped
  <2> QED
    BY <1>4, <2>1, BeginKeepsCalls
<1>5. ASSUME NEW c \in Callers, AssignJob(c) \/ ClaimJob(c) PROVE TypeInv'
  <2>1. CallsTyped' /\ RestTyped'
    BY <1>2, <1>5, ReturnKeepsCalls DEF AssignJob, ClaimJob
  <2> QED
    BY <1>5, <2>1, CommitKeepsRows
<1>6. ASSUME NEW r \in Riders, RiderStep(r) PROVE TypeInv'
  <2>1. UNCHANGED call
    BY <1>6 DEF RiderStep, Change, SwitchDuty, SetLimit, SuspendRider, SuspendUser,
                Reactivate, SettleUp, RecordPayout, RecordAdjustment
  <2> QED
    BY <1>1, <1>6, <2>1, RiderStepKeepsRows, RiderStepKeepsRest
<1>7. CASE UNCHANGED vars
  BY <1>1, <1>2, <1>7 DEF vars, JobsTyped
<1>8. CASE Next
  BY <1>3, <1>4, <1>5, <1>6, <1>8 DEF Next, Dispatch
<1> QED
  BY <1>7, <1>8

(* The rows of all tables keep their types, and a job has a rider exactly from
   the claim on, whoever reads and commits in between. *)
THEOREM JobsStayTyped == Spec => []TypeOK
  BY InitTyped, NextTyped, TypeInvIsEnough, PTL DEF Spec

-----------------------------------------------------------------------------
(* The jobs are a board. *)

(* What the instance calls a cardinality is one. *)
LEMMA SameCardinality == ASSUME NEW S PROVE Board!Cardinality(S) = Cardinality(S)
  BY DEF Cardinality, Board!Cardinality

(* A job that changes hands only by being let go of is a board step. *)
LEMMA LettingGoIsDrop ==
  ASSUME \A j \in Jobs : Holder'[j] \in {Holder[j], Nobody}
  PROVE  Board!Next
<1> DEFINE S == {j \in Jobs : Holder'[j] = Nobody}
<1>1. Board!Drop(S)
  BY DEF Board!Drop, Holder
<1> QED
  BY <1>1 DEF Board!Next

LEMMA GivingIsTake ==
  ASSUME JobsTyped, NEW r \in Riders, NEW j \in Jobs,
         Open(j), HasRoom(r), GiveTo(r, j)
  PROVE  Board!Next
<1>1. Board!HeldBy(r) = ActiveJobs(r)
  BY RiderAssumption DEF Board!HeldBy, Holder, ActiveJobs, JobsTyped
<1>2. Holder[j] = Nobody
  BY DEF Holder, Open
<1>3. Holder' = [Holder EXCEPT ![j] = r]
  BY DEF Holder, GiveTo, JobsTyped
<1>4. Board!Take(r, j)
  BY <1>1, <1>2, <1>3, SameCardinality DEF Board!Take, HasRoom
<1> QED
  BY <1>4 DEF Board!Next

(* A step about one job leaves it with its rider, or with nobody. *)
LEMMA JobStepLetsGo ==
  ASSUME JobsTyped, NEW j \in Jobs, JobStep(j)
  PROVE  \A k \in Jobs : Holder'[k] \in {Holder[k], Nobody}
<1>1. ASSUME NEW row, job' = [job EXCEPT ![j] = row],
             row.status \in Active => job[j].status \in Active /\ row.rider = job[j].rider
      PROVE  \A k \in Jobs : Holder'[k] \in {Holder[k], Nobody}
  BY <1>1 DEF Holder, JobsTyped
<1>2. ASSUME NEW status, job' = [job EXCEPT ![j].status = status],
             status \in Active => job[j].status \in Active
      PROVE  \A k \in Jobs : Holder'[k] \in {Holder[k], Nobody}
  <2> DEFINE row == [job[j] EXCEPT !.status = status]
  <2>1. /\ job' = [job EXCEPT ![j] = row]
        /\ row.status = status /\ row.rider = job[j].rider
    BY <1>2 DEF JobsTyped
  <2> QED
    BY <1>1, <1>2, <2>1
<1>3. CASE UNCHANGED job
  BY <1>3 DEF Holder
<1>4. Reopened(job[j]).status = "pending"
  BY DEF Reopened
<1>5. CASE PostJob(j) \/ PickUp(j) \/ FailJob(j)
  BY <1>2, <1>5 DEF PostJob, PickUp, FailJob
<1>6. CASE ReleaseJob(j)
  BY <1>1, <1>4, <1>6 DEF ReleaseJob
<1>7. CASE DeliverJob(j) \/ AdminDeliver(j)
  BY <1>2, <1>3, <1>7 DEF DeliverJob, AdminDeliver, FinishJob
<1>8. CASE CancelOrder(j)
  BY <1>2, <1>8 DEF CancelOrder, JobsTyped
<1>9. CASE RetryDelivery(j)
  <2>1. job' = [job EXCEPT ![j] = Reopened(job[j])] \/ UNCHANGED job
    BY <1>9 DEF RetryDelivery, JobsTyped
  <2> QED
    BY <1>1, <1>3, <1>4, <2>1
<1> QED
  BY <1>3, <1>5, <1>6, <1>7, <1>8, <1>9 DEF JobStep, AdminFail, ChooseCash, PayAhead

LEMMA CallStepIsTake ==
  ASSUME JobsTyped, CallsTyped, NEW c \in Callers, AssignJob(c) \/ ClaimJob(c)
  PROVE  Board!Next \/ UNCHANGED job
<1> DEFINE r == call[c].rider
           j == call[c].job
<1>1. r \in Riders /\ j \in Jobs
  BY DEF CallsTyped, AssignJob, ClaimJob
<1>2. UNCHANGED job \/ (Open(j) /\ HasRoom(r) /\ GiveTo(r, j))
  BY DEF AssignJob, ClaimJob, MayAssign, MayClaim
<1> QED
  BY <1>1, <1>2, GivingIsTake

LEMMA RiderStepLetsGo ==
  ASSUME JobsTyped, NEW r \in Riders, RiderStep(r)
  PROVE  \A j \in Jobs : Holder'[j] \in {Holder[j], Nobody}
<1>1. CASE SuspendRider(r)
  BY <1>1 DEF SuspendRider, Holder, Reopened, JobsTyped
<1>2. CASE UNCHANGED job
  BY <1>2 DEF Holder
<1> QED
  BY <1>1, <1>2 DEF RiderStep, SwitchDuty, SetLimit, SuspendUser, Reactivate, SettleUp,
              RecordPayout, RecordAdjustment

(* A job is with one rider or in the pool, changes hands only through the pool,
   and is taken only by a rider with a slot: claimDelivery, dispatchDelivery,
   releases, retries and suspensions, interleaved in any way, implement
   RiderSlots. *)
THEOREM JobsKeepTheBoard == Spec => KeepsTheBoard
<1>1. Init => Board!Init
  BY DEF Init, Board!Init, Holder
<1>2. TypeInv /\ [Next]_vars => [Board!Next]_Holder
  <2> SUFFICES ASSUME TypeInv, [Next]_vars PROVE Board!Next \/ UNCHANGED Holder
    OBVIOUS
  <2>1. ASSUME UNCHANGED job PROVE UNCHANGED Holder
    BY <2>1 DEF Holder
  <2>2. CASE \E j \in Jobs : JobStep(j)
    BY <2>2, JobStepLetsGo, LettingGoIsDrop DEF TypeInv
  <2>3. CASE \E c \in Callers : AssignJob(c) \/ ClaimJob(c)
    BY <2>1, <2>3, CallStepIsTake DEF TypeInv
  <2>4. CASE \E r \in Riders : RiderStep(r)
    BY <2>4, RiderStepLetsGo, LettingGoIsDrop DEF TypeInv
  <2>5. CASE \E c \in Callers, r \in Riders, j \in Jobs :
               BeginDispatch(c, r, j) \/ BeginClaim(c, r, j)
    BY <2>1, <2>5 DEF BeginDispatch, BeginClaim
  <2>6. CASE UNCHANGED vars
    BY <2>1, <2>6 DEF vars
  <2>7. CASE Next
    BY <2>2, <2>3, <2>4, <2>5, <2>7 DEF Next, Dispatch
  <2> QED
    BY <2>6, <2>7
<1> QED
  BY <1>1, <1>2, InitTyped, NextTyped, PTL DEF Spec, KeepsTheBoard, Board!Spec

(* RiderSlotsProofs is about the same board. *)
BoardProofs == INSTANCE RiderSlotsProofs WITH holder <- Holder

LEMMA SameCardinalityThere ==
  ASSUME NEW S PROVE BoardProofs!Cardinality(S) = Cardinality(S)
  BY DEF Cardinality, BoardProofs!Cardinality

LEMMA SameHeldBy == ASSUME NEW r PROVE Board!HeldBy(r) = BoardProofs!HeldBy(r)
  BY DEF Board!HeldBy, BoardProofs!HeldBy

LEMMA BoardStaysWithinSlots ==
  ASSUME NEW r \in Riders
  PROVE  KeepsTheBoard => [](Cardinality(Board!HeldBy(r)) <= Slots)
<1>1. BoardProofs!IsFiniteSet(Jobs) <=> IsFiniteSet(Jobs)
  BY DEF IsFiniteSet, BoardProofs!IsFiniteSet
<1>2. BoardProofs!BoardAssumption
  BY <1>1, SlotAssumption, RiderAssumption, FiniteAssumption
  DEF BoardProofs!BoardAssumption
<1>3. BoardProofs!Spec => [](BoardProofs!TypeOK /\ BoardProofs!WithinSlots)
  BY <1>2, BoardProofs!BoardKeepsSlots
<1>4. BoardProofs!WithinSlots => Cardinality(Board!HeldBy(r)) <= Slots
  BY SameCardinalityThere, SameHeldBy DEF BoardProofs!WithinSlots
<1>5. Board!Init => BoardProofs!Init
  BY DEF Board!Init, BoardProofs!Init
<1>6. [Board!Next]_Holder => [BoardProofs!Next]_Holder
  BY SameCardinality, SameCardinalityThere
  DEF Board!Next, Board!Take, Board!Drop, Board!HeldBy,
      BoardProofs!Next, BoardProofs!Take, BoardProofs!Drop, BoardProofs!HeldBy
<1> QED
  BY <1>3, <1>4, <1>5, <1>6, PTL DEF KeepsTheBoard, Board!Spec, BoardProofs!Spec

(* No rider ever has more active jobs than MAX_ACTIVE_JOBS, however many claims
   and dispatcher runs count them at once. *)
THEOREM NoRiderIsOverloaded ==
  ASSUME NEW r \in Riders
  PROVE  Spec => [](Cardinality(ActiveJobs(r)) <= Slots)
<1>1. TypeInv => Board!HeldBy(r) = ActiveJobs(r)
  BY RiderAssumption
  DEF TypeInv, Board!HeldBy, Holder, ActiveJobs, JobsTyped
<1>2. TypeInv /\ Cardinality(Board!HeldBy(r)) <= Slots => Cardinality(ActiveJobs(r)) <= Slots
  BY <1>1
<1> QED
  BY <1>2, BoardStaysWithinSlots, JobsKeepTheBoard, InitTyped, NextTyped, PTL DEF Spec

-----------------------------------------------------------------------------
(* Pay. *)

(* A finished job's order is over: no cancel, failure or retry follows. *)
DeliveredIsOver == \A j \in Jobs : job[j].status = "delivered" => order[j] = "delivered"

PayInv == TypeInv /\ DeliveredIsOver /\ DeliveryIsPaid

(* The delivery is posted by the step that ends it, once. *)
LEMMA FinishPays ==
  ASSUME PayInv, NEW j \in Jobs, job[j].status \in Active, FinishJob(j)
  PROVE  DeliveredIsOver' /\ DeliveryIsPaid'
<1>1. entry[j].to = Nobody
  BY DEF PayInv, DeliveryIsPaid
<1>2. entry' = [entry EXCEPT ![j] = [to |-> job[j].rider, cash |-> DoorCash(j)]]
  BY <1>1 DEF FinishJob, PostEntries
<1> QED
  BY <1>2 DEF FinishJob, PayInv, DeliveredIsOver, DeliveryIsPaid, TypeInv, JobsTyped, RestTyped

LEMMA JobStepPays ==
  ASSUME PayInv, NEW j \in Jobs, JobStep(j)
  PROVE  DeliveredIsOver' /\ DeliveryIsPaid'
<1>1. ASSUME UNCHANGED entry, NEW row, job' = [job EXCEPT ![j] = row],
             job[j].status # "delivered", row.status # "delivered",
             \A k \in Jobs \ {j} : order'[k] = order[k]
      PROVE  DeliveredIsOver' /\ DeliveryIsPaid'
  BY <1>1 DEF PayInv, DeliveredIsOver, DeliveryIsPaid, TypeInv, JobsTyped
<1>2. ASSUME UNCHANGED <<entry, job>>,
             \A k \in Jobs : order[k] = "delivered" => order'[k] = "delivered"
      PROVE  DeliveredIsOver' /\ DeliveryIsPaid'
  BY <1>2 DEF PayInv, DeliveredIsOver, DeliveryIsPaid
<1> USE DEF PayInv, TypeInv, JobsTyped, RestTyped, DeliveredIsOver, recordVars
<1>3. ASSUME NEW status, job' = [job EXCEPT ![j].status = status],
             UNCHANGED entry, job[j].status # "delivered", status # "delivered",
             \A k \in Jobs \ {j} : order'[k] = order[k]
      PROVE  DeliveredIsOver' /\ DeliveryIsPaid'
  <2> DEFINE row == [job[j] EXCEPT !.status = status]
  <2>1. job' = [job EXCEPT ![j] = row] /\ row.status = status
    BY <1>3
  <2> QED
    BY <1>1, <1>3, <2>1
<1>4. Reopened(job[j]).status = "pending"
  BY DEF Reopened
<1>5. CASE PostJob(j)
  BY <1>3, <1>5 DEF PostJob
<1>6. CASE ReleaseJob(j)
  BY <1>1, <1>4, <1>6 DEF ReleaseJob
<1>7. CASE PickUp(j)
  BY <1>3, <1>7 DEF PickUp
<1>8. CASE DeliverJob(j)
  BY <1>8, FinishPays DEF DeliverJob
<1>9. CASE FailJob(j)
  BY <1>3, <1>9 DEF FailJob
<1>10. CASE CancelOrder(j)
  <2>1. CASE job[j].status = "none"
    BY <1>2, <1>10, <2>1 DEF CancelOrder
  <2>2. CASE job[j].status # "none"
    BY <1>3, <1>10, <2>2 DEF CancelOrder
  <2> QED
    BY <2>1, <2>2
<1>11. CASE AdminDeliver(j)
  BY <1>2, <1>11, FinishPays DEF AdminDeliver
<1>12. CASE AdminFail(j)
  BY <1>2, <1>12 DEF AdminFail
<1>13. CASE RetryDelivery(j)
  <2>1. CASE job[j].status = "none"
    BY <1>2, <1>13, <2>1 DEF RetryDelivery
  <2>2. CASE job[j].status # "none"
    BY <1>1, <1>4, <1>13, <2>2 DEF RetryDelivery
  <2> QED
    BY <2>1, <2>2
<1>14. CASE ChooseCash(j) \/ PayAhead(j)
  BY <1>2, <1>14 DEF ChooseCash, PayAhead
<1> QED
  BY <1>5, <1>6, <1>7, <1>8, <1>9, <1>10, <1>11, <1>12, <1>13, <1>14 DEF JobStep

(* No other step ends a job or brings one back from its end. *)
LEMMA OtherStepPays ==
  ASSUME PayInv, UNCHANGED <<order, entry>>,
         \A j \in Jobs : \/ job'[j] = job[j]
                         \/ /\ job[j].status # "delivered"
                            /\ job'[j].status # "delivered"
  PROVE  DeliveredIsOver' /\ DeliveryIsPaid'
  BY DEF PayInv, DeliveredIsOver, DeliveryIsPaid

LEMMA NextPays == PayInv /\ [Next]_vars => PayInv'
<1> SUFFICES ASSUME PayInv, [Next]_vars PROVE DeliveredIsOver' /\ DeliveryIsPaid'
  BY NextTyped DEF PayInv
<1> USE DEF recordVars, boundVars
<1>1. CASE \E j \in Jobs : JobStep(j)
  BY <1>1, JobStepPays
<1>2. CASE \E c \in Callers : AssignJob(c) \/ ClaimJob(c)
  <2>1. PICK c \in Callers : AssignJob(c) \/ ClaimJob(c)
    BY <1>2
  <2>2. \/ UNCHANGED job
        \/ Open(call[c].job) /\ GiveTo(call[c].rider, call[c].job)
    BY <2>1 DEF AssignJob, ClaimJob, MayAssign, MayClaim
  <2>3. UNCHANGED <<order, entry>>
    BY <2>1 DEF AssignJob, ClaimJob
  <2> QED
    BY <2>2, <2>3, OtherStepPays DEF Open, GiveTo, PayInv, TypeInv, JobsTyped
<1>3. CASE \E r \in Riders : RiderStep(r)
  <2>1. PICK r \in Riders : RiderStep(r)
    BY <1>3
  <2>2. UNCHANGED <<order, entry>>
    BY <2>1 DEF RiderStep, Change, SwitchDuty, SetLimit, SuspendRider, SuspendUser,
                Reactivate, SettleUp, RecordPayout, RecordAdjustment
  <2>3. UNCHANGED job \/ SuspendRider(r)
    BY <2>1 DEF RiderStep, SwitchDuty, SetLimit, SuspendUser, Reactivate, SettleUp,
                RecordPayout, RecordAdjustment
  <2> QED
    BY <2>2, <2>3, OtherStepPays DEF SuspendRider, Reopened
<1>4. CASE \E c \in Callers, r \in Riders, j \in Jobs :
             BeginDispatch(c, r, j) \/ BeginClaim(c, r, j)
  BY <1>4, OtherStepPays DEF BeginDispatch, BeginClaim
<1>5. CASE UNCHANGED vars
  BY <1>5, OtherStepPays DEF vars
<1>6. CASE Next
  BY <1>1, <1>2, <1>3, <1>4, <1>6 DEF Next, Dispatch
<1> QED
  BY <1>5, <1>6

LEMMA InitPays == Init => PayInv
  BY InitTyped DEF Init, PayInv, DeliveredIsOver, DeliveryIsPaid

(* Whoever ends it, and however many riders had it before, a delivery is posted
   to the ledger once, for the rider who has it then. *)
THEOREM EachDeliveryIsPaidOnce == Spec => []DeliveryIsPaid
<1>1. PayInv => DeliveryIsPaid
  BY DEF PayInv
<1> QED
  BY <1>1, InitPays, NextPays, PTL DEF Spec

-----------------------------------------------------------------------------
(* The rider ledger. What a rider collected and what awaits them at the doors are
   sums over the jobs, so each step is followed in terms of the jobs it moves. *)

Doors(r) == {j \in ActiveJobs(r) : CashAtDoor(j)}

CashOf == [j \in Jobs |-> entry[j].cash]

(* What the ledger and the doors come to are amounts. *)
MoneyTyped ==
  \A r \in Riders : /\ CashCollected(r) \in Nat /\ CashToCollect(r) \in Nat
                    /\ Cardinality(EntriesOf(r)) \in Nat

LEMMA FiniteJobs == ASSUME NEW S \in SUBSET Jobs PROVE IsFiniteSet(S)
  BY FiniteAssumption, FS_Subset

LEMMA PartsOfJobs ==
  /\ \A r : EntriesOf(r) \in SUBSET Jobs
  /\ \A r : Doors(r) \in SUBSET Jobs
  BY DEF EntriesOf, Doors, ActiveJobs

LEMMA MoneyIsTyped == TypeInv => MoneyTyped
<1> SUFFICES ASSUME TypeInv, NEW r \in Riders
             PROVE  /\ CashCollected(r) \in Nat /\ CashToCollect(r) \in Nat
                    /\ Cardinality(EntriesOf(r)) \in Nat
  BY DEF MoneyTyped
<1>1. IsFiniteSet(EntriesOf(r)) /\ IsFiniteSet(Doors(r))
  BY FiniteJobs, PartsOfJobs
<1>2. \A j \in EntriesOf(r) : CashOf[j] \in Nat
  BY PartsOfJobs DEF CashOf, TypeInv, RestTyped, EntryRows
<1>3. \A j \in Doors(r) : Amount[j] \in Nat
  BY PartsOfJobs, AmountAssumption
<1>4. CashCollected(r) = SumFunctionOnSet(CashOf, EntriesOf(r))
  BY DEF CashCollected, CashOf
<1>5. CashToCollect(r) = SumFunctionOnSet(Amount, Doors(r))
  BY DEF CashToCollect, Total, Doors
<1> QED
  BY <1>1, <1>2, <1>3, <1>4, <1>5, SumNat, FS_CardinalityType

(* A step that posts nothing leaves what each rider collected as it was. *)
LEMMA NothingPosted ==
  ASSUME UNCHANGED entry, NEW r \in Riders
  PROVE  CashCollected(r)' = CashCollected(r) /\ EntriesOf(r)' = EntriesOf(r)
  BY DEF CashCollected, EntriesOf

(* A finished job is posted for its rider and for nobody else. *)
LEMMA FinishPosts ==
  ASSUME PayInv, NEW j \in Jobs, job[j].status \in Active, FinishJob(j),
         NEW r \in Riders
  PROVE  IF r = job[j].rider
         THEN /\ CashCollected(r)' = CashCollected(r) + DoorCash(j)
              /\ Cardinality(EntriesOf(r)') = Cardinality(EntriesOf(r)) + 1
         ELSE /\ CashCollected(r)' = CashCollected(r)
              /\ EntriesOf(r)' = EntriesOf(r)
<1>1. entry[j].to = Nobody /\ j \notin EntriesOf(r)
  BY RiderAssumption DEF PayInv, DeliveryIsPaid, EntriesOf
<1>2. entry' = [entry EXCEPT ![j] = [to |-> job[j].rider, cash |-> DoorCash(j)]]
  BY <1>1 DEF FinishJob, PostEntries
<1> DEFINE S == EntriesOf(r)
           f == CashOf
           g == CashOf'
<1>3. /\ \A k \in S : g[k] = f[k] /\ g[k] \in Int
      /\ g[j] = DoorCash(j) /\ DoorCash(j) \in Int
  <2>1. \A k \in Jobs \ {j} : g[k] = f[k] /\ g[k] \in Int
    BY <1>2 DEF CashOf, PayInv, TypeInv, RestTyped, EntryRows
  <2>2. g[j] = DoorCash(j)
    BY <1>2 DEF CashOf, PayInv, TypeInv, RestTyped
  <2> QED
    BY <1>1, <2>1, <2>2, PartsOfJobs, AmountAssumption DEF DoorCash
<1>4. IsFiniteSet(S)
  BY FiniteJobs, PartsOfJobs
<1>5. EntriesOf(r)' = IF r = job[j].rider THEN S \union {j} ELSE S
  BY <1>1, <1>2 DEF EntriesOf, PayInv, TypeInv, RestTyped
<1>6. /\ CashCollected(r)' = SumFunctionOnSet(g, EntriesOf(r)')
      /\ CashCollected(r) = SumFunctionOnSet(f, S)
  BY DEF CashCollected, CashOf
<1>7. SumFunctionOnSet(g, S) = SumFunctionOnSet(f, S)
  <2> HIDE DEF S, f, g
  <2> QED
    BY <1>3, <1>4, SumSame
<1>8. SumFunctionOnSet(g, S \union {j}) = DoorCash(j) + SumFunctionOnSet(g, S)
  <2>1. j \notin S
    BY <1>1
  <2> HIDE DEF S, f, g
  <2> QED
    BY <1>3, <1>4, <2>1, SumAdd
<1>9. SumFunctionOnSet(f, S) \in Int
  <2> HIDE DEF S, f, g
  <2> QED
    BY <1>3, <1>4, SumInt
<1>10. CASE r = job[j].rider
  <2>1. Cardinality(S \union {j}) = Cardinality(S) + 1
    BY <1>1, <1>4, FS_AddElement
  <2>2. CashCollected(r)' = CashCollected(r) + DoorCash(j)
    <3>1. CashCollected(r)' = SumFunctionOnSet(g, S \union {j})
      BY <1>5, <1>6, <1>10
    <3> HIDE DEF S, f, g
    <3> QED
      BY <1>3, <1>6, <1>7, <1>8, <1>9, <3>1
  <2> QED
    BY <1>5, <1>10, <2>1, <2>2
<1> QED
  BY <1>5, <1>6, <1>7, <1>10

(* Only a delivery posts. *)
LEMMA WhoPosts ==
  ASSUME [Next]_vars
  PROVE  UNCHANGED entry \/ \E j \in Jobs : job[j].status \in Active /\ FinishJob(j)
<1> USE DEF recordVars
<1>1. ASSUME NEW j \in Jobs, JobStep(j)
      PROVE  UNCHANGED entry \/ (job[j].status \in Active /\ FinishJob(j))
  BY <1>1 DEF JobStep, PostJob, ReleaseJob, PickUp, DeliverJob, FailJob, CancelOrder,
              AdminDeliver, AdminFail, RetryDelivery, ChooseCash, PayAhead
<1>2. ASSUME NEW r \in Riders, RiderStep(r) PROVE UNCHANGED entry
  BY <1>2 DEF RiderStep, Change, SwitchDuty, SetLimit, SuspendRider, SuspendUser,
              Reactivate, SettleUp, RecordPayout, RecordAdjustment
<1>3. ASSUME NEW c \in Callers, AssignJob(c) \/ ClaimJob(c) PROVE UNCHANGED entry
  BY <1>3 DEF AssignJob, ClaimJob
<1>4. ASSUME NEW c \in Callers, NEW r \in Riders, NEW j \in Jobs,
             BeginDispatch(c, r, j) \/ BeginClaim(c, r, j)
      PROVE  UNCHANGED entry
  BY <1>4 DEF BeginDispatch, BeginClaim
<1>5. CASE UNCHANGED vars
  BY <1>5 DEF vars
<1>6. CASE Next
  BY <1>1, <1>2, <1>3, <1>4, <1>6 DEF Next, Dispatch
<1> QED
  BY <1>5, <1>6

(* Only an admin moves what was handed in, paid out or corrected, one rider's at
   a time. *)
LEMMA WhoRecords ==
  ASSUME [Next]_vars
  PROVE  \/ UNCHANGED desk
         \/ /\ UNCHANGED entry
            /\ \E r \in Riders :
                 \/ \E handedIn, kept \in Sums \union {0} : SettleUp(r, handedIn, kept)
                 \/ \E amount \in Sums : RecordPayout(r, amount)
                 \/ \E amount \in Corrections : RecordAdjustment(r, amount)
<1> USE DEF recordVars
<1>1. ASSUME NEW j \in Jobs, JobStep(j) PROVE UNCHANGED desk
  BY <1>1 DEF JobStep, PostJob, ReleaseJob, PickUp, DeliverJob, FailJob, CancelOrder,
              AdminDeliver, AdminFail, RetryDelivery, ChooseCash, PayAhead
<1>2. ASSUME NEW r \in Riders, RiderStep(r)
      PROVE  \/ UNCHANGED desk
             \/ /\ UNCHANGED entry
                /\ \/ \E handedIn, kept \in Sums \union {0} : SettleUp(r, handedIn, kept)
                   \/ \E amount \in Sums : RecordPayout(r, amount)
                   \/ \E amount \in Corrections : RecordAdjustment(r, amount)
  <2>1. UNCHANGED entry
    BY <1>2 DEF RiderStep, Change, SwitchDuty, SetLimit, SuspendRider, SuspendUser,
                Reactivate, SettleUp, RecordPayout, RecordAdjustment
  <2> QED
    BY <1>2, <2>1 DEF RiderStep, SwitchDuty, SetLimit, SuspendRider, SuspendUser, Reactivate
<1>3. ASSUME NEW c \in Callers, AssignJob(c) \/ ClaimJob(c) PROVE UNCHANGED desk
  BY <1>3 DEF AssignJob, ClaimJob
<1>4. ASSUME NEW c \in Callers, NEW r \in Riders, NEW j \in Jobs,
             BeginDispatch(c, r, j) \/ BeginClaim(c, r, j)
      PROVE  UNCHANGED desk
  BY <1>4 DEF BeginDispatch, BeginClaim
<1>5. CASE UNCHANGED vars
  BY <1>5 DEF vars
<1>6. CASE Next
  BY <1>1, <1>2, <1>3, <1>4, <1>6 DEF Next, Dispatch
<1> QED
  BY <1>5, <1>6

(* Pay grows with every delivery. *)
LEMMA PayGrows ==
  ASSUME NEW n \in Nat
  PROVE  Fee * n \in Nat /\ Fee * (n + 1) = Fee * n + Fee
<1>1. Fee \in Nat
  BY AmountAssumption
<1> QED
  BY <1>1

BooksInv == PayInv /\ BooksStayEven

(* A rider's books before and after a step. *)
LEMMA NextKeepsBooks == BooksInv /\ [Next]_vars => BooksInv'
<1> SUFFICES ASSUME BooksInv, [Next]_vars, Corrections \subseteq Nat, NEW r \in Riders
             PROVE  CashHeld(r)' >= 0 /\ Unpaid(r)' >= 0
  BY NextPays DEF BooksInv, BooksStayEven
<1> DEFINE held == CashHeld(r)
           earned == Unpaid(r)
           got == CashCollected(r)
           gotNow == CashCollected(r)'
           pay == Fee * Cardinality(EntriesOf(r))
           payNow == Fee * Cardinality(EntriesOf(r)')
           row == desk[r]
           rowNow == desk'[r]
<1>1. /\ held = got - row.handedIn
      /\ earned = pay + row.corrected - row.paidOut
      /\ CashHeld(r)' = gotNow - rowNow.handedIn
      /\ Unpaid(r)' = payNow + rowNow.corrected - rowNow.paidOut
  BY DEF CashHeld, Unpaid
<1>2. held >= 0 /\ earned >= 0
  BY DEF BooksInv, BooksStayEven
<1>3. /\ row.handedIn \in Nat /\ row.paidOut \in Nat /\ row.corrected \in Int
      /\ desk \in [Riders -> DeskRows]
  BY DEF BooksInv, PayInv, TypeInv, RestTyped, DeskRows
<1>4. got \in Nat /\ Cardinality(EntriesOf(r)) \in Nat
  BY MoneyIsTyped DEF BooksInv, PayInv, MoneyTyped
<1>5. pay \in Nat
  BY <1>4, PayGrows
<1>6. gotNow \in Nat /\ payNow \in Nat /\ gotNow >= got /\ payNow >= pay
  <2>1. CASE UNCHANGED entry
    <3>1. gotNow = got /\ EntriesOf(r)' = EntriesOf(r)
      BY <2>1, NothingPosted
    <3> QED
      BY <1>4, <1>5, <3>1
  <2>2. ASSUME NEW j \in Jobs, job[j].status \in Active, FinishJob(j)
        PROVE  gotNow \in Nat /\ payNow \in Nat /\ gotNow >= got /\ payNow >= pay
    <3>1. DoorCash(j) \in Nat
      BY AmountAssumption DEF DoorCash
    <3>2. CASE r = job[j].rider
      <4>1. /\ gotNow = got + DoorCash(j)
            /\ Cardinality(EntriesOf(r)') = Cardinality(EntriesOf(r)) + 1
        BY <2>2, <3>2, FinishPosts DEF BooksInv
      <4>2. payNow = pay + Fee
        BY <1>4, <4>1, PayGrows
      <4> QED
        BY <1>4, <1>5, <3>1, <4>1, <4>2, AmountAssumption
    <3>3. CASE r # job[j].rider
      <4>1. gotNow = got /\ EntriesOf(r)' = EntriesOf(r)
        BY <2>2, <3>3, FinishPosts DEF BooksInv
      <4> QED
        BY <1>4, <1>5, <4>1
    <3> QED
      BY <3>2, <3>3
  <2> QED
    BY <2>1, <2>2, WhoPosts
<1>7. CASE rowNow = row
  <2> HIDE DEF held, earned, got, gotNow, pay, payNow
  <2>1. gotNow - row.handedIn >= 0
    BY <1>1, <1>2, <1>3, <1>4, <1>6
  <2>2. payNow + row.corrected - row.paidOut >= 0
    BY <1>1, <1>2, <1>3, <1>5, <1>6
  <2> QED
    BY <1>1, <1>7, <2>1, <2>2
<1>8. ASSUME UNCHANGED entry, NEW h \in Nat, NEW p \in Nat, NEW a \in Nat,
             rowNow.handedIn = row.handedIn + h, rowNow.paidOut = row.paidOut + p,
             rowNow.corrected = row.corrected + a,
             h <= held, p <= earned
      PROVE  CashHeld(r)' >= 0 /\ Unpaid(r)' >= 0
  <2>1. gotNow = got /\ payNow = pay
    BY <1>8, NothingPosted
  <2> HIDE DEF held, earned, got, gotNow, pay, payNow
  <2>2. gotNow - rowNow.handedIn >= 0
    BY <1>1, <1>3, <1>4, <1>8, <2>1
  <2>3. payNow + rowNow.corrected - rowNow.paidOut >= 0
    BY <1>1, <1>3, <1>5, <1>8, <2>1
  <2> QED
    BY <1>1, <2>2, <2>3
<1>9. CASE UNCHANGED desk
  BY <1>7, <1>9
<1>10. held \in Int /\ earned \in Int
  BY <1>1, <1>3, <1>4, <1>5
<1>11. ASSUME UNCHANGED entry, NEW u \in Riders, NEW h \in Sums \union {0},
              NEW kept \in Sums \union {0}, SettleUp(u, h, kept)
       PROVE  CashHeld(r)' >= 0 /\ Unpaid(r)' >= 0
  <2>1. CASE u # r
    <3>1. rowNow = row
      BY <1>3, <1>11, <2>1 DEF SettleUp, Record
    <3> QED
      BY <1>7, <3>1
  <2>2. CASE u = r
    <3>1. /\ rowNow.handedIn = row.handedIn + (h + kept)
          /\ rowNow.paidOut = row.paidOut + kept
          /\ rowNow.corrected = row.corrected
      BY <1>3, <1>11, <2>2 DEF SettleUp, Record, DeskRows
    <3>2. h + kept \in Nat /\ kept \in Nat
      BY SumAssumption
    <3>3. h + kept <= held
      BY <1>11, <2>2 DEF SettleUp
    <3>4. kept <= earned
      BY <1>2, <1>10, <1>11, <2>2 DEF SettleUp, MayKeep
    <3>5. rowNow.corrected = row.corrected + 0
      BY <1>3, <3>1
    <3> HIDE DEF held, earned, row, rowNow
    <3> QED
      BY <1>8, <1>11, <3>1, <3>2, <3>3, <3>4, <3>5
  <2> QED
    BY <2>1, <2>2
<1>12. ASSUME UNCHANGED entry, NEW u \in Riders, NEW amount \in Sums,
              RecordPayout(u, amount)
       PROVE  CashHeld(r)' >= 0 /\ Unpaid(r)' >= 0
  <2>1. CASE u # r
    <3>1. rowNow = row
      BY <1>3, <1>12, <2>1 DEF RecordPayout, Record
    <3> QED
      BY <1>7, <3>1
  <2>2. CASE u = r
    <3>1. /\ rowNow.handedIn = row.handedIn + 0
          /\ rowNow.paidOut = row.paidOut + amount
          /\ rowNow.corrected = row.corrected
      BY <1>3, <1>12, <2>2 DEF RecordPayout, Record, DeskRows
    <3>2. amount \in Nat
      BY SumAssumption
    <3>3. amount <= earned - held
      BY <1>12, <2>2 DEF RecordPayout, Balance
    <3>4. rowNow.corrected = row.corrected + 0
      BY <1>3, <3>1
    <3> HIDE DEF held, earned, row, rowNow
    <3>5. amount <= earned /\ 0 <= held
      BY <1>2, <1>10, <3>2, <3>3
    <3> QED
      BY <1>8, <1>12, <3>1, <3>2, <3>4, <3>5
  <2> QED
    BY <2>1, <2>2
<1>13. ASSUME UNCHANGED entry, NEW u \in Riders, NEW amount \in Corrections,
              RecordAdjustment(u, amount)
       PROVE  CashHeld(r)' >= 0 /\ Unpaid(r)' >= 0
  <2>1. CASE u # r
    <3>1. rowNow = row
      BY <1>3, <1>13, <2>1 DEF RecordAdjustment
    <3> QED
      BY <1>7, <3>1
  <2>2. CASE u = r
    <3>1. /\ rowNow.handedIn = row.handedIn
          /\ rowNow.paidOut = row.paidOut
          /\ rowNow.corrected = row.corrected + amount
      BY <1>3, <1>13, <2>2 DEF RecordAdjustment, DeskRows
    <3>2. rowNow.handedIn = row.handedIn + 0 /\ rowNow.paidOut = row.paidOut + 0
      BY <1>3, <3>1
    <3>3. amount \in Nat
      OBVIOUS
    <3> HIDE DEF held, earned, row, rowNow
    <3>4. 0 <= held /\ 0 <= earned
      BY <1>2, <1>10
    <3> QED
      BY <1>8, <1>13, <3>1, <3>2, <3>3, <3>4
  <2> QED
    BY <2>1, <2>2
<1> HIDE DEF held, earned, got, gotNow, pay, payNow, row, rowNow
<1> QED
  BY <1>9, <1>11, <1>12, <1>13, WhoRecords

(* No cash is taken off a rider that they do not hold and no pay is sent or kept
   that they did not earn, whatever an admin records and in whatever order. *)
THEOREM RiderBooksStayEven == Spec => []BooksStayEven
<1>1. Init => BooksInv
  <2> SUFFICES ASSUME Init, NEW r \in Riders PROVE CashHeld(r) >= 0 /\ Unpaid(r) >= 0
    BY InitPays DEF BooksInv, BooksStayEven
  <2>1. EntriesOf(r) = {}
    BY RiderAssumption DEF Init, EntriesOf
  <2>2. CashCollected(r) = 0 /\ Cardinality(EntriesOf(r)) = 0
    BY <2>1, SumOfNone, FS_EmptySet DEF CashCollected
  <2>3. desk[r].handedIn = 0 /\ desk[r].corrected = 0 /\ desk[r].paidOut = 0
    BY DEF Init
  <2>4. Fee * 0 = 0
    BY AmountAssumption
  <2> QED
    BY <2>2, <2>3, <2>4 DEF CashHeld, Unpaid
<1>2. BooksInv => BooksStayEven
  BY DEF BooksInv
<1> QED
  BY <1>1, <1>2, NextKeepsBooks, PTL DEF Spec

-----------------------------------------------------------------------------
(* Cash. A limit counts with what was read before the rider's lock: a claim with
   the limit of then, a dispatcher with how the order was to be paid then. *)

LimitsKnown == \A r \in Riders : rider[r].limit <= ceiling[r]

ReadLimits ==
  \A c \in Claims : call[c] # Idle => call[c].limit <= ceiling[call[c].rider]

ReadCash ==
  ~switched => \A c \in Dispatchers :
                 call[c] # Idle /\ CashAtDoor(call[c].job) => call[c].cash

CashInv == PayInv /\ LimitsKnown /\ ReadLimits /\ ReadCash /\ CashWithinLimit

(* No order becomes one to pay at the door but by a customer's change to cash. *)
LEMMA CashComesBySwitch ==
  ASSUME PayInv, [Next]_vars, NEW j \in Jobs, CashAtDoor(j)', ~CashAtDoor(j)
  PROVE  switched'
<1> USE DEF recordVars
<1>1. ASSUME NEW k \in Jobs, JobStep(k) PROVE switched'
  <2>1. CASE UNCHANGED payment
    BY <2>1 DEF CashAtDoor
  <2>2. CASE ChooseCash(k)
    BY <2>2 DEF ChooseCash
  <2>3. CASE PayAhead(k)
    BY <2>3 DEF PayAhead, CashAtDoor, PayInv, TypeInv, RestTyped
  <2>4. CASE DeliverJob(k) \/ AdminDeliver(k)
    BY <2>4 DEF DeliverJob, AdminDeliver, FinishJob, CashAtDoor, PayInv, TypeInv, RestTyped
  <2> QED
    BY <1>1, <2>1, <2>2, <2>3, <2>4
    DEF JobStep, PostJob, ReleaseJob, PickUp, FailJob, CancelOrder, AdminFail, RetryDelivery
<1>2. CASE UNCHANGED payment
  BY <1>2 DEF CashAtDoor
<1>3. ASSUME NEW r \in Riders, RiderStep(r) PROVE UNCHANGED payment
  BY <1>3 DEF RiderStep, Change, SwitchDuty, SetLimit, SuspendRider, SuspendUser,
              Reactivate, SettleUp, RecordPayout, RecordAdjustment
<1>4. ASSUME NEW c \in Callers, AssignJob(c) \/ ClaimJob(c) PROVE UNCHANGED payment
  BY <1>4 DEF AssignJob, ClaimJob
<1>5. ASSUME NEW c \in Callers, NEW r \in Riders, NEW k \in Jobs,
             BeginDispatch(c, r, k) \/ BeginClaim(c, r, k)
      PROVE  UNCHANGED payment
  BY <1>5 DEF BeginDispatch, BeginClaim
<1>6. CASE UNCHANGED vars
  BY <1>2, <1>6 DEF vars
<1>7. CASE Next
  BY <1>1, <1>2, <1>3, <1>4, <1>5, <1>7 DEF Next, Dispatch
<1> QED
  BY <1>6, <1>7

(* History: a limit once had stays in the ceiling, a switch stays made. *)
LEMMA HistoryGrows ==
  ASSUME TypeInv, [Next]_vars
  PROVE  /\ \A r \in Riders : ceiling[r] <= ceiling'[r]
         /\ switched => switched'
<1> USE DEF recordVars, boundVars
<1>1. ASSUME UNCHANGED <<ceiling, switched>>
      PROVE  (\A r \in Riders : ceiling[r] <= ceiling'[r]) /\ (switched => switched')
  BY <1>1 DEF TypeInv, RestTyped
<1>2. ASSUME NEW k \in Jobs, JobStep(k)
      PROVE  UNCHANGED ceiling /\ (UNCHANGED switched \/ switched')
  BY <1>2 DEF JobStep, PostJob, ReleaseJob, PickUp, DeliverJob, FailJob, CancelOrder,
              AdminDeliver, AdminFail, RetryDelivery, ChooseCash, PayAhead
<1>3. ASSUME NEW r \in Riders, RiderStep(r)
      PROVE  /\ UNCHANGED switched
             /\ UNCHANGED ceiling \/ \E limit \in Limits : SetLimit(r, limit)
  BY <1>3 DEF RiderStep, Change, SwitchDuty, SetLimit, SuspendRider, SuspendUser,
              Reactivate, SettleUp, RecordPayout, RecordAdjustment
<1>4. ASSUME NEW r \in Riders, NEW limit \in Limits, SetLimit(r, limit)
      PROVE  \A u \in Riders : ceiling[u] <= ceiling'[u]
  BY <1>4, LimitAssumption DEF SetLimit, TypeInv, RestTyped
<1>5. ASSUME NEW c \in Callers, AssignJob(c) \/ ClaimJob(c)
      PROVE  UNCHANGED <<ceiling, switched>>
  BY <1>5 DEF AssignJob, ClaimJob
<1>6. ASSUME NEW c \in Callers, NEW r \in Riders, NEW k \in Jobs,
             BeginDispatch(c, r, k) \/ BeginClaim(c, r, k)
      PROVE  UNCHANGED <<ceiling, switched>>
  BY <1>6 DEF BeginDispatch, BeginClaim
<1>7. \A r \in Riders : ceiling[r] <= ceiling[r]
  BY DEF TypeInv, RestTyped
<1>8. CASE \E k \in Jobs : JobStep(k)
  BY <1>2, <1>7, <1>8
<1>9. CASE \E r \in Riders : RiderStep(r)
  BY <1>3, <1>4, <1>7, <1>9
<1>10. CASE UNCHANGED vars
  BY <1>1, <1>10 DEF vars
<1>11. CASE Next
  BY <1>1, <1>5, <1>6, <1>8, <1>9, <1>11 DEF Next, Dispatch
<1> QED
  BY <1>10, <1>11

LEMMA NextKnowsLimits ==
  ASSUME CashInv, [Next]_vars
  PROVE  LimitsKnown'
<1> SUFFICES ASSUME NEW r \in Riders PROVE rider'[r].limit <= ceiling'[r]
  BY DEF LimitsKnown
<1> USE DEF recordVars
<1>1. /\ rider[r].limit <= ceiling[r] /\ ceiling[r] <= ceiling'[r]
      /\ rider[r].limit \in Nat /\ ceiling[r] \in Nat /\ ceiling'[r] \in Nat
  <2>1. TypeInv'
    BY NextTyped DEF CashInv, PayInv
  <2> QED
    BY <2>1, HistoryGrows DEF CashInv, PayInv, LimitsKnown, TypeInv, RestTyped, RiderRows
<1>2. CASE rider'[r].limit = rider[r].limit
  BY <1>1, <1>2
<1>3. ASSUME NEW u \in Riders, RiderStep(u),
             ~(\E limit \in Limits : SetLimit(u, limit))
      PROVE  rider'[r].limit = rider[r].limit
  BY <1>3 DEF RiderStep, SwitchDuty, SuspendRider, SuspendUser, Reactivate, SettleUp,
              RecordPayout, RecordAdjustment, CashInv, PayInv, TypeInv, RestTyped, RiderRows
<1>4. ASSUME NEW u \in Riders, NEW limit \in Limits, SetLimit(u, limit)
      PROVE  rider'[r].limit <= ceiling'[r]
  <2>1. CASE u # r
    BY <1>2, <1>4, <2>1 DEF SetLimit, CashInv, PayInv, TypeInv, RestTyped
  <2>2. CASE u = r
    BY <1>1, <1>4, <2>2, LimitAssumption
    DEF SetLimit, CashInv, PayInv, TypeInv, RestTyped, RiderRows
  <2> QED
    BY <2>1, <2>2
<1>5. ASSUME NEW k \in Jobs, JobStep(k) PROVE UNCHANGED rider
  BY <1>5 DEF JobStep, PostJob, ReleaseJob, PickUp, DeliverJob, FailJob, CancelOrder,
              AdminDeliver, AdminFail, RetryDelivery, ChooseCash, PayAhead
<1>6. ASSUME NEW c \in Callers, AssignJob(c) \/ ClaimJob(c) PROVE UNCHANGED rider
  BY <1>6 DEF AssignJob, ClaimJob
<1>7. ASSUME NEW c \in Callers, NEW u \in Riders, NEW k \in Jobs,
             BeginDispatch(c, u, k) \/ BeginClaim(c, u, k)
      PROVE  UNCHANGED rider
  BY <1>7 DEF BeginDispatch, BeginClaim
<1>8. CASE UNCHANGED vars
  BY <1>2, <1>8 DEF vars
<1>9. CASE Next
  BY <1>2, <1>3, <1>4, <1>5, <1>6, <1>7, <1>9 DEF Next, Dispatch
<1> QED
  BY <1>8, <1>9

(* What a call under way has read is still what bounds it. *)
LEMMA CallsChange ==
  ASSUME [Next]_vars, TypeInv, NEW c \in Callers
  PROVE  \/ call'[c] = call[c] \/ call'[c] = Idle
         \/ /\ UNCHANGED <<rider, ceiling, payment, switched>>
            /\ c \in Dispatchers
            /\ \E r \in Riders, j \in Jobs :
                 call'[c] = [job |-> j, rider |-> r, cash |-> CashAtDoor(j), limit |-> 0]
         \/ /\ UNCHANGED <<rider, ceiling, payment, switched>>
            /\ c \in Claims
            /\ \E r \in Riders, j \in Jobs :
                 call'[c] = [job |-> j, rider |-> r, cash |-> FALSE,
                             limit |-> rider[r].limit]
<1> USE DEF recordVars, boundVars
<1>1. ASSUME NEW k \in Jobs, JobStep(k) PROVE UNCHANGED call
  BY <1>1 DEF JobStep, PostJob, ReleaseJob, PickUp, DeliverJob, FailJob, CancelOrder,
              AdminDeliver, AdminFail, RetryDelivery, ChooseCash, PayAhead
<1>2. ASSUME NEW r \in Riders, RiderStep(r) PROVE UNCHANGED call
  BY <1>2 DEF RiderStep, Change, SwitchDuty, SetLimit, SuspendRider, SuspendUser,
              Reactivate, SettleUp, RecordPayout, RecordAdjustment
<1>3. ASSUME NEW d \in Callers, AssignJob(d) \/ ClaimJob(d)
      PROVE  call'[c] = call[c] \/ call'[c] = Idle
  BY <1>3 DEF AssignJob, ClaimJob, Return, TypeInv, CallsTyped
<1>4. ASSUME NEW d \in Dispatchers, NEW r \in Riders, NEW j \in Jobs, BeginDispatch(d, r, j)
      PROVE  /\ UNCHANGED <<rider, ceiling, payment, switched>>
             /\ \/ call'[c] = call[c]
                \/ /\ d = c
                   /\ call'[c] = [job |-> j, rider |-> r, cash |-> CashAtDoor(j), limit |-> 0]
  BY <1>4 DEF BeginDispatch, TypeInv, CallsTyped, Idle
<1>5. ASSUME NEW d \in Claims, NEW r \in Riders, NEW j \in Jobs, BeginClaim(d, r, j)
      PROVE  /\ UNCHANGED <<rider, ceiling, payment, switched>>
             /\ \/ call'[c] = call[c]
                \/ /\ d = c
                   /\ call'[c] = [job |-> j, rider |-> r, cash |-> FALSE,
                                  limit |-> rider[r].limit]
  BY <1>5 DEF BeginClaim, TypeInv, CallsTyped, Idle
<1>6. CASE \E d \in Dispatchers, r \in Riders, j \in Jobs : BeginDispatch(d, r, j)
  BY <1>4, <1>6
<1>7. CASE \E d \in Claims, r \in Riders, j \in Jobs : BeginClaim(d, r, j)
  BY <1>5, <1>7
<1>8. CASE UNCHANGED vars
  BY <1>8 DEF vars
<1>9. CASE Next
  BY <1>1, <1>2, <1>3, <1>6, <1>7, <1>9 DEF Next, Dispatch
<1> QED
  BY <1>8, <1>9

LEMMA NextKeepsReads ==
  ASSUME CashInv, [Next]_vars
  PROVE  ReadLimits' /\ ReadCash'
<1>1. TypeInv /\ TypeInv'
  BY NextTyped DEF CashInv, PayInv
<1>2. /\ \A r \in Riders : /\ ceiling[r] <= ceiling'[r]
                           /\ ceiling[r] \in Nat /\ ceiling'[r] \in Nat
      /\ switched => switched'
  BY <1>1, HistoryGrows DEF TypeInv, RestTyped
<1>3. ASSUME NEW c \in Claims, call'[c] # Idle
      PROVE  call'[c].limit <= ceiling'[call'[c].rider]
  <2>1. CASE call'[c] = call[c]
    <3>1. call[c].limit <= ceiling[call[c].rider]
      BY <1>3, <2>1 DEF CashInv, ReadLimits
    <3>2. call[c].rider \in Riders /\ call[c].limit \in Nat
      BY <1>1, <1>3, <2>1 DEF TypeInv, CallsTyped, CallRows
    <3> QED
      BY <1>2, <2>1, <3>1, <3>2
  <2>2. ASSUME UNCHANGED ceiling, NEW r \in Riders, NEW j \in Jobs,
               call'[c] = [job |-> j, rider |-> r, cash |-> FALSE, limit |-> rider[r].limit]
        PROVE  call'[c].limit <= ceiling'[call'[c].rider]
    BY <2>2 DEF CashInv, LimitsKnown
  <2> QED
    BY <1>1, <1>3, <2>1, <2>2, CallsChange, CallerAssumption
<1>4. ASSUME ~switched', NEW c \in Dispatchers, call'[c] # Idle,
             payment'[call'[c].job] = "cash"
      PROVE  call'[c].cash
  <2>1. CASE call'[c] = call[c]
    <3>1. call[c].job \in Jobs
      BY <1>1, <1>4, <2>1 DEF TypeInv, CallsTyped
    <3>2. CashAtDoor(call[c].job)
      <4>1. ASSUME NEW j \in Jobs, payment'[j] = "cash" PROVE CashAtDoor(j)
        BY <1>4, <4>1, CashComesBySwitch DEF CashInv, CashAtDoor
      <4> QED
        BY <1>4, <2>1, <3>1, <4>1
    <3>3. ~switched /\ call[c] # Idle
      BY <1>2, <1>4, <2>1
    <3> QED
      BY <2>1, <3>2, <3>3 DEF CashInv, ReadCash
  <2>2. ASSUME UNCHANGED payment, NEW r \in Riders, NEW j \in Jobs,
               call'[c] = [job |-> j, rider |-> r, cash |-> CashAtDoor(j), limit |-> 0]
        PROVE  call'[c].cash
    <3>1. call'[c].job = j /\ call'[c].cash = CashAtDoor(j)
      BY <2>2
    <3>2. payment[j] = "cash"
      BY <1>4, <2>2, <3>1
    <3>3. CashAtDoor(j) = TRUE
      BY <3>2 DEF CashAtDoor
    <3> QED
      BY <3>1, <3>3
  <2>3. c \in Callers /\ c \notin Claims
    BY CallerAssumption
  <2>4. \/ call'[c] = call[c]
        \/ /\ UNCHANGED payment
           /\ \E r \in Riders, j \in Jobs :
                call'[c] = [job |-> j, rider |-> r, cash |-> CashAtDoor(j), limit |-> 0]
    BY <1>1, <1>4, <2>3, CallsChange
  <2>5. CASE call'[c] # call[c]
    <3>1. PICK r \in Riders, j \in Jobs :
            call'[c] = [job |-> j, rider |-> r, cash |-> CashAtDoor(j), limit |-> 0]
      BY <2>4, <2>5
    <3> QED
      BY <2>2, <2>4, <2>5, <3>1
  <2> QED
    BY <2>1, <2>5
<1>5. ReadLimits'
  BY <1>3 DEF ReadLimits
<1>6. ReadCash'
  BY <1>4 DEF ReadCash, CashAtDoor
<1> QED
  BY <1>5, <1>6

(* What awaits a rider at the doors, as the jobs they hold. *)
LEMMA DoorsAreHeld ==
  ASSUME JobsTyped, NEW r \in Riders
  PROVE  Doors(r) = {j \in Jobs : Holder[j] = r /\ CashAtDoor(j)}
  BY RiderAssumption DEF Doors, ActiveJobs, Holder, JobsTyped

LEMMA CollectDoors == \A r : CashToCollect(r) = SumFunctionOnSet(Amount, Doors(r))
  BY DEF CashToCollect, Total, Doors

(* Fewer doors, no more cash at them; one more door, its cash more. *)
LEMMA FewerDoors ==
  ASSUME NEW S \in SUBSET Jobs, NEW T \in SUBSET S
  PROVE  SumFunctionOnSet(Amount, T) <= SumFunctionOnSet(Amount, S)
<1>1. IsFiniteSet(S) /\ \A j \in S : Amount[j] \in Nat
  BY FiniteJobs, AmountAssumption
<1> QED
  BY <1>1, SumPart

LEMMA OneMoreDoor ==
  ASSUME NEW S \in SUBSET Jobs, NEW j \in Jobs \ S
  PROVE  SumFunctionOnSet(Amount, S \union {j}) = Amount[j] + SumFunctionOnSet(Amount, S)
<1>1. IsFiniteSet(S) /\ (\A k \in S : Amount[k] \in Int) /\ Amount[j] \in Int
  BY FiniteJobs, AmountAssumption
<1> QED
  BY <1>1, SumAdd

(* A rider who holds no more jobs than before, none of them newly to be paid at
   the door, is due to take no more cash. *)
LEMMA LettingGoKeepsCash ==
  ASSUME JobsTyped, JobsTyped', NEW r \in Riders,
         \A j \in Jobs : Holder'[j] \in {Holder[j], Nobody},
         \A j \in Jobs : CashAtDoor(j)' => CashAtDoor(j)
  PROVE  CashToCollect(r)' <= CashToCollect(r)
<1>1. Doors(r)' = {j \in Jobs : Holder'[j] = r /\ CashAtDoor(j)'}
  BY RiderAssumption DEF Doors, ActiveJobs, Holder, JobsTyped
<1>2. Doors(r)' \subseteq Doors(r)
  BY <1>1, DoorsAreHeld, RiderAssumption
<1>3. CashToCollect(r)' = SumFunctionOnSet(Amount, Doors(r)')
  BY DEF CashToCollect, Total, Doors
<1> QED
  BY <1>2, <1>3, CollectDoors, PartsOfJobs, FewerDoors

(* A rider given a job is due to take its cash as well, the others nothing more. *)
LEMMA GivingAddsCash ==
  ASSUME JobsTyped, NEW j \in Jobs, NEW u \in Riders, Open(j), GiveTo(u, j),
         UNCHANGED payment, NEW r \in Riders
  PROVE  CashToCollect(r)' = CashToCollect(r) + IF r = u THEN DoorCash(j) ELSE 0
<1>1. ActiveJobs(r)' = IF r = u THEN ActiveJobs(r) \union {j} ELSE ActiveJobs(r)
  BY RiderAssumption DEF ActiveJobs, Open, GiveTo, JobsTyped
<1>2. j \notin ActiveJobs(r)
  BY RiderAssumption DEF ActiveJobs, Open
<1>3. Doors(r)' = IF r = u /\ CashAtDoor(j) THEN Doors(r) \union {j} ELSE Doors(r)
  BY <1>1 DEF Doors, CashAtDoor
<1>4. CashToCollect(r)' = SumFunctionOnSet(Amount, Doors(r)')
  BY DEF CashToCollect, Total, Doors
<1>5. CashToCollect(r) \in Int /\ CashToCollect(r) = SumFunctionOnSet(Amount, Doors(r))
  BY CollectDoors, PartsOfJobs, FiniteJobs, AmountAssumption, SumInt
<1>6. CASE r = u /\ CashAtDoor(j)
  <2>1. j \in Jobs \ Doors(r)
    BY <1>2 DEF Doors
  <2>2. SumFunctionOnSet(Amount, Doors(r) \union {j}) = Amount[j] + SumFunctionOnSet(Amount, Doors(r))
    BY <2>1, PartsOfJobs, OneMoreDoor
  <2> QED
    BY <1>3, <1>4, <1>5, <1>6, <2>2, AmountAssumption DEF DoorCash
<1>7. CASE ~(r = u /\ CashAtDoor(j))
  BY <1>3, <1>4, <1>5, <1>7 DEF DoorCash
<1> QED
  BY <1>6, <1>7

(* A job that ends moves its cash from the doors ahead to what was collected. *)
LEMMA FinishMovesCash ==
  ASSUME PayInv, NEW j \in Jobs, job[j].status \in Active, FinishJob(j),
         NEW r \in Riders
  PROVE  CashToCollect(r)' = CashToCollect(r) - IF r = job[j].rider THEN DoorCash(j) ELSE 0
<1>1. JobsTyped /\ payment \in [Jobs -> {"cash", "unpaid", "paid"}]
  BY DEF PayInv, TypeInv, RestTyped
<1>2. ActiveJobs(r)' = ActiveJobs(r) \ {j}
  BY <1>1 DEF ActiveJobs, FinishJob, JobsTyped
<1>3. \A k \in Jobs \ {j} : CashAtDoor(k)' <=> CashAtDoor(k)
  BY <1>1 DEF FinishJob, CashAtDoor
<1>4. Doors(r)' = Doors(r) \ {j}
  BY <1>2, <1>3, PartsOfJobs DEF Doors, ActiveJobs
<1>5. CashToCollect(r)' = SumFunctionOnSet(Amount, Doors(r)')
  BY DEF CashToCollect, Total, Doors
<1>6. CashToCollect(r) \in Int /\ CashToCollect(r) = SumFunctionOnSet(Amount, Doors(r))
  BY CollectDoors, PartsOfJobs, FiniteJobs, AmountAssumption, SumInt
<1>7. CASE r = job[j].rider /\ CashAtDoor(j)
  <2> DEFINE S == Doors(r) \ {j}
  <2>1. j \in Doors(r) /\ S \in SUBSET Jobs /\ S \union {j} = Doors(r)
    BY <1>7, PartsOfJobs DEF Doors, ActiveJobs
  <2>2. SumFunctionOnSet(Amount, S \union {j}) = Amount[j] + SumFunctionOnSet(Amount, S)
    BY <2>1, OneMoreDoor
  <2>3. SumFunctionOnSet(Amount, S) \in Int
    <3>1. IsFiniteSet(S) /\ \A k \in S : Amount[k] \in Int
      BY <2>1, FiniteJobs, AmountAssumption
    <3> QED
      BY <3>1, SumInt
  <2>4. CashToCollect(r)' = SumFunctionOnSet(Amount, S)
    BY <1>4, <1>5
  <2>5. CashToCollect(r) = Amount[j] + SumFunctionOnSet(Amount, S)
    BY <1>6, <2>1, <2>2
  <2>6. (IF r = job[j].rider THEN DoorCash(j) ELSE 0) = Amount[j] /\ Amount[j] \in Int
    BY <1>7, AmountAssumption DEF DoorCash
  <2> HIDE DEF S
  <2> QED
    BY <2>3, <2>4, <2>5, <2>6
<1>8. CASE ~(r = job[j].rider /\ CashAtDoor(j))
  <2>1. j \notin Doors(r)
    BY <1>8 DEF Doors, ActiveJobs
  <2>2. Doors(r)' = Doors(r)
    BY <1>4, <2>1
  <2>3. (IF r = job[j].rider THEN DoorCash(j) ELSE 0) = 0
    BY <1>8 DEF DoorCash
  <2> QED
    BY <1>5, <1>6, <2>2, <2>3
<1> QED
  BY <1>7, <1>8

(* Nobody but an admin lowers what a rider holds, and handing in lowers only it. *)
LEMMA HandedInGrows ==
  ASSUME TypeInv, [Next]_vars, NEW r \in Riders
  PROVE  desk[r].handedIn <= desk'[r].handedIn
<1>1. desk[r] \in DeskRows /\ desk \in [Riders -> DeskRows]
  BY DEF TypeInv, RestTyped
<1>2. desk[r].handedIn <= desk[r].handedIn
  BY <1>1 DEF DeskRows
<1>3. ASSUME NEW u \in Riders, NEW h \in Nat, NEW p \in Nat, Record(u, h, p)
      PROVE  desk[r].handedIn <= desk'[r].handedIn
  BY <1>1, <1>3 DEF Record, DeskRows
<1>4. ASSUME NEW u \in Riders, NEW h \in Sums \union {0}, NEW kept \in Sums \union {0},
             SettleUp(u, h, kept)
      PROVE  desk[r].handedIn <= desk'[r].handedIn
  <2>1. h + kept \in Nat /\ kept \in Nat
    BY SumAssumption
  <2> QED
    BY <1>3, <1>4, <2>1 DEF SettleUp
<1>5. ASSUME NEW u \in Riders, NEW amount \in Sums, RecordPayout(u, amount)
      PROVE  desk[r].handedIn <= desk'[r].handedIn
  <2>1. amount \in Nat /\ 0 \in Nat
    BY SumAssumption
  <2> QED
    BY <1>3, <1>5, <2>1 DEF RecordPayout
<1>6. ASSUME NEW u \in Riders, NEW amount \in Corrections, RecordAdjustment(u, amount)
      PROVE  desk[r].handedIn <= desk'[r].handedIn
  BY <1>1, <1>2, <1>6 DEF RecordAdjustment, DeskRows
<1>7. CASE UNCHANGED desk
  BY <1>2, <1>7
<1> QED
  BY <1>4, <1>5, <1>6, <1>7, WhoRecords

(* What each step does to the jobs riders hold: a commit gives one, a delivery
   ends one, any other only lets go. *)
Commits(c) == \/ AssignJob(c) /\ MayAssign(call[c]) /\ c \in Dispatchers
              \/ ClaimJob(c) /\ MayClaim(call[c]) /\ c \in Claims

LEMMA WhatStepsDo ==
  ASSUME TypeInv, [Next]_vars
  PROVE  \/ \E c \in Callers : Commits(c)
         \/ \E j \in Jobs : job[j].status \in Active /\ FinishJob(j)
         \/ UNCHANGED entry /\ \A j \in Jobs : Holder'[j] \in {Holder[j], Nobody}
<1>1. CASE UNCHANGED job
  <2>1. \A j \in Jobs : Holder'[j] \in {Holder[j], Nobody}
    BY <1>1 DEF Holder
  <2> QED
    BY <2>1, WhoPosts
<1>2. CASE \E j \in Jobs : JobStep(j)
  BY <1>2, JobStepLetsGo, WhoPosts DEF TypeInv
<1>3. CASE \E r \in Riders : RiderStep(r)
  BY <1>3, RiderStepLetsGo, WhoPosts DEF TypeInv
<1>4. ASSUME NEW c \in Dispatchers, AssignJob(c), ~Commits(c) PROVE UNCHANGED job
  BY <1>4 DEF AssignJob, Commits
<1>5. ASSUME NEW c \in Claims, ClaimJob(c), ~Commits(c) PROVE UNCHANGED job
  BY <1>5 DEF ClaimJob, Commits
<1>6. ASSUME NEW c \in Callers, NEW r \in Riders, NEW j \in Jobs,
             BeginDispatch(c, r, j) \/ BeginClaim(c, r, j)
      PROVE  UNCHANGED job
  BY <1>6 DEF BeginDispatch, BeginClaim
<1>7. CASE UNCHANGED vars
  BY <1>1, <1>7 DEF vars
<1>8. CASE Next
  BY <1>1, <1>2, <1>3, <1>4, <1>5, <1>6, <1>8 DEF Next, Dispatch
<1> QED
  BY <1>7, <1>8

(* A commit has looked, under the rider's lock, at what the rider is committed to. *)
LEMMA CommitIsWithin ==
  ASSUME CashInv, ~switched, NEW c \in Callers, Commits(c), CashAtDoor(call[c].job)
  PROVE  CashCommitted(call[c].rider) + Amount[call[c].job] <= ceiling[call[c].rider]
<1> DEFINE r == call[c].rider
           j == call[c].job
<1>1. call[c] # Idle /\ r \in Riders /\ j \in Jobs
  BY DEF Commits, AssignJob, ClaimJob, CashInv, PayInv, TypeInv, CallsTyped
<1>2. /\ rider[r].limit \in Nat /\ ceiling[r] \in Nat /\ call[c].limit \in Nat
      /\ rider[r].limit <= ceiling[r]
  BY <1>1 DEF CashInv, LimitsKnown, PayInv, TypeInv, RestTyped, RiderRows, CallsTyped, CallRows
<1>3. CashCommitted(r) + Amount[j] \in Int
  <2>1. CashCollected(r) \in Nat /\ CashToCollect(r) \in Nat
    BY <1>1, MoneyIsTyped DEF CashInv, PayInv, MoneyTyped
  <2>2. desk[r].handedIn \in Nat
    BY <1>1 DEF CashInv, PayInv, TypeInv, RestTyped, DeskRows
  <2> QED
    BY <1>1, <2>1, <2>2, AmountAssumption DEF CashCommitted, CashHeld
<1>4. CASE AssignJob(c) /\ MayAssign(call[c]) /\ c \in Dispatchers
  <2>1. Within(r, j, rider[r].limit)
    BY <1>1, <1>4 DEF CashInv, ReadCash, MayAssign
  <2> QED
    BY <1>2, <1>3, <2>1 DEF Within
<1>5. CASE ClaimJob(c) /\ MayClaim(call[c]) /\ c \in Claims
  <2>1. Within(r, j, call[c].limit) /\ call[c].limit <= ceiling[r]
    BY <1>1, <1>5 DEF CashInv, ReadLimits, MayClaim
  <2> QED
    BY <1>2, <1>3, <2>1 DEF Within
<1> QED
  BY <1>4, <1>5 DEF Commits

LEMMA NextKeepsCash == CashInv /\ [Next]_vars => CashInv'
<1> SUFFICES ASSUME CashInv, [Next]_vars PROVE CashWithinLimit'
  BY NextPays, NextKnowsLimits, NextKeepsReads DEF CashInv
<1> SUFFICES ASSUME ~switched', NEW r \in Riders PROVE CashCommitted(r)' <= ceiling'[r]
  BY DEF CashWithinLimit
<1> DEFINE got == CashCollected(r)
           due == CashToCollect(r)
           gotNow == CashCollected(r)'
           dueNow == CashToCollect(r)'
           in == desk[r].handedIn
           inNow == desk'[r].handedIn
           top == ceiling[r]
           topNow == ceiling'[r]
<1>1. TypeInv /\ TypeInv' /\ PayInv
  BY NextTyped DEF CashInv, PayInv
<1>2. /\ got \in Nat /\ due \in Nat /\ gotNow \in Nat /\ dueNow \in Nat
      /\ in \in Nat /\ inNow \in Nat /\ top \in Nat /\ topNow \in Nat
  <2>1. MoneyTyped /\ MoneyTyped'
    BY <1>1, MoneyIsTyped, PTL
  <2> QED
    BY <1>1, <2>1 DEF MoneyTyped, TypeInv, RestTyped, DeskRows
<1>3. ~switched /\ top <= topNow /\ in <= inNow
  BY <1>1, HistoryGrows, HandedInGrows
<1>4. CashCommitted(r) = got - in + due /\ CashCommitted(r)' = gotNow - inNow + dueNow
  BY DEF CashCommitted, CashHeld
<1>5. got - in + due <= top
  BY <1>3, <1>4 DEF CashInv, CashWithinLimit
<1>6. CASE gotNow + dueNow <= got + due
  <2> HIDE DEF got, due, gotNow, dueNow, in, inNow, top, topNow
  <2>1. gotNow - inNow + dueNow <= topNow
    BY <1>2, <1>3, <1>5, <1>6
  <2> QED
    BY <1>4, <2>1 DEF topNow
<1>7. CASE UNCHANGED entry /\ \A j \in Jobs : Holder'[j] \in {Holder[j], Nobody}
  <2>1. \A j \in Jobs : CashAtDoor(j)' => CashAtDoor(j)
    BY <1>1, CashComesBySwitch
  <2>2. dueNow <= due
    BY <1>1, <1>7, <2>1, LettingGoKeepsCash DEF TypeInv
  <2>3. gotNow = got
    BY <1>7, NothingPosted
  <2> QED
    BY <1>2, <1>6, <2>2, <2>3
<1>8. ASSUME NEW j \in Jobs, job[j].status \in Active, FinishJob(j)
      PROVE  gotNow + dueNow <= got + due
  <2>1. DoorCash(j) \in Nat
    BY AmountAssumption DEF DoorCash
  <2>2. CASE r = job[j].rider
    <3>1. gotNow = got + DoorCash(j)
      BY <1>1, <1>8, <2>2, FinishPosts
    <3>2. dueNow = due - DoorCash(j)
      BY <1>1, <1>8, <2>2, FinishMovesCash
    <3> QED
      BY <1>2, <2>1, <3>1, <3>2
  <2>3. CASE r # job[j].rider
    <3>1. gotNow = got
      BY <1>1, <1>8, <2>3, FinishPosts
    <3>2. dueNow = due - 0
      BY <1>1, <1>8, <2>3, FinishMovesCash
    <3> QED
      BY <1>2, <3>1, <3>2
  <2> QED
    BY <2>2, <2>3
<1>9. ASSUME NEW c \in Callers, Commits(c)
      PROVE  CashCommitted(r)' <= ceiling'[r]
  <2> DEFINE u == call[c].rider
             j == call[c].job
  <2>1. u \in Riders /\ j \in Jobs
    BY <1>1, <1>9 DEF Commits, AssignJob, ClaimJob, TypeInv, CallsTyped
  <2>2. Open(j) /\ GiveTo(u, j) /\ UNCHANGED <<payment, entry>>
    BY <1>9 DEF Commits, AssignJob, ClaimJob, MayAssign, MayClaim, recordVars
  <2>3. dueNow = due + IF r = u THEN DoorCash(j) ELSE 0
    <3> HIDE DEF u, j
    <3> QED
      BY <1>1, <2>1, <2>2, GivingAddsCash DEF TypeInv
  <2>4. gotNow = got
    BY <2>2, NothingPosted
  <2>5. CASE r = u /\ CashAtDoor(j)
    <3>1. got - in + due + Amount[j] <= top
      BY <1>3, <1>4, <1>9, <2>5, CommitIsWithin
    <3>2. dueNow = due + Amount[j] /\ Amount[j] \in Nat
      BY <2>1, <2>3, <2>5, AmountAssumption DEF DoorCash
    <3> HIDE DEF got, due, gotNow, dueNow, in, inNow, top, topNow, j
    <3>3. gotNow - inNow + dueNow <= topNow
      BY <1>2, <1>3, <2>4, <3>1, <3>2
    <3> QED
      BY <1>4, <3>3 DEF topNow
  <2>6. CASE ~(r = u /\ CashAtDoor(j))
    <3>1. (IF r = u THEN DoorCash(j) ELSE 0) = 0
      BY <2>6 DEF DoorCash
    <3>2. dueNow = due
      BY <1>2, <2>3, <3>1
    <3> QED
      BY <1>2, <1>6, <2>4, <3>2
  <2> QED
    BY <2>5, <2>6
<1> QED
  BY <1>1, <1>6, <1>7, <1>8, <1>9, WhatStepsDo

(* Claims and dispatcher runs that count at once, stale limits and stale payments,
   deliveries, reopened jobs and settlements: what a rider holds and is still to
   take at the doors stays within a limit they had. *)
THEOREM CashStaysWithinLimit == Spec => []CashWithinLimit
<1>1. Init => CashInv
  <2> SUFFICES ASSUME Init PROVE CashInv
    OBVIOUS
  <2>1. PayInv
    BY InitPays
  <2>2. LimitsKnown
    BY LimitAssumption DEF Init, LimitsKnown
  <2>3. ReadLimits /\ ReadCash
    BY DEF Init, ReadLimits, ReadCash
  <2>4. ASSUME NEW r \in Riders PROVE CashCommitted(r) <= ceiling[r]
    <3>1. EntriesOf(r) = {} /\ Doors(r) = {}
      BY RiderAssumption DEF Init, EntriesOf, Doors, ActiveJobs
    <3>2. CashCollected(r) = 0 /\ CashToCollect(r) = 0
      BY <3>1, SumOfNone, CollectDoors DEF CashCollected
    <3>3. desk[r].handedIn = 0 /\ ceiling[r] \in Nat
      BY LimitAssumption DEF Init
    <3> QED
      BY <3>2, <3>3 DEF CashCommitted, CashHeld
  <2> QED
    BY <2>1, <2>2, <2>3, <2>4 DEF CashInv, CashWithinLimit
<1>2. CashInv => CashWithinLimit
  BY DEF CashInv
<1> QED
  BY <1>1, <1>2, NextKeepsCash, PTL DEF Spec
=============================================================================
