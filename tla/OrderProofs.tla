------------------------------ MODULE OrderProofs ------------------------------
(* What the control of an order guarantees for any set of items, any number of
   requests in flight, any method of payment and any amounts, and after it what
   its money does: first what each operator of OrderMoney makes of a money record,
   then which of them the handlers apply, and when. *)
EXTENDS OrderProperties, Sums

(* What a request may have read and decided when it began. *)
RequestOK(k) ==
  /\ k.op = "move" => /\ k.item \in Items
                      /\ k.from \notin {"cancelled", "delivered"}
                      /\ k.to \in ItemStatuses \ {"cancelled"}
  /\ k.op = "advance" => /\ k.from \notin Closed
                         /\ k.to \in OrderStatuses \ Closed
                         /\ k.to = "completed" => k.from = "delivered"

CallOK == DOMAIN call = Callers /\ \A c \in Callers : RequestOK(call[c])

(* The inductive invariant: the properties hold of a step only because no
   request in flight was begun on a closed item or order. *)
IInv == /\ ControlTypeOK
        /\ CallOK
        /\ RestockedOnce
        /\ CancelledIsClosed
        /\ DeliveredIsComplete

(* What the steps on the money and on the rider's pay leave alone. *)
control == <<orderStatus, items, returned, promoHeld, job>>

FollowUps == {"ensureDelivery", "recordOrderCompletion"}

-----------------------------------------------------------------------------
(* A step that touches neither the control nor the requests changes nothing that
   the invariant speaks of. *)
LEMMA ControlKept ==
  ASSUME IInv, UNCHANGED control, after' \subseteq FollowUps, CallOK'
  PROVE  IInv'
BY DEF IInv, control, FollowUps, ControlTypeOK, RestockedOnce, CancelledIsClosed,
       DeliveredIsComplete

(* A request that returns leaves the others as they were. *)
LEMMA ReturnKeepsCalls ==
  ASSUME CallOK, NEW c \in Callers, Return(c)
  PROVE  CallOK'
BY DEF CallOK, Return, RequestOK, Idle

(* A request may begin when what it decided is sound. *)
LEMMA BeginKeeps ==
  ASSUME IInv, NEW c \in Callers, NEW request, RequestOK(request),
         Begin(c, request)
  PROVE  IInv'
<1>1. CallOK'
  BY DEF IInv, CallOK, Begin, RequestOK
<1>2. UNCHANGED <<control, after>>
  BY DEF Begin, control, orderVars, riderVars
<1>3. after' \subseteq FollowUps
  BY <1>2 DEF IInv, ControlTypeOK, FollowUps
<1> QED
  BY <1>1, <1>2, <1>3, ControlKept

-----------------------------------------------------------------------------
(* Init establishes the invariant whatever the money is. *)
LEMMA InitEstablishes == Init => IInv
BY DEF Init, IInv, ControlTypeOK, OrderStatuses, ItemStatuses, JobStatuses,
       CallOK, RequestOK, Idle, RestockedOnce, CancelledIsClosed,
       DeliveredIsComplete

(* Cancelling items leaves every item, count and job with a value of its type. *)
LEMMA CancelItemsTyped ==
  ASSUME ControlTypeOK, NEW S, CancelItems(S)
  PROVE  /\ items' \in [Items -> ItemStatuses]
         /\ returned' \in [Items -> Nat]
BY DEF ControlTypeOK, CancelItems, Become, ItemStatuses

(* Closing a job leaves it with a status of the delivery table. *)
LEMMA CloseJobTyped ==
  ASSUME ControlTypeOK, CloseJob
  PROVE  job' \in JobStatuses
BY DEF ControlTypeOK, CloseJob, JobStatuses

(* The customer's, the admin's and the sweep's cancel: every item still live is
   restocked, the others were already cancelled or are delivered. *)
LEMMA CancelOrderKeeps ==
  ASSUME IInv, CancelOrder
  PROVE  IInv'
<1>1. ControlTypeOK'
  BY CancelItemsTyped, CloseJobTyped
  DEF IInv, CancelOrder, ControlTypeOK, OrderStatuses, ItemStatuses
<1> USE DEF IInv, CancelOrder, CancelItems, LiveItems, Unclosed, Become
<1>2. CallOK'
  BY DEF CallOK
<1>3. RestockedOnce'
  BY DEF RestockedOnce, ControlTypeOK
<1>4. CancelledIsClosed'
  BY DEF CancelledIsClosed, CloseJob, ControlTypeOK
<1>5. DeliveredIsComplete'
  BY DEF DeliveredIsComplete
<1> QED
  BY <1>1, <1>2, <1>3, <1>4, <1>5

(* A kitchen's cancel of items that are all still live. The order is cancelled
   exactly when nothing is kept. *)
LEMMA CancelByKitchenKeeps ==
  ASSUME IInv, NEW S \in SUBSET LiveItems, CancelByKitchen(S)
  PROVE  IInv'
<1>1. ControlTypeOK'
  BY CancelItemsTyped, CloseJobTyped
  DEF IInv, CancelByKitchen, ControlTypeOK, OrderStatuses, ItemStatuses
<1> USE DEF IInv, CancelByKitchen, CancelItems, LiveItems, Unclosed, Become
<1>2. CallOK'
  BY DEF CallOK
<1>3. RestockedOnce'
  BY DEF RestockedOnce, ControlTypeOK
<1>4. CancelledIsClosed'
  BY DEF CancelledIsClosed, CloseJob, ControlTypeOK, Kept
<1>5. DeliveredIsComplete'
  BY DEF DeliveredIsComplete, ControlTypeOK, Kept
<1> QED
  BY <1>1, <1>2, <1>3, <1>4, <1>5

(* The kitchen's accept. *)
LEMMA AcceptOrderKeeps ==
  ASSUME IInv, AcceptOrder
  PROVE  IInv'
<1> USE DEF IInv, AcceptOrder, LiveItems, Unclosed, Become, riderVars
<1>1. ControlTypeOK'
  BY DEF ControlTypeOK, ItemStatuses, OrderStatuses
<1>2. CallOK'
  BY DEF CallOK
<1>3. RestockedOnce'
  BY DEF RestockedOnce, ControlTypeOK
<1>4. CancelledIsClosed' /\ DeliveredIsComplete'
  BY DEF CancelledIsClosed, DeliveredIsComplete
<1> QED
  BY <1>1, <1>2, <1>3, <1>4

(* The job of an order is posted late, but never on an order that is closed. *)
LEMMA EnsureDeliveryKeeps ==
  ASSUME IInv, EnsureDelivery
  PROVE  IInv'
BY DEF IInv, EnsureDelivery, NeedsJob, ClosedForDelivery, orderVars,
       ControlTypeOK, JobStatuses, CallOK, RestockedOnce, CancelledIsClosed,
       DeliveredIsComplete

(* The rider's moves. A delivered job takes the order along with every item
   that was not cancelled, or finds the order delivered already. *)
LEMMA MoveJobKeeps ==
  ASSUME IInv, NEW to \in JobStatuses, MoveJob(to)
  PROVE  IInv'
<1> DEFINE pushed == PushedOrderStatus(to)
<1>1. pushed \in {"none", "dispatched", "in_transit", "delivered",
                  "delivery_failed"}
  BY DEF PushedOrderStatus
<1>2. orderStatus \notin {"cancelled", "refunded", "completed"}
  BY DEF MoveJob, MoveRefused
<1>3. \/ UNCHANGED <<orderStatus, items>>
      \/ orderStatus' = pushed /\ pushed # "none" /\ items' = Become(Kept, pushed)
  BY DEF MoveJob
<1>4. job' = to /\ UNCHANGED <<returned, promoHeld, call>>
  BY DEF MoveJob
<1>5. ControlTypeOK'
  <2>1. after' \subseteq {"ensureDelivery", "recordOrderCompletion"}
    BY DEF IInv, ControlTypeOK, MoveJob, CallsOnceDelivered
  <2> QED
    BY <1>1, <1>3, <1>4, <2>1
    DEF IInv, ControlTypeOK, Become, ItemStatuses, OrderStatuses
<1>6. CallOK'
  BY <1>4 DEF IInv, CallOK
<1>7. RestockedOnce'
  BY <1>1, <1>3, <1>4 DEF IInv, RestockedOnce, ControlTypeOK, Become, Kept
<1>8. CancelledIsClosed'
  BY <1>1, <1>2, <1>3 DEF CancelledIsClosed
<1>9. DeliveredIsComplete'
  BY <1>1, <1>3 DEF IInv, DeliveredIsComplete, ControlTypeOK, Become, Kept
<1> QED
  BY <1>5, <1>6, <1>7, <1>8, <1>9 DEF IInv

(* A release moves the job between statuses that no cancelled order's job has. *)
LEMMA ReleaseJobKeeps ==
  ASSUME IInv, ReleaseJob
  PROVE  IInv'
BY DEF IInv, ReleaseJob, BeforePickup, orderVars, ControlTypeOK, JobStatuses,
       CallOK, RestockedOnce, CancelledIsClosed, DeliveredIsComplete

(* So does a claim, which checks the job again as it commits. *)
LEMMA ClaimJobKeeps ==
  ASSUME IInv, NEW c \in Callers, ClaimJob(c)
  PROVE  IInv'
<1>1. CallOK'
  BY ReturnKeepsCalls DEF IInv, ClaimJob
<1> QED
  BY <1>1 DEF IInv, ClaimJob, orderVars, ControlTypeOK, JobStatuses,
     RestockedOnce, CancelledIsClosed, DeliveredIsComplete

-----------------------------------------------------------------------------
(* The two-step requests. *)

(* What an order becomes after an item moved is one of its statuses, it never
   becomes cancelled or completed that way, and it becomes delivered, or stays
   so, only when every item is delivered or cancelled. *)
LEMMA DerivedFacts ==
  ASSUME orderStatus \in OrderStatuses, NEW next \in [Items -> ItemStatuses],
         NEW to
  PROVE  /\ Derived(next, to) \in OrderStatuses
         /\ Derived(next, to) \in Closed \union {"completed"}
              => Derived(next, to) = orderStatus
         /\ orderStatus \in Closed => Derived(next, to) = orderStatus
         /\ Derived(next, to) = "delivered"
              => \/ orderStatus = "delivered"
                 \/ \A i \in Items : next[i] \in {"delivered", "cancelled"}
BY DEF Derived, AllAt, Closed, OrderStatuses, ItemStatuses

(* The move of one item, on the item the request read and no other. *)
LEMMA MoveItemKeeps ==
  ASSUME IInv, NEW c \in Callers, MoveItem(c)
  PROVE  IInv'
<1> DEFINE k == call[c]
<1>1. /\ k.item \in Items /\ items[k.item] = k.from
      /\ k.from \notin {"cancelled", "delivered"}
      /\ k.to \in ItemStatuses \ {"cancelled"}
  BY DEF IInv, CallOK, RequestOK, MoveItem
<1>2. /\ items' = Become({k.item}, k.to) /\ orderStatus' = Derived(items', k.to)
      /\ UNCHANGED <<returned, promoHeld, job>> /\ Return(c)
  BY DEF MoveItem, riderVars
<1>3. orderStatus \in OrderStatuses /\ items' \in [Items -> ItemStatuses]
  BY <1>1, <1>2 DEF IInv, ControlTypeOK, Become
<1>4. after' \subseteq FollowUps
  BY DEF IInv, ControlTypeOK, FollowUps, MoveItem, CallsOnceDelivered
<1>5. ControlTypeOK'
  BY <1>2, <1>3, <1>4, DerivedFacts DEF IInv, ControlTypeOK, FollowUps
<1>6. CallOK'
  BY <1>2, ReturnKeepsCalls DEF IInv
<1>7. RestockedOnce'
  BY <1>1, <1>2 DEF IInv, RestockedOnce, ControlTypeOK, Become
<1>8. CancelledIsClosed'
  <2>1. orderStatus' = "cancelled" => orderStatus = "cancelled"
    BY <1>2, <1>3, DerivedFacts DEF Closed
  <2> QED
    BY <1>1, <1>2, <2>1 DEF IInv, CancelledIsClosed
<1>9. DeliveredIsComplete'
  <2>1. orderStatus \notin {"delivered", "completed"}
    BY <1>1 DEF IInv, DeliveredIsComplete
  <2>2. orderStatus' # "completed"
    BY <1>2, <1>3, <2>1, DerivedFacts
  <2>3. orderStatus' = "delivered"
          => \A i \in Items : items'[i] \in {"delivered", "cancelled"}
    BY <1>2, <1>3, <2>1, DerivedFacts
  <2> QED
    BY <2>2, <2>3 DEF DeliveredIsComplete
<1> QED
  BY <1>5, <1>6, <1>7, <1>8, <1>9 DEF IInv

(* The kitchen marks the order ready: it looked at the status again. *)
LEMMA MarkReadyKeeps ==
  ASSUME IInv, NEW c \in Callers, MarkReady(c)
  PROVE  IInv'
<1>1. CallOK'
  BY ReturnKeepsCalls DEF IInv, MarkReady
<1>2. ControlTypeOK'
  BY DEF IInv, MarkReady, riderVars, ControlTypeOK, CallsOnceReady, Become,
     ItemStatuses, OrderStatuses
<1>3. RestockedOnce'
  BY DEF IInv, MarkReady, RestockedOnce, ControlTypeOK, Become, LiveItems, Unclosed
<1>4. CancelledIsClosed' /\ DeliveredIsComplete'
  BY DEF MarkReady, CancelledIsClosed, DeliveredIsComplete
<1> QED
  BY <1>1, <1>2, <1>3, <1>4 DEF IInv

(* An admin's step: it starts from where the order still stands, which is not
   closed, and completes a delivered order only. *)
LEMMA AdvanceOrderKeeps ==
  ASSUME IInv, NEW c \in Callers, AdvanceOrder(c)
  PROVE  IInv'
<1> DEFINE to == call[c].to
<1>1. /\ orderStatus \notin Closed /\ to \in OrderStatuses \ Closed
      /\ to = "completed" => orderStatus = "delivered"
  BY DEF IInv, CallOK, RequestOK, AdvanceOrder, Unmoved
<1>2. /\ orderStatus' = to /\ Return(c) /\ UNCHANGED <<returned, promoHeld>>
      /\ items' = IF to = "delivered" THEN Become(LiveItems, "delivered") ELSE items
      /\ job' \in {job, "delivered"}
  BY DEF AdvanceOrder
<1>3. after' \subseteq FollowUps
  BY DEF IInv, ControlTypeOK, FollowUps, AdvanceOrder, CallsOnceDelivered,
     CallsOnceReady
<1>4. ControlTypeOK'
  BY <1>1, <1>2, <1>3
  DEF IInv, ControlTypeOK, FollowUps, Become, ItemStatuses, JobStatuses
<1>5. CallOK'
  BY <1>2, ReturnKeepsCalls DEF IInv
<1>6. RestockedOnce'
  BY <1>2 DEF IInv, RestockedOnce, ControlTypeOK, Become, LiveItems, Unclosed
<1>7. CancelledIsClosed'
  BY <1>1, <1>2 DEF CancelledIsClosed, Closed
<1>8. DeliveredIsComplete'
  BY <1>1, <1>2
  DEF IInv, DeliveredIsComplete, ControlTypeOK, Become, LiveItems, Unclosed
<1> QED
  BY <1>4, <1>5, <1>6, <1>7, <1>8 DEF IInv

(* A refund may close the order as refunded; it touches nothing else here. *)
LEMMA ProcessRefundKeeps ==
  ASSUME IInv, NEW c \in Callers, ProcessRefund(c)
  PROVE  IInv'
<1>1. CallOK'
  BY ReturnKeepsCalls DEF IInv, ProcessRefund
<1> QED
  BY <1>1
  DEF IInv, ProcessRefund, riderVars, ControlTypeOK, OrderStatuses, RestockedOnce,
      CancelledIsClosed, DeliveredIsComplete

(* The retry writes blindly, but keeps cancelled items cancelled and leaves the
   order ready. *)
LEMMA RetryDeliveryKeeps ==
  ASSUME IInv, NEW c \in Callers, RetryDelivery(c)
  PROVE  IInv'
<1>1. CallOK'
  BY ReturnKeepsCalls DEF IInv, RetryDelivery
<1>2. ControlTypeOK'
  BY DEF IInv, RetryDelivery, ControlTypeOK, Become, ItemStatuses, OrderStatuses,
     JobStatuses
<1>3. RestockedOnce'
  BY DEF IInv, RetryDelivery, RestockedOnce, ControlTypeOK, Become, Kept
<1>4. CancelledIsClosed' /\ DeliveredIsComplete'
  BY DEF RetryDelivery, CancelledIsClosed, DeliveredIsComplete
<1> QED
  BY <1>1, <1>2, <1>3, <1>4 DEF IInv

(* The requests on the payment, the gateway's reports, the refund desk and the
   ledger call leave the control alone. *)
MoneyStep ==
  \/ RecordOrderCompletion
  \/ \E a \in Attempts : SettleAttempt(a) \/ ExpireAttempt(a)
  \/ \E k \in DOMAIN money.refunds : CompleteRefund(k) \/ DismissRefund(k)
  \/ SelectStale

MoneyRequest(c) ==
  \/ SubmitPayment(c) \/ KitchenVerdict(c) \/ AdminConfirm(c)
  \/ \E a \in Attempts : OpenCheckout(c, a)
  \/ ChooseCash(c) \/ PayFromWallet(c) \/ Refuse(c)

(* A money step changes neither the control nor a request. *)
LEMMA MoneyStepKeeps ==
  ASSUME IInv, MoneyStep
  PROVE  IInv'
<1>1. UNCHANGED <<control, call>> /\ after' \subseteq after
  BY DEF MoneyStep, RecordOrderCompletion, SettleAttempt, ExpireAttempt,
     CompleteRefund, DismissRefund, SelectStale, control, orderVars, riderVars
<1>2. CallOK' /\ after' \subseteq FollowUps
  BY <1>1 DEF IInv, CallOK, ControlTypeOK, FollowUps
<1> QED
  BY <1>1, <1>2, ControlKept

(* A request on the payment returns, and may ask for the ledger's call. *)
LEMMA MoneyRequestKeeps ==
  ASSUME IInv, NEW c \in Callers, MoneyRequest(c)
  PROVE  IInv'
<1>1. UNCHANGED control /\ Return(c)
  BY DEF MoneyRequest, SubmitPayment, KitchenVerdict, AdminConfirm, OpenCheckout,
     ChooseCash, PayFromWallet, Refuse, control, orderVars, riderVars
<1>2. after' \subseteq after \union {"recordOrderCompletion"}
  BY DEF MoneyRequest, SubmitPayment, KitchenVerdict, AdminConfirm, OpenCheckout,
     ChooseCash, PayFromWallet, Refuse
<1>3. CallOK' /\ after' \subseteq FollowUps
  BY <1>1, <1>2, ReturnKeepsCalls DEF IInv, ControlTypeOK, FollowUps
<1> QED
  BY <1>1, <1>3, ControlKept

-----------------------------------------------------------------------------
(* An admin's step goes from an order that is not closed to one that is not
   closed, and to completed from delivered only. *)
LEMMA OrderStepFacts ==
  ASSUME NEW from, NEW to, IsOrderStep(from, to)
  PROVE  /\ from \notin Closed /\ to \in OrderStatuses \ Closed
         /\ to = "completed" => from = "delivered"
BY DEF IsOrderStep, OrderForwardSequence, Closed, OrderStatuses, ItemStatuses

(* A kitchen's step by hand never starts from a finished item. *)
LEMMA ItemTransitionFacts ==
  ASSUME NEW from, NEW to, <<from, to>> \in ItemTransitions
  PROVE  from \notin {"cancelled", "delivered"} /\ to \in ItemStatuses \ {"cancelled"}
BY DEF ItemTransitions, ItemStatuses

(* Whatever request begins, what it read and decided is sound. *)
LEMMA BeginRequestKeeps ==
  ASSUME IInv, NEW c \in Callers, BeginRequest(c)
  PROVE  IInv'
<1> USE DEF Request, Idle, RequestOK
<1>1. ASSUME NEW i \in Items, NEW to \in ItemStatuses, BeginMove(c, i, to)
      PROVE  IInv'
  BY <1>1, ItemTransitionFacts, BeginKeeps DEF BeginMove
<1>2. ASSUME NEW to \in OrderStatuses, BeginAdvance(c, to)
      PROVE  IInv'
  BY <1>2, OrderStepFacts, BeginKeeps DEF BeginAdvance
<1>3. CASE BeginReady(c) \/ BeginRetry(c) \/ BeginSubmit(c) \/ BeginCash(c)
           \/ BeginClaim(c)
  BY <1>3, BeginKeeps
  DEF BeginReady, BeginRetry, BeginSubmit, BeginCash, BeginClaim
<1>4. ASSUME NEW asked \in RefundAmounts, BeginRefund(c, asked)
      PROVE  IInv'
  BY <1>4, BeginKeeps DEF BeginRefund
<1>5. ASSUME NEW verdict \in {"confirm", "dispute"}, BeginVerdict(c, verdict)
      PROVE  IInv'
  BY <1>5, BeginKeeps DEF BeginVerdict
<1>6. CASE BeginAdminConfirm(c) \/ BeginCheckout(c) \/ BeginWalletPay(c)
  BY <1>6, BeginKeeps DEF BeginAdminConfirm, BeginCheckout, BeginWalletPay
<1> QED
  BY <1>1, <1>2, <1>3, <1>4, <1>5, <1>6 DEF BeginRequest

(* Whatever request commits or gives up. *)
LEMMA FinishRequestKeeps ==
  ASSUME IInv, NEW c \in Callers, FinishRequest(c)
  PROVE  IInv'
<1>1. CASE MoneyRequest(c)
  BY <1>1, MoneyRequestKeeps
<1>2. CASE ~MoneyRequest(c)
  BY <1>2, MoveItemKeeps, MarkReadyKeeps, AdvanceOrderKeeps, ProcessRefundKeeps,
     RetryDeliveryKeeps, ClaimJobKeeps
  DEF FinishRequest, MoneyRequest
<1> QED
  BY <1>1, <1>2

(* A restart forgets the requests and the calls, and nothing else. *)
LEMMA CrashKeeps ==
  ASSUME IInv, Crash
  PROVE  IInv'
<1>1. CallOK'
  BY DEF Crash, CallOK, RequestOK, Idle
<1>2. UNCHANGED control /\ after' \subseteq FollowUps
  BY DEF Crash, control, orderVars, riderVars
<1> QED
  BY <1>1, <1>2, ControlKept

(* The sweep's second half is a cancel, or nothing. *)
LEMMA SweepOrderKeeps ==
  ASSUME IInv, SweepOrder
  PROVE  IInv'
<1>1. CASE CancelOrder
  BY <1>1, CancelOrderKeeps
<1>2. CASE UNCHANGED <<orderVars, money, attempts, riderVars, posted, after, call,
                       crashes>>
  <2>1. UNCHANGED <<control, after, call>>
    BY <1>2 DEF control, orderVars, riderVars
  <2>2. CallOK' /\ after' \subseteq FollowUps
    BY <2>1 DEF IInv, CallOK, ControlTypeOK, FollowUps
  <2> QED
    BY <2>1, <2>2, ControlKept
<1> QED
  BY <1>1, <1>2 DEF SweepOrder

(* The invariant is inductive: one step per handler. *)
LEMMA NextKeeps ==
  ASSUME IInv, [Next]_vars
  PROVE  IInv'
<1>1. CASE CustomerCancel \/ AdminCancel
  BY <1>1, CancelOrderKeeps DEF CustomerCancel, AdminCancel
<1>2. ASSUME NEW i \in Items, CancelItem(i)
      PROVE  IInv'
  <2>1. {i} \in SUBSET LiveItems
    BY <1>2 DEF CancelItem, ItemCancellable, LiveItems, Unclosed
  <2> QED
    BY <1>2, <2>1, CancelByKitchenKeeps DEF CancelItem
<1>3. CASE RejectOrder
  BY <1>3, CancelByKitchenKeeps DEF RejectOrder
<1>4. CASE AcceptOrder
  BY <1>4, AcceptOrderKeeps
<1>5. CASE EnsureDelivery
  BY <1>5, EnsureDeliveryKeeps
<1>6. ASSUME NEW to \in JobStatuses, MoveJob(to)
      PROVE  IInv'
  BY <1>6, MoveJobKeeps
<1>7. CASE ReleaseJob
  BY <1>7, ReleaseJobKeeps
<1>8. CASE MoneyStep
  BY <1>8, MoneyStepKeeps
<1>9. ASSUME NEW c \in Callers, BeginRequest(c) \/ FinishRequest(c)
      PROVE  IInv'
  BY <1>9, BeginRequestKeeps, FinishRequestKeeps
<1>10. CASE SweepOrder
  BY <1>10, SweepOrderKeeps
<1>11. CASE Crash
  BY <1>11, CrashKeeps
<1>12. CASE UNCHANGED vars
  <2>1. UNCHANGED <<control, after, call>>
    BY <1>12 DEF vars, control, orderVars, riderVars
  <2>2. CallOK' /\ after' \subseteq FollowUps
    BY <2>1 DEF IInv, CallOK, ControlTypeOK, FollowUps
  <2> QED
    BY <2>1, <2>2, ControlKept
<1> QED
  BY <1>1, <1>2, <1>3, <1>4, <1>5, <1>6, <1>7, <1>8, <1>9, <1>10, <1>11, <1>12
  DEF Next, MoneyStep

(* The inductive invariant holds of every reachable state. *)
THEOREM ControlInvariant == Spec => []IInv
<1>1. Init => IInv
  BY InitEstablishes
<1>2. IInv /\ [Next]_vars => IInv'
  BY NextKeeps
<1> QED
  BY <1>1, <1>2, PTL DEF Spec

-----------------------------------------------------------------------------
(* The control variables keep their types: no handler writes a status the
   tables do not know. *)
THEOREM ControlTyped == Spec => []ControlTypeOK
<1>1. IInv => ControlTypeOK
  BY DEF IInv
<1> QED
  BY <1>1, ControlInvariant, PTL

(* Stock and hub units are put back exactly once, and only for cancelled items,
   however customer, kitchen, admin, sweep and restarts interleave. *)
THEOREM StockRestockedOnce == Spec => []RestockedOnce
<1>1. IInv => RestockedOnce
  BY DEF IInv
<1> QED
  BY <1>1, ControlInvariant, PTL

(* A cancelled order has nothing left to cook, to carry or to count. *)
THEOREM CancelledOrderIsClosed == Spec => []CancelledIsClosed
<1>1. IInv => CancelledIsClosed
  BY DEF IInv
<1> QED
  BY <1>1, ControlInvariant, PTL

(* A delivered order is delivered in full. *)
THEOREM DeliveredOrderIsComplete == Spec => []DeliveredIsComplete
<1>1. IInv => DeliveredIsComplete
  BY DEF IInv
<1> QED
  BY <1>1, ControlInvariant, PTL

-----------------------------------------------------------------------------
(* The requests in flight that could write the order's status: all of them but
   the retry decided again under the lock, and none finds a closed order where
   it left it. *)
LEMMA ClosedOrFinished ==
  ASSUME IInv, NEW c \in Callers, FinishRequest(c), orderStatus \in Closed
  PROVE  orderStatus' \in Closed \/ RetryDelivery(c)
<1>1. CASE MoveItem(c)
  <2>1. orderStatus' = Derived(items', call[c].to)
    BY <1>1 DEF MoveItem
  <2>2. items' \in [Items -> ItemStatuses] /\ orderStatus \in OrderStatuses
    BY <1>1, MoveItemKeeps DEF IInv, ControlTypeOK
  <2> QED
    BY <2>1, <2>2, DerivedFacts
<1>2. CASE MarkReady(c)
  BY <1>2 DEF MarkReady, StillCooking, Closed
<1>3. CASE AdvanceOrder(c)
  BY <1>3 DEF AdvanceOrder, Unmoved, IInv, CallOK, RequestOK
<1>4. CASE ProcessRefund(c)
  BY <1>4 DEF ProcessRefund, Closed
<1>5. CASE MoneyRequest(c)
  BY <1>5 DEF MoneyRequest, SubmitPayment, KitchenVerdict, AdminConfirm,
     OpenCheckout, ChooseCash, PayFromWallet, Refuse, orderVars
<1>6. CASE ClaimJob(c)
  BY <1>6 DEF ClaimJob, orderVars
<1> QED
  BY <1>1, <1>2, <1>3, <1>4, <1>5, <1>6 DEF FinishRequest, MoneyRequest

(* No other step takes an order out of cancelled or refunded. *)
LEMMA ClosedStaysClosed ==
  ASSUME IInv, [Next]_vars, orderStatus \in Closed
  PROVE  orderStatus' \in Closed \/ \E c \in Callers : RetryDelivery(c)
<1>1. CASE CustomerCancel \/ AdminCancel \/ SweepOrder
  BY <1>1 DEF CustomerCancel, AdminCancel, SweepOrder, CancelOrder, orderVars, Closed
<1>2. CASE \/ \E i \in Items : CancelItem(i)
           \/ RejectOrder
  BY <1>2 DEF CancelItem, RejectOrder, CancelByKitchen, Closed
<1>3. CASE AcceptOrder
  BY <1>3 DEF AcceptOrder, Closed
<1>4. CASE EnsureDelivery \/ ReleaseJob \/ Crash
  BY <1>4 DEF EnsureDelivery, ReleaseJob, Crash, orderVars
<1>5. ASSUME NEW to \in JobStatuses, MoveJob(to)
      PROVE  orderStatus' \in Closed
  BY <1>5 DEF MoveJob, MoveRefused, Closed
<1>6. CASE MoneyStep
  BY <1>6 DEF MoneyStep, RecordOrderCompletion, SettleAttempt, ExpireAttempt,
     CompleteRefund, DismissRefund, SelectStale, orderVars
<1>7. ASSUME NEW c \in Callers, BeginRequest(c)
      PROVE  orderStatus' = orderStatus
  BY <1>7 DEF BeginRequest, BeginMove, BeginReady, BeginAdvance, BeginRefund,
     BeginRetry, BeginSubmit, BeginVerdict, BeginAdminConfirm, BeginCheckout,
     BeginCash, BeginWalletPay, BeginClaim, Begin, orderVars
<1>8. ASSUME NEW c \in Callers, FinishRequest(c)
      PROVE  orderStatus' \in Closed \/ RetryDelivery(c)
  BY <1>8, ClosedOrFinished
<1>9. CASE UNCHANGED vars
  BY <1>9 DEF vars, orderVars
<1> QED
  BY <1>1, <1>2, <1>3, <1>4, <1>5, <1>6, <1>7, <1>8, <1>9 DEF Next, MoneyStep

-----------------------------------------------------------------------------
(* The money record. *)

RefundRows == [amount : Nat \ {0}, back : BOOLEAN, status : RefundStatuses]

MoneyRows == [method : Methods, status : PaymentStatuses, paidAt : BOOLEAN,
              collectedBy : Collectors, paid : Nat, total : Nat \ {0},
              refunds : Seq(RefundRows), wallet : Int]

Amounts(m) == [k \in DOMAIN m.refunds |-> m.refunds[k].amount]

LEMMA MoneyFields ==
  ASSUME NEW m \in MoneyRows
  PROVE  /\ m.method \in Methods /\ m.status \in PaymentStatuses
         /\ m.paidAt \in BOOLEAN /\ m.collectedBy \in Collectors
         /\ m.paid \in Nat /\ m.total \in Nat \ {0} /\ m.wallet \in Int
         /\ m.refunds \in Seq(RefundRows)
  BY DEF MoneyRows

(* The amounts of refunds are sums like any other. *)
LEMMA RefundsTyped ==
  ASSUME NEW m \in MoneyRows
  PROVE  /\ IsFiniteSet(DOMAIN m.refunds)
         /\ \A k \in DOMAIN m.refunds : /\ m.refunds[k] \in RefundRows
                                        /\ Amounts(m)[k] \in Nat \ {0}
         /\ StandingRefunds(m) \in SUBSET DOMAIN m.refunds
         /\ PendingRefunds(m) \in SUBSET StandingRefunds(m)
         /\ \A S : AmountOf(m, S) = SumFunctionOnSet(Amounts(m), S)
<1>1. m.refunds \in Seq(RefundRows)
  BY MoneyFields
<1>2. DOMAIN m.refunds = 1 .. Len(m.refunds) /\ Len(m.refunds) \in Nat
  BY <1>1
<1>3. IsFiniteSet(DOMAIN m.refunds)
  BY <1>2, FS_Interval
<1>4. \A k \in DOMAIN m.refunds : m.refunds[k] \in RefundRows
  BY <1>1
<1>5. \A k \in DOMAIN m.refunds : Amounts(m)[k] \in Nat \ {0}
  BY <1>4 DEF Amounts, RefundRows
<1> QED
  BY <1>3, <1>4, <1>5 DEF StandingRefunds, PendingRefunds, AmountOf, Amounts

LEMMA AmountsAdd ==
  ASSUME NEW m \in MoneyRows, NEW S \in SUBSET DOMAIN m.refunds
  PROVE  AmountOf(m, S) \in Nat
<1>1. IsFiniteSet(S) /\ \A k \in S : Amounts(m)[k] \in Nat
  BY RefundsTyped, FS_Subset
<1> QED
  BY <1>1, RefundsTyped, SumNat

LEMMA StandingIsNat == \A m \in MoneyRows : Standing(m) \in Nat
  BY AmountsAdd, RefundsTyped DEF Standing

LEMMA NoneStanding ==
  ASSUME NEW m \in MoneyRows, StandingRefunds(m) = {}
  PROVE  Standing(m) = 0 /\ PendingRefunds(m) = {}
  BY RefundsTyped, SumOfNone DEF Standing

(* The refunds that went to the wallet. *)
Sent(m) == {k \in DOMAIN m.refunds : m.refunds[k].back}

(* Records whose refunds are the same. *)
LEMMA SameRefunds ==
  ASSUME NEW m, NEW n, n.refunds = m.refunds
  PROVE  /\ StandingRefunds(n) = StandingRefunds(m)
         /\ PendingRefunds(n) = PendingRefunds(m)
         /\ DismissedRefunds(n) = DismissedRefunds(m)
         /\ Standing(n) = Standing(m)
         /\ Sent(n) = Sent(m)
         /\ \A S : AmountOf(n, S) = AmountOf(m, S)
  BY DEF StandingRefunds, PendingRefunds, DismissedRefunds, Standing, Sent, AmountOf

-----------------------------------------------------------------------------
(* One more refund. *)

LEMMA AppendRow ==
  ASSUME NEW S, NEW s \in Seq(S), NEW row \in S
  PROVE  /\ Append(s, row) \in Seq(S)
         /\ Len(s) + 1 \notin DOMAIN s
         /\ DOMAIN Append(s, row) = DOMAIN s \union {Len(s) + 1}
         /\ \A k \in DOMAIN s : Append(s, row)[k] = s[k]
         /\ Append(s, row)[Len(s) + 1] = row
  OBVIOUS

(* What one more refund adds to the sums. *)
GainsRow(m, n, row, x) ==
  /\ m \in MoneyRows /\ row \in RefundRows
  /\ n.refunds = Append(m.refunds, row)
  /\ row.status # "failed"
  /\ x = Len(m.refunds) + 1

(* The row x is new, and the amounts of the others are what they were. *)
LEMMA GainedAmounts ==
  ASSUME NEW m, NEW n, NEW row, NEW x, GainsRow(m, n, row, x),
         NEW S \in SUBSET DOMAIN m.refunds
  PROVE  /\ AmountOf(n, S) = AmountOf(m, S)
         /\ AmountOf(n, S \union {x}) = AmountOf(m, S) + row.amount
<1> USE DEF GainsRow
<1>1. m.refunds \in Seq(RefundRows)
  BY MoneyFields
<1>2. /\ x \notin DOMAIN m.refunds
      /\ DOMAIN n.refunds = DOMAIN m.refunds \union {x}
      /\ \A k \in DOMAIN m.refunds : n.refunds[k] = m.refunds[k]
      /\ n.refunds[x] = row
  BY <1>1, AppendRow
<1> DEFINE f == Amounts(m)
           g == Amounts(n)
<1>3. IsFiniteSet(S) /\ \A k \in S : f[k] \in Int
  BY RefundsTyped, FS_Subset
<1>4. (\A k \in S : g[k] = f[k]) /\ g[x] = row.amount /\ row.amount \in Int
  BY <1>2 DEF Amounts, RefundRows
<1>5. x \notin S
  BY <1>2
<1>6. \A T : AmountOf(n, T) = SumFunctionOnSet(g, T) /\ AmountOf(m, T) = SumFunctionOnSet(f, T)
  BY DEF AmountOf, Amounts
<1> HIDE DEF f, g
<1>7. SumFunctionOnSet(g, S) = SumFunctionOnSet(f, S)
  BY <1>3, <1>4, SumSame
<1>8. SumFunctionOnSet(g, S \union {x}) = g[x] + SumFunctionOnSet(g, S)
  <2>1. \A k \in S : g[k] \in Int
    BY <1>3, <1>4
  <2> QED
    BY <1>3, <1>4, <1>5, <2>1, SumAdd
<1>9. SumFunctionOnSet(f, S) \in Int
  BY <1>3, SumInt
<1> QED
  BY <1>4, <1>6, <1>7, <1>8, <1>9

LEMMA OneMoreRefund ==
  ASSUME NEW m, NEW n, NEW row, NEW x, GainsRow(m, n, row, x)
  PROVE  /\ StandingRefunds(n) = StandingRefunds(m) \union {x}
         /\ PendingRefunds(n) = PendingRefunds(m) \union
                                (IF row.status = "pending" THEN {x} ELSE {})
         /\ DismissedRefunds(n) = DismissedRefunds(m)
         /\ Standing(n) = Standing(m) + row.amount
         /\ row.back = TRUE => Sent(n) = Sent(m) \union {x}
         /\ row.back = FALSE => Sent(n) = Sent(m)
<1>1. m.refunds \in Seq(RefundRows)
  BY MoneyFields DEF GainsRow
<1>2. /\ x \notin DOMAIN m.refunds
      /\ DOMAIN n.refunds = DOMAIN m.refunds \union {x}
      /\ \A k \in DOMAIN m.refunds : n.refunds[k] = m.refunds[k]
      /\ n.refunds[x] = row
  BY <1>1, AppendRow DEF GainsRow
<1>3. StandingRefunds(n) = StandingRefunds(m) \union {x}
  BY <1>2 DEF StandingRefunds, GainsRow
<1>4. PendingRefunds(n) = PendingRefunds(m) \union (IF row.status = "pending" THEN {x} ELSE {})
  BY <1>2 DEF PendingRefunds
<1>5. DismissedRefunds(n) = DismissedRefunds(m)
  BY <1>2, <1>3 DEF DismissedRefunds, GainsRow
<1>6. /\ row.back = TRUE => Sent(n) = Sent(m) \union {x}
      /\ row.back = FALSE => Sent(n) = Sent(m)
  BY <1>2 DEF Sent
<1>7. Standing(n) = Standing(m) + row.amount
  <2>1. StandingRefunds(m) \in SUBSET DOMAIN m.refunds
    BY DEF StandingRefunds
  <2> QED
    BY <1>3, <2>1, GainedAmounts DEF Standing
<1> QED
  BY <1>3, <1>4, <1>5, <1>6, <1>7

LEMMA OneMoreSent ==
  ASSUME NEW m, NEW n, NEW row, NEW x, GainsRow(m, n, row, x)
  PROVE  /\ row.back = TRUE => AmountOf(n, Sent(n)) = AmountOf(m, Sent(m)) + row.amount
         /\ row.back = FALSE => AmountOf(n, Sent(n)) = AmountOf(m, Sent(m))
<1>1. PICK S : S = Sent(m)
  OBVIOUS
<1>2. S \in SUBSET DOMAIN m.refunds
  BY <1>1 DEF Sent
<1>3. /\ AmountOf(n, S) = AmountOf(m, S)
      /\ AmountOf(n, S \union {x}) = AmountOf(m, S) + row.amount
  BY <1>2, GainedAmounts
<1>4. /\ row.back = TRUE => Sent(n) = S \union {x}
      /\ row.back = FALSE => Sent(n) = S
  BY <1>1, OneMoreRefund
<1> QED
  BY <1>1, <1>3, <1>4

(* A refund that an admin sends or dismisses. *)
Marked(s, k, status) == [s EXCEPT ![k].status = status]

LEMMA RefundSettled ==
  ASSUME NEW m \in MoneyRows, NEW k \in PendingRefunds(m), NEW n,
         NEW status \in {"completed", "failed"},
         n.refunds = Marked(m.refunds, k, status)
  PROVE  /\ n.refunds \in Seq(RefundRows)
         /\ PendingRefunds(n) = PendingRefunds(m) \ {k}
         /\ StandingRefunds(n) = IF status = "failed" THEN StandingRefunds(m) \ {k}
                                 ELSE StandingRefunds(m)
         /\ DismissedRefunds(n) = IF status = "failed" THEN DismissedRefunds(m) \union {k}
                                  ELSE DismissedRefunds(m)
         /\ Sent(n) = Sent(m)
         /\ \A S \in SUBSET DOMAIN m.refunds : AmountOf(n, S) = AmountOf(m, S)
<1>1. m.refunds \in Seq(RefundRows) /\ k \in DOMAIN m.refunds /\ m.refunds[k].status = "pending"
  BY MoneyFields DEF PendingRefunds
<1> DEFINE row == [m.refunds[k] EXCEPT !.status = status]
<1>2. m.refunds[k] \in RefundRows
  BY <1>1
<1>3. /\ row \in RefundRows /\ row.status = status
      /\ row.amount = m.refunds[k].amount /\ row.back = m.refunds[k].back
  BY <1>2 DEF RefundRows, RefundStatuses
<1>4. n.refunds = [m.refunds EXCEPT ![k] = row]
  BY <1>1 DEF Marked
<1> HIDE DEF row
<1>5. /\ n.refunds \in Seq(RefundRows)
      /\ DOMAIN n.refunds = DOMAIN m.refunds
      /\ \A j \in DOMAIN m.refunds : n.refunds[j] = IF j = k THEN row ELSE m.refunds[j]
  BY <1>1, <1>3, <1>4
<1>6. PendingRefunds(n) = PendingRefunds(m) \ {k}
  BY <1>3, <1>5 DEF PendingRefunds
<1>7. StandingRefunds(n) = IF status = "failed" THEN StandingRefunds(m) \ {k}
                           ELSE StandingRefunds(m)
  BY <1>1, <1>3, <1>5 DEF StandingRefunds
<1>8. DismissedRefunds(n) = IF status = "failed" THEN DismissedRefunds(m) \union {k}
                            ELSE DismissedRefunds(m)
  BY <1>1, <1>5, <1>7 DEF DismissedRefunds, StandingRefunds
<1>9. Sent(n) = Sent(m)
  BY <1>3, <1>5 DEF Sent
<1>10. Amounts(n) = Amounts(m)
  BY <1>3, <1>5 DEF Amounts
<1> QED
  BY <1>5, <1>6, <1>7, <1>8, <1>9, <1>10 DEF AmountOf, Amounts

-----------------------------------------------------------------------------
(* Which money records the handlers leave behind, whatever the order does. *)

UnpaidHasNoRefund(m) == m.status \in {"pending", "failed"} => StandingRefunds(m) = {}

WalletOwesNothing(m) == m.method = "wallet" => PendingRefunds(m) = {}

ClosedIsCovered(m) ==
  m.status \in {"refund_pending", "refunded"} /\ DismissedRefunds(m) = {}
    => Standing(m) = m.total

RefundedIsSent(m) == m.status = "refunded" => PendingRefunds(m) = {}

SoundMoney(m) ==
  /\ m \in MoneyRows
  /\ UnpaidHasNoRefund(m)
  /\ WalletOwesNothing(m)
  /\ ClosedIsCovered(m)
  /\ RefundedIsSent(m)

LEMMA PricesAdd ==
  ASSUME NEW S \in SUBSET Items
  PROVE  Worth(S) \in Nat /\ (S # {} => PriceOf(S) \in Nat \ {0})
<1>1. IsFiniteSet(S) /\ \A i \in S : Price[i] \in Nat \ {0}
  BY ItemsAssumption, PriceAssumption, FS_Subset
<1>2. Worth(S) \in Nat
  BY <1>1, SumNat DEF Worth
<1>3. ASSUME NEW i \in S PROVE Worth(S) > 0
  <2>1. Worth(S) = Price[i] + SumFunctionOnSet(Price, S \ {i})
    BY <1>1, SumRemove DEF Worth
  <2>2. SumFunctionOnSet(Price, S \ {i}) \in Nat
    <3>1. IsFiniteSet(S \ {i}) /\ \A j \in S \ {i} : Price[j] \in Nat
      BY <1>1, FS_Subset
    <3> QED
      BY <3>1, SumNat
  <2> QED
    BY <1>1, <2>1, <2>2
<1> QED
  BY <1>2, <1>3, FeeAssumption DEF PriceOf

(* What issueRefund writes when there is something to give back. *)
LEMMA RefundWrites ==
  ASSUME NEW m \in MoneyRows, NEW asked \in Int, CanRefund(m, asked)
  PROVE  LET n == Refunded(m, asked)
             amount == RefundableNow(m, asked)
             back == m.method = "wallet"
             row == [amount |-> amount, back |-> back,
                     status |-> IF back THEN "completed" ELSE "pending"]
         IN  /\ n \in MoneyRows /\ row \in RefundRows
             /\ amount \in Nat \ {0} /\ amount <= m.total - Standing(m)
             /\ n.refunds = Append(m.refunds, row)
             /\ n.method = m.method /\ n.paidAt = m.paidAt
             /\ n.collectedBy = m.collectedBy /\ n.paid = m.paid
             /\ n.total = m.total
             /\ n.wallet = m.wallet + (IF back THEN amount ELSE 0)
             /\ n.status = IF Standing(m) + amount >= m.total
                           THEN IF back THEN "refunded" ELSE "refund_pending"
                           ELSE m.status
<1> DEFINE n == Refunded(m, asked)
           amount == RefundableNow(m, asked)
           back == m.method = "wallet"
           row == [amount |-> amount, back |-> back,
                   status |-> IF back THEN "completed" ELSE "pending"]
<1>1. Standing(m) \in Nat /\ m.total \in Nat
  BY StandingIsNat, MoneyFields
<1>2. amount \in Nat \ {0} /\ amount <= m.total - Standing(m)
  BY <1>1 DEF CanRefund, RefundableNow, Lesser
<1>3. back \in BOOLEAN
  OBVIOUS
<1> HIDE DEF amount
<1>4. row \in RefundRows
  BY <1>2, <1>3 DEF RefundRows, RefundStatuses
<1>5. Append(m.refunds, row) \in Seq(RefundRows)
  BY <1>4, MoneyFields, AppendRow
<1> HIDE DEF row
<1>6. n = [m EXCEPT !.refunds = Append(m.refunds, row),
                    !.wallet  = IF back THEN m.wallet + amount ELSE m.wallet,
                    !.status  = IF Standing(m) + amount >= m.total
                                THEN IF back THEN "refunded" ELSE "refund_pending"
                                ELSE m.status]
  BY DEF Refunded, CoversTotal, amount, row
<1> HIDE DEF n
<1>7. m.wallet \in Int /\ (IF back THEN m.wallet + amount ELSE m.wallet) \in Int
  BY <1>2, MoneyFields
<1>8. n \in MoneyRows
  BY <1>5, <1>6, <1>7 DEF MoneyRows, PaymentStatuses
<1>9. n.wallet = m.wallet + (IF back THEN amount ELSE 0)
  BY <1>6, <1>7 DEF MoneyRows
<1>10. /\ n.refunds = Append(m.refunds, row)
       /\ n.method = m.method /\ n.paidAt = m.paidAt
       /\ n.collectedBy = m.collectedBy /\ n.paid = m.paid
       /\ n.total = m.total
       /\ n.status = IF Standing(m) + amount >= m.total
                     THEN IF back THEN "refunded" ELSE "refund_pending"
                     ELSE m.status
  BY <1>6 DEF MoneyRows
<1> QED
  BY <1>2, <1>4, <1>8, <1>9, <1>10 DEF n, amount, row

LEMMA RefundIsSound ==
  ASSUME NEW m, SoundMoney(m), NEW asked \in Int, CanRefund(m, asked)
  PROVE  SoundMoney(Refunded(m, asked))
<1> DEFINE n == Refunded(m, asked)
           amount == RefundableNow(m, asked)
           back == m.method = "wallet"
           row == [amount |-> amount, back |-> back,
                   status |-> IF back THEN "completed" ELSE "pending"]
           x == Len(m.refunds) + 1
<1>1. m \in MoneyRows
  BY DEF SoundMoney
<1>2. /\ n \in MoneyRows /\ row \in RefundRows
      /\ amount \in Nat \ {0} /\ amount <= m.total - Standing(m)
      /\ n.refunds = Append(m.refunds, row)
      /\ n.method = m.method /\ n.total = m.total
      /\ n.status = IF Standing(m) + amount >= m.total
                    THEN IF back THEN "refunded" ELSE "refund_pending"
                    ELSE m.status
  BY <1>1, RefundWrites
<1>3. row.amount = amount /\ row.status = IF back THEN "completed" ELSE "pending"
  OBVIOUS
<1> HIDE DEF n, amount, row, x
<1>4. /\ PendingRefunds(n) = PendingRefunds(m) \union
                             (IF row.status = "pending" THEN {x} ELSE {})
      /\ DismissedRefunds(n) = DismissedRefunds(m)
      /\ Standing(n) = Standing(m) + amount
  <2>1. GainsRow(m, n, row, x)
    BY <1>1, <1>2, <1>3 DEF GainsRow, x
  <2>2. /\ PendingRefunds(n) = PendingRefunds(m) \union
                               (IF row.status = "pending" THEN {x} ELSE {})
        /\ DismissedRefunds(n) = DismissedRefunds(m)
        /\ Standing(n) = Standing(m) + row.amount
    BY <2>1, OneMoreRefund
  <2> QED
    BY <1>3, <2>2
<1>5. m.status \in {"paid", "payment_submitted"}
  BY DEF CanRefund
<1>6. back => PendingRefunds(n) = {}
  BY <1>3, <1>4 DEF SoundMoney, WalletOwesNothing
<1>7. Standing(m) \in Nat /\ m.total \in Nat
  BY <1>1, StandingIsNat, MoneyFields
<1>8. n.status \in {"refund_pending", "refunded"} => Standing(n) = n.total
  <2>1. Standing(m) + amount >= m.total => Standing(m) + amount = m.total
    BY <1>2, <1>7
  <2> QED
    BY <1>2, <1>4, <1>5, <2>1
<1>9. n.status = "refunded" => back
  BY <1>2, <1>5
<1>10. n.status \notin {"pending", "failed"}
  BY <1>2, <1>5
<1> QED
  BY <1>2, <1>6, <1>8, <1>9, <1>10
  DEF SoundMoney, UnpaidHasNoRefund, WalletOwesNothing, ClosedIsCovered, RefundedIsSent, n

LEMMA IssueRefundIsSound ==
  ASSUME NEW m, SoundMoney(m), NEW asked \in Int
  PROVE  SoundMoney(IssueRefund(m, asked))
  BY RefundIsSound DEF IssueRefund

LEMMA RefundAllIsSound ==
  ASSUME NEW m, SoundMoney(m)
  PROVE  SoundMoney(RefundAll(m))
<1>1. m.total \in Int
  BY MoneyFields DEF SoundMoney
<1> QED
  BY <1>1, IssueRefundIsSound DEF RefundAll

(* A record with the same refunds, whose status says no less of them. *)
LEMMA SameRefundsSound ==
  ASSUME NEW m, SoundMoney(m), NEW n \in MoneyRows, n.refunds = m.refunds,
         n.method = "wallet" => PendingRefunds(m) = {},
         \/ n.status \notin {"pending", "failed", "refund_pending", "refunded"}
         \/ n.status = m.status /\ n.total = m.total
         \/ n.status \in {"pending", "failed"} /\ m.status \in {"pending", "failed"}
  PROVE  SoundMoney(n)
<1>1. /\ StandingRefunds(n) = StandingRefunds(m)
      /\ PendingRefunds(n) = PendingRefunds(m)
      /\ DismissedRefunds(n) = DismissedRefunds(m)
      /\ Standing(n) = Standing(m)
  BY SameRefunds
<1> QED
  BY <1>1 DEF SoundMoney, UnpaidHasNoRefund, WalletOwesNothing, ClosedIsCovered, RefundedIsSent

LEMMA TakenIsSound ==
  ASSUME NEW m, SoundMoney(m), NEW collector \in Collectors
  PROVE  SoundMoney(TakenBy(m, collector))
<1>1. m.total \in Nat /\ m \in MoneyRows
  BY MoneyFields DEF SoundMoney
<1> DEFINE n == Taken(m, collector, m.total)
<1> HIDE DEF n
<1>2. /\ n \in MoneyRows /\ n.status = "paid" /\ n.method = m.method
      /\ n.refunds = m.refunds
  <2>1. n = Taken(m, collector, m.total)
    BY DEF n
  <2> QED
    BY <1>1, <2>1 DEF Taken, MoneyRows, PaymentStatuses
<1>3. n.method = "wallet" => PendingRefunds(m) = {}
  BY <1>2 DEF SoundMoney, WalletOwesNothing
<1>4. SoundMoney(n)
  BY <1>2, <1>3, SameRefundsSound
<1> QED
  BY <1>4 DEF n, TakenBy

Rupees == Nat

LEMMA FromWalletWrites ==
  ASSUME NEW m \in MoneyRows, NEW amount \in Rupees,
         NEW n, n = PaidFromWallet(m, amount)
  PROVE  /\ n \in MoneyRows
         /\ n.status = "paid" /\ n.paidAt = TRUE
         /\ n.collectedBy = "platform"
         /\ n.method = "wallet" /\ n.total = m.total
         /\ n.refunds = m.refunds
<1> DEFINE t == Taken(m, "platform", amount)
<1>1. /\ t \in MoneyRows
      /\ t.status = "paid" /\ t.paidAt = TRUE /\ t.collectedBy = "platform"
      /\ t.total = m.total /\ t.wallet = m.wallet /\ t.refunds = m.refunds
  BY DEF Taken, MoneyRows, PaymentStatuses, Collectors, Rupees
<1>2. t.wallet - amount \in Int
  BY <1>1, MoneyFields DEF Rupees
<1>3. PaidFromWallet(m, amount) = [t EXCEPT !.method = "wallet", !.wallet = t.wallet - amount]
  BY DEF PaidFromWallet
<1> HIDE DEF t
<1> QED
  BY <1>1, <1>2, <1>3 DEF MoneyRows, Methods

(* The debit is what the payment says was paid. *)
LEMMA FromWalletPays ==
  ASSUME NEW m \in MoneyRows, NEW amount
  PROVE  /\ PaidFromWallet(m, amount).paid = amount
         /\ PaidFromWallet(m, amount).wallet = m.wallet - amount
  BY DEF PaidFromWallet, Taken, MoneyRows

LEMMA FromWalletIsSound ==
  ASSUME NEW m, SoundMoney(m), m.status \in MethodOpen, NEW amount \in Nat
  PROVE  SoundMoney(PaidFromWallet(m, amount))
<1>1. m \in MoneyRows /\ PendingRefunds(m) = {}
  BY NoneStanding DEF SoundMoney, UnpaidHasNoRefund, MethodOpen
<1> DEFINE n == PaidFromWallet(m, amount)
<1> HIDE DEF n
<1>2. n \in MoneyRows /\ n.status = "paid" /\ n.refunds = m.refunds
  <2>1. n = PaidFromWallet(m, amount)
    BY DEF n
  <2> QED
    BY <1>1, <2>1, FromWalletWrites DEF Rupees
<1>3. SoundMoney(n)
  BY <1>1, <1>2, SameRefundsSound
<1> QED
  BY <1>3 DEF n

(* What settleAttempt takes when the order needs the money. *)
LEMMA OnlineWrites ==
  ASSUME NEW m \in MoneyRows, NEW amount \in Nat
  PROVE  LET n == [TakenBy(m, "platform") EXCEPT !.method = "online",
                                                 !.wallet = @ + (amount - m.total)]
         IN  /\ n \in MoneyRows
             /\ n.status = "paid" /\ n.paidAt = TRUE
             /\ n.collectedBy = "platform" /\ n.paid = m.total
             /\ n.method = "online" /\ n.total = m.total
             /\ n.wallet = m.wallet + (amount - m.total)
             /\ n.refunds = m.refunds
<1> DEFINE t == TakenBy(m, "platform")
<1>1. m.total \in Nat /\ m.wallet \in Int
  BY MoneyFields
<1>2. /\ t \in MoneyRows
      /\ t.status = "paid" /\ t.paidAt = TRUE
      /\ t.collectedBy = "platform" /\ t.paid = m.total
      /\ t.total = m.total /\ t.wallet = m.wallet /\ t.refunds = m.refunds
  <2>1. "platform" \in Collectors
    BY DEF Collectors
  <2>2. t = Taken(m, "platform", m.total)
    BY DEF TakenBy
  <2> HIDE DEF t
  <2> QED
    BY <1>1, <2>1, <2>2 DEF Taken, MoneyRows, PaymentStatuses
<1> HIDE DEF t
<1>3. t.wallet + (amount - m.total) \in Int
  BY <1>1, <1>2
<1>4. [t EXCEPT !.method = "online", !.wallet = @ + (amount - m.total)]
        = [t EXCEPT !.method = "online", !.wallet = t.wallet + (amount - m.total)]
  BY <1>2 DEF MoneyRows
<1> DEFINE n == [t EXCEPT !.method = "online", !.wallet = t.wallet + (amount - m.total)]
<1>5. /\ n \in MoneyRows
      /\ n.status = "paid" /\ n.paidAt = TRUE
      /\ n.collectedBy = "platform" /\ n.paid = m.total
      /\ n.method = "online" /\ n.total = m.total
      /\ n.wallet = m.wallet + (amount - m.total)
      /\ n.refunds = m.refunds
  BY <1>2, <1>3 DEF MoneyRows, Methods
<1> QED
  BY <1>4, <1>5 DEF t

LEMMA CreditWrites ==
  ASSUME NEW m \in MoneyRows, NEW amount \in Nat
  PROVE  LET n == [m EXCEPT !.wallet = @ + amount]
         IN  /\ n \in MoneyRows
             /\ n.status = m.status /\ n.paidAt = m.paidAt
             /\ n.collectedBy = m.collectedBy /\ n.paid = m.paid
             /\ n.method = m.method /\ n.total = m.total
             /\ n.wallet = m.wallet + amount
             /\ n.refunds = m.refunds
<1>1. m.wallet + amount \in Int
  BY MoneyFields
<1> QED
  BY <1>1 DEF MoneyRows

LEMMA SettledIsSound ==
  ASSUME NEW m, SoundMoney(m), NEW amount \in Nat, NEW calledOff \in BOOLEAN
  PROVE  SoundMoney(Settled(m, amount, calledOff))
<1> DEFINE credit == [m EXCEPT !.wallet = @ + amount]
           taken == [TakenBy(m, "platform") EXCEPT !.method = "online",
                                                   !.wallet = @ + (amount - m.total)]
<1>1. m \in MoneyRows
  BY DEF SoundMoney
<1>2. SoundMoney(credit)
  <2>1. /\ credit \in MoneyRows /\ credit.refunds = m.refunds
        /\ credit.status = m.status /\ credit.total = m.total /\ credit.method = m.method
    BY <1>1, CreditWrites
  <2> HIDE DEF credit
  <2>2. credit.method = "wallet" => PendingRefunds(m) = {}
    BY <2>1 DEF SoundMoney, WalletOwesNothing
  <2> QED
    BY <2>1, <2>2, SameRefundsSound
<1>3. SoundMoney(taken)
  <2>1. /\ taken \in MoneyRows /\ taken.refunds = m.refunds
        /\ taken.status = "paid" /\ taken.method = "online"
    BY <1>1, OnlineWrites
  <2> HIDE DEF taken
  <2>2. taken.method = "wallet" => PendingRefunds(m) = {}
    BY <2>1
  <2> QED
    BY <2>1, <2>2, SameRefundsSound
<1>4. SoundMoney(RefundAll(taken))
  <2> HIDE DEF taken
  <2> QED
    BY <1>3, RefundAllIsSound
<1>5. Settled(m, amount, calledOff) \in {credit, taken, RefundAll(taken)}
  BY DEF Settled
<1> HIDE DEF credit, taken
<1> QED
  BY <1>2, <1>3, <1>4, <1>5

LEMMA CancelledIsSound ==
  ASSUME NEW m, SoundMoney(m), NEW gone \in SUBSET Items, NEW kept \in SUBSET Items
  PROVE  SoundMoney(RefundCancelled(m, gone, kept))
<1>1. CASE kept = {}
  BY <1>1, RefundAllIsSound DEF RefundCancelled
<1>2. CASE kept # {} /\ m.status \in {"pending", "failed", "disputed"}
  <2> DEFINE n == [m EXCEPT !.total = PriceOf(kept)]
  <2>1. PriceOf(kept) \in Nat \ {0}
    BY <1>2, PricesAdd
  <2>2. /\ n \in MoneyRows /\ n.refunds = m.refunds
        /\ n.status = m.status /\ n.method = m.method
    BY <2>1 DEF SoundMoney, MoneyRows
  <2> HIDE DEF n
  <2>3. n.method = "wallet" => PendingRefunds(m) = {}
    BY <2>2 DEF SoundMoney, WalletOwesNothing
  <2>4. SoundMoney(n)
    BY <1>2, <2>2, <2>3, SameRefundsSound
  <2> QED
    BY <1>2, <2>4 DEF RefundCancelled, n
<1>3. CASE kept # {} /\ m.status \notin {"pending", "failed", "disputed"}
  <2>1. Worth(gone) \in Int
    BY PricesAdd
  <2> QED
    BY <1>3, <2>1, IssueRefundIsSound DEF RefundCancelled
<1> QED
  BY <1>1, <1>2, <1>3

(* A refund that is sent counts as it did; the last one closes the order. *)
LEMMA SentWrites ==
  ASSUME NEW m \in MoneyRows, NEW k \in PendingRefunds(m),
         NEW n, n = RefundSent(m, k)
  PROVE  /\ n \in MoneyRows
         /\ n.refunds = Marked(m.refunds, k, "completed")
         /\ n.paidAt = m.paidAt /\ n.collectedBy = m.collectedBy
         /\ n.paid = m.paid /\ n.total = m.total /\ n.wallet = m.wallet
         /\ n.method = m.method
         /\ n.status = IF m.status = "refund_pending" /\ PendingRefunds(n) = {}
                       THEN "refunded" ELSE m.status
<1> DEFINE sent == [m EXCEPT !.refunds[k].status = "completed"]
           rows == Marked(m.refunds, k, "completed")
<1>1. sent = [m EXCEPT !.refunds = rows]
  BY DEF MoneyRows, Marked
<1>2. rows \in Seq(RefundRows)
  <2> DEFINE other == [m EXCEPT !.refunds = rows]
  <2>1. other.refunds = rows
    BY DEF MoneyRows
  <2> HIDE DEF other, rows
  <2> QED
    BY <2>1, RefundSettled DEF rows
<1> HIDE DEF rows
<1>3. /\ sent \in MoneyRows /\ sent.refunds = rows
      /\ sent.paidAt = m.paidAt /\ sent.collectedBy = m.collectedBy
      /\ sent.paid = m.paid /\ sent.total = m.total /\ sent.wallet = m.wallet
      /\ sent.method = m.method /\ sent.status = m.status
  BY <1>1, <1>2 DEF MoneyRows
<1>4. n = IF m.status = "refund_pending" /\ PendingRefunds(sent) = {}
          THEN [sent EXCEPT !.status = "refunded"] ELSE sent
  BY DEF RefundSent
<1> HIDE DEF sent
<1>5. /\ n \in MoneyRows /\ n.refunds = rows
      /\ n.paidAt = m.paidAt /\ n.collectedBy = m.collectedBy
      /\ n.paid = m.paid /\ n.total = m.total /\ n.wallet = m.wallet
      /\ n.method = m.method
      /\ n.status = IF m.status = "refund_pending" /\ PendingRefunds(sent) = {}
                    THEN "refunded" ELSE m.status
  BY <1>3, <1>4 DEF MoneyRows, PaymentStatuses
<1>6. PendingRefunds(n) = PendingRefunds(sent)
  BY <1>3, <1>5, SameRefunds
<1> QED
  BY <1>5, <1>6 DEF rows

LEMMA SentIsSound ==
  ASSUME NEW m, SoundMoney(m), NEW k \in PendingRefunds(m)
  PROVE  SoundMoney(RefundSent(m, k))
<1> DEFINE n == RefundSent(m, k)
<1>1. m \in MoneyRows
  BY DEF SoundMoney
<1>2. n = RefundSent(m, k)
  OBVIOUS
<1> HIDE DEF n
<1>3. /\ n \in MoneyRows
      /\ n.refunds = Marked(m.refunds, k, "completed")
      /\ n.total = m.total /\ n.method = m.method
      /\ n.status = IF m.status = "refund_pending" /\ PendingRefunds(n) = {}
                    THEN "refunded" ELSE m.status
  BY <1>1, <1>2, SentWrites
<1>4. /\ PendingRefunds(n) = PendingRefunds(m) \ {k}
      /\ StandingRefunds(n) = StandingRefunds(m)
      /\ DismissedRefunds(n) = DismissedRefunds(m)
      /\ \A S \in SUBSET DOMAIN m.refunds : AmountOf(n, S) = AmountOf(m, S)
  BY <1>1, <1>3, RefundSettled
<1>5. Standing(n) = Standing(m)
  BY <1>1, <1>4, RefundsTyped DEF Standing
<1>6. m.status # "refunded"
  BY DEF SoundMoney, RefundedIsSent
<1> QED
  BY <1>2, <1>3, <1>4, <1>5, <1>6
  DEF SoundMoney, UnpaidHasNoRefund, WalletOwesNothing, ClosedIsCovered, RefundedIsSent

(* A refund that is dismissed counts no more. *)
LEMMA DismissedWrites ==
  ASSUME NEW m \in MoneyRows, NEW k \in PendingRefunds(m),
         NEW n, n = RefundDismissed(m, k)
  PROVE  /\ n \in MoneyRows
         /\ n.refunds = Marked(m.refunds, k, "failed")
         /\ n.paidAt = m.paidAt /\ n.collectedBy = m.collectedBy
         /\ n.paid = m.paid /\ n.total = m.total /\ n.wallet = m.wallet
         /\ n.method = m.method
         /\ n.status = IF m.status = "refund_pending" /\ StandingRefunds(n) = {}
                       THEN IF m.paidAt THEN "paid" ELSE "failed"
                       ELSE m.status
<1> DEFINE dropped == [m EXCEPT !.refunds[k].status = "failed"]
           rows == Marked(m.refunds, k, "failed")
<1>1. dropped = [m EXCEPT !.refunds = rows]
  BY DEF MoneyRows, Marked
<1>2. rows \in Seq(RefundRows)
  <2> DEFINE other == [m EXCEPT !.refunds = rows]
  <2>1. other.refunds = rows
    BY DEF MoneyRows
  <2> HIDE DEF other, rows
  <2> QED
    BY <2>1, RefundSettled DEF rows
<1> HIDE DEF rows
<1>3. /\ dropped \in MoneyRows /\ dropped.refunds = rows
      /\ dropped.paidAt = m.paidAt /\ dropped.collectedBy = m.collectedBy
      /\ dropped.paid = m.paid /\ dropped.total = m.total /\ dropped.wallet = m.wallet
      /\ dropped.method = m.method /\ dropped.status = m.status
  BY <1>1, <1>2 DEF MoneyRows
<1>4. n = IF m.status = "refund_pending" /\ StandingRefunds(dropped) = {}
          THEN [dropped EXCEPT !.status = IF m.paidAt THEN "paid" ELSE "failed"]
          ELSE dropped
  BY DEF RefundDismissed
<1> HIDE DEF dropped
<1>5. /\ n \in MoneyRows /\ n.refunds = rows
      /\ n.paidAt = m.paidAt /\ n.collectedBy = m.collectedBy
      /\ n.paid = m.paid /\ n.total = m.total /\ n.wallet = m.wallet
      /\ n.method = m.method
      /\ n.status = IF m.status = "refund_pending" /\ StandingRefunds(dropped) = {}
                    THEN IF m.paidAt THEN "paid" ELSE "failed"
                    ELSE m.status
  BY <1>3, <1>4 DEF MoneyRows, PaymentStatuses
<1>6. StandingRefunds(n) = StandingRefunds(dropped)
  BY <1>3, <1>5, SameRefunds
<1> QED
  BY <1>5, <1>6 DEF rows

LEMMA DismissedIsSound ==
  ASSUME NEW m, SoundMoney(m), NEW k \in PendingRefunds(m)
  PROVE  SoundMoney(RefundDismissed(m, k))
<1> DEFINE n == RefundDismissed(m, k)
<1>1. m \in MoneyRows
  BY DEF SoundMoney
<1>2. n = RefundDismissed(m, k)
  OBVIOUS
<1> HIDE DEF n
<1>3. /\ n \in MoneyRows
      /\ n.refunds = Marked(m.refunds, k, "failed")
      /\ n.total = m.total /\ n.method = m.method
      /\ n.status = IF m.status = "refund_pending" /\ StandingRefunds(n) = {}
                    THEN IF m.paidAt THEN "paid" ELSE "failed"
                    ELSE m.status
  BY <1>1, <1>2, DismissedWrites
<1>4. /\ PendingRefunds(n) = PendingRefunds(m) \ {k}
      /\ StandingRefunds(n) = StandingRefunds(m) \ {k}
      /\ DismissedRefunds(n) = DismissedRefunds(m) \union {k}
  BY <1>1, <1>3, RefundSettled
<1>5. m.status \notin {"refunded", "pending", "failed"}
  BY DEF SoundMoney, RefundedIsSent, UnpaidHasNoRefund, PendingRefunds, StandingRefunds
<1>6. UnpaidHasNoRefund(n)
  BY <1>3, <1>5 DEF UnpaidHasNoRefund
<1> QED
  BY <1>2, <1>3, <1>4, <1>5, <1>6
  DEF SoundMoney, WalletOwesNothing, ClosedIsCovered, RefundedIsSent

(* The moves that leave the refunds, the total and what was taken alone. *)
LEMMA ReportedIsSound ==
  ASSUME NEW m, SoundMoney(m), NEW status \in {"payment_submitted", "disputed"}
  PROVE  SoundMoney([m EXCEPT !.status = status])
<1> DEFINE n == [m EXCEPT !.status = status]
<1>1. /\ n \in MoneyRows /\ n.status = status /\ n.method = m.method
      /\ n.refunds = m.refunds
  BY DEF SoundMoney, MoneyRows, PaymentStatuses
<1> HIDE DEF n
<1>2. n.method = "wallet" => PendingRefunds(m) = {}
  BY <1>1 DEF SoundMoney, WalletOwesNothing
<1>3. SoundMoney(n)
  BY <1>1, <1>2, SameRefundsSound
<1> QED
  BY <1>3 DEF n

LEMMA OnCashIsSound ==
  ASSUME NEW m, SoundMoney(m), m.status \in MethodOpen
  PROVE  SoundMoney(PutOnCash(m))
<1> DEFINE n == PutOnCash(m)
<1>1. /\ n \in MoneyRows /\ n.status = "pending" /\ n.method = "cod"
      /\ n.refunds = m.refunds
  BY DEF SoundMoney, MoneyRows, PaymentStatuses, Methods, PutOnCash
<1> HIDE DEF n
<1>2. SoundMoney(n)
  BY <1>1, SameRefundsSound DEF MethodOpen
<1> QED
  BY <1>2 DEF n

LEMMA OnlineIsSound ==
  ASSUME NEW m, SoundMoney(m)
  PROVE  SoundMoney([m EXCEPT !.method = "online"])
<1> DEFINE n == [m EXCEPT !.method = "online"]
<1>1. /\ n \in MoneyRows /\ n.status = m.status /\ n.method = "online"
      /\ n.refunds = m.refunds /\ n.total = m.total
  BY DEF SoundMoney, MoneyRows, Methods
<1> HIDE DEF n
<1>2. SoundMoney(n)
  BY <1>1, SameRefundsSound
<1> QED
  BY <1>2 DEF n

(* An order starts with no refund. *)
LEMMA PlacedWrites ==
  ASSUME NEW method \in PlacedWith, NEW n, n = MoneyAtPlacement(method)
  PROVE  /\ n \in MoneyRows /\ n.refunds = <<>>
         /\ n.status = IF method = "wallet" THEN "paid" ELSE "pending"
         /\ n.paidAt = TRUE <=> method = "wallet"
         /\ n.collectedBy = IF method = "wallet" THEN "platform" ELSE "none"
         /\ n.paid + n.wallet = 0 /\ n.total = PriceOf(Items)
         /\ method # "wallet" => n.wallet = 0
<1> DEFINE unpaid == [method |-> method, status |-> "pending", paidAt |-> FALSE,
                      collectedBy |-> "none", paid |-> 0, total |-> PriceOf(Items),
                      refunds |-> <<>>, wallet |-> 0]
<1>1. PriceOf(Items) \in Nat \ {0}
  BY PricesAdd, ItemsAssumption
<1>2. method \in Methods
  BY MethodAssumption
<1>3. /\ unpaid \in MoneyRows /\ unpaid.refunds = <<>> /\ unpaid.wallet = 0
      /\ unpaid.total = PriceOf(Items) /\ unpaid.paid = 0 /\ unpaid.status = "pending"
      /\ unpaid.paidAt = FALSE /\ unpaid.collectedBy = "none"
  BY <1>1, <1>2 DEF MoneyRows, PaymentStatuses, Collectors
<1>4. n = IF method = "wallet" THEN PaidFromWallet(unpaid, unpaid.total) ELSE unpaid
  BY DEF MoneyAtPlacement
<1> HIDE DEF unpaid
<1>5. CASE method = "wallet"
  <2> DEFINE price == PriceOf(Items)
  <2>1. n = PaidFromWallet(unpaid, price) /\ price \in Rupees
    BY <1>1, <1>3, <1>4, <1>5 DEF Rupees
  <2> HIDE DEF price
  <2>2. /\ n \in MoneyRows
        /\ n.status = "paid" /\ n.paidAt = TRUE
        /\ n.collectedBy = "platform"
        /\ n.total = unpaid.total
        /\ n.refunds = unpaid.refunds
    <3>1. PICK u, p : u = unpaid /\ p = price
      OBVIOUS
    <3>2. u \in MoneyRows /\ p \in Rupees /\ n = PaidFromWallet(u, p)
      BY <1>3, <2>1, <3>1
    <3>3. n \in MoneyRows /\ n.status = "paid" /\ n.paidAt = TRUE
      BY <3>2, FromWalletWrites
    <3>4. n.collectedBy = "platform"
      BY <3>2, FromWalletWrites
    <3>5. n.total = u.total /\ n.refunds = u.refunds
      BY <3>2, FromWalletWrites
    <3> QED
      BY <3>1, <3>3, <3>4, <3>5
  <2>4. n.paid = price /\ n.wallet = unpaid.wallet - price
    BY <1>3, <2>1, FromWalletPays
  <2>3. n.paid + n.wallet = 0
    BY <1>3, <2>1, <2>4 DEF Rupees
  <2> QED
    BY <1>3, <1>5, <2>1, <2>2, <2>3 DEF price
<1>6. CASE method # "wallet"
  BY <1>3, <1>4, <1>6
<1> QED
  BY <1>5, <1>6

LEMMA PlacedIsSound ==
  ASSUME NEW method \in PlacedWith
  PROVE  SoundMoney(MoneyAtPlacement(method))
<1> DEFINE n == MoneyAtPlacement(method)
<1>1. n = MoneyAtPlacement(method)
  OBVIOUS
<1> HIDE DEF n
<1>2. /\ n \in MoneyRows /\ n.refunds = <<>>
      /\ n.status = IF method = "wallet" THEN "paid" ELSE "pending"
  BY <1>1, PlacedWrites
<1>3. StandingRefunds(n) = {} /\ PendingRefunds(n) = {}
  BY <1>2 DEF StandingRefunds, PendingRefunds
<1> QED
  BY <1>1, <1>2, <1>3
  DEF SoundMoney, UnpaidHasNoRefund, WalletOwesNothing, ClosedIsCovered, RefundedIsSent

-----------------------------------------------------------------------------
(* Which of these moves a step makes. *)

AttemptRows == [status : {"none", "pending", "expired", "paid", "duplicate"},
                amount : Nat]

RequestsMade ==
  /\ call \in [Callers -> Calls]
  /\ \A c \in Callers : call[c].op \in Racing \union {"none"}

RestTyped ==
  /\ riderPaid \in BOOLEAN /\ riderCash \in Nat
  /\ posted \in BOOLEAN
  /\ selected \in BOOLEAN
  /\ crashes \in 0 .. MaxCrashes

(* The inductive invariant of the money, for every mix of requests. *)
MoneyInv ==
  /\ IInv
  /\ SoundMoney(money)
  /\ attempts \in [Attempts -> AttemptRows]
  /\ RequestsMade
  /\ RestTyped

(* What the payment and the sessions have in common with the state before. *)
NotCalledOff == orderStatus' = "cancelled" => orderStatus = "cancelled"

CancelsAll ==
  /\ money' = RefundAll(money)
  /\ UNCHANGED attempts

CancelsSome ==
  /\ \E gone \in SUBSET Items :
       /\ money' = RefundCancelled(money, gone, Kept \ gone)
       /\ NotCalledOff \/ Kept \ gone = {}
  /\ UNCHANGED attempts

Settles == /\ \E a \in Attempts : SettleAttempt(a)
           /\ NotCalledOff

Sends == /\ \E k \in PendingRefunds(money) : money' = RefundSent(money, k)
         /\ UNCHANGED attempts /\ NotCalledOff

Dismisses == /\ \E k \in PendingRefunds(money) : money' = RefundDismissed(money, k)
             /\ UNCHANGED attempts /\ NotCalledOff

(* Cash recorded by an admin's or a kitchen's delivery, on what it read. *)
RecordsCash == /\ Racing \intersect {"move", "advance"} # {}
               /\ \E c \in Callers : MoveItem(c) \/ AdvanceOrder(c)
               /\ money' = TakenBy(money, CodCollector)
               /\ UNCHANGED attempts /\ NotCalledOff

RiderTakesCash == /\ CashAtDoor(money)
                  /\ money.status \notin {"refund_pending", "refunded"}
                  /\ money' = TakenBy(money, "rider")
                  /\ UNCHANGED attempts /\ orderStatus' # "cancelled"

GivesBack == /\ \E asked \in Nat : /\ CanRefund(money, asked)
                                   /\ money' = Refunded(money, asked)
             /\ UNCHANGED attempts /\ NotCalledOff

Reports == /\ "submit" \in Racing /\ money.status \in Payable
           /\ money' = [money EXCEPT !.status = "payment_submitted"]
           /\ UNCHANGED attempts /\ NotCalledOff

Disputes == /\ "dispute" \in Racing /\ money.status = "payment_submitted"
            /\ money' = [money EXCEPT !.status = "disputed"]
            /\ UNCHANGED attempts /\ NotCalledOff

Confirms == /\ money.status \in {"payment_submitted", "disputed"}
            /\ money' = TakenBy(money, "seller")
            /\ UNCHANGED attempts /\ NotCalledOff

(* Some caller's request of this kind is under way. *)
Asked(op) == \E c \in Callers : call[c].op = op

ChoosesCash == /\ Asked("cash") /\ money.status \in MethodOpen
               /\ money' = PutOnCash(money)
               /\ UNCHANGED attempts /\ NotCalledOff

PaysFromWallet == /\ Asked("walletPay") /\ money.status \in MethodOpen
                  /\ \E amount \in Nat : money' = PaidFromWallet(money, amount)
                  /\ UNCHANGED attempts /\ orderStatus' # "cancelled"

(* A session is settled when it brought its amount. *)
SettledStatus(a) == attempts[a].status \in {"paid", "duplicate"}

GoesOnline == /\ Asked("checkout") /\ "checkout" \in Racing
              /\ money' = [money EXCEPT !.method = "online"]
              /\ attempts' \in [Attempts -> AttemptRows]
              /\ \A a \in Attempts :
                   \/ attempts'[a] = attempts[a]
                   \/ ~SettledStatus(a) /\ attempts'[a].status = "pending"
              /\ NotCalledOff

Rests == /\ UNCHANGED money
         /\ attempts' \in [Attempts -> AttemptRows]
         /\ \A a \in Attempts :
              \/ attempts'[a] = attempts[a]
              \/ ~SettledStatus(a) /\ attempts'[a].status = "expired"
         /\ NotCalledOff

MoneyMoves ==
  \/ CancelsAll \/ CancelsSome \/ Settles \/ Sends \/ Dismisses \/ RecordsCash
  \/ RiderTakesCash \/ GivesBack \/ Reports \/ Disputes \/ Confirms \/ ChoosesCash
  \/ PaysFromWallet \/ GoesOnline \/ Rests

(* A step that leaves the payment alone. *)
LEMMA StillRests ==
  ASSUME MoneyInv, UNCHANGED <<money, attempts>>, NotCalledOff
  PROVE  MoneyMoves
  BY DEF MoneyInv, MoneyMoves, Rests

LEMMA CancelsMove ==
  ASSUME MoneyInv, CustomerCancel \/ AdminCancel \/ RejectOrder \/ SweepOrder
                   \/ \E i \in Items : CancelItem(i)
  PROVE  MoneyMoves
<1>1. ASSUME CancelOrder PROVE MoneyMoves
  BY <1>1 DEF CancelOrder, MoneyMoves, CancelsAll
<1>2. ASSUME NEW S \in SUBSET Items, CancelByKitchen(S) PROVE MoneyMoves
  <2>1. NotCalledOff \/ Kept \ S = {}
    BY <1>2 DEF CancelByKitchen, NotCalledOff
  <2>2. CancelsSome
    BY <1>2, <2>1 DEF CancelByKitchen, CancelsSome
  <2> QED
    BY <2>2 DEF MoneyMoves
<1>3. ASSUME UNCHANGED <<orderVars, money, attempts>> PROVE MoneyMoves
  BY <1>3, StillRests DEF orderVars, NotCalledOff
<1>4. LiveItems \in SUBSET Items
  BY DEF LiveItems
<1> QED
  BY <1>1, <1>2, <1>3, <1>4
  DEF CustomerCancel, AdminCancel, RejectOrder, SweepOrder, CancelItem

LEMMA RiderMoves ==
  ASSUME MoneyInv, NEW to \in JobStatuses, MoveJob(to)
  PROVE  MoneyMoves
<1>1. orderStatus' # "cancelled"
  BY DEF MoveJob, MoveRefused, PushedOrderStatus
<1>2. money.status \notin {"refund_pending", "refunded"}
  BY DEF MoveJob, MoveRefused
<1>3. \/ UNCHANGED money
      \/ CashAtDoor(money) /\ money' = TakenBy(money, "rider")
  BY DEF MoveJob
<1>4. UNCHANGED attempts
  BY DEF MoveJob
<1>5. CASE UNCHANGED money
  BY <1>1, <1>4, <1>5, StillRests DEF NotCalledOff
<1>6. CASE CashAtDoor(money) /\ money' = TakenBy(money, "rider")
  BY <1>1, <1>2, <1>4, <1>6 DEF MoneyMoves, RiderTakesCash
<1> QED
  BY <1>3, <1>5, <1>6

LEMMA HandoverMoves ==
  ASSUME MoneyInv, NEW c \in Callers, MoveItem(c) \/ AdvanceOrder(c)
  PROVE  MoneyMoves
<1>1. RequestOK(call[c]) /\ call[c].op \in Racing \union {"none"}
  BY DEF MoneyInv, IInv, CallOK, RequestsMade
<1>2. \/ UNCHANGED money
      \/ money' = TakenBy(money, CodCollector)
  BY DEF MoveItem, AdvanceOrder
<1>3. UNCHANGED attempts /\ NotCalledOff
  <2>1. CASE MoveItem(c)
    BY <1>1, <2>1 DEF MoveItem, NotCalledOff, Derived, RequestOK
  <2>2. CASE AdvanceOrder(c)
    BY <1>1, <2>2 DEF AdvanceOrder, NotCalledOff, RequestOK, Closed
  <2> QED
    BY <2>1, <2>2
<1>4. Racing \intersect {"move", "advance"} # {}
  BY <1>1 DEF MoveItem, AdvanceOrder
<1> QED
  BY <1>2, <1>3, <1>4, StillRests DEF MoneyMoves, RecordsCash

(* The requests of two steps that write the payment. *)
LEMMA PaymentRequestsMove ==
  ASSUME MoneyInv, NEW c \in Callers,
         \/ SubmitPayment(c) \/ KitchenVerdict(c) \/ AdminConfirm(c)
         \/ ChooseCash(c) \/ PayFromWallet(c) \/ ProcessRefund(c)
  PROVE  MoneyMoves
<1>1. call[c].op \in Racing \union {"none"} /\ call[c].amount \in Nat
  BY DEF MoneyInv, RequestsMade, Calls
<1>2. CASE SubmitPayment(c)
  BY <1>1, <1>2 DEF SubmitPayment, orderVars, NotCalledOff, MoneyMoves, Reports
<1>3. CASE KitchenVerdict(c)
  BY <1>1, <1>3
  DEF KitchenVerdict, orderVars, NotCalledOff, MoneyMoves, Confirms, Disputes
<1>4. CASE AdminConfirm(c)
  BY <1>4 DEF AdminConfirm, orderVars, NotCalledOff, MoneyMoves, Confirms
<1>5. CASE ChooseCash(c)
  BY <1>5 DEF ChooseCash, orderVars, NotCalledOff, MoneyMoves, ChoosesCash, Asked
<1>6. CASE PayFromWallet(c)
  BY <1>1, <1>6 DEF PayFromWallet, orderVars, MoneyMoves, PaysFromWallet, Asked
<1>7. CASE ProcessRefund(c)
  BY <1>1, <1>7 DEF ProcessRefund, NotCalledOff, MoneyMoves, GivesBack
<1> QED
  BY <1>2, <1>3, <1>4, <1>5, <1>6, <1>7

LEMMA CheckoutMoves ==
  ASSUME MoneyInv, NEW c \in Callers, NEW a \in Attempts, OpenCheckout(c, a)
  PROVE  MoneyMoves
<1>1. /\ attempts \in [Attempts -> AttemptRows] /\ call[c].amount \in Nat
      /\ "checkout" \in Racing
  BY DEF MoneyInv, RequestsMade, Calls, OpenCheckout
<1> DEFINE row == [status |-> "pending", amount |-> call[c].amount]
<1>2. row \in AttemptRows /\ row.status = "pending"
  BY <1>1 DEF AttemptRows
<1>3. attempts' = [attempts EXCEPT ![a] = row] /\ attempts[a].status = "none"
  BY DEF OpenCheckout
<1> HIDE DEF row
<1>4. /\ attempts' \in [Attempts -> AttemptRows]
      /\ \A b \in Attempts : attempts'[b] = IF b = a THEN row ELSE attempts[b]
  BY <1>1, <1>2, <1>3
<1>5. GoesOnline
  BY <1>1, <1>2, <1>3, <1>4
  DEF OpenCheckout, GoesOnline, SettledStatus, orderVars, NotCalledOff, Asked
<1> QED
  BY <1>5 DEF MoneyMoves

LEMMA ExpiryMoves ==
  ASSUME MoneyInv, NEW a \in Attempts, ExpireAttempt(a)
  PROVE  MoneyMoves
<1>1. attempts \in [Attempts -> AttemptRows]
  BY DEF MoneyInv
<1> DEFINE row == [attempts[a] EXCEPT !.status = "expired"]
<1>2. row \in AttemptRows /\ row.status = "expired"
  BY <1>1 DEF AttemptRows
<1>3. attempts' = [attempts EXCEPT ![a] = row] /\ attempts[a].status = "pending"
  BY <1>1 DEF ExpireAttempt
<1> HIDE DEF row
<1>4. /\ attempts' \in [Attempts -> AttemptRows]
      /\ \A b \in Attempts : attempts'[b] = IF b = a THEN row ELSE attempts[b]
  BY <1>1, <1>2, <1>3
<1>5. Rests
  BY <1>2, <1>3, <1>4 DEF ExpireAttempt, Rests, SettledStatus, orderVars, NotCalledOff
<1> QED
  BY <1>5 DEF MoneyMoves

LEMMA EveryStepMovesMoney ==
  ASSUME MoneyInv, [Next]_vars
  PROVE  MoneyMoves
<1>1. CASE CustomerCancel \/ AdminCancel \/ RejectOrder \/ SweepOrder
           \/ \E i \in Items : CancelItem(i)
  BY <1>1, CancelsMove
<1>2. CASE \/ AcceptOrder \/ EnsureDelivery \/ RecordOrderCompletion \/ ReleaseJob
           \/ SelectStale \/ Crash \/ UNCHANGED vars
  <2>1. UNCHANGED <<money, attempts>> /\ NotCalledOff
    BY <1>2 DEF AcceptOrder, EnsureDelivery, RecordOrderCompletion, ReleaseJob,
       SelectStale, Crash, vars, orderVars, NotCalledOff
  <2> QED
    BY <2>1, StillRests
<1>3. CASE \E to \in JobStatuses : MoveJob(to)
  BY <1>3, RiderMoves
<1>4. CASE \E a \in Attempts : SettleAttempt(a)
  BY <1>4 DEF SettleAttempt, orderVars, NotCalledOff, MoneyMoves, Settles
<1>5. CASE \E a \in Attempts : ExpireAttempt(a)
  BY <1>5, ExpiryMoves
<1>6. CASE \E k \in DOMAIN money.refunds : CompleteRefund(k) \/ DismissRefund(k)
  BY <1>6 DEF CompleteRefund, DismissRefund, orderVars, NotCalledOff, MoneyMoves,
     Sends, Dismisses
<1>7. ASSUME NEW c \in Callers, BeginRequest(c)
      PROVE  MoneyMoves
  <2>1. UNCHANGED <<money, attempts>> /\ NotCalledOff
    BY <1>7 DEF BeginRequest, BeginMove, BeginReady, BeginAdvance, BeginRefund,
       BeginRetry, BeginSubmit, BeginVerdict, BeginAdminConfirm, BeginCheckout,
       BeginCash, BeginWalletPay, BeginClaim, Begin, orderVars, NotCalledOff
  <2> QED
    BY <2>1, StillRests
<1>8. ASSUME NEW c \in Callers, FinishRequest(c)
      PROVE  MoneyMoves
  <2>1. CASE MoveItem(c) \/ AdvanceOrder(c)
    BY <2>1, HandoverMoves
  <2>2. CASE \/ SubmitPayment(c) \/ KitchenVerdict(c) \/ AdminConfirm(c)
             \/ ChooseCash(c) \/ PayFromWallet(c) \/ ProcessRefund(c)
    BY <2>2, PaymentRequestsMove
  <2>3. CASE MarkReady(c) \/ RetryDelivery(c) \/ ClaimJob(c) \/ Refuse(c)
    <3>1. UNCHANGED <<money, attempts>> /\ NotCalledOff
      BY <2>3 DEF MarkReady, RetryDelivery, ClaimJob, Refuse, orderVars, NotCalledOff
    <3> QED
      BY <3>1, StillRests
  <2>4. CASE \E a \in Attempts : OpenCheckout(c, a)
    BY <2>4, CheckoutMoves
  <2> QED
    BY <1>8, <2>1, <2>2, <2>3, <2>4 DEF FinishRequest
<1> QED
  BY <1>1, <1>2, <1>3, <1>4, <1>5, <1>6, <1>7, <1>8 DEF Next

-----------------------------------------------------------------------------
(* The money invariant is inductive. *)

LEMMA SoundStays ==
  ASSUME MoneyInv, MoneyMoves
  PROVE  SoundMoney(money')
<1>1. SoundMoney(money) /\ attempts \in [Attempts -> AttemptRows]
  BY DEF MoneyInv
<1>2. CASE CancelsAll
  BY <1>1, <1>2, RefundAllIsSound DEF CancelsAll
<1>3. CASE CancelsSome
  <2>1. PICK gone \in SUBSET Items : money' = RefundCancelled(money, gone, Kept \ gone)
    BY <1>3 DEF CancelsSome
  <2>2. Kept \ gone \in SUBSET Items
    BY DEF Kept
  <2> QED
    BY <1>1, <2>1, <2>2, CancelledIsSound
<1>4. CASE Settles
  <2>1. PICK a \in Attempts :
          money' = Settled(money, attempts[a].amount, orderStatus \in {"cancelled", "refunded"})
    BY <1>4 DEF Settles, SettleAttempt
  <2>2. attempts[a].amount \in Nat
    BY <1>1 DEF AttemptRows
  <2>3. (orderStatus \in {"cancelled", "refunded"}) \in BOOLEAN
    OBVIOUS
  <2>4. SoundMoney(Settled(money, attempts[a].amount,
                           orderStatus \in {"cancelled", "refunded"}))
    BY <1>1, <2>2, <2>3, SettledIsSound
  <2> QED
    BY <2>1, <2>4
<1>5. CASE Sends
  BY <1>1, <1>5, SentIsSound DEF Sends
<1>6. CASE Dismisses
  BY <1>1, <1>6, DismissedIsSound DEF Dismisses
<1>7. CASE RecordsCash \/ RiderTakesCash \/ Confirms
  <2>1. PICK collector \in Collectors : money' = TakenBy(money, collector)
    BY <1>7, HandoverAssumption
    DEF RecordsCash, RiderTakesCash, Confirms, CodCollector, Collectors
  <2> QED
    BY <1>1, <2>1, TakenIsSound
<1>8. CASE GivesBack
  <2>1. PICK asked \in Nat : CanRefund(money, asked) /\ money' = Refunded(money, asked)
    BY <1>8 DEF GivesBack
  <2> QED
    BY <1>1, <2>1, RefundIsSound
<1>9. CASE Reports \/ Disputes
  BY <1>1, <1>9, ReportedIsSound DEF Reports, Disputes
<1>10. CASE ChoosesCash
  BY <1>1, <1>10, OnCashIsSound DEF ChoosesCash
<1>11. CASE PaysFromWallet
  BY <1>1, <1>11, FromWalletIsSound DEF PaysFromWallet
<1>12. CASE GoesOnline
  BY <1>1, <1>12, OnlineIsSound DEF GoesOnline
<1>13. CASE Rests
  BY <1>1, <1>13 DEF Rests
<1> QED
  BY <1>2, <1>3, <1>4, <1>5, <1>6, <1>7, <1>8, <1>9, <1>10, <1>11, <1>12, <1>13
  DEF MoneyMoves

LEMMA AttemptsStay ==
  ASSUME MoneyInv, MoneyMoves
  PROVE  attempts' \in [Attempts -> AttemptRows]
<1>1. attempts \in [Attempts -> AttemptRows]
  BY DEF MoneyInv
<1>2. CASE Settles
  <2>1. PICK a \in Attempts, status \in {"paid", "duplicate"} :
          attempts' = [attempts EXCEPT ![a].status = status]
    BY <1>2 DEF Settles, SettleAttempt
  <2>2. [attempts[a] EXCEPT !.status = status] \in AttemptRows
    BY <1>1 DEF AttemptRows
  <2> QED
    BY <1>1, <2>1, <2>2
<1> QED
  BY <1>1, <1>2
  DEF MoneyMoves, CancelsAll, CancelsSome, Sends, Dismisses, RecordsCash,
      RiderTakesCash, GivesBack, Reports, Disputes, Confirms, ChoosesCash,
      PaysFromWallet, GoesOnline, Rests

(* A request that begins is one of those that are made, and typed. *)
LEMMA BeginMakes ==
  ASSUME RequestsMade, NEW c \in Callers, NEW request \in Calls, Begin(c, request)
  PROVE  RequestsMade'
  BY DEF RequestsMade, Begin

LEMMA RequestsTyped ==
  ASSUME NEW op \in TwoStep
  PROVE  Request(op) \in Calls /\ Idle \in Calls
  BY DEF Request, Idle, Calls

LEMMA RequestsBegin ==
  ASSUME MoneyInv, NEW c \in Callers, BeginRequest(c)
  PROVE  RequestsMade'
<1>1. /\ RequestsMade /\ money.total \in Nat
      /\ items \in [Items -> ItemStatuses] /\ orderStatus \in OrderStatuses
  BY MoneyFields DEF MoneyInv, SoundMoney, IInv, ControlTypeOK
<1> USE DEF Request, Idle, Calls, TwoStep
<1>2. ASSUME NEW i \in Items, NEW to \in ItemStatuses, BeginMove(c, i, to)
      PROVE  RequestsMade'
  <2> DEFINE request == [Request("move") EXCEPT !.item = i, !.from = items[i],
                                                !.to = to, !.cash = CashAtDoor(money)]
  <2>1. CashAtDoor(money) \in BOOLEAN
    BY DEF CashAtDoor
  <2>2. request \in Calls
    BY <1>1, <2>1 DEF OrderStatuses
  <2>3. Begin(c, request)
    BY <1>2 DEF BeginMove
  <2> HIDE DEF request
  <2> QED
    BY <1>1, <2>2, <2>3, BeginMakes
<1>3. ASSUME NEW to \in OrderStatuses, BeginAdvance(c, to)
      PROVE  RequestsMade'
  <2> DEFINE request == [Request("advance") EXCEPT !.from = orderStatus, !.to = to,
                                                   !.cash = CashAtDoor(money)]
  <2>1. CashAtDoor(money) \in BOOLEAN
    BY DEF CashAtDoor
  <2>2. request \in Calls
    BY <1>1, <2>1
  <2>3. Begin(c, request)
    BY <1>3 DEF BeginAdvance
  <2> HIDE DEF request
  <2> QED
    BY <1>1, <2>2, <2>3, BeginMakes
<1>4. ASSUME NEW asked \in RefundAmounts, BeginRefund(c, asked)
      PROVE  RequestsMade'
  <2> DEFINE request == [Request("refund") EXCEPT !.amount = asked,
                                                  !.wallet = money.method = "wallet"]
  <2>1. request \in Calls
    BY AmountsAssumption
  <2>2. Begin(c, request)
    BY <1>4 DEF BeginRefund
  <2> HIDE DEF request
  <2> QED
    BY <1>1, <2>1, <2>2, BeginMakes
<1>5. ASSUME NEW op \in TwoStep, Begin(c, Request(op)) PROVE RequestsMade'
  BY <1>1, <1>5, BeginMakes
<1>6. ASSUME NEW verdict \in {"confirm", "dispute"}, BeginVerdict(c, verdict)
      PROVE  RequestsMade'
  BY <1>5, <1>6 DEF BeginVerdict
<1>7. CASE BeginReady(c) \/ BeginRetry(c) \/ BeginSubmit(c) \/ BeginCash(c) \/ BeginClaim(c)
  BY <1>5, <1>7 DEF BeginReady, BeginRetry, BeginSubmit, BeginCash, BeginClaim
<1>8. CASE BeginAdminConfirm(c)
  <2> DEFINE request == [Request("adminConfirm") EXCEPT !.from = orderStatus]
  <2>1. request \in Calls /\ Begin(c, request)
    BY <1>1, <1>8 DEF BeginAdminConfirm
  <2> HIDE DEF request
  <2> QED
    BY <1>1, <2>1, BeginMakes
<1>9. CASE BeginCheckout(c) \/ BeginWalletPay(c)
  <2>1. PICK op \in TwoStep : Begin(c, [Request(op) EXCEPT !.amount = money.total])
    BY <1>9 DEF BeginCheckout, BeginWalletPay
  <2> DEFINE request == [Request(op) EXCEPT !.amount = money.total]
  <2>2. request \in Calls /\ Begin(c, request)
    BY <1>1, <2>1
  <2> HIDE DEF request
  <2> QED
    BY <1>1, <2>2, BeginMakes
<1> QED
  BY <1>2, <1>3, <1>4, <1>6, <1>7, <1>8, <1>9 DEF BeginRequest

(* Who writes the requests: they begin, return, or are lost in a restart. *)
LEMMA RequestsChange ==
  ASSUME [Next]_vars
  PROVE  \/ UNCHANGED call \/ Crash
         \/ \E c \in Callers : BeginRequest(c)
         \/ \E c \in Callers : FinishRequest(c) /\ Return(c)
<1>1. ASSUME NEW c \in Callers, FinishRequest(c) PROVE Return(c)
  BY <1>1 DEF FinishRequest, MoveItem, MarkReady, AdvanceOrder, ProcessRefund,
     RetryDelivery, SubmitPayment, KitchenVerdict, AdminConfirm, OpenCheckout,
     ChooseCash, PayFromWallet, ClaimJob, Refuse
<1>2. \/ UNCHANGED call \/ Crash
      \/ \E c \in Callers : BeginRequest(c) \/ FinishRequest(c)
  BY DEF Next, vars, CustomerCancel, AdminCancel, CancelOrder, CancelItem, CancelByKitchen,
     RejectOrder, AcceptOrder, EnsureDelivery, RecordOrderCompletion, MoveJob, ReleaseJob,
     SettleAttempt, ExpireAttempt, CompleteRefund, DismissRefund, SelectStale, SweepOrder
<1> QED
  BY <1>1, <1>2

LEMMA RequestsStay ==
  ASSUME MoneyInv, [Next]_vars
  PROVE  RequestsMade'
<1>1. RequestsMade
  BY DEF MoneyInv
<1>2. Idle \in Calls
  BY DEF Idle, Calls
<1>3. ASSUME NEW c \in Callers, Return(c) PROVE RequestsMade'
  <2>1. Idle.op = "none"
    BY DEF Idle
  <2> QED
    BY <1>1, <1>2, <1>3, <2>1 DEF RequestsMade, Return
<1>4. ASSUME NEW c \in Callers, BeginRequest(c) PROVE RequestsMade'
  BY <1>4, RequestsBegin
<1>5. CASE Crash
  BY <1>2, <1>5 DEF Crash, RequestsMade, Idle
<1>6. CASE UNCHANGED call
  BY <1>1, <1>6 DEF RequestsMade
<1> QED
  BY <1>3, <1>4, <1>5, <1>6, RequestsChange

LEMMA RestStays ==
  ASSUME MoneyInv, [Next]_vars
  PROVE  RestTyped'
<1>1. RestTyped /\ money.total \in Nat
  BY MoneyFields DEF MoneyInv, SoundMoney
<1>2. ASSUME NEW cash \in Nat, PostDeliveryEntries(cash)
      PROVE  riderPaid' \in BOOLEAN /\ riderCash' \in Nat
  BY <1>1, <1>2 DEF PostDeliveryEntries, RestTyped
<1>3. ASSUME NEW c \in Callers, FinishRequest(c)
      PROVE  /\ riderPaid' \in BOOLEAN /\ riderCash' \in Nat
             /\ UNCHANGED <<posted, selected, crashes>>
  <2>1. CASE AdvanceOrder(c)
    <3>1. /\ \/ \E cash \in Nat : PostDeliveryEntries(cash)
             \/ UNCHANGED <<riderPaid, riderCash>>
          /\ UNCHANGED <<posted, selected, crashes>>
      BY <1>1, <2>1 DEF AdvanceOrder
    <3> QED
      BY <1>1, <1>2, <3>1 DEF RestTyped
  <2>2. CASE ~AdvanceOrder(c)
    <3>1. UNCHANGED <<riderPaid, riderCash, posted, selected, crashes>>
      BY <1>3, <2>2 DEF FinishRequest, MoveItem, MarkReady, ProcessRefund,
         RetryDelivery, SubmitPayment, KitchenVerdict, AdminConfirm, OpenCheckout,
         ChooseCash, PayFromWallet, ClaimJob, Refuse, riderVars
    <3> QED
      BY <1>1, <3>1 DEF RestTyped
  <2> QED
    BY <2>1, <2>2
<1>4. ASSUME NEW to \in JobStatuses, MoveJob(to)
      PROVE  /\ riderPaid' \in BOOLEAN /\ riderCash' \in Nat
             /\ UNCHANGED <<posted, selected, crashes>>
  <2>1. /\ \/ \E cash \in Nat : PostDeliveryEntries(cash)
           \/ UNCHANGED <<riderPaid, riderCash>>
        /\ UNCHANGED <<posted, selected, crashes>>
    BY <1>1, <1>4 DEF MoveJob
  <2> QED
    BY <1>1, <1>2, <2>1 DEF RestTyped
<1>5. CASE RecordOrderCompletion
  BY <1>1, <1>5 DEF RecordOrderCompletion, RestTyped, riderVars
<1>6. CASE Crash \/ SelectStale \/ SweepOrder
  <2>1. UNCHANGED <<riderPaid, riderCash, posted>> /\ selected' \in BOOLEAN
    BY <1>1, <1>6 DEF Crash, SelectStale, SweepOrder, CancelOrder, riderVars, RestTyped
  <2>2. crashes' \in 0 .. MaxCrashes
    BY <1>1, <1>6, BoundsAssumption DEF Crash, SelectStale, SweepOrder, CancelOrder, RestTyped
  <2> QED
    BY <1>1, <2>1, <2>2 DEF RestTyped
<1>7. CASE UNCHANGED <<riderPaid, riderCash, posted, selected, crashes>>
  BY <1>1, <1>7 DEF RestTyped
<1>8. \/ UNCHANGED <<riderPaid, riderCash, posted, selected, crashes>>
      \/ Crash \/ SelectStale \/ SweepOrder \/ RecordOrderCompletion
      \/ \E to \in JobStatuses : MoveJob(to)
      \/ \E c \in Callers : FinishRequest(c)
  BY DEF Next, vars, riderVars, CustomerCancel, AdminCancel, CancelOrder, CancelItem,
     CancelByKitchen, RejectOrder, AcceptOrder, EnsureDelivery, ReleaseJob, SettleAttempt,
     ExpireAttempt, CompleteRefund, DismissRefund, BeginRequest, BeginMove, BeginReady,
     BeginAdvance, BeginRefund, BeginRetry, BeginSubmit, BeginVerdict, BeginAdminConfirm,
     BeginCheckout, BeginCash, BeginWalletPay, BeginClaim, Begin
<1>9. CASE \E to \in JobStatuses : MoveJob(to)
  BY <1>1, <1>4, <1>9 DEF RestTyped
<1>10. CASE \E c \in Callers : FinishRequest(c)
  BY <1>1, <1>3, <1>10 DEF RestTyped
<1> QED
  BY <1>5, <1>6, <1>7, <1>8, <1>9, <1>10

LEMMA MoneyInvStarts == Init => MoneyInv
<1> SUFFICES ASSUME Init PROVE MoneyInv
  OBVIOUS
<1>1. IInv
  BY InitEstablishes
<1>2. SoundMoney(money)
  BY PlacedIsSound DEF Init
<1>3. attempts \in [Attempts -> AttemptRows]
  BY DEF Init, AttemptRows
<1>4. RequestsMade
  <2>1. Idle \in Calls /\ Idle.op = "none"
    BY DEF Idle, Calls
  <2>2. call = [c \in Callers |-> Idle]
    BY DEF Init
  <2>3. call \in [Callers -> Calls] /\ \A c \in Callers : call[c].op = "none"
    BY <2>1, <2>2
  <2> QED
    BY <2>3 DEF RequestsMade
<1>5. RestTyped
  <2>1. /\ riderPaid = FALSE /\ riderCash = 0 /\ posted = FALSE /\ selected = FALSE
        /\ crashes = 0
    BY DEF Init
  <2>2. 0 \in 0 .. MaxCrashes
    BY BoundsAssumption
  <2> QED
    BY <2>1, <2>2 DEF RestTyped
<1> QED
  BY <1>1, <1>2, <1>3, <1>4, <1>5 DEF MoneyInv

LEMMA MoneyInvStays == MoneyInv /\ [Next]_vars => MoneyInv'
<1> SUFFICES ASSUME MoneyInv, [Next]_vars PROVE MoneyInv'
  OBVIOUS
<1>1. IInv'
  BY NextKeeps DEF MoneyInv
<1>2. MoneyMoves
  BY EveryStepMovesMoney
<1>3. SoundMoney(money)' /\ attempts' \in [Attempts -> AttemptRows]
  BY <1>2, SoundStays, AttemptsStay
<1>4. RequestsMade' /\ RestTyped'
  BY RequestsStay, RestStays
<1> QED
  BY <1>1, <1>3, <1>4 DEF MoneyInv

(* For every mix of requests: the rows are typed, a refund stands only on money that
   was received or reported, a payment that counts as refunded is covered, and a
   wallet's refund waits for nobody. *)
THEOREM MoneyInvariant == Spec => []MoneyInv
  BY MoneyInvStarts, MoneyInvStays, PTL DEF Spec

(* Every variable holds a value of its type, for any number of requests in
   flight and any amounts. *)
THEOREM OrderTyped == Spec => []TypeOK
<1>1. MoneyInv => TypeOK
  <2> SUFFICES ASSUME MoneyInv PROVE TypeOK
    OBVIOUS
  <2>1. money \in MoneyRows
    BY DEF MoneyInv, SoundMoney
  <2>2. MoneyTypeOK(money, PaymentStatuses)
    <3>1. \A k \in DOMAIN money.refunds : money.refunds[k] \in RefundRows
      BY <2>1, RefundsTyped
    <3>2. \A k \in DOMAIN money.refunds : IsRefund(money.refunds[k])
      BY <3>1 DEF IsRefund, RefundRows
    <3>3. DOMAIN money = {"method", "status", "paidAt", "collectedBy", "paid", "total",
                          "refunds", "wallet"}
      BY <2>1 DEF MoneyRows
    <3> QED
      BY <2>1, <3>2, <3>3, MoneyFields DEF MoneyTypeOK
  <2>3. \A a \in Attempts :
          /\ attempts[a].status \in {"none", "pending", "expired", "paid", "duplicate"}
          /\ attempts[a].amount \in Nat
    BY DEF MoneyInv, AttemptRows
  <2> QED
    BY <2>2, <2>3 DEF MoneyInv, IInv, RequestsMade, RestTyped, TypeOK
<1> QED
  BY <1>1, MoneyInvariant, PTL

(* A payment recorded as refunded is settled: nothing waits to be sent, and the
   customer has the whole total back unless an admin dismissed a refund. *)
THEOREM RefundedMoneyIsSettled == Spec => []RefundedIsSettled
<1>1. MoneyInv => RefundedIsSettled
  BY DEF MoneyInv, SoundMoney, RefundedIsSent, ClosedIsCovered, RefundedIsSettled
<1> QED
  BY <1>1, MoneyInvariant, PTL

-----------------------------------------------------------------------------
(* What a refund does to the sums. *)

(* What the order took from the gateway and the wallet: what the customer's
   wallet gained without the refunds, and the payment if the platform has it. *)
Brought(m) == (m.wallet - AmountOf(m, Sent(m)))
              + (IF m.collectedBy = "platform" THEN m.paid ELSE 0)

LEMMA SentIsSum ==
  ASSUME NEW m \in MoneyRows
  PROVE  Sent(m) \in SUBSET DOMAIN m.refunds /\ AmountOf(m, Sent(m)) \in Int
<1>1. Sent(m) \in SUBSET DOMAIN m.refunds
  BY DEF Sent
<1> QED
  BY <1>1, AmountsAdd

LEMMA RefundStands ==
  ASSUME NEW m \in MoneyRows, NEW asked \in Int, CanRefund(m, asked),
         NEW n, n = Refunded(m, asked), NEW amount, amount = RefundableNow(m, asked)
  PROVE  /\ n \in MoneyRows /\ amount \in Nat \ {0} /\ amount <= m.total - Standing(m)
         /\ Standing(n) = Standing(m) + amount
         /\ DismissedRefunds(n) = DismissedRefunds(m)
         /\ n.total = m.total /\ n.method = m.method /\ n.paid = m.paid
         /\ n.paidAt = m.paidAt /\ n.collectedBy = m.collectedBy
         /\ n.status = IF Standing(m) + amount >= m.total
                       THEN IF m.method = "wallet" THEN "refunded" ELSE "refund_pending"
                       ELSE m.status
         /\ n.wallet - AmountOf(n, Sent(n)) = m.wallet - AmountOf(m, Sent(m))
<1> DEFINE back == m.method = "wallet"
           row == [amount |-> amount, back |-> back,
                   status |-> IF back THEN "completed" ELSE "pending"]
           x == Len(m.refunds) + 1
<1>1. /\ n \in MoneyRows /\ row \in RefundRows
      /\ amount \in Nat \ {0} /\ amount <= m.total - Standing(m)
      /\ n.refunds = Append(m.refunds, row)
      /\ n.method = m.method /\ n.paidAt = m.paidAt
      /\ n.collectedBy = m.collectedBy /\ n.paid = m.paid
      /\ n.total = m.total
      /\ n.wallet = m.wallet + (IF back THEN amount ELSE 0)
      /\ n.status = IF Standing(m) + amount >= m.total
                    THEN IF back THEN "refunded" ELSE "refund_pending"
                    ELSE m.status
  BY RefundWrites
<1>2. /\ row.amount = amount /\ row.status # "failed"
      /\ back => row.back = TRUE
      /\ ~back => row.back = FALSE
  OBVIOUS
<1>3. PICK y, r : y = x /\ r = row
  OBVIOUS
<1>4. /\ r \in RefundRows /\ n.refunds = Append(m.refunds, r) /\ r.status # "failed"
      /\ y = Len(m.refunds) + 1 /\ r.amount = amount
      /\ back => r.back = TRUE
      /\ ~back => r.back = FALSE
  BY <1>1, <1>2, <1>3
<1> HIDE DEF row, x
<1>5. /\ DismissedRefunds(n) = DismissedRefunds(m)
      /\ Standing(n) = Standing(m) + r.amount
      /\ r.back = TRUE => AmountOf(n, Sent(n)) = AmountOf(m, Sent(m)) + r.amount
      /\ r.back = FALSE => AmountOf(n, Sent(n)) = AmountOf(m, Sent(m))
  <2>1. GainsRow(m, n, r, y)
    BY <1>4 DEF GainsRow
  <2>2. DismissedRefunds(n) = DismissedRefunds(m) /\ Standing(n) = Standing(m) + r.amount
    BY <2>1, OneMoreRefund
  <2>3. /\ r.back = TRUE => AmountOf(n, Sent(n)) = AmountOf(m, Sent(m)) + r.amount
        /\ r.back = FALSE => AmountOf(n, Sent(n)) = AmountOf(m, Sent(m))
    BY <2>1, OneMoreSent
  <2> QED
    BY <2>2, <2>3
<1>6. AmountOf(n, Sent(n)) = AmountOf(m, Sent(m)) + (IF back THEN amount ELSE 0)
  <2>1. AmountOf(m, Sent(m)) \in Int
    BY SentIsSum
  <2> QED
    BY <1>4, <1>5, <2>1
<1>7. n.wallet - AmountOf(n, Sent(n)) = m.wallet - AmountOf(m, Sent(m))
  BY <1>1, <1>6, SentIsSum, MoneyFields
<1> QED
  BY <1>1, <1>4, <1>5, <1>7

(* Nothing that a refund leaves alone, or more than the total in the end. *)
LEMMA RefundsFit ==
  ASSUME NEW m, SoundMoney(m), NEW asked \in Int, NEW n, n = IssueRefund(m, asked),
         Standing(m) <= m.total
  PROVE  /\ Standing(n) <= n.total
         /\ n.status = m.status \/ n.status \in {"refund_pending", "refunded"}
<1>1. m \in MoneyRows /\ Standing(m) \in Nat /\ m.total \in Nat
  BY StandingIsNat, MoneyFields DEF SoundMoney
<1>2. CASE CanRefund(m, asked)
  <2>1. n = Refunded(m, asked)
    BY <1>2 DEF IssueRefund
  <2> DEFINE amount == RefundableNow(m, asked)
  <2>2. PICK a : a = amount
    OBVIOUS
  <2> HIDE DEF amount
  <2>3. /\ a \in Nat \ {0} /\ a <= m.total - Standing(m)
        /\ Standing(n) = Standing(m) + a /\ n.total = m.total
        /\ n.status = IF Standing(m) + a >= m.total
                      THEN IF m.method = "wallet" THEN "refunded" ELSE "refund_pending"
                      ELSE m.status
    BY <1>1, <1>2, <2>1, <2>2, RefundStands DEF amount
  <2> QED
    BY <1>1, <2>3
<1>3. CASE ~CanRefund(m, asked)
  BY <1>1, <1>3 DEF IssueRefund
<1> QED
  BY <1>2, <1>3

-----------------------------------------------------------------------------
(* An order begins paid or unpaid, with no refund. *)
LEMMA StartsUnrefunded ==
  ASSUME Init
  PROVE  /\ money.status \in {"paid", "pending"}
         /\ Standing(money) = 0 /\ money.total \in Nat \ {0}
<1>1. ASSUME NEW method \in PlacedWith, NEW m, m = MoneyAtPlacement(method)
      PROVE  m.refunds = <<>> /\ m.status \in {"paid", "pending"}
  BY <1>1, PlacedWrites
<1>2. money.refunds = <<>> /\ money.status \in {"paid", "pending"}
  <2>1. PICK method \in PlacedWith : money = MoneyAtPlacement(method)
    BY DEF Init
  <2> QED
    BY <1>1, <2>1
<1>3. money \in MoneyRows
  BY MoneyInvStarts DEF MoneyInv, SoundMoney
<1>4. StandingRefunds(money) = {}
  BY <1>2 DEF StandingRefunds
<1>5. Standing(money) = 0 /\ money.total \in Nat \ {0}
  BY <1>3, <1>4, NoneStanding, MoneyFields
<1> QED
  BY <1>2, <1>5

(* Refunds within the total. A kitchen that disputes a transfer can reprice an
   order a refund of which stands (the counterexample is in the README); with no
   report or no dispute, refunds and repricing never meet. *)

Undisputed(m) == /\ m.status # "disputed"
                 /\ m.status = "payment_submitted" => "submit" \in Racing

WithinInv == MoneyInv /\ RefundWithinTotal /\ Undisputed(money)

LEMMA WithinStays ==
  ASSUME ~({"submit", "dispute"} \subseteq Racing), WithinInv, [Next]_vars
  PROVE  WithinInv'
<1>0. PICK m, n : m = money /\ n = money'
  OBVIOUS
<1>1. MoneyInv' /\ MoneyMoves
  BY MoneyInvStays, EveryStepMovesMoney DEF WithinInv
<1>2. /\ SoundMoney(m) /\ m \in MoneyRows /\ SoundMoney(n)
      /\ Standing(m) <= m.total /\ Undisputed(m)
      /\ attempts \in [Attempts -> AttemptRows]
  BY <1>0, <1>1 DEF WithinInv, MoneyInv, SoundMoney, RefundWithinTotal
<1>3. /\ Standing(m) \in Nat /\ m.total \in Nat
      /\ PendingRefunds(m) \subseteq DOMAIN m.refunds
  BY <1>2, StandingIsNat, MoneyFields DEF PendingRefunds
<1> SUFFICES Standing(n) <= n.total /\ Undisputed(n)
  BY <1>0, <1>1 DEF WithinInv, RefundWithinTotal
<1>4. ASSUME n.refunds = m.refunds, n.total = m.total PROVE Standing(n) <= n.total
  BY <1>2, <1>4, SameRefunds
<1>5. ASSUME NEW asked \in Int, n = IssueRefund(m, asked)
      PROVE  Standing(n) <= n.total /\ Undisputed(n)
  BY <1>2, <1>5, RefundsFit DEF Undisputed
<1>6. ASSUME n = RefundAll(m) PROVE Standing(n) <= n.total /\ Undisputed(n)
  BY <1>3, <1>5, <1>6 DEF RefundAll
<1>7. CASE CancelsAll
  BY <1>0, <1>6, <1>7 DEF CancelsAll
<1>8. CASE CancelsSome
  <2>1. PICK gone \in SUBSET Items : n = RefundCancelled(m, gone, Kept \ gone)
    BY <1>0, <1>8 DEF CancelsSome
  <2>2. CASE Kept \ gone = {}
    BY <1>6, <2>1, <2>2 DEF RefundCancelled
  <2>3. CASE Kept \ gone # {} /\ m.status \in {"pending", "failed"}
    <3>1. n = [m EXCEPT !.total = PriceOf(Kept \ gone)]
      BY <2>1, <2>3 DEF RefundCancelled
    <3>2. Kept \ gone \in SUBSET Items
      BY DEF Kept
    <3>3. n.refunds = m.refunds /\ n.total \in Nat /\ n.status = m.status
      BY <1>2, <2>3, <3>1, <3>2, PricesAdd DEF MoneyRows
    <3>4. Standing(m) = 0
      BY <1>2, <2>3, NoneStanding DEF SoundMoney, UnpaidHasNoRefund
    <3> QED
      BY <1>2, <3>3, <3>4, SameRefunds DEF Undisputed
  <2>4. CASE Kept \ gone # {} /\ m.status \notin {"pending", "failed"}
    <3>1. Worth(gone) \in Int
      BY PricesAdd
    <3>2. n = IssueRefund(m, Worth(gone))
      BY <1>2, <2>1, <2>4 DEF RefundCancelled, Undisputed
    <3> QED
      BY <1>5, <3>1, <3>2
  <2> QED
    BY <2>2, <2>3, <2>4
<1>9. CASE Settles
  <2>1. PICK a \in Attempts :
          n = Settled(m, attempts[a].amount, orderStatus \in {"cancelled", "refunded"})
    BY <1>0, <1>9 DEF Settles, SettleAttempt
  <2>2. PICK amount : amount = attempts[a].amount
    OBVIOUS
  <2>3. amount \in Nat
    BY <1>2, <2>2 DEF AttemptRows
  <2> DEFINE credit == [m EXCEPT !.wallet = @ + amount]
             taken == [TakenBy(m, "platform") EXCEPT !.method = "online",
                                                     !.wallet = @ + (amount - m.total)]
  <2>4. n \in {credit, taken, RefundAll(taken)}
    BY <2>1, <2>2 DEF Settled
  <2>5. /\ credit.refunds = m.refunds /\ credit.total = m.total /\ credit.status = m.status
    BY <1>2, <2>3, CreditWrites
  <2>6. /\ taken \in MoneyRows /\ taken.refunds = m.refunds /\ taken.total = m.total
        /\ taken.status = "paid" /\ taken.method = "online"
    BY <1>2, <2>3, OnlineWrites
  <2> HIDE DEF credit, taken
  <2>7. CASE n = RefundAll(taken)
    <3>1. Standing(taken) <= taken.total /\ taken.total \in Int
      BY <1>2, <1>3, <2>6, SameRefunds
    <3>2. SoundMoney(taken)
      BY <1>2, <2>6, SameRefundsSound
    <3>3. PICK t, price : t = taken /\ price = taken.total
      OBVIOUS
    <3>4. n = IssueRefund(t, price) /\ price \in Int /\ SoundMoney(t) /\ Standing(t) <= t.total
      BY <2>7, <3>1, <3>2, <3>3 DEF RefundAll
    <3>5. Standing(n) <= n.total /\ (n.status = t.status \/ n.status \in {"refund_pending", "refunded"})
      BY <3>4, RefundsFit
    <3> QED
      BY <2>6, <3>3, <3>5 DEF Undisputed
  <2> QED
    BY <1>2, <1>4, <2>4, <2>5, <2>6, <2>7 DEF Undisputed
<1>10. CASE Sends
  <2>1. PICK k \in PendingRefunds(m) : n = RefundSent(m, k)
    BY <1>0, <1>10 DEF Sends
  <2>2. /\ n.refunds = Marked(m.refunds, k, "completed") /\ n.total = m.total
        /\ n.status \in {m.status, "refunded"}
    BY <1>2, <2>1, SentWrites
  <2>3. /\ StandingRefunds(n) = StandingRefunds(m)
        /\ AmountOf(n, StandingRefunds(m)) = AmountOf(m, StandingRefunds(m))
    <3>1. StandingRefunds(m) \in SUBSET DOMAIN m.refunds
      BY DEF StandingRefunds
    <3> QED
      BY <1>2, <2>2, <3>1, RefundSettled
  <2> QED
    BY <1>2, <2>2, <2>3 DEF Standing, Undisputed
<1>11. CASE Dismisses
  <2>1. PICK k \in PendingRefunds(m) : n = RefundDismissed(m, k)
    BY <1>0, <1>11 DEF Dismisses
  <2>2. /\ n.refunds = Marked(m.refunds, k, "failed") /\ n.total = m.total
        /\ n.status \in {m.status, "paid", "failed"}
    BY <1>2, <2>1, DismissedWrites
  <2>3. /\ StandingRefunds(n) = StandingRefunds(m) \ {k}
        /\ \A S \in SUBSET DOMAIN m.refunds : AmountOf(n, S) = AmountOf(m, S)
    BY <1>2, <2>2, RefundSettled
  <2>4. Standing(n) <= Standing(m)
    <3> DEFINE S == StandingRefunds(m)
    <3>1. S \in SUBSET DOMAIN m.refunds /\ S \ {k} \in SUBSET DOMAIN m.refunds
      BY DEF StandingRefunds
    <3>2. IsFiniteSet(S) /\ \A j \in S : Amounts(m)[j] \in Nat
      BY <1>2, <3>1, RefundsTyped, FS_Subset
    <3>3. S \ {k} \subseteq S
      OBVIOUS
    <3> HIDE DEF S
    <3>4. SumFunctionOnSet(Amounts(m), S \ {k}) <= SumFunctionOnSet(Amounts(m), S)
      BY <3>2, <3>3, SumPart
    <3>5. AmountOf(m, S \ {k}) <= AmountOf(m, S)
      BY <3>4 DEF AmountOf, Amounts
    <3>6. Standing(n) = AmountOf(m, S \ {k}) /\ Standing(m) = AmountOf(m, S)
      BY <2>3, <3>1 DEF Standing, S
    <3> QED
      BY <3>5, <3>6
  <2>5. Standing(n) \in Nat
    BY <1>2, StandingIsNat DEF SoundMoney
  <2> QED
    BY <1>2, <1>3, <2>2, <2>4, <2>5 DEF Undisputed
<1>12. CASE RecordsCash \/ RiderTakesCash \/ Confirms
  <2>1. PICK collector \in Collectors : n = TakenBy(m, collector)
    BY <1>0, <1>12, HandoverAssumption
    DEF RecordsCash, RiderTakesCash, Confirms, CodCollector, Collectors
  <2>2. n.refunds = m.refunds /\ n.total = m.total /\ n.status = "paid"
    BY <1>2, <2>1 DEF TakenBy, Taken, MoneyRows
  <2> QED
    BY <1>4, <2>2 DEF Undisputed
<1>13. CASE GivesBack
  <2>1. PICK asked \in Nat : CanRefund(m, asked) /\ n = Refunded(m, asked)
    BY <1>0, <1>13 DEF GivesBack
  <2>2. n = IssueRefund(m, asked) /\ asked \in Int
    BY <2>1 DEF IssueRefund
  <2> QED
    BY <1>5, <2>2
<1>14. CASE Reports \/ ChoosesCash \/ GoesOnline
  <2>1. /\ n.refunds = m.refunds /\ n.total = m.total
        /\ n.status \in {m.status, "pending", "payment_submitted"}
        /\ n.status = "payment_submitted" => n.status = m.status \/ Reports
    BY <1>0, <1>2, <1>14 DEF Reports, ChoosesCash, GoesOnline, PutOnCash, MoneyRows
  <2> QED
    BY <1>2, <1>4, <2>1 DEF Undisputed, Reports
<1>15. CASE PaysFromWallet
  <2>1. PICK amount \in Rupees : n = PaidFromWallet(m, amount)
    BY <1>0, <1>15 DEF PaysFromWallet, Rupees
  <2>2. n.refunds = m.refunds /\ n.total = m.total /\ n.status = "paid"
    BY <1>2, <2>1, FromWalletWrites
  <2> QED
    BY <1>4, <2>2 DEF Undisputed
<1>16. CASE Rests
  BY <1>0, <1>2, <1>16 DEF Rests
<1>17. ~Disputes
  BY <1>0, <1>2 DEF Disputes, Undisputed
<1> QED
  BY <1>1, <1>7, <1>8, <1>9, <1>10, <1>11, <1>12, <1>13, <1>14, <1>15, <1>16, <1>17
  DEF MoneyMoves

(* Refunds never add up to more than the order's total, whatever was cancelled,
   refunded by hand, dismissed or paid late, as long as no kitchen disputes a
   transfer the customer reported. *)
THEOREM RefundsStayWithinTotal ==
  ASSUME ~({"submit", "dispute"} \subseteq Racing)
  PROVE  Spec => []RefundWithinTotal
<1>1. Init => WithinInv
  <2> SUFFICES ASSUME Init PROVE WithinInv
    OBVIOUS
  <2>1. MoneyInv
    BY MoneyInvStarts
  <2>2. /\ money.status \in {"paid", "pending"}
        /\ Standing(money) = 0 /\ money.total \in Nat
    BY StartsUnrefunded
  <2> QED
    BY <2>1, <2>2 DEF WithinInv, RefundWithinTotal, Undisputed
<1>2. WithinInv /\ [Next]_vars => WithinInv'
  BY WithinStays
<1>3. WithinInv => RefundWithinTotal
  BY DEF WithinInv
<1> QED
  BY <1>1, <1>2, <1>3, PTL DEF Spec

-----------------------------------------------------------------------------
(* Money in is money kept. *)

(* What the sessions that were settled brought. *)
Came(rows) ==
  SumFunctionOnSet([a \in Attempts |-> rows[a].amount],
                   {a \in Attempts : rows[a].status \in {"paid", "duplicate"}})

LEMMA CameSame ==
  ASSUME NEW old \in [Attempts -> AttemptRows], NEW new \in [Attempts -> AttemptRows],
         \A a \in Attempts :
           \/ new[a] = old[a]
           \/ /\ old[a].status \notin {"paid", "duplicate"}
              /\ new[a].status \notin {"paid", "duplicate"}
  PROVE  Came(new) = Came(old)
<1> DEFINE S == {a \in Attempts : old[a].status \in {"paid", "duplicate"}}
           f == [a \in Attempts |-> old[a].amount]
           g == [a \in Attempts |-> new[a].amount]
<1>1. {a \in Attempts : new[a].status \in {"paid", "duplicate"}} = S
  OBVIOUS
<1>2. IsFiniteSet(S)
  BY AttemptsAssumption, FS_Subset
<1>3. \A a \in S : g[a] = f[a] /\ f[a] \in Int
  BY DEF AttemptRows
<1>4. Came(new) = SumFunctionOnSet(g, S) /\ Came(old) = SumFunctionOnSet(f, S)
  BY <1>1 DEF Came
<1> HIDE DEF S, f, g
<1> QED
  BY <1>2, <1>3, <1>4, SumSame

LEMMA CameMore ==
  ASSUME NEW old \in [Attempts -> AttemptRows], NEW a \in Attempts,
         old[a].status \notin {"paid", "duplicate"},
         NEW status \in {"paid", "duplicate"},
         NEW new, new = [old EXCEPT ![a].status = status]
  PROVE  Came(new) = Came(old) + old[a].amount
<1> DEFINE S == {b \in Attempts : old[b].status \in {"paid", "duplicate"}}
           f == [b \in Attempts |-> old[b].amount]
<1>1. {b \in Attempts : new[b].status \in {"paid", "duplicate"}} = S \union {a}
  BY DEF AttemptRows
<1>2. [b \in Attempts |-> new[b].amount] = f
  BY DEF AttemptRows
<1>3. IsFiniteSet(S) /\ a \notin S
  BY AttemptsAssumption, FS_Subset
<1>4. (\A b \in S : f[b] \in Int) /\ f[a] \in Int /\ f[a] = old[a].amount
  BY DEF AttemptRows
<1>5. Came(new) = SumFunctionOnSet(f, S \union {a}) /\ Came(old) = SumFunctionOnSet(f, S)
  BY <1>1, <1>2 DEF Came
<1> HIDE DEF S, f
<1>6. SumFunctionOnSet(f, S \union {a}) = f[a] + SumFunctionOnSet(f, S)
  BY <1>3, <1>4, SumAdd
<1>7. SumFunctionOnSet(f, S) \in Int
  BY <1>3, <1>4, SumInt
<1> QED
  BY <1>4, <1>5, <1>6, <1>7

(* A payment is recorded with its time and its collector, and stays recorded. *)
PaidStays(m) ==
  /\ m.paidAt = TRUE => m.status \in {"paid", "refund_pending", "refunded"}
  /\ m.status = "paid" => m.paidAt = TRUE
  /\ m.paidAt = FALSE => m.collectedBy = "none"

(* A move that takes no payment and gives back none that the order did not have. *)
Keeps(m, n) ==
  /\ Brought(n) = Brought(m)
  /\ PaidStays(m) => PaidStays(n)

LEMMA IssueKeeps ==
  ASSUME NEW m \in MoneyRows, NEW asked \in Int, NEW n, n = IssueRefund(m, asked)
  PROVE  Keeps(m, n)
<1>1. CASE CanRefund(m, asked)
  <2>1. n = Refunded(m, asked)
    BY <1>1 DEF IssueRefund
  <2>2. PICK a : a = RefundableNow(m, asked)
    OBVIOUS
  <2>3. /\ n.paid = m.paid /\ n.paidAt = m.paidAt /\ n.collectedBy = m.collectedBy
        /\ n.status = IF Standing(m) + a >= m.total
                      THEN IF m.method = "wallet" THEN "refunded" ELSE "refund_pending"
                      ELSE m.status
        /\ n.wallet - AmountOf(n, Sent(n)) = m.wallet - AmountOf(m, Sent(m))
    BY <1>1, <2>1, <2>2, RefundStands
  <2>4. Brought(n) = Brought(m)
    BY <2>3 DEF Brought
  <2>5. n.status \in {m.status, "refund_pending", "refunded"}
    BY <2>3
  <2>6. PaidStays(m) => PaidStays(n)
    BY <2>3, <2>5 DEF PaidStays
  <2> QED
    BY <2>4, <2>6 DEF Keeps
<1>2. CASE ~CanRefund(m, asked)
  BY <1>2 DEF IssueRefund, Keeps
<1> QED
  BY <1>1, <1>2

LEMMA AllKeeps ==
  ASSUME NEW m \in MoneyRows, NEW n, n = RefundAll(m)
  PROVE  Keeps(m, n)
  BY IssueKeeps, MoneyFields DEF RefundAll

(* A move that changes neither what was paid nor the refunds. *)
LEMMA StatusKeeps ==
  ASSUME NEW m, NEW n, n.refunds = m.refunds, n.wallet = m.wallet, n.paid = m.paid,
         n.paidAt = m.paidAt, n.collectedBy = m.collectedBy,
         \/ n.status = m.status
         \/ m.paidAt = FALSE /\ n.status # "paid"
  PROVE  Keeps(m, n)
<1>1. Brought(n) = Brought(m)
  BY SameRefunds DEF Brought
<1>2. PaidStays(m) => PaidStays(n)
  BY DEF PaidStays
<1> QED
  BY <1>1, <1>2 DEF Keeps

LEMMA CancelledKeeps ==
  ASSUME NEW m \in MoneyRows, NEW gone \in SUBSET Items, NEW kept \in SUBSET Items,
         NEW n, n = RefundCancelled(m, gone, kept)
  PROVE  Keeps(m, n)
<1>1. CASE kept = {}
  BY <1>1, AllKeeps DEF RefundCancelled
<1>2. CASE kept # {} /\ m.status \in {"pending", "failed", "disputed"}
  <2>1. n = [m EXCEPT !.total = PriceOf(kept)]
    BY <1>2 DEF RefundCancelled
  <2>2. /\ n.refunds = m.refunds /\ n.wallet = m.wallet /\ n.paid = m.paid
        /\ n.paidAt = m.paidAt /\ n.collectedBy = m.collectedBy /\ n.status = m.status
    BY <2>1 DEF MoneyRows
  <2> QED
    BY <2>2, StatusKeeps
<1>3. CASE kept # {} /\ m.status \notin {"pending", "failed", "disputed"}
  <2>1. Worth(gone) \in Int /\ n = IssueRefund(m, Worth(gone))
    BY <1>3, PricesAdd DEF RefundCancelled
  <2> QED
    BY <2>1, IssueKeeps
<1> QED
  BY <1>1, <1>2, <1>3

LEMMA MarkedKeeps ==
  ASSUME NEW m \in MoneyRows, NEW k \in PendingRefunds(m), NEW n,
         n = RefundSent(m, k) \/ n = RefundDismissed(m, k)
  PROVE  Keeps(m, n)
<1>1. PICK status \in {"completed", "failed"} : n.refunds = Marked(m.refunds, k, status)
  BY SentWrites, DismissedWrites
<1>2. /\ n.wallet = m.wallet /\ n.paid = m.paid /\ n.paidAt = m.paidAt
      /\ n.collectedBy = m.collectedBy
      /\ \/ n.status = m.status
         \/ n.status = "refunded" /\ m.status = "refund_pending"
         \/ n.status = "paid" /\ m.paidAt
         \/ n.status = "failed" /\ ~m.paidAt
  BY SentWrites, DismissedWrites
<1>3. Sent(n) = Sent(m) /\ \A S \in SUBSET DOMAIN m.refunds : AmountOf(n, S) = AmountOf(m, S)
  BY <1>1, RefundSettled
<1>4. AmountOf(n, Sent(n)) = AmountOf(m, Sent(m))
  BY <1>3, SentIsSum
<1>5. Brought(n) = Brought(m)
  BY <1>2, <1>4 DEF Brought
<1>6. m.paidAt = TRUE \/ m.paidAt = FALSE
  BY MoneyFields
<1>7. PaidStays(m) => PaidStays(n)
  <2>1. CASE n.status = m.status
    BY <1>2, <2>1 DEF PaidStays
  <2>2. CASE n.status = "refunded" /\ m.status = "refund_pending"
    BY <1>2, <2>2 DEF PaidStays
  <2>3. CASE n.status = "paid" /\ m.paidAt = TRUE
    BY <1>2, <2>3 DEF PaidStays
  <2>4. CASE n.status = "failed" /\ m.paidAt = FALSE
    BY <1>2, <2>4 DEF PaidStays
  <2> QED
    BY <1>2, <1>6, <2>1, <2>2, <2>3, <2>4
<1> QED
  BY <1>5, <1>7 DEF Keeps

(* The moves that take a payment: what they bring, and that it is recorded. *)
LEMMA TakenBrings ==
  ASSUME NEW m \in MoneyRows, NEW collector \in Collectors, NEW n,
         n = TakenBy(m, collector), collector # "none"
  PROVE  /\ PaidStays(n)
         /\ (m.collectedBy = "none" /\ collector # "platform" => Brought(n) = Brought(m))
<1>1. /\ n.status = "paid" /\ n.paidAt = TRUE /\ n.collectedBy = collector
      /\ n.wallet = m.wallet /\ n.refunds = m.refunds
  BY DEF TakenBy, Taken, MoneyRows
<1>2. PaidStays(n)
  BY <1>1 DEF PaidStays
<1>3. ASSUME m.collectedBy = "none", collector # "platform" PROVE Brought(n) = Brought(m)
  BY <1>1, <1>3, SameRefunds DEF Brought
<1> QED
  BY <1>2, <1>3

LEMMA WalletBrings ==
  ASSUME NEW m \in MoneyRows, NEW amount \in Rupees, NEW n, n = PaidFromWallet(m, amount)
  PROVE  /\ PaidStays(n)
         /\ (m.collectedBy = "none" => Brought(n) = Brought(m))
<1>1. /\ n.status = "paid" /\ n.paidAt = TRUE /\ n.collectedBy = "platform"
      /\ n.refunds = m.refunds
  BY DEF PaidFromWallet, Taken, MoneyRows
<1>2. n.paid = amount /\ n.wallet = m.wallet - amount
  BY FromWalletPays
<1>3. PaidStays(n)
  BY <1>1 DEF PaidStays
<1>4. AmountOf(n, Sent(n)) = AmountOf(m, Sent(m)) /\ AmountOf(m, Sent(m)) \in Int
  BY <1>1, SameRefunds, SentIsSum
<1>5. m.wallet \in Int /\ amount \in Int
  BY MoneyFields DEF Rupees
<1>6. ASSUME m.collectedBy = "none" PROVE Brought(n) = Brought(m)
  BY <1>1, <1>2, <1>4, <1>5, <1>6 DEF Brought
<1> QED
  BY <1>3, <1>6

(* A settled session brings its amount, to the order or to the wallet. *)
LEMMA SettledBrings ==
  ASSUME NEW m \in MoneyRows, PaidStays(m), NEW amount, amount \in Rupees,
         NEW calledOff, NEW n, n = Settled(m, amount, calledOff)
  PROVE  PaidStays(n) /\ Brought(n) = Brought(m) + amount
<1> DEFINE credit == [m EXCEPT !.wallet = @ + amount]
           taken == [TakenBy(m, "platform") EXCEPT !.method = "online",
                                                   !.wallet = @ + (amount - m.total)]
<1>1. amount \in Nat
  BY DEF Rupees
<1>2. AmountOf(m, Sent(m)) \in Int /\ m.wallet \in Int /\ m.total \in Nat /\ m.paid \in Nat
  BY SentIsSum, MoneyFields
<1>3. CASE ~IsNeeded(m, amount)
  <2>1. n = credit
    BY <1>3 DEF Settled
  <2>2. /\ credit.status = m.status /\ credit.paidAt = m.paidAt
        /\ credit.collectedBy = m.collectedBy /\ credit.paid = m.paid
        /\ credit.wallet = m.wallet + amount /\ credit.refunds = m.refunds
    BY <1>1, CreditWrites
  <2> HIDE DEF credit
  <2>3. AmountOf(n, Sent(n)) = AmountOf(m, Sent(m))
    BY <2>1, <2>2, SameRefunds
  <2>4. Brought(n) = Brought(m) + amount
    BY <1>1, <1>2, <2>1, <2>2, <2>3 DEF Brought
  <2>5. PaidStays(n)
    BY <2>1, <2>2 DEF PaidStays
  <2> QED
    BY <2>4, <2>5
<1>4. CASE IsNeeded(m, amount)
  <2>1. n = taken \/ n = RefundAll(taken)
    BY <1>4 DEF Settled
  <2>2. /\ taken \in MoneyRows
        /\ taken.status = "paid" /\ taken.paidAt = TRUE
        /\ taken.collectedBy = "platform" /\ taken.paid = m.total
        /\ taken.wallet = m.wallet + (amount - m.total)
        /\ taken.refunds = m.refunds
    BY <1>1, OnlineWrites
  <2> HIDE DEF taken
  <2>3. PICK t : t = taken
    OBVIOUS
  <2>4. m.collectedBy = "none"
    <3>1. m.paidAt \in BOOLEAN
      BY MoneyFields
    <3> QED
      BY <1>4, <3>1 DEF IsNeeded, Payable, PaidStays
  <2>5. AmountOf(t, Sent(t)) = AmountOf(m, Sent(m))
    BY <2>2, <2>3, SameRefunds
  <2>6. Brought(t) = Brought(m) + amount
    BY <1>1, <1>2, <2>2, <2>3, <2>4, <2>5 DEF Brought
  <2>7. PaidStays(t)
    BY <2>2, <2>3 DEF PaidStays
  <2>8. Keeps(t, RefundAll(t))
    BY <2>2, <2>3, AllKeeps
  <2> QED
    BY <2>1, <2>3, <2>6, <2>7, <2>8 DEF Keeps
<1> QED
  BY <1>3, <1>4

KeptInv == MoneyInv /\ PaidStays(money)

LEMMA PaidStaysStays ==
  ASSUME KeptInv, [Next]_vars
  PROVE  KeptInv'
<1>1. MoneyInv' /\ MoneyMoves
  BY MoneyInvStays, EveryStepMovesMoney DEF KeptInv
<1>0. PICK m, n : m = money /\ n = money'
  OBVIOUS
<1>2. /\ SoundMoney(m) /\ m \in MoneyRows /\ PaidStays(m) /\ MoneyInv
      /\ attempts \in [Attempts -> AttemptRows]
  BY <1>0 DEF KeptInv, MoneyInv, SoundMoney
<1> SUFFICES PaidStays(n)
  BY <1>0, <1>1 DEF KeptInv
<1>3. ASSUME Keeps(m, n) PROVE PaidStays(n)
  BY <1>2, <1>3 DEF Keeps
<1>4. m.paidAt = TRUE \/ m.paidAt = FALSE
  BY <1>2, MoneyFields
<1>5. CASE CancelsAll
  BY <1>0, <1>2, <1>3, <1>5, AllKeeps DEF CancelsAll
<1>6. CASE CancelsSome
  <2>1. PICK gone \in SUBSET Items : n = RefundCancelled(m, gone, Kept \ gone)
    BY <1>0, <1>6 DEF CancelsSome
  <2>2. Kept \ gone \in SUBSET Items
    BY DEF Kept
  <2> QED
    BY <1>2, <1>3, <2>1, <2>2, CancelledKeeps
<1>7. CASE Settles
  <2>1. PICK a \in Attempts :
          n = Settled(m, attempts[a].amount, orderStatus \in {"cancelled", "refunded"})
    BY <1>0, <1>7 DEF Settles, SettleAttempt
  <2>2. PICK amount, calledOff : /\ amount = attempts[a].amount
                                 /\ n = Settled(m, amount, calledOff)
    BY <2>1
  <2>3. amount \in Rupees
    BY <1>2, <2>2 DEF AttemptRows, Rupees
  <2> QED
    BY <1>2, <2>2, <2>3, SettledBrings
<1>8. CASE Sends \/ Dismisses
  BY <1>0, <1>2, <1>3, <1>8, MarkedKeeps DEF Sends, Dismisses
<1>9. CASE RecordsCash \/ RiderTakesCash \/ Confirms
  <2>1. PICK collector \in Collectors : n = TakenBy(m, collector) /\ collector # "none"
    BY <1>0, <1>9, HandoverAssumption
    DEF RecordsCash, RiderTakesCash, Confirms, CodCollector, Collectors
  <2> QED
    BY <1>2, <2>1, TakenBrings
<1>10. CASE GivesBack
  <2>1. PICK asked \in Nat : CanRefund(m, asked) /\ n = Refunded(m, asked)
    BY <1>0, <1>10 DEF GivesBack
  <2>2. n = IssueRefund(m, asked) /\ asked \in Int
    BY <2>1 DEF IssueRefund
  <2> QED
    BY <1>2, <1>3, <2>2, IssueKeeps
<1>11. CASE Reports \/ Disputes
  <2>1. /\ n.refunds = m.refunds /\ n.wallet = m.wallet /\ n.paid = m.paid
        /\ n.paidAt = m.paidAt /\ n.collectedBy = m.collectedBy
        /\ n.status # "paid"
    BY <1>0, <1>2, <1>11 DEF Reports, Disputes, MoneyRows
  <2>2. m.paidAt = FALSE
    BY <1>0, <1>2, <1>4, <1>11 DEF Reports, Disputes, Payable, PaidStays
  <2> QED
    BY <1>3, <2>1, <2>2, StatusKeeps
<1>12. CASE ChoosesCash
  <2>1. /\ n.refunds = m.refunds /\ n.wallet = m.wallet /\ n.paid = m.paid
        /\ n.paidAt = m.paidAt /\ n.collectedBy = m.collectedBy
        /\ n.status # "paid"
    BY <1>0, <1>2, <1>12 DEF ChoosesCash, PutOnCash, MoneyRows
  <2>2. m.paidAt = FALSE
    BY <1>0, <1>2, <1>4, <1>12 DEF ChoosesCash, MethodOpen, PaidStays
  <2> QED
    BY <1>3, <2>1, <2>2, StatusKeeps
<1>13. CASE PaysFromWallet
  <2>1. PICK amount \in Rupees : n = PaidFromWallet(m, amount)
    BY <1>0, <1>13 DEF PaysFromWallet, Rupees
  <2> QED
    BY <1>2, <2>1, WalletBrings
<1>14. CASE GoesOnline
  <2>1. /\ n.refunds = m.refunds /\ n.wallet = m.wallet /\ n.paid = m.paid
        /\ n.paidAt = m.paidAt /\ n.collectedBy = m.collectedBy
        /\ n.status = m.status
    BY <1>0, <1>2, <1>14 DEF GoesOnline, MoneyRows
  <2> QED
    BY <1>3, <2>1, StatusKeeps
<1>15. CASE Rests
  BY <1>0, <1>2, <1>15 DEF Rests
<1> QED
  BY <1>1, <1>5, <1>6, <1>7, <1>8, <1>9, <1>10, <1>11, <1>12, <1>13, <1>14, <1>15
  DEF MoneyMoves

(* Every rupee that came in is in the payment or in the wallet. *)
BooksKept == Handover # "hub" => Came(attempts) = Brought(money)

LEMMA BooksAreMoney == BooksKept <=> MoneyIsKept
  BY DEF BooksKept, MoneyIsKept, Came, Brought, SentBack, Sent

LEMMA BooksStay ==
  ASSUME Racing \intersect {"advance", "move"} = {}, KeptInv, BooksKept, [Next]_vars,
         Handover # "hub"
  PROVE  Came(attempts') = Brought(money')
<1>1. MoneyMoves /\ MoneyInv'
  BY MoneyInvStays, EveryStepMovesMoney DEF KeptInv
<1>0. PICK m, n, p, q : m = money /\ n = money' /\ p = attempts /\ q = attempts'
  OBVIOUS
<1>2. /\ m \in MoneyRows /\ PaidStays(m)
      /\ p \in [Attempts -> AttemptRows] /\ q \in [Attempts -> AttemptRows]
      /\ Came(p) = Brought(m)
  BY <1>0, <1>1 DEF KeptInv, BooksKept, MoneyInv, SoundMoney
<1> SUFFICES Came(q) = Brought(n)
  BY <1>0
<1>3. ASSUME q = p, Brought(n) = Brought(m) PROVE Came(q) = Brought(n)
  BY <1>2, <1>3
<1>4. ASSUME q = p, Keeps(m, n) PROVE Came(q) = Brought(n)
  BY <1>3, <1>4 DEF Keeps
<1>5. m.paidAt = TRUE \/ m.paidAt = FALSE
  BY <1>2, MoneyFields
<1>6. ASSUME m.status \notin {"paid", "refund_pending", "refunded"}
      PROVE  m.paidAt = FALSE /\ m.collectedBy = "none"
  BY <1>2, <1>5, <1>6 DEF PaidStays
<1>7. CASE CancelsAll
  BY <1>0, <1>2, <1>4, <1>7, AllKeeps DEF CancelsAll
<1>8. CASE CancelsSome
  <2>1. PICK gone \in SUBSET Items : n = RefundCancelled(m, gone, Kept \ gone) /\ q = p
    BY <1>0, <1>8 DEF CancelsSome
  <2>2. Kept \ gone \in SUBSET Items
    BY DEF Kept
  <2> QED
    BY <1>2, <1>4, <2>1, <2>2, CancelledKeeps
<1>9. CASE Settles
  <2>1. PICK a \in Attempts : SettleAttempt(a)
    BY <1>9 DEF Settles
  <2>2. /\ p[a].status \notin {"paid", "duplicate"}
        /\ \E status \in {"paid", "duplicate"} : q = [p EXCEPT ![a].status = status]
        /\ n = Settled(m, p[a].amount, orderStatus \in {"cancelled", "refunded"})
    BY <1>0, <2>1 DEF SettleAttempt
  <2>3. PICK amount, calledOff : amount = p[a].amount /\ n = Settled(m, amount, calledOff)
    BY <2>2
  <2>4. amount \in Rupees
    BY <1>2, <2>3 DEF AttemptRows, Rupees
  <2>5. Came(q) = Came(p) + p[a].amount
    BY <1>2, <2>2, CameMore
  <2>6. Brought(n) = Brought(m) + amount
    BY <1>2, <2>3, <2>4, SettledBrings
  <2> QED
    BY <1>2, <2>3, <2>5, <2>6
<1>10. CASE Sends \/ Dismisses
  BY <1>0, <1>2, <1>4, <1>10, MarkedKeeps DEF Sends, Dismisses
<1>11. ~RecordsCash
  BY DEF RecordsCash
<1>12. CASE RiderTakesCash \/ Confirms
  <2>1. PICK collector \in {"rider", "seller"} : n = TakenBy(m, collector)
    BY <1>0, <1>12 DEF RiderTakesCash, Confirms
  <2>2. m.status \notin {"paid", "refund_pending", "refunded"} /\ q = p
    BY <1>0, <1>12 DEF RiderTakesCash, Confirms, CashAtDoor
  <2>3. collector \in Collectors /\ collector \notin {"none", "platform"}
    BY DEF Collectors
  <2> QED
    BY <1>2, <1>3, <1>6, <2>1, <2>2, <2>3, TakenBrings
<1>13. CASE GivesBack
  <2>1. PICK asked \in Nat : CanRefund(m, asked) /\ n = Refunded(m, asked) /\ q = p
    BY <1>0, <1>13 DEF GivesBack
  <2>2. n = IssueRefund(m, asked) /\ asked \in Int
    BY <2>1 DEF IssueRefund
  <2> QED
    BY <1>2, <1>4, <2>1, <2>2, IssueKeeps
<1>14. CASE Reports \/ Disputes \/ ChoosesCash
  <2>1. /\ n.refunds = m.refunds /\ n.wallet = m.wallet /\ n.paid = m.paid
        /\ n.paidAt = m.paidAt /\ n.collectedBy = m.collectedBy
        /\ n.status # "paid" /\ q = p
    BY <1>0, <1>2, <1>14 DEF Reports, Disputes, ChoosesCash, PutOnCash, MoneyRows
  <2>2. m.paidAt = FALSE
    BY <1>0, <1>6, <1>14 DEF Reports, Disputes, ChoosesCash, Payable, MethodOpen
  <2> QED
    BY <1>4, <2>1, <2>2, StatusKeeps
<1>15. CASE PaysFromWallet
  <2>1. PICK amount \in Rupees : n = PaidFromWallet(m, amount)
    BY <1>0, <1>15 DEF PaysFromWallet, Rupees
  <2>2. m.collectedBy = "none" /\ q = p
    BY <1>0, <1>6, <1>15 DEF PaysFromWallet, MethodOpen
  <2> QED
    BY <1>2, <1>3, <2>1, <2>2, WalletBrings
<1>16. CASE GoesOnline
  <2>1. /\ n.refunds = m.refunds /\ n.wallet = m.wallet /\ n.paid = m.paid
        /\ n.paidAt = m.paidAt /\ n.collectedBy = m.collectedBy
        /\ n.status = m.status
    BY <1>0, <1>2, <1>16 DEF GoesOnline, MoneyRows
  <2>2. Came(q) = Came(p)
    BY <1>0, <1>2, <1>16, CameSame DEF GoesOnline, SettledStatus
  <2> QED
    BY <1>2, <2>1, <2>2, StatusKeeps DEF Keeps
<1>17. CASE Rests
  <2>1. Came(q) = Came(p)
    BY <1>0, <1>2, <1>17, CameSame DEF Rests, SettledStatus
  <2> QED
    BY <1>0, <1>2, <1>17, <2>1 DEF Rests
<1> QED
  BY <1>1, <1>7, <1>8, <1>9, <1>10, <1>11, <1>12, <1>13, <1>14, <1>15, <1>16, <1>17
  DEF MoneyMoves

LEMMA PlacedKeeps ==
  ASSUME NEW method \in PlacedWith, NEW m, m = MoneyAtPlacement(method)
  PROVE  PaidStays(m) /\ Brought(m) = 0
<1>1. /\ m \in MoneyRows /\ m.refunds = <<>> /\ m.paid + m.wallet = 0
      /\ m.status = IF method = "wallet" THEN "paid" ELSE "pending"
      /\ m.paidAt = TRUE <=> method = "wallet"
      /\ m.collectedBy = IF method = "wallet" THEN "platform" ELSE "none"
      /\ method # "wallet" => m.wallet = 0
  BY PlacedWrites
<1>2. PaidStays(m)
  BY <1>1 DEF PaidStays
<1>3. Sent(m) = {}
  BY <1>1 DEF Sent
<1>4. AmountOf(m, Sent(m)) = 0
  BY <1>3, SumOfNone DEF AmountOf
<1>5. m.paid \in Int /\ m.wallet \in Int
  BY <1>1, MoneyFields
<1>6. PICK paid, wallet, sent : paid = m.paid /\ wallet = m.wallet /\ sent = AmountOf(m, Sent(m))
  OBVIOUS
<1>7. /\ paid \in Int /\ wallet \in Int /\ sent = 0 /\ paid + wallet = 0
      /\ m.collectedBy # "platform" => wallet = 0
  BY <1>1, <1>4, <1>5, <1>6
<1>8. (wallet - sent) + (IF m.collectedBy = "platform" THEN paid ELSE 0) = 0
  BY <1>7
<1>9. Brought(m) = 0
  BY <1>6, <1>8 DEF Brought
<1> QED
  BY <1>2, <1>9

(* Every rupee that came through the gateway or the wallet is the order's
   payment or in the customer's wallet, whatever was retried, paid twice, paid
   late, repriced or refunded. The deliveries that an admin or a kitchen records
   are out: they can write cash over such a payment. *)
THEOREM MoneyInIsKept ==
  ASSUME Racing \intersect {"advance", "move"} = {}
  PROVE  Spec => []MoneyIsKept
<1>1. Init => KeptInv /\ BooksKept
  <2> SUFFICES ASSUME Init PROVE KeptInv /\ BooksKept
    OBVIOUS
  <2>1. MoneyInv
    BY MoneyInvStarts
  <2>2. PICK method \in PlacedWith : money = MoneyAtPlacement(method)
    BY DEF Init
  <2>3. PaidStays(money) /\ Brought(money) = 0
    BY <2>1, <2>2, PlacedKeeps
  <2>4. Came(attempts) = 0
    <3>1. {a \in Attempts : attempts[a].status \in {"paid", "duplicate"}} = {}
      BY DEF Init
    <3> QED
      BY <3>1, SumOfNone DEF Came
  <2> QED
    BY <2>1, <2>3, <2>4 DEF KeptInv, BooksKept
<1>2. KeptInv /\ BooksKept /\ [Next]_vars => (KeptInv /\ BooksKept)'
  BY PaidStaysStays, BooksStay DEF BooksKept
<1>3. KeptInv /\ BooksKept => MoneyIsKept
  BY BooksAreMoney
<1> QED
  BY <1>1, <1>2, <1>3, PTL DEF Spec

-----------------------------------------------------------------------------
(* An order that is over stays over. *)

(* A delivery that an admin or a kitchen records is judged from where it starts:
   the admin's from an order on its way, the kitchen's from its own couriers. *)
HandoverRead(k) ==
  /\ k.op = "advance" => /\ k.to = "delivered" => k.from = "in_transit"
                         /\ k.from \in {"delivered", "completed"} => k.to = "completed"
                         /\ k.to \in {"dispatched", "in_transit", "delivery_failed"}
                              => k.from \in {"ready", "dispatched", "in_transit"}
  /\ k.op = "move" /\ Handover # "kitchen"
       => k.to \notin {"dispatched", "in_transit", "delivered", "delivery_failed"}

HandoversRead == \A c \in Callers : HandoverRead(call[c])

(* The rider has left with the food. *)
Travelling == {"picked_up", "in_transit", "arrived_at_customer"}

Finished == {"delivered", "completed"}

(* Only a platform's rider has a job, and no job is on the road once its order is
   delivered: a rider who moved it would take the order back. *)
RoadInv ==
  /\ IInv /\ HandoversRead
  /\ PlatformRider \/ job = "none"
  /\ orderStatus \in Finished => job \notin Travelling

LEMMA ReadsBegin ==
  ASSUME CallOK, HandoversRead, NEW c \in Callers, BeginRequest(c)
  PROVE  HandoversRead'
<1> DEFINE Asks(request) == Begin(c, request) /\ HandoverRead(request)
<1>1. ASSUME NEW request, Asks(request) PROVE HandoversRead'
  BY <1>1 DEF CallOK, HandoversRead, Begin, HandoverRead
<1> HIDE DEF Asks
<1>2. ASSUME NEW i \in Items, NEW to \in ItemStatuses, BeginMove(c, i, to)
      PROVE  HandoversRead'
  <2>1. Asks([Request("move") EXCEPT !.item = i, !.from = items[i], !.to = to,
                                     !.cash = CashAtDoor(money)])
    BY <1>2 DEF Asks, BeginMove, MayHandOver, Request, Idle, HandoverRead
  <2> QED
    BY <1>1, <2>1
<1>3. ASSUME NEW to \in OrderStatuses, BeginAdvance(c, to) PROVE HandoversRead'
  <2>1. /\ to = "delivered" => orderStatus = "in_transit"
        /\ orderStatus \in {"delivered", "completed"} => to = "completed"
        /\ to \in {"dispatched", "in_transit", "delivery_failed"}
             => orderStatus \in {"ready", "dispatched", "in_transit"}
    BY <1>3 DEF BeginAdvance, IsOrderStep, OrderForwardSequence
  <2>2. Asks([Request("advance") EXCEPT !.from = orderStatus, !.to = to,
                                        !.cash = CashAtDoor(money)])
    BY <1>3, <2>1 DEF Asks, BeginAdvance, Request, Idle, HandoverRead
  <2> QED
    BY <1>1, <2>2
<1>4. ASSUME NEW request, Begin(c, request), request.op \notin {"move", "advance"}
      PROVE  HandoversRead'
  <2>1. Asks(request)
    BY <1>4 DEF Asks, HandoverRead
  <2> QED
    BY <1>1, <2>1
<1>5. ASSUME NEW asked \in RefundAmounts, BeginRefund(c, asked) PROVE HandoversRead'
  BY <1>4, <1>5 DEF BeginRefund, Request, Idle
<1>6. ASSUME NEW verdict \in {"confirm", "dispute"}, BeginVerdict(c, verdict)
      PROVE  HandoversRead'
  BY <1>4, <1>6 DEF BeginVerdict, Request, Idle
<1>7. CASE BeginReady(c) \/ BeginRetry(c) \/ BeginSubmit(c) \/ BeginCash(c) \/ BeginClaim(c)
  BY <1>4, <1>7 DEF BeginReady, BeginRetry, BeginSubmit, BeginCash, BeginClaim, Request, Idle
<1>8. CASE BeginAdminConfirm(c) \/ BeginCheckout(c) \/ BeginWalletPay(c)
  BY <1>4, <1>8 DEF BeginAdminConfirm, BeginCheckout, BeginWalletPay, Request, Idle
<1> QED
  BY <1>2, <1>3, <1>5, <1>6, <1>7, <1>8 DEF BeginRequest

LEMMA ReadsStay ==
  ASSUME CallOK, HandoversRead, [Next]_vars
  PROVE  HandoversRead'
<1>1. HandoverRead(Idle)
  BY DEF HandoverRead, Idle
<1>2. ASSUME NEW c \in Callers, Return(c) PROVE HandoversRead'
  BY <1>1, <1>2 DEF CallOK, HandoversRead, Return
<1>3. CASE Crash
  BY <1>1, <1>3 DEF Crash, HandoversRead
<1>4. CASE UNCHANGED call
  BY <1>4 DEF HandoversRead
<1> QED
  BY <1>2, <1>3, <1>4, ReadsBegin, RequestsChange

(* What a request that only pays, refunds or claims does to order and job. *)
LEMMA OtherRequestsApart ==
  ASSUME NEW c \in Callers, ProcessRefund(c) \/ MoneyRequest(c) \/ ClaimJob(c)
  PROVE  /\ orderStatus' \in {orderStatus, "refunded"}
         /\ job' = job \/ (job = "pending" /\ job' = "assigned")
  BY DEF ProcessRefund, MoneyRequest, SubmitPayment, KitchenVerdict, AdminConfirm,
     OpenCheckout, ChooseCash, PayFromWallet, Refuse, ClaimJob, orderVars, riderVars

LEMMA CancelsApart ==
  ASSUME CustomerCancel \/ AdminCancel \/ RejectOrder \/ SweepOrder
           \/ \E i \in Items : CancelItem(i)
  PROVE  /\ orderStatus' \in {orderStatus, "cancelled"}
         /\ job' = job \/ (job # "none" /\ job' = "cancelled")
  BY DEF CustomerCancel, AdminCancel, RejectOrder, SweepOrder, CancelItem, CancelOrder,
     CancelByKitchen, CloseJob, orderVars, riderVars

LEMMA QuietStepsApart ==
  ASSUME [Next]_vars, EnsureDelivery \/ ReleaseJob \/ Crash \/ MoneyStep \/ UNCHANGED vars
           \/ \E c \in Callers : BeginRequest(c)
  PROVE  /\ orderStatus' = orderStatus
         /\ job' = job \/ (job' = "pending" /\ (job = "none" => PlatformRider))
<1>1. ASSUME NEW c \in Callers, BeginRequest(c) PROVE UNCHANGED <<orderStatus, job>>
  BY <1>1 DEF BeginRequest, BeginMove, BeginReady, BeginAdvance, BeginRefund,
     BeginRetry, BeginSubmit, BeginVerdict, BeginAdminConfirm, BeginCheckout,
     BeginCash, BeginWalletPay, BeginClaim, Begin, orderVars, riderVars
<1>2. CASE Crash \/ MoneyStep \/ UNCHANGED vars
  BY <1>2 DEF Crash, MoneyStep, RecordOrderCompletion, SettleAttempt, ExpireAttempt,
     CompleteRefund, DismissRefund, SelectStale, vars, orderVars, riderVars
<1>3. CASE EnsureDelivery \/ ReleaseJob
  BY <1>3 DEF EnsureDelivery, NeedsJob, ReleaseJob, BeforePickup, orderVars
<1> QED
  BY <1>1, <1>2, <1>3

(* A kitchen's move by hand: of a delivered order nothing is left to move, and an
   order becomes delivered so only where no rider delivers. *)
LEMMA MoveApart ==
  ASSUME RoadInv, NEW c \in Callers, MoveItem(c)
  PROVE  /\ orderStatus \in Over => orderStatus' \in Over
         /\ orderStatus' \in Finished => orderStatus \in Finished \/ ~PlatformRider
         /\ job' = job
<1>1. /\ orderStatus' = Derived(items', call[c].to) /\ job' = job
      /\ items[call[c].item] = call[c].from /\ call[c].item \in Items
      /\ call[c].from \notin {"cancelled", "delivered"}
  BY DEF MoveItem, RoadInv, IInv, CallOK, RequestOK, riderVars
<1>2. orderStatus \notin Finished
  BY <1>1 DEF RoadInv, IInv, DeliveredIsComplete, Finished
<1>3. orderStatus \in Closed => orderStatus' = orderStatus
  BY <1>1 DEF Derived, Closed
<1>4. Handover # "kitchen" => orderStatus' # "delivered" \/ orderStatus' = orderStatus
  <2>1. Handover # "kitchen" => call[c].to # "delivered"
    BY DEF MoveItem, RoadInv, HandoversRead, HandoverRead
  <2> QED
    BY <1>1, <2>1 DEF Derived
<1>5. orderStatus' # "completed" \/ orderStatus' = orderStatus
  BY <1>1 DEF Derived
<1> QED
  BY <1>1, <1>2, <1>3, <1>4, <1>5 DEF Over, Finished, PlatformRider

LEMMA RiderMovesApart ==
  ASSUME RoadInv, NEW to \in JobStatuses, MoveJob(to)
  PROVE  /\ orderStatus \in Over => orderStatus' \in Over
         /\ orderStatus' \in Finished => job' \notin Travelling
         /\ PlatformRider
<1>1. /\ <<job, to>> \in DeliveryTransitions /\ job' = to
      /\ ~MoveRefused(job, to, orderStatus, money.method = "cod", money.status)
      /\ orderStatus' = IF PushedOrderStatus(to) \notin {"none", orderStatus}
                        THEN PushedOrderStatus(to) ELSE orderStatus
  BY DEF MoveJob
<1>2. PlatformRider
  BY <1>1 DEF RoadInv, DeliveryTransitions
<1>3. ASSUME orderStatus \in Over PROVE orderStatus' \in Over
  <2>1. job \notin Travelling /\ orderStatus \notin KitchenReady
    BY <1>1, <1>3 DEF RoadInv, Over, Closed, Finished, MoveRefused, KitchenReady
  <2>2. to = "arrived_at_pickup"
    BY <1>1, <2>1 DEF DeliveryTransitions, MoveRefused, Travelling
  <2> QED
    BY <1>1, <1>3, <2>2 DEF PushedOrderStatus
<1>4. ASSUME to \in Travelling PROVE orderStatus' \notin Finished
  BY <1>1, <1>4 DEF PushedOrderStatus, Travelling, Finished
<1> QED
  BY <1>1, <1>2, <1>3, <1>4

LEMMA AdvanceApart ==
  ASSUME RoadInv, NEW c \in Callers, AdvanceOrder(c)
  PROVE  /\ orderStatus \in Over => orderStatus' \in Over
         /\ orderStatus' \in Finished => job' \notin Travelling
         /\ job = "none" => job' = "none"
<1>1. /\ orderStatus = call[c].from /\ orderStatus' = call[c].to
      /\ call[c].from \notin Closed
      /\ call[c].from \in Finished => call[c].to = "completed"
      /\ call[c].to = "completed" => call[c].from = "delivered"
  BY DEF AdvanceOrder, Unmoved, RoadInv, IInv, CallOK, RequestOK, HandoversRead,
     HandoverRead, Finished
<1>2. job' = IF call[c].to = "delivered" /\ job \in ActiveJob THEN "delivered" ELSE job
  BY DEF AdvanceOrder
<1> QED
  BY <1>1, <1>2 DEF RoadInv, Over, Finished, Travelling, ActiveJob

(* Every step, then: an order that is over is brought back by a retry or not at all,
   and no step puts the job of a delivered order on the road. *)
LEMMA StepsApart ==
  ASSUME RoadInv, [Next]_vars
  PROVE  /\ orderStatus \in Over
              => orderStatus' \in Over \/ \E c \in Callers : RetryDelivery(c)
         /\ orderStatus' \in Finished => job' \notin Travelling
         /\ PlatformRider \/ job' = "none"
<1> DEFINE Goal == /\ orderStatus \in Over
                        => orderStatus' \in Over \/ \E c \in Callers : RetryDelivery(c)
                   /\ orderStatus' \in Finished => job' \notin Travelling
                   /\ PlatformRider \/ job' = "none"
<1>0. /\ PlatformRider \/ job = "none"
      /\ orderStatus \in Finished => job \notin Travelling
  BY DEF RoadInv
<1>1. ASSUME \/ orderStatus' = orderStatus
             \/ orderStatus' \in Closed
             \/ orderStatus \notin Over /\ orderStatus' \notin Over,
             \/ job' = job
             \/ job' \notin Travelling /\ (job = "none" => PlatformRider)
      PROVE  Goal
  BY <1>0, <1>1 DEF Over, Closed, Finished
<1>2. CASE CustomerCancel \/ AdminCancel \/ RejectOrder \/ SweepOrder
           \/ \E i \in Items : CancelItem(i)
  BY <1>1, <1>2, CancelsApart DEF Closed, Travelling
<1>3. CASE EnsureDelivery \/ ReleaseJob \/ Crash \/ MoneyStep \/ UNCHANGED vars
           \/ \E c \in Callers : BeginRequest(c)
  BY <1>1, <1>3, QuietStepsApart DEF Travelling
<1>4. CASE AcceptOrder
  BY <1>1, <1>4 DEF AcceptOrder, Over, Closed, riderVars
<1>5. ASSUME NEW c \in Callers, ProcessRefund(c) \/ MoneyRequest(c) \/ ClaimJob(c)
      PROVE  Goal
  BY <1>1, <1>5, OtherRequestsApart DEF Closed, Travelling
<1>6. ASSUME NEW c \in Callers, MarkReady(c) PROVE Goal
  BY <1>1, <1>6 DEF MarkReady, StillCooking, Over, Closed, riderVars
<1>7. ASSUME NEW c \in Callers, RetryDelivery(c) PROVE Goal
  BY <1>0, <1>7 DEF RetryDelivery, Finished, Travelling
<1>8. ASSUME NEW c \in Callers, MoveItem(c) PROVE Goal
  BY <1>0, <1>8, MoveApart DEF Travelling
<1>9. ASSUME NEW c \in Callers, AdvanceOrder(c) PROVE Goal
  BY <1>0, <1>9, AdvanceApart
<1>10. ASSUME NEW to \in JobStatuses, MoveJob(to) PROVE Goal
  BY <1>10, RiderMovesApart
<1> QED
  BY <1>2, <1>3, <1>4, <1>5, <1>6, <1>7, <1>8, <1>9, <1>10
  DEF Next, MoneyStep, FinishRequest, MoneyRequest

LEMMA RoadInvStays ==
  ASSUME RoadInv, [Next]_vars
  PROVE  RoadInv'
<1>1. IInv' /\ HandoversRead'
  BY NextKeeps, ReadsStay DEF RoadInv, IInv
<1> QED
  BY <1>1, StepsApart DEF RoadInv, PlatformRider

LEMMA RoadInvStarts ==
  ASSUME Init
  PROVE  RoadInv
<1>1. HandoversRead
  BY DEF Init, HandoversRead, HandoverRead, Idle
<1> QED
  BY <1>1, InitEstablishes DEF Init, RoadInv, Finished

(* Of all the handlers that read first and write later, and of all a rider does with
   a job, only the retry of a failed delivery brings back an order that is cancelled,
   refunded, delivered or completed, with any number of requests in flight. *)
THEOREM OnlyARetryRevives == Spec => OnlyRetryRevives
<1>1. RoadInv /\ [Next]_vars
        => [(\E S \in {Closed, Over} : orderStatus \in S /\ orderStatus' \notin S)
              => RetryCommits]_vars
  <2>1. ASSUME IInv, NEW c \in Callers, RetryDelivery(c) PROVE RetryCommits
    BY <2>1 DEF RetryDelivery, RetryCommits, Return, IInv, CallOK
  <2> QED
    BY <2>1, ClosedStaysClosed, StepsApart DEF RoadInv
<1>2. RoadInv /\ [Next]_vars => RoadInv'
  BY RoadInvStays
<1>3. Init => RoadInv
  BY RoadInvStarts
<1> QED
  BY <1>1, <1>2, <1>3, PTL DEF Spec, OnlyRetryRevives

-----------------------------------------------------------------------------
(* The rider is charged for the cash a rider took. *)

Behind == orderStatus \in Over /\ job \notin Travelling

(* A retry under way, which will send the order out again whatever became of it; and
   a delivery that an admin is about to record with its cash. *)
RetryHeld == \E c \in Callers : call[c].op = "retry"

CashComing == \E c \in Callers :
                call[c].op = "advance" /\ call[c].to = "delivered" /\ call[c].cash

(* The server handles one request at a time, or none is a retry. Either way a retry is
   under way with no other request. *)
OneAtATime == \A c, d \in Callers : c = d

RetriesApart == "retry" \notin Racing \/ OneAtATime

(* Cash a rider took is charged, or the order is over, its job was delivered or can no
   longer be, and nothing brings it back. Nobody is about to take it again. *)
CashInv ==
  /\ HandoversRead
  /\ PlatformRider
       \/ (job = "none" /\ riderCash = 0 /\ money.collectedBy # "rider")
  /\ job = "delivered" => orderStatus \in Over
  /\ money.collectedBy = "rider" => riderCash = money.paid \/ (Behind /\ ~RetryHeld)
  /\ money.collectedBy = "rider" /\ CashComing => Behind
  /\ CashIsCharged

(* Who finishes another request holds no retry, and leaves none. *)
LEMMA NoRetryHeld ==
  ASSUME RetriesApart, RequestsMade, NEW c \in Callers, call[c].op # "retry"
  PROVE  ~RetryHeld
  BY DEF RetriesApart, OneAtATime, RequestsMade, RetryHeld

LEMMA RetryIsAlone ==
  ASSUME RetriesApart, RequestsMade, NEW c \in Callers, call[c].op = "retry"
  PROVE  /\ \A d \in Callers : d = c
         /\ RetryHeld /\ ~CashComing
  BY DEF RetriesApart, OneAtATime, RequestsMade, RetryHeld, CashComing

LEMMA ReturnHoldsNone ==
  ASSUME RetriesApart, RequestsMade, NEW c \in Callers, Return(c)
  PROVE  ~RetryHeld' /\ (CashComing' => CashComing)
<1>1. call'[c].op = "none" /\ \A d \in Callers \ {c} : call'[d] = call[d]
  BY DEF Return, Idle, RequestsMade
<1>2. ~RetryHeld'
  BY <1>1 DEF RetriesApart, OneAtATime, RequestsMade, RetryHeld
<1>3. CashComing' => CashComing
  BY <1>1 DEF CashComing
<1> QED
  BY <1>2, <1>3

(* A retry begins on an order that is not over, and an admin who reads that cash is to
   be taken reads a payment nobody collected. *)
LEMMA HoldsBegin ==
  ASSUME KeptInv, NEW c \in Callers, BeginRequest(c)
  PROVE  /\ RetryHeld' => RetryHeld \/ orderStatus = "delivery_failed"
         /\ CashComing' => CashComing \/ money.collectedBy = "none"
         /\ UNCHANGED <<orderVars, money, riderVars>>
<1> DEFINE Goal == /\ RetryHeld' => RetryHeld \/ orderStatus = "delivery_failed"
                   /\ CashComing' => CashComing \/ money.collectedBy = "none"
                   /\ UNCHANGED <<orderVars, money, riderVars>>
           Asks(request) ==
             /\ Begin(c, request)
             /\ request.op = "retry" => orderStatus = "delivery_failed"
             /\ request.op = "advance" /\ request.to = "delivered" /\ request.cash
                  => money.collectedBy = "none"
<1>1. ASSUME NEW request, Asks(request) PROVE Goal
  <2>1. call' = [call EXCEPT ![c] = request] /\ call \in [Callers -> Calls]
    BY <1>1 DEF Begin, KeptInv, MoneyInv, RequestsMade
  <2>2. call'[c] = request /\ \A d \in Callers \ {c} : call'[d] = call[d]
    BY <2>1
  <2>3. RetryHeld' => RetryHeld \/ orderStatus = "delivery_failed"
    BY <1>1, <2>2 DEF RetryHeld
  <2>4. CashComing' => CashComing \/ money.collectedBy = "none"
    BY <1>1, <2>2 DEF CashComing
  <2> QED
    BY <1>1, <2>3, <2>4 DEF Begin
<1> HIDE DEF Asks, Goal
<1>2. ASSUME NEW request, Begin(c, request), request.op \notin {"retry", "advance"}
      PROVE  Goal
  BY <1>1, <1>2 DEF Asks
<1>3. ASSUME BeginRetry(c) PROVE Goal
  <2>1. Asks(Request("retry"))
    BY <1>3 DEF BeginRetry, Asks, Request, Idle
  <2> QED
    BY <1>1, <2>1
<1>4. ASSUME NEW to \in OrderStatuses, BeginAdvance(c, to) PROVE Goal
  <2>1. PICK request : request = [Request("advance") EXCEPT !.from = orderStatus, !.to = to,
                                                            !.cash = CashAtDoor(money)]
    OBVIOUS
  <2>2. request.op = "advance" /\ request.to = to /\ request.cash = CashAtDoor(money)
    BY <2>1 DEF Request, Idle
  <2>3. to = "delivered" /\ CashAtDoor(money) => money.collectedBy = "none"
    BY <1>4, MoneyFields
    DEF BeginAdvance, NotRefunded, CashAtDoor, KeptInv, PaidStays, MoneyInv, SoundMoney
  <2>4. Asks(request)
    BY <1>4, <2>1, <2>2, <2>3 DEF Asks, BeginAdvance
  <2> QED
    BY <1>1, <2>4
<1>5. ASSUME NEW i \in Items, NEW to \in ItemStatuses, BeginMove(c, i, to) PROVE Goal
  BY <1>2, <1>5 DEF BeginMove, Request, Idle
<1>6. ASSUME NEW asked \in RefundAmounts, BeginRefund(c, asked) PROVE Goal
  BY <1>2, <1>6 DEF BeginRefund, Request, Idle
<1>7. ASSUME NEW verdict \in {"confirm", "dispute"}, BeginVerdict(c, verdict) PROVE Goal
  BY <1>2, <1>7 DEF BeginVerdict, Request, Idle
<1>8. CASE BeginReady(c) \/ BeginSubmit(c) \/ BeginCash(c) \/ BeginClaim(c)
  <2>1. PICK op \in {"ready", "submit", "cash", "claim"} : Begin(c, Request(op))
    BY <1>8 DEF BeginReady, BeginSubmit, BeginCash, BeginClaim
  <2>2. Request(op).op \notin {"retry", "advance"}
    BY DEF Request, Idle
  <2> QED
    BY <1>2, <2>1, <2>2 DEF Goal
<1>9. CASE BeginAdminConfirm(c)
  <2>1. Begin(c, [Request("adminConfirm") EXCEPT !.from = orderStatus])
    BY <1>9 DEF BeginAdminConfirm
  <2>2. [Request("adminConfirm") EXCEPT !.from = orderStatus].op \notin {"retry", "advance"}
    BY DEF Request, Idle
  <2> QED
    BY <1>2, <2>1, <2>2 DEF Goal
<1>10. CASE BeginCheckout(c) \/ BeginWalletPay(c)
  <2>1. PICK op \in {"checkout", "walletPay"} :
          Begin(c, [Request(op) EXCEPT !.amount = money.total])
    BY <1>10 DEF BeginCheckout, BeginWalletPay
  <2>2. [Request(op) EXCEPT !.amount = money.total].op \notin {"retry", "advance"}
    BY DEF Request, Idle
  <2> QED
    BY <1>2, <2>1, <2>2 DEF Goal
<1> QED
  BY <1>3, <1>4, <1>5, <1>6, <1>7, <1>8, <1>9, <1>10 DEF BeginRequest, Goal

(* What any step does to the two. *)
HoldsFollow ==
  /\ RetryHeld' => RetryHeld \/ (orderStatus = "delivery_failed" /\ UNCHANGED orderVars)
  /\ CashComing' => CashComing \/ (money.collectedBy = "none" /\ UNCHANGED money)

LEMMA HoldsChange ==
  ASSUME RetriesApart, KeptInv, [Next]_vars
  PROVE  HoldsFollow
<1> USE DEF HoldsFollow
<1>1. CASE UNCHANGED call
  <2>1. RetryHeld' => RetryHeld
    BY <1>1 DEF RetryHeld
  <2>2. CashComing' => CashComing
    BY <1>1 DEF CashComing
  <2> QED
    BY <2>1, <2>2
<1>2. CASE Crash
  <2>1. \A c \in Callers : call'[c].op = "none"
    BY <1>2 DEF Crash, Idle
  <2>2. ~RetryHeld'
    BY <2>1 DEF RetryHeld
  <2>3. ~CashComing'
    BY <2>1 DEF CashComing
  <2> QED
    BY <2>2, <2>3
<1>3. ASSUME NEW c \in Callers, BeginRequest(c) PROVE HoldsFollow
  BY <1>3, HoldsBegin
<1>4. ASSUME NEW c \in Callers, Return(c)
      PROVE  ~RetryHeld' /\ (CashComing' => CashComing)
  BY <1>4, ReturnHoldsNone DEF KeptInv, MoneyInv
<1> QED
  BY <1>1, <1>2, <1>3, <1>4, RequestsChange

(* The payment is the same, or neither is a rider's. *)
SamePayment(m, n) == n.collectedBy = m.collectedBy /\ n.paid = m.paid

NoRiders(m, n) == m.collectedBy # "rider" /\ n.collectedBy # "rider"

LEMMA IssueIsPaidSame ==
  ASSUME NEW m \in MoneyRows, NEW asked \in Int, NEW n, n = IssueRefund(m, asked)
  PROVE  SamePayment(m, n)
<1>1. PICK a : a = RefundableNow(m, asked)
  OBVIOUS
<1> QED
  BY <1>1, RefundStands DEF IssueRefund, SamePayment

LEMMA CancelledIsPaidSame ==
  ASSUME NEW m \in MoneyRows, NEW gone \in SUBSET Items, NEW kept \in SUBSET Items,
         NEW n, n = RefundCancelled(m, gone, kept) \/ n = RefundAll(m)
  PROVE  SamePayment(m, n)
<1>1. Worth(gone) \in Int /\ m.total \in Int
  BY PricesAdd, MoneyFields
<1>2. CASE n = RefundAll(m)
  BY <1>1, <1>2, IssueIsPaidSame DEF RefundAll
<1>3. CASE n = IssueRefund(m, Worth(gone))
  BY <1>1, <1>3, IssueIsPaidSame
<1>4. CASE n = [m EXCEPT !.total = PriceOf(kept)]
  BY <1>4 DEF MoneyRows, SamePayment
<1> QED
  BY <1>2, <1>3, <1>4 DEF RefundCancelled

(* A settled session is the first payment, or none. *)
LEMMA SettledIsNoRiders ==
  ASSUME NEW m \in MoneyRows, PaidStays(m), NEW amount, amount \in Nat,
         NEW calledOff, NEW n, n = Settled(m, amount, calledOff)
  PROVE  SamePayment(m, n) \/ NoRiders(m, n)
<1> DEFINE credit == [m EXCEPT !.wallet = @ + amount]
           taken == [TakenBy(m, "platform") EXCEPT !.method = "online",
                                                   !.wallet = @ + (amount - m.total)]
<1>1. CASE ~IsNeeded(m, amount)
  <2>1. n = credit
    BY <1>1 DEF Settled
  <2>2. credit.collectedBy = m.collectedBy /\ credit.paid = m.paid
    BY CreditWrites
  <2> QED
    BY <2>1, <2>2 DEF SamePayment
<1>2. CASE IsNeeded(m, amount)
  <2>1. n = taken \/ n = RefundAll(taken)
    BY <1>2 DEF Settled
  <2>2. taken \in MoneyRows /\ taken.collectedBy = "platform"
    BY OnlineWrites
  <2> HIDE DEF taken
  <2>3. PICK t : t = taken
    OBVIOUS
  <2>4. m.collectedBy = "none"
    <3>1. m.paidAt \in BOOLEAN
      BY MoneyFields
    <3> QED
      BY <1>2, <3>1 DEF IsNeeded, Payable, PaidStays
  <2>5. ASSUME n = RefundAll(t) PROVE n.collectedBy = t.collectedBy
    <3>1. t \in MoneyRows /\ {} \in SUBSET Items
      BY <2>2, <2>3
    <3> QED
      BY <2>5, <3>1, CancelledIsPaidSame DEF SamePayment
  <2> QED
    BY <2>1, <2>2, <2>3, <2>4, <2>5 DEF NoRiders
<1> QED
  BY <1>1, <1>2

LEMMA MarkedIsPaidSame ==
  ASSUME NEW m \in MoneyRows, NEW k \in PendingRefunds(m), NEW n,
         n = RefundSent(m, k) \/ n = RefundDismissed(m, k)
  PROVE  SamePayment(m, n)
  BY SentWrites, DismissedWrites DEF SamePayment

(* Cash is taken by the rider's own delivery and by one an admin records. Every
   other step, the kitchen's deliveries included, is quiet. *)
Quiet ==
  /\ SamePayment(money, money') \/ NoRiders(money, money')
  /\ riderCash' = riderCash
  /\ PlatformRider /\ orderStatus \in Over => orderStatus' \in Over
  /\ job' = job \/ (job # "delivered" /\ job' \notin Travelling \union {"delivered"})
  /\ ~PlatformRider /\ job = "none" => job' = "none"

LEMMA StillQuiet ==
  ASSUME UNCHANGED <<money, riderCash, job>>,
         orderStatus' = orderStatus \/ orderStatus' \in Over
  PROVE  Quiet
  BY DEF Quiet, SamePayment

LEMMA PaymentIsQuiet ==
  ASSUME UNCHANGED <<riderCash, job, orderStatus>>,
         SamePayment(money, money') \/ NoRiders(money, money')
  PROVE  Quiet
  BY DEF Quiet

LEMMA CancelsAreQuiet ==
  ASSUME KeptInv, CustomerCancel \/ AdminCancel \/ RejectOrder \/ SweepOrder
                  \/ \E i \in Items : CancelItem(i)
  PROVE  Quiet
<1>1. money \in MoneyRows
  BY DEF KeptInv, MoneyInv, SoundMoney
<1>2. ASSUME CloseJob
      PROVE  /\ job' = job \/ (job # "delivered" /\ job' \notin Travelling \union {"delivered"})
             /\ job = "none" => job' = "none"
  BY <1>2 DEF CloseJob, Travelling
<1>3. ASSUME CancelOrder PROVE Quiet
  <2>1. money' = RefundAll(money) /\ orderStatus' \in Over /\ riderCash' = riderCash
    BY <1>3 DEF CancelOrder, Over, Closed
  <2>2. {} \in SUBSET Items
    OBVIOUS
  <2>3. PICK m, n : m = money /\ n = money'
    OBVIOUS
  <2>4. SamePayment(m, n)
    BY <1>1, <2>1, <2>2, <2>3, CancelledIsPaidSame
  <2> QED
    BY <1>2, <1>3, <2>1, <2>3, <2>4 DEF CancelOrder, Quiet
<1>4. ASSUME NEW S \in SUBSET Items, CancelByKitchen(S) PROVE Quiet
  <2>1. PICK m, n : m = money /\ n = money'
    OBVIOUS
  <2>2. n = RefundCancelled(m, S, Kept \ S) /\ Kept \ S \in SUBSET Items
    BY <1>4, <2>1 DEF CancelByKitchen, Kept
  <2>3. SamePayment(m, n)
    BY <1>1, <2>1, <2>2, CancelledIsPaidSame
  <2>4. /\ \/ CloseJob /\ orderStatus' = "cancelled"
           \/ UNCHANGED <<job, orderStatus>>
        /\ riderCash' = riderCash
    BY <1>4 DEF CancelByKitchen
  <2> QED
    BY <1>2, <2>1, <2>3, <2>4 DEF Quiet, Over, Closed
<1>5. CASE UNCHANGED <<orderVars, money, riderVars>>
  BY <1>5, StillQuiet DEF orderVars, riderVars
<1>6. LiveItems \in SUBSET Items
  BY DEF LiveItems
<1> QED
  BY <1>3, <1>4, <1>5, <1>6 DEF CustomerCancel, AdminCancel, RejectOrder, SweepOrder, CancelItem

LEMMA MoneyStepIsQuiet ==
  ASSUME KeptInv, MoneyStep
  PROVE  Quiet
<1>1. /\ money \in MoneyRows /\ PaidStays(money)
      /\ attempts \in [Attempts -> AttemptRows]
  BY DEF KeptInv, MoneyInv, SoundMoney
<1>2. PICK m, n : m = money /\ n = money'
  OBVIOUS
<1>3. UNCHANGED <<riderCash, job, orderStatus>>
  BY DEF MoneyStep, RecordOrderCompletion, SettleAttempt, ExpireAttempt,
     CompleteRefund, DismissRefund, SelectStale, orderVars, riderVars
<1>4. ASSUME NEW a \in Attempts, SettleAttempt(a) PROVE SamePayment(m, n) \/ NoRiders(m, n)
  <2>1. PICK amount, calledOff : amount = attempts[a].amount /\ n = Settled(m, amount, calledOff)
    BY <1>2, <1>4 DEF SettleAttempt
  <2>2. amount \in Nat
    BY <1>1, <2>1 DEF AttemptRows
  <2> QED
    BY <1>1, <1>2, <2>1, <2>2, SettledIsNoRiders
<1>5. ASSUME NEW k \in DOMAIN money.refunds, CompleteRefund(k) \/ DismissRefund(k)
      PROVE  SamePayment(m, n)
  <2>1. /\ m \in MoneyRows /\ k \in PendingRefunds(m)
        /\ n = RefundSent(m, k) \/ n = RefundDismissed(m, k)
    BY <1>1, <1>2, <1>5 DEF CompleteRefund, DismissRefund
  <2> QED
    BY <2>1, MarkedIsPaidSame
<1>6. ASSUME UNCHANGED money PROVE SamePayment(m, n)
  BY <1>2, <1>6 DEF SamePayment
<1>7. \/ UNCHANGED money
      \/ \E a \in Attempts : SettleAttempt(a)
      \/ \E k \in DOMAIN money.refunds : CompleteRefund(k) \/ DismissRefund(k)
  BY DEF MoneyStep, RecordOrderCompletion, ExpireAttempt, SelectStale
<1>8. SamePayment(m, n) \/ NoRiders(m, n)
  BY <1>4, <1>5, <1>6, <1>7
<1> QED
  BY <1>2, <1>3, <1>8, PaymentIsQuiet

LEMMA PaymentRequestIsQuiet ==
  ASSUME KeptInv, NEW c \in Callers, MoneyRequest(c)
  PROVE  Quiet
<1>1. money \in MoneyRows /\ PaidStays(money) /\ money.paidAt \in BOOLEAN
  BY MoneyFields DEF KeptInv, MoneyInv, SoundMoney
<1>2. PICK m, n : m = money /\ n = money'
  OBVIOUS
<1>3. UNCHANGED <<riderCash, job, orderStatus>>
  BY DEF MoneyRequest, SubmitPayment, KitchenVerdict, AdminConfirm, OpenCheckout,
     ChooseCash, PayFromWallet, Refuse, orderVars, riderVars
<1>4. CASE /\ m.status \notin {"paid", "refund_pending", "refunded"}
           /\ n.collectedBy # "rider"
  BY <1>1, <1>2, <1>3, <1>4, PaymentIsQuiet DEF PaidStays, NoRiders
<1>5. CASE SamePayment(m, n)
  BY <1>2, <1>3, <1>5, PaymentIsQuiet
<1>6. CASE SubmitPayment(c) \/ ChooseCash(c) \/ Refuse(c) \/ \E a \in Attempts : OpenCheckout(c, a)
  BY <1>1, <1>2, <1>5, <1>6
  DEF SubmitPayment, ChooseCash, PutOnCash, Refuse, OpenCheckout, SamePayment, MoneyRows
<1>7. CASE KitchenVerdict(c) \/ AdminConfirm(c)
  <2>1. m.status \notin {"paid", "refund_pending", "refunded"}
    BY <1>2, <1>7 DEF KitchenVerdict, AdminConfirm
  <2>2. n = TakenBy(m, "seller") \/ n = [m EXCEPT !.status = "disputed"]
    BY <1>2, <1>7 DEF KitchenVerdict, AdminConfirm
  <2>3. CASE n = TakenBy(m, "seller")
    <3>1. n.collectedBy = "seller"
      BY <1>1, <1>2, <2>3 DEF TakenBy, Taken, MoneyRows
    <3> QED
      BY <1>4, <2>1, <3>1
  <2>4. CASE n = [m EXCEPT !.status = "disputed"]
    BY <1>1, <1>2, <1>5, <2>4 DEF SamePayment, MoneyRows
  <2> QED
    BY <2>2, <2>3, <2>4
<1>8. CASE PayFromWallet(c)
  <2>1. PICK amount : n = PaidFromWallet(m, amount)
    BY <1>2, <1>8 DEF PayFromWallet
  <2>2. n.collectedBy = "platform" /\ m.status \in MethodOpen
    BY <1>1, <1>2, <1>8, <2>1 DEF PayFromWallet, PaidFromWallet, Taken, MoneyRows
  <2> QED
    BY <1>4, <2>2 DEF MethodOpen
<1> QED
  BY <1>6, <1>7, <1>8 DEF MoneyRequest

(* An item that a kitchen moves by hand takes the order nowhere when a platform
   rider carries it, and takes no cash for the rider when none does. *)
LEMMA MoveItemIsQuiet ==
  ASSUME KeptInv, CashInv, NEW c \in Callers, MoveItem(c)
  PROVE  Quiet
<1>1. /\ money \in MoneyRows /\ HandoverRead(call[c]) /\ call[c].op = "move"
      /\ orderStatus' = Derived(items', call[c].to)
      /\ UNCHANGED <<riderCash, job>>
      /\ \/ money' = money
         \/ money' = TakenBy(money, CodCollector) /\ orderStatus' = "delivered"
                                                   /\ orderStatus' # orderStatus
  BY DEF KeptInv, MoneyInv, SoundMoney, CashInv, HandoversRead, MoveItem, riderVars
<1>2. CASE Handover = "kitchen"
  <2>1. money.collectedBy # "rider" /\ ~PlatformRider
    BY <1>2 DEF CashInv, PlatformRider
  <2>2. money' = money \/ money' = TakenBy(money, "seller")
    BY <1>1, <1>2 DEF CodCollector
  <2>3. money'.collectedBy # "rider"
    BY <1>1, <2>1, <2>2 DEF TakenBy, Taken, MoneyRows
  <2> QED
    BY <1>1, <2>1, <2>3 DEF Quiet, NoRiders
<1>3. CASE Handover # "kitchen"
  <2>1. call[c].to \notin {"dispatched", "in_transit", "delivered", "delivery_failed"}
    BY <1>1, <1>3 DEF HandoverRead
  <2>2. orderStatus' # "delivered" \/ orderStatus' = orderStatus
    BY <1>1, <2>1 DEF Derived
  <2>3. orderStatus \in Over => orderStatus' = orderStatus
    BY <1>1, <2>1 DEF Derived, Over, Closed
  <2> QED
    BY <1>1, <2>2, <2>3 DEF Quiet, SamePayment
<1> QED
  BY <1>2, <1>3

LEMMA OtherStepsAreQuiet ==
  ASSUME KeptInv, CashInv, [Next]_vars, \A to \in JobStatuses : ~MoveJob(to),
         \A c \in Callers : ~AdvanceOrder(c) /\ ~RetryDelivery(c)
  PROVE  Quiet
<1>1. CASE \/ CustomerCancel \/ AdminCancel \/ RejectOrder \/ SweepOrder
           \/ \E i \in Items : CancelItem(i)
  BY <1>1, CancelsAreQuiet
<1>2. CASE MoneyStep
  BY <1>2, MoneyStepIsQuiet
<1>3. CASE AcceptOrder
  <2>1. UNCHANGED <<money, riderCash, job>> /\ orderStatus \notin Over
    BY <1>3 DEF AcceptOrder, Over, Closed, riderVars
  <2> QED
    BY <2>1 DEF Quiet, SamePayment
<1>4. CASE EnsureDelivery \/ ReleaseJob
  <2>1. /\ UNCHANGED <<money, riderCash, orderStatus>>
        /\ job' = job \/ (job # "delivered" /\ job' = "pending")
        /\ ~PlatformRider /\ job = "none" => job' = "none"
    BY <1>4 DEF EnsureDelivery, NeedsJob, ReleaseJob, BeforePickup, orderVars
  <2> QED
    BY <2>1 DEF Quiet, SamePayment, Travelling
<1>5. CASE Crash \/ UNCHANGED vars
  BY <1>5, StillQuiet DEF Crash, vars, orderVars, riderVars
<1>6. ASSUME NEW c \in Callers, BeginRequest(c) PROVE Quiet
  <2>1. UNCHANGED <<money, riderCash, job, orderStatus>>
    BY <1>6 DEF BeginRequest, BeginMove, BeginReady, BeginAdvance, BeginRefund,
       BeginRetry, BeginSubmit, BeginVerdict, BeginAdminConfirm, BeginCheckout,
       BeginCash, BeginWalletPay, BeginClaim, Begin, orderVars, riderVars
  <2> QED
    BY <2>1, StillQuiet
<1>7. ASSUME NEW c \in Callers, FinishRequest(c) PROVE Quiet
  <2>1. CASE MoneyRequest(c)
    BY <2>1, PaymentRequestIsQuiet
  <2>2. CASE MoveItem(c)
    BY <2>2, MoveItemIsQuiet
  <2>3. CASE MarkReady(c)
    <3>1. UNCHANGED <<money, riderCash, job>> /\ orderStatus \notin Over
      BY <2>3 DEF MarkReady, StillCooking, Over, Closed, riderVars
    <3> QED
      BY <3>1 DEF Quiet, SamePayment
  <2>4. CASE ProcessRefund(c)
    <3>1. PICK m, n : m = money /\ n = money'
      OBVIOUS
    <3>2. PICK asked \in Int : n = IssueRefund(m, asked)
      BY <2>4, <3>1 DEF ProcessRefund, IssueRefund, KeptInv, MoneyInv, RequestsMade, Calls
    <3>3. SamePayment(m, n)
      BY <3>1, <3>2, IssueIsPaidSame DEF KeptInv, MoneyInv, SoundMoney
    <3>4. UNCHANGED <<riderCash, job>> /\ orderStatus' \in {orderStatus, "refunded"}
      BY <2>4 DEF ProcessRefund, riderVars
    <3> QED
      BY <3>1, <3>3, <3>4 DEF Quiet, Over, Closed
  <2>5. CASE ClaimJob(c)
    <3>1. /\ UNCHANGED <<money, riderCash, orderStatus>>
          /\ job = "pending" /\ job' = "assigned"
      BY <2>5 DEF ClaimJob, orderVars
    <3> QED
      BY <3>1 DEF Quiet, SamePayment, Travelling
  <2> QED
    BY <1>7, <2>1, <2>2, <2>3, <2>4, <2>5 DEF FinishRequest, MoneyRequest
<1> QED
  BY <1>1, <1>2, <1>3, <1>4, <1>5, <1>6, <1>7 DEF Next, MoneyStep

LEMMA QuietKeepsCash ==
  ASSUME CashInv, Quiet, HoldsFollow, HandoversRead'
  PROVE  CashInv'
<1>1. CASE ~PlatformRider
  BY <1>1 DEF CashInv, Quiet, CashIsCharged, SamePayment, NoRiders, PlatformRider
<1>2. CASE PlatformRider
  <2>1. Behind => Behind'
    BY <1>2 DEF Behind, Quiet
  <2>2. money'.collectedBy = "rider"
          => money.collectedBy = "rider" /\ money'.paid = money.paid
    BY DEF Quiet, SamePayment, NoRiders
  <2>3. Behind /\ ~RetryHeld => ~RetryHeld'
    BY DEF Behind, Over, Closed, HoldsFollow
  <2>4. money.collectedBy = "rider" /\ CashComing' => CashComing
    BY DEF HoldsFollow
  <2>5. job' = "delivered" => orderStatus' \in Over
    BY <1>2 DEF Quiet, CashInv
  <2>6. CashIsCharged'
    <3>1. job' = "delivered" => job = "delivered"
      BY DEF Quiet
    <3>2. riderCash' = riderCash
      BY DEF Quiet
    <3>3. riderCash # 0 => money'.collectedBy = "rider"
      BY DEF Quiet, SamePayment, NoRiders, CashInv, CashIsCharged
    <3> QED
      BY <2>2, <3>1, <3>2, <3>3 DEF CashInv, CashIsCharged
  <2> QED
    BY <1>2, <2>1, <2>2, <2>3, <2>4, <2>5, <2>6 DEF CashInv, Quiet, PlatformRider
<1> QED
  BY <1>1, <1>2

(* The rider's own delivery. *)
LEMMA RiderDelivers ==
  ASSUME KeptInv, CashInv, NEW to \in JobStatuses, MoveJob(to), HoldsFollow, HandoversRead'
  PROVE  CashInv'
<1>1. /\ <<job, to>> \in DeliveryTransitions /\ job' = to
      /\ ~MoveRefused(job, to, orderStatus, money.method = "cod", money.status)
      /\ money \in MoneyRows /\ PaidStays(money) /\ money.paidAt \in BOOLEAN
  BY MoneyFields DEF MoveJob, KeptInv, MoneyInv, SoundMoney
<1>2. PlatformRider /\ job # "delivered" /\ job' # "none"
  BY <1>1 DEF CashInv, DeliveryTransitions
<1>3. to = "delivered" => orderStatus' = "delivered"
  BY DEF MoveJob, PushedOrderStatus
<1>4. CASE money.collectedBy = "rider" /\ Behind
  <2>1. orderStatus \notin KitchenReady /\ job \notin Travelling
    BY <1>4 DEF Behind, Over, Closed, KitchenReady
  <2>2. to = "arrived_at_pickup"
    BY <1>1, <2>1 DEF DeliveryTransitions, MoveRefused, Travelling
  <2>3. UNCHANGED <<orderStatus, money, riderCash>>
    BY <2>2 DEF MoveJob, PushedOrderStatus
  <2>4. Behind'
    BY <1>1, <1>4, <2>2, <2>3 DEF Behind, Travelling
  <2>5. ~RetryHeld => ~RetryHeld'
    BY <1>4 DEF HoldsFollow, Behind, Over, Closed
  <2> QED
    BY <1>1, <1>2, <2>2, <2>3, <2>4, <2>5 DEF CashInv, CashIsCharged, PlatformRider
<1>5. CASE money.collectedBy = "rider" /\ ~Behind
  <2>1. riderCash = money.paid /\ ~CashComing'
    BY <1>5 DEF CashInv, HoldsFollow
  <2>2. ~CashAtDoor(money)
    BY <1>1, <1>5 DEF CashAtDoor, PaidStays, MoveRefused
  <2>3. money' = money /\ riderCash' = riderCash
    BY <2>2 DEF MoveJob, PostDeliveryEntries
  <2> QED
    BY <1>1, <1>2, <1>3, <1>5, <2>1, <2>3 DEF CashInv, CashIsCharged, PlatformRider, Over
<1>6. CASE money.collectedBy # "rider" /\ to # "delivered"
  <2>1. UNCHANGED <<money, riderCash>>
    BY <1>6 DEF MoveJob
  <2> QED
    BY <1>1, <1>2, <1>6, <2>1 DEF CashInv, CashIsCharged, PlatformRider
<1>7. CASE money.collectedBy # "rider" /\ to = "delivered"
  <2>1. riderCash = 0
    BY <1>7 DEF CashInv, CashIsCharged
  <2>2. /\ money' = IF CashAtDoor(money) THEN TakenBy(money, "rider") ELSE money
        /\ riderCash' = IF CashAtDoor(money) THEN money.total ELSE 0
    BY <1>7, <2>1 DEF MoveJob, PostDeliveryEntries
  <2>3. Behind' /\ orderStatus' \in Over
    BY <1>1, <1>3, <1>7 DEF Behind, Over, Travelling
  <2>4. CASE CashAtDoor(money)
    <3>1. money'.collectedBy = "rider" /\ money'.paid = money.total
      BY <1>1, <2>2, <2>4 DEF TakenBy, Taken, MoneyRows
    <3> QED
      BY <1>1, <1>2, <2>2, <2>3, <2>4, <3>1 DEF CashInv, CashIsCharged, PlatformRider
  <2>5. CASE ~CashAtDoor(money)
    BY <1>1, <1>2, <1>7, <2>2, <2>3, <2>5 DEF CashInv, CashIsCharged, PlatformRider
  <2> QED
    BY <2>4, <2>5
<1> QED
  BY <1>4, <1>5, <1>6, <1>7

(* An order an admin moves, and the delivery it may record. *)
LEMMA AdminDelivers ==
  ASSUME RetriesApart, KeptInv, CashInv, NEW c \in Callers, AdvanceOrder(c),
         HoldsFollow, HandoversRead'
  PROVE  CashInv'
<1> DEFINE to == call[c].to
<1>1. /\ orderStatus \notin Closed /\ orderStatus' = to
      /\ to = "delivered" => orderStatus = "in_transit"
      /\ orderStatus \in {"delivered", "completed"} => to = "completed"
      /\ money \in MoneyRows
  BY DEF AdvanceOrder, Unmoved, CashInv, HandoversRead, HandoverRead, KeptInv,
     MoneyInv, SoundMoney, IInv, CallOK, RequestOK
<1>2. ~RetryHeld'
  BY ReturnHoldsNone DEF AdvanceOrder, KeptInv, MoneyInv
<1>3. CASE to # "delivered"
  <2>1. UNCHANGED <<money, job, riderCash>>
    BY <1>3 DEF AdvanceOrder
  <2>2. orderStatus \in Over => orderStatus' \in Over
    BY <1>1 DEF Over
  <2>3. Behind => Behind'
    BY <2>1, <2>2 DEF Behind
  <2> QED
    BY <1>2, <2>1, <2>2, <2>3 DEF CashInv, CashIsCharged, HoldsFollow, PlatformRider
<1>4. CASE to = "delivered"
  <2>1. /\ ~Behind /\ job # "delivered" /\ orderStatus' \in Over
        /\ money.collectedBy = "rider" => riderCash = money.paid
    BY <1>1, <1>4 DEF CashInv, Behind, Over, Closed
  <2>2. call[c].cash => money.collectedBy # "rider" /\ riderCash = 0
    <3>1. call[c].cash => CashComing
      BY <1>4 DEF CashComing, AdvanceOrder
    <3> QED
      BY <2>1, <3>1 DEF CashInv, CashIsCharged
  <2>3. CASE ~PlatformRider
    <3>1. UNCHANGED <<job, riderCash>> /\ money' \in {money, TakenBy(money, CodCollector)}
      BY <1>4, <2>3 DEF AdvanceOrder, CashInv, ActiveJob
    <3>2. CodCollector # "rider" /\ money.collectedBy # "rider"
      BY <2>3, HandoverAssumption DEF PlatformRider, CodCollector, CashInv
    <3>3. money'.collectedBy # "rider"
      BY <1>1, <3>1, <3>2 DEF TakenBy, Taken, MoneyRows
    <3> QED
      BY <2>3, <3>1, <3>3 DEF CashInv, CashIsCharged, PlatformRider
  <2>4. job' = (IF job \in ActiveJob THEN "delivered" ELSE job) /\ job' \notin Travelling
    BY <1>4 DEF AdvanceOrder, ActiveJob, Travelling
  <2>5. Behind'
    BY <2>1, <2>4 DEF Behind
  <2>6. CASE PlatformRider /\ call[c].cash
    <3>1. money' = TakenBy(money, "rider")
      BY <1>4, <2>6 DEF AdvanceOrder, CodCollector, PlatformRider
    <3>2. money'.collectedBy = "rider" /\ money'.paid = money.total
      BY <1>1, <3>1 DEF TakenBy, Taken, MoneyRows
    <3>3. \/ job \in ActiveJob /\ job' = "delivered" /\ riderCash' = money.total
          \/ job' # "delivered" /\ riderCash' = 0
      BY <1>4, <2>1, <2>2, <2>6 DEF AdvanceOrder, PostDeliveryEntries
    <3> QED
      BY <1>2, <2>1, <2>5, <2>6, <3>2, <3>3 DEF CashInv, CashIsCharged, PlatformRider
  <2>7. CASE PlatformRider /\ ~call[c].cash
    <3>1. money' = money /\ riderCash' = riderCash
      BY <1>4, <2>7 DEF AdvanceOrder, PostDeliveryEntries
    <3> QED
      BY <1>2, <2>1, <2>5, <2>7, <3>1 DEF CashInv, CashIsCharged, PlatformRider
  <2> QED
    BY <2>3, <2>6, <2>7
<1> QED
  BY <1>3, <1>4

(* A retry, which finds the cash that a rider took charged. *)
LEMMA RetryKeepsCash ==
  ASSUME RetriesApart, KeptInv, CashInv, NEW c \in Callers, RetryDelivery(c),
         HoldsFollow, HandoversRead'
  PROVE  CashInv'
<1>1. RetryHeld /\ ~CashComing
  BY RetryIsAlone DEF RetryDelivery, KeptInv, MoneyInv
<1>2. UNCHANGED <<money, riderCash>> /\ job' \in {"none", "pending"}
      /\ (job = "none" => job' = "none")
  BY DEF RetryDelivery
<1>3. money.collectedBy = "rider" => riderCash = money.paid /\ ~CashComing'
  BY <1>1 DEF CashInv, HoldsFollow
<1> QED
  BY <1>2, <1>3 DEF CashInv, CashIsCharged, PlatformRider

LEMMA CashInvStarts ==
  ASSUME Init
  PROVE  KeptInv /\ CashInv
<1>1. MoneyInv
  BY MoneyInvStarts
<1>2. PICK method \in PlacedWith : money = MoneyAtPlacement(method)
  BY DEF Init
<1>3. PaidStays(money) /\ money.collectedBy # "rider"
  BY <1>2, PlacedKeeps, PlacedWrites
<1>4. HandoversRead
  BY DEF Init, HandoversRead, HandoverRead, Idle
<1> QED
  BY <1>1, <1>3, <1>4 DEF Init, KeptInv, CashInv, CashIsCharged

LEMMA CashInvStays ==
  ASSUME RetriesApart, KeptInv, CashInv, [Next]_vars
  PROVE  KeptInv' /\ CashInv'
<1>1. KeptInv' /\ HandoversRead' /\ HoldsFollow
  BY PaidStaysStays, ReadsStay, HoldsChange DEF KeptInv, MoneyInv, IInv, CashInv
<1>2. CASE Quiet
  BY <1>1, <1>2, QuietKeepsCash
<1> QED
  BY <1>1, <1>2, RiderDelivers, AdminDelivers, RetryKeepsCash, OtherStepsAreQuiet

(* The rider ledger charges a rider for the cash a rider took and for no other: a
   delivery is never charged twice and never left uncharged, whoever recorded it and
   however the payment changed since. With any number of requests in flight when no
   failed delivery is retried, and with retries when one request is handled at a time:
   of two that overlap, the later can send out again what an admin delivered since. *)
THEOREM RidersAreCharged ==
  ASSUME "retry" \notin Racing \/ OneAtATime
  PROVE  Spec => []CashIsCharged
<1>1. Init => KeptInv /\ CashInv
  BY CashInvStarts
<1>2. KeptInv /\ CashInv /\ [Next]_vars => (KeptInv /\ CashInv)'
  BY CashInvStays DEF RetriesApart
<1>3. CashInv => CashIsCharged
  BY DEF CashInv
<1> QED
  BY <1>1, <1>2, <1>3, PTL DEF Spec

-----------------------------------------------------------------------------
(* A cancelled order that was paid owes its money back. *)

(* A payment, while it is not given back, is not covered by its refunds. *)
Owing(m) ==
  /\ m.status \notin {"payment_submitted", "disputed"}
  /\ m.status = "paid" /\ DismissedRefunds(m) = {} => Standing(m) < m.total

LEMMA IssueOwes ==
  ASSUME NEW m \in MoneyRows, Owing(m), NEW asked \in Int, NEW n, n = IssueRefund(m, asked)
  PROVE  /\ Owing(n)
         /\ DismissedRefunds(n) = DismissedRefunds(m)
         /\ n.status = "paid" => m.status = "paid"
<1>1. Standing(m) \in Nat /\ m.total \in Nat
  BY StandingIsNat, MoneyFields
<1>2. CASE CanRefund(m, asked)
  <2>1. n = Refunded(m, asked) /\ m.status = "paid"
    BY <1>2 DEF IssueRefund, CanRefund, Owing
  <2>2. PICK a : a = RefundableNow(m, asked)
    OBVIOUS
  <2>3. /\ a \in Nat /\ Standing(n) = Standing(m) + a /\ n.total = m.total
        /\ DismissedRefunds(n) = DismissedRefunds(m)
        /\ n.status = IF Standing(m) + a >= m.total
                      THEN IF m.method = "wallet" THEN "refunded" ELSE "refund_pending"
                      ELSE m.status
    BY <1>2, <2>1, <2>2, RefundStands
  <2>4. Owing(n)
    BY <1>1, <2>1, <2>3 DEF Owing
  <2> QED
    BY <2>1, <2>3, <2>4
<1>3. CASE ~CanRefund(m, asked)
  BY <1>3 DEF IssueRefund
<1> QED
  BY <1>2, <1>3

(* A refund of everything leaves nothing paid, unless a refund was dismissed. *)
LEMMA AllOwes ==
  ASSUME NEW m \in MoneyRows, Owing(m), NEW n, n = RefundAll(m)
  PROVE  /\ Owing(n)
         /\ DismissedRefunds(n) = {} => n.status # "paid"
<1>1. PICK asked \in Int : asked = m.total /\ n = IssueRefund(m, asked)
  BY MoneyFields DEF RefundAll
<1>2. /\ Owing(n) /\ DismissedRefunds(n) = DismissedRefunds(m)
      /\ n.status = "paid" => m.status = "paid"
  BY <1>1, IssueOwes
<1>3. ASSUME DismissedRefunds(m) = {}, m.status = "paid" PROVE n.status # "paid"
  <2>1. Standing(m) \in Nat /\ m.total \in Nat /\ Standing(m) < m.total
    BY <1>3, StandingIsNat, MoneyFields DEF Owing
  <2>2. PICK a : a = RefundableNow(m, asked)
    OBVIOUS
  <2>3. a = m.total - Standing(m) /\ a > 0
    BY <1>1, <2>1, <2>2 DEF RefundableNow, Lesser
  <2>4. CanRefund(m, asked)
    BY <1>3, <2>2, <2>3 DEF CanRefund
  <2>5. n.status = IF Standing(m) + a >= m.total
                   THEN IF m.method = "wallet" THEN "refunded" ELSE "refund_pending"
                   ELSE m.status
    BY <1>1, <2>2, <2>4, RefundStands DEF IssueRefund
  <2>6. Standing(m) + a >= m.total
    BY <2>1, <2>3
  <2> QED
    BY <2>5, <2>6
<1> QED
  BY <1>2, <1>3

(* An unpaid order has no refund: whoever pays it, all of it can be given back. *)
LEMMA PaidOwes ==
  ASSUME NEW m, SoundMoney(m), m.status \in {"pending", "failed"},
         NEW n \in MoneyRows, n.refunds = m.refunds, n.status = "paid"
  PROVE  Owing(n)
<1>1. Standing(n) = 0
  BY NoneStanding, SameRefunds DEF SoundMoney, UnpaidHasNoRefund
<1>2. n.total \in Nat \ {0}
  BY MoneyFields
<1> QED
  BY <1>1, <1>2 DEF Owing

LEMMA SameOwes ==
  ASSUME NEW m, Owing(m), NEW n, n.refunds = m.refunds, n.total = m.total,
         n.status = m.status \/ n.status \in {"pending", "failed", "refunded"}
  PROVE  Owing(n)
  BY SameRefunds DEF Owing

(* What the invariant says of the payment m of an order that is called off. *)
OwesNothing(m) == DismissedRefunds(m) = {} => m.status # "paid"

(* A delivery recorded by hand may write cash over a payment that was given back. The
   order is delivered then, with no retry under way that could send it out again:
   nobody calls it off. *)
DeliveredForGood == RetriesApart /\ orderStatus \in Finished /\ ~RetryHeld

NotReported(m) == m.status \notin {"payment_submitted", "disputed"}

OwesInv == /\ KeptInv /\ RoadInv
           /\ NotReported(money)
           /\ Owing(money) \/ DeliveredForGood
           /\ orderStatus = "cancelled" => OwesNothing(money)

LEMMA OwesMoves ==
  ASSUME "submit" \notin Racing, ~RecordsCash, MoneyInv, [Next]_vars, Owing(money),
         orderStatus = "cancelled" => OwesNothing(money)
  PROVE  Owing(money') /\ (orderStatus' = "cancelled" => OwesNothing(money'))
<1>1. MoneyMoves /\ MoneyInv'
  BY MoneyInvStays, EveryStepMovesMoney
<1>0. PICK m, n, over : /\ m = money /\ n = money'
                        /\ over = (orderStatus' = "cancelled")
  OBVIOUS
<1>2. /\ SoundMoney(m) /\ m \in MoneyRows /\ n \in MoneyRows /\ Owing(m)
      /\ attempts \in [Attempts -> AttemptRows]
  BY <1>0, <1>1 DEF MoneyInv, SoundMoney
<1> SUFFICES Owing(n) /\ (over => OwesNothing(n))
  BY <1>0
<1>3. ASSUME NotCalledOff PROVE over => OwesNothing(m)
  BY <1>0, <1>3 DEF NotCalledOff
<1>4. ASSUME n = RefundAll(m) PROVE Owing(n) /\ OwesNothing(n)
  BY <1>2, <1>4, AllOwes DEF OwesNothing
<1>5. ASSUME NotCalledOff, NEW asked \in Int, n = IssueRefund(m, asked)
      PROVE  Owing(n) /\ (over => OwesNothing(n))
  <2>1. /\ Owing(n) /\ DismissedRefunds(n) = DismissedRefunds(m)
        /\ n.status = "paid" => m.status = "paid"
    BY <1>2, <1>5, IssueOwes
  <2> QED
    BY <1>3, <1>5, <2>1 DEF OwesNothing
<1>6. ASSUME NotCalledOff, n.refunds = m.refunds, n.total = m.total,
             n.status = m.status \/ n.status \in {"pending", "failed", "refunded"}
      PROVE  Owing(n) /\ (over => OwesNothing(n))
  <2>1. Owing(n)
    BY <1>2, <1>6, SameOwes
  <2>2. DismissedRefunds(n) = DismissedRefunds(m)
    BY <1>6, SameRefunds
  <2> QED
    BY <1>3, <1>6, <2>1, <2>2 DEF OwesNothing
<1>7. CASE CancelsAll
  BY <1>0, <1>4, <1>7 DEF CancelsAll
<1>8. CASE CancelsSome
  <2>1. PICK gone \in SUBSET Items : /\ n = RefundCancelled(m, gone, Kept \ gone)
                                     /\ NotCalledOff \/ Kept \ gone = {}
    BY <1>0, <1>8 DEF CancelsSome
  <2>2. CASE Kept \ gone = {}
    BY <1>4, <2>1, <2>2 DEF RefundCancelled
  <2>3. CASE Kept \ gone # {} /\ m.status \in {"pending", "failed", "disputed"}
    <3>1. n = [m EXCEPT !.total = PriceOf(Kept \ gone)]
      BY <2>1, <2>3 DEF RefundCancelled
    <3>2. n.status = m.status /\ m.status \in {"pending", "failed"}
      BY <1>2, <2>3, <3>1 DEF MoneyRows, Owing
    <3> QED
      BY <3>2 DEF Owing, OwesNothing
  <2>4. CASE Kept \ gone # {} /\ m.status \notin {"pending", "failed", "disputed"}
    <3>1. Worth(gone) \in Int
      BY PricesAdd
    <3>2. n = IssueRefund(m, Worth(gone))
      BY <2>1, <2>4 DEF RefundCancelled
    <3> QED
      BY <1>5, <2>1, <2>4, <3>1, <3>2
  <2> QED
    BY <2>2, <2>3, <2>4
<1>9. CASE Settles
  <2>1. PICK a \in Attempts :
          n = Settled(m, attempts[a].amount, orderStatus \in {"cancelled", "refunded"})
    BY <1>0, <1>9 DEF Settles, SettleAttempt
  <2>2. PICK amount, calledOff :
          /\ amount = attempts[a].amount /\ n = Settled(m, amount, calledOff)
          /\ calledOff = (orderStatus \in {"cancelled", "refunded"})
    BY <2>1
  <2>3. amount \in Nat
    BY <1>2, <2>2 DEF AttemptRows
  <2> DEFINE credit == [m EXCEPT !.wallet = @ + amount]
             taken == [TakenBy(m, "platform") EXCEPT !.method = "online",
                                                     !.wallet = @ + (amount - m.total)]
  <2>4. \/ n = credit
        \/ IsNeeded(m, amount) /\ n = RefundAll(taken)
        \/ IsNeeded(m, amount) /\ n = taken /\ ~calledOff
    BY <2>2 DEF Settled
  <2>5. /\ credit.refunds = m.refunds /\ credit.total = m.total /\ credit.status = m.status
    BY <1>2, <2>3, CreditWrites
  <2>6. /\ taken \in MoneyRows /\ taken.refunds = m.refunds /\ taken.status = "paid"
    BY <1>2, <2>3, OnlineWrites
  <2> HIDE DEF credit, taken
  <2>7. CASE n = credit
    BY <1>6, <1>9, <2>5, <2>7 DEF Settles
  <2>8. CASE IsNeeded(m, amount) /\ n # credit
    <3>1. PICK t : t = taken
      OBVIOUS
    <3>2. m.status \in {"pending", "failed"}
      BY <1>2, <2>8 DEF IsNeeded, Payable, Owing
    <3>3. Owing(t) /\ t \in MoneyRows
      BY <1>2, <2>6, <3>1, <3>2, PaidOwes
    <3>4. CASE n = RefundAll(t)
      BY <3>3, <3>4, AllOwes DEF OwesNothing
    <3>5. CASE n = t /\ ~calledOff
      <4>1. ~over
        BY <1>0, <1>9, <2>2, <3>5 DEF Settles, NotCalledOff
      <4> QED
        BY <3>3, <3>5, <4>1
    <3> QED
      BY <2>4, <2>8, <3>1, <3>4, <3>5
  <2> QED
    BY <2>4, <2>7, <2>8
<1>10. CASE Sends
  <2>1. PICK k \in PendingRefunds(m) : n = RefundSent(m, k)
    BY <1>0, <1>10 DEF Sends
  <2>2. /\ n.refunds = Marked(m.refunds, k, "completed") /\ n.total = m.total
        /\ n.status \in {m.status, "refunded"}
    BY <1>2, <2>1, SentWrites
  <2>3. /\ StandingRefunds(n) = StandingRefunds(m)
        /\ DismissedRefunds(n) = DismissedRefunds(m)
        /\ AmountOf(n, StandingRefunds(m)) = AmountOf(m, StandingRefunds(m))
    <3>1. StandingRefunds(m) \in SUBSET DOMAIN m.refunds
      BY DEF StandingRefunds
    <3> QED
      BY <1>2, <2>2, <3>1, RefundSettled
  <2>4. Owing(n)
    BY <1>2, <2>2, <2>3 DEF Standing, Owing
  <2> QED
    BY <1>3, <1>10, <2>2, <2>3, <2>4 DEF Sends, OwesNothing
<1>11. CASE Dismisses
  <2>1. PICK k \in PendingRefunds(m) : n = RefundDismissed(m, k)
    BY <1>0, <1>11 DEF Dismisses
  <2>2. /\ n.refunds = Marked(m.refunds, k, "failed")
        /\ n.status \in {m.status, "paid", "failed"}
    BY <1>2, <2>1, DismissedWrites
  <2>3. DismissedRefunds(n) = DismissedRefunds(m) \union {k}
    <3>1. "failed" \in {"completed", "failed"} /\ n.refunds = Marked(m.refunds, k, "failed")
      BY <2>2
    <3> QED
      BY <1>2, <3>1, RefundSettled
  <2> QED
    BY <1>2, <2>2, <2>3 DEF Owing, OwesNothing
<1>12. CASE RiderTakesCash
  <2>1. n = TakenBy(m, "rider") /\ ~over
    BY <1>0, <1>12 DEF RiderTakesCash
  <2>2. n.refunds = m.refunds /\ n.status = "paid"
    BY <1>2, <2>1 DEF TakenBy, Taken, MoneyRows
  <2>3. m.status \in {"pending", "failed"}
    BY <1>0, <1>2, <1>12, MoneyFields
    DEF RiderTakesCash, CashAtDoor, Owing, PaymentStatuses
  <2> QED
    BY <1>2, <2>1, <2>2, <2>3, PaidOwes
<1>13. CASE GivesBack
  <2>1. PICK asked \in Nat : CanRefund(m, asked) /\ n = Refunded(m, asked)
    BY <1>0, <1>13 DEF GivesBack
  <2>2. n = IssueRefund(m, asked) /\ asked \in Int
    BY <2>1 DEF IssueRefund
  <2> QED
    BY <1>5, <1>13, <2>2 DEF GivesBack
<1>14. CASE ChoosesCash \/ GoesOnline
  <2>1. /\ n.refunds = m.refunds /\ n.total = m.total
        /\ n.status \in {m.status, "pending"}
    BY <1>0, <1>2, <1>14 DEF ChoosesCash, GoesOnline, PutOnCash, MoneyRows
  <2> QED
    BY <1>6, <1>14, <2>1 DEF ChoosesCash, GoesOnline
<1>15. CASE PaysFromWallet
  <2>1. PICK amount \in Rupees : n = PaidFromWallet(m, amount)
    BY <1>0, <1>15 DEF PaysFromWallet, Rupees
  <2>2. n.refunds = m.refunds /\ n.status = "paid"
    BY <1>2, <2>1 DEF PaidFromWallet, Taken, MoneyRows
  <2>3. m.status \in {"pending", "failed"} /\ ~over
    BY <1>0, <1>15 DEF PaysFromWallet, MethodOpen
  <2> QED
    BY <1>2, <2>2, <2>3, PaidOwes
<1>16. CASE Rests
  BY <1>0, <1>2, <1>3, <1>16 DEF Rests
<1>17. ~Reports /\ ~Disputes /\ ~Confirms
  BY <1>0, <1>2 DEF Reports, Disputes, Confirms, Owing
<1> QED
  BY <1>1, <1>7, <1>8, <1>9, <1>10, <1>11, <1>12, <1>13, <1>14, <1>15, <1>16, <1>17
  DEF MoneyMoves

(* A payment that its refunds cover is not given back again, reported or disputed. *)
LEMMA CoveredIsNotRefunded ==
  ASSUME MoneyInv, NotReported(money), ~Owing(money), NEW asked \in Nat
  PROVE  ~CanRefund(money, asked)
<1>1. PICK m : m = money
  OBVIOUS
<1>2. m \in MoneyRows /\ m.status = "paid" /\ ~(Standing(m) < m.total)
  BY <1>1 DEF Owing, NotReported, MoneyInv, SoundMoney
<1>3. Standing(m) \in Nat /\ m.total \in Nat
  BY <1>2, StandingIsNat, MoneyFields
<1> QED
  BY <1>1, <1>2, <1>3 DEF CanRefund, RefundableNow, Lesser

LEMMA CoveredMoves ==
  ASSUME "submit" \notin Racing, MoneyInv, [Next]_vars, NotReported(money),
         ~Owing(money)
  PROVE  NotReported(money')
<1>1. MoneyMoves /\ MoneyInv'
  BY MoneyInvStays, EveryStepMovesMoney
<1>0. PICK m, n : m = money /\ n = money'
  OBVIOUS
<1>2. /\ SoundMoney(m) /\ m \in MoneyRows /\ n \in MoneyRows
      /\ attempts \in [Attempts -> AttemptRows]
  BY <1>0, <1>1 DEF MoneyInv, SoundMoney
<1> SUFFICES NotReported(n)
  BY <1>0
<1>3. m.status = "paid" /\ ~(Standing(m) < m.total)
  BY <1>0 DEF Owing, NotReported
<1>4. ~GivesBack
  BY CoveredIsNotRefunded DEF GivesBack
<1>5. ASSUME NEW asked, n = IssueRefund(m, asked) PROVE NotReported(n)
  <2>1. CASE CanRefund(m, asked)
    BY <1>2, <1>3, <1>5, <2>1 DEF IssueRefund, Refunded, NotReported, MoneyRows
  <2>2. CASE ~CanRefund(m, asked)
    BY <1>3, <1>5, <2>2 DEF IssueRefund, NotReported
  <2> QED
    BY <2>1, <2>2
<1>6. CASE CancelsAll
  BY <1>0, <1>5, <1>6 DEF CancelsAll, RefundAll
<1>7. CASE CancelsSome
  <2>1. PICK gone : n = RefundCancelled(m, gone, Kept \ gone)
    BY <1>0, <1>7 DEF CancelsSome
  <2>2. n = RefundAll(m) \/ n = IssueRefund(m, Worth(gone))
    BY <1>3, <2>1 DEF RefundCancelled
  <2> QED
    BY <1>5, <2>2 DEF RefundAll
<1>8. CASE Settles
  <2>1. PICK a \in Attempts :
          n = Settled(m, attempts[a].amount, orderStatus \in {"cancelled", "refunded"})
    BY <1>0, <1>8 DEF Settles, SettleAttempt
  <2>2. PICK amount : n = [m EXCEPT !.wallet = @ + amount]
    BY <1>3, <2>1 DEF Settled, IsNeeded, Payable
  <2> QED
    BY <1>2, <1>3, <2>2 DEF NotReported, MoneyRows
<1>9. CASE Sends \/ Dismisses
  <2>1. PICK k \in PendingRefunds(m) : n = RefundSent(m, k) \/ n = RefundDismissed(m, k)
    BY <1>0, <1>9 DEF Sends, Dismisses
  <2>2. n.status \in {m.status, "refunded", "paid", "failed"}
    BY <1>2, <2>1, SentWrites, DismissedWrites
  <2> QED
    BY <1>3, <2>2 DEF NotReported
<1>10. CASE RecordsCash \/ RiderTakesCash \/ Confirms
  <2>1. PICK collector : n = TakenBy(m, collector)
    BY <1>0, <1>10 DEF RecordsCash, RiderTakesCash, Confirms
  <2> QED
    BY <1>2, <2>1 DEF TakenBy, Taken, NotReported, MoneyRows
<1>11. CASE GoesOnline \/ Rests
  BY <1>0, <1>2, <1>3, <1>11 DEF GoesOnline, Rests, NotReported, MoneyRows
<1>12. ~Reports /\ ~Disputes /\ ~ChoosesCash /\ ~PaysFromWallet
  BY <1>0, <1>3 DEF Reports, Disputes, ChoosesCash, PaysFromWallet, MethodOpen
<1> QED
  BY <1>1, <1>4, <1>6, <1>7, <1>8, <1>9, <1>10, <1>11, <1>12 DEF MoneyMoves

(* A delivered order leaves that status by a refund, or a retry begun before. *)
LEMMA FinishedStays ==
  ASSUME RoadInv, [Next]_vars, orderStatus \in Finished, ~RetryHeld,
         RequestsMade, \A c \in Callers : ~ProcessRefund(c)
  PROVE  orderStatus' \in Finished
<1>1. /\ IInv /\ HandoversRead /\ orderStatus \in {"delivered", "completed"}
      /\ \A i \in Items : items[i] \in {"delivered", "cancelled"}
      /\ orderStatus \in Over
  BY DEF RoadInv, IInv, DeliveredIsComplete, Finished, Over
<1>2. ~CustomerCancel /\ ~AdminCancel /\ ~RejectOrder /\ ~AcceptOrder
  BY <1>1 DEF CustomerCancel, AdminCancel, AdminCancellable, RejectOrder, Rejectable,
     AcceptOrder
<1>3. \A i \in Items : ~CancelItem(i)
  BY <1>1 DEF CancelItem, ItemCancellable
<1>4. CASE SweepOrder
  BY <1>1, <1>4 DEF SweepOrder, AdminCancellable, orderVars
<1>5. CASE EnsureDelivery \/ ReleaseJob \/ Crash \/ MoneyStep \/ UNCHANGED vars
           \/ \E c \in Callers : BeginRequest(c)
  BY <1>5, QuietStepsApart
<1>6. ASSUME NEW c \in Callers, MoveItem(c) PROVE orderStatus' \in Finished
  BY <1>1, <1>6 DEF MoveItem, IInv, CallOK, RequestOK
<1>7. ASSUME NEW c \in Callers, AdvanceOrder(c) PROVE orderStatus' \in Finished
  BY <1>1, <1>7 DEF AdvanceOrder, Unmoved, HandoversRead, HandoverRead, Finished
<1>8. \A c \in Callers : ~MarkReady(c) /\ ~RetryDelivery(c)
  BY <1>1 DEF MarkReady, StillCooking, RetryDelivery, RetryHeld
<1>9. ASSUME NEW c \in Callers, MoneyRequest(c) \/ ClaimJob(c) PROVE orderStatus' = orderStatus
  BY <1>9 DEF MoneyRequest, SubmitPayment, KitchenVerdict, AdminConfirm, OpenCheckout,
     ChooseCash, PayFromWallet, Refuse, ClaimJob, orderVars
<1>10. ASSUME NEW to \in JobStatuses, MoveJob(to) PROVE orderStatus' \in Finished
  <2>1. orderStatus' \in Over
    BY <1>1, <1>10, RiderMovesApart
  <2>2. orderStatus' \in {orderStatus, PushedOrderStatus(to)}
    BY <1>10 DEF MoveJob
  <2>3. PushedOrderStatus(to) \notin Closed
    BY DEF PushedOrderStatus, Closed
  <2> QED
    BY <2>1, <2>2, <2>3 DEF Over, Finished
<1> QED
  BY <1>2, <1>3, <1>4, <1>5, <1>6, <1>7, <1>8, <1>9, <1>10
  DEF Next, MoneyStep, FinishRequest, MoneyRequest

LEMMA OwesStays ==
  ASSUME "submit" \notin Racing,
         RetriesApart \/ Racing \intersect {"advance", "move"} = {},
         OwesInv, [Next]_vars
  PROVE  OwesInv'
<1>1. KeptInv' /\ RoadInv' /\ MoneyInv /\ KeptInv /\ RoadInv /\ NotReported(money)
  BY PaidStaysStays, RoadInvStays DEF OwesInv, KeptInv
<1>2. CASE Owing(money) /\ ~RecordsCash
  <2>1. Owing(money') /\ (orderStatus' = "cancelled" => OwesNothing(money'))
    BY <1>1, <1>2, OwesMoves DEF OwesInv
  <2> QED
    BY <1>1, <2>1 DEF OwesInv, Owing, NotReported
<1>3. CASE Owing(money) /\ RecordsCash
  <2>1. PICK c \in Callers : MoveItem(c) \/ AdvanceOrder(c)
    BY <1>3 DEF RecordsCash
  <2>2. RetriesApart /\ ~RetryHeld'
    <3>1. RetriesApart /\ Return(c)
      BY <1>3, <2>1 DEF RecordsCash, MoveItem, AdvanceOrder
    <3> QED
      BY <1>1, <3>1, ReturnHoldsNone DEF MoneyInv
  <2>3. money' = TakenBy(money, CodCollector) /\ money \in MoneyRows
    BY <1>1, <1>3 DEF RecordsCash, MoneyInv, SoundMoney
  <2>4. NotReported(money')
    BY <2>3 DEF TakenBy, Taken, MoneyRows, NotReported
  <2>5. orderStatus' = "delivered" \/ money' = money
    BY <2>1 DEF MoveItem, AdvanceOrder
  <2>6. CASE orderStatus' = "delivered"
    BY <1>1, <2>2, <2>4, <2>6 DEF OwesInv, DeliveredForGood, Finished
  <2>7. CASE money' = money
    <3>1. orderStatus' = "cancelled" => orderStatus = "cancelled"
      BY <1>3 DEF RecordsCash, NotCalledOff
    <3>2. Owing(money') /\ OwesNothing(money') = OwesNothing(money)
      BY <1>3, <2>7
    <3> QED
      BY <1>1, <2>4, <3>1, <3>2 DEF OwesInv
  <2> QED
    BY <2>5, <2>6, <2>7
<1>4. CASE ~Owing(money)
  <2>1. RetriesApart /\ ~RetryHeld /\ orderStatus \in Finished
    BY <1>4 DEF OwesInv, DeliveredForGood
  <2>2. NotReported(money')
    BY <1>1, <1>4, CoveredMoves
  <2>3. \A c \in Callers : ~ProcessRefund(c)
    BY <1>1, <1>4, CoveredIsNotRefunded DEF ProcessRefund, MoneyInv, RequestsMade, Calls
  <2>4. orderStatus' \in Finished
    BY <1>1, <2>1, <2>3, FinishedStays DEF MoneyInv
  <2>5. ~RetryHeld'
    BY <1>1, <2>1, HoldsChange DEF HoldsFollow, Finished
  <2> QED
    BY <1>1, <2>1, <2>2, <2>4, <2>5 DEF OwesInv, DeliveredForGood, Finished
<1> QED
  BY <1>2, <1>3, <1>4

(* The platform does not keep the money of a cancelled order: if it was paid, all
   of it is refunded, whoever cancelled and whichever payments came in late. Left
   out are a customer's report of a transfer, which can commit after the cancel it
   raced with, and requests that overlap where deliveries are recorded by hand and
   retried: a late retry can bring back an order whose refund such a delivery wrote
   over. *)
THEOREM CancelledMoneyIsOwed ==
  ASSUME "submit" \notin Racing,
         RetriesApart \/ Racing \intersect {"advance", "move"} = {}
  PROVE  Spec => []CancelledOwesRefund
<1>1. Init => OwesInv
  <2> SUFFICES ASSUME Init PROVE OwesInv
    OBVIOUS
  <2>1. MoneyInv /\ money \in MoneyRows /\ orderStatus = "pending"
    BY MoneyInvStarts DEF MoneyInv, SoundMoney, Init
  <2>2. /\ money.status \in {"paid", "pending"}
        /\ Standing(money) = 0 /\ money.total \in Nat \ {0}
    BY StartsUnrefunded
  <2>3. KeptInv
    BY CashInvStarts
  <2> QED
    BY <2>1, <2>2, <2>3, RoadInvStarts DEF OwesInv, Owing, NotReported
<1>2. OwesInv /\ [Next]_vars => OwesInv'
  BY OwesStays
<1>3. OwesInv => CancelledOwesRefund
  BY DEF OwesInv, NotReported, OwesNothing, CancelledOwesRefund
<1> QED
  BY <1>1, <1>2, <1>3, PTL DEF Spec

-----------------------------------------------------------------------------
(* Food that is not for cash is paid before it leaves the kitchen. *)

Confirmed(m) == m.method = "cod" \/ m.paidAt = TRUE

(* What every move of the payment keeps: a payment received stays received, an
   order that may leave the kitchen still may, and an order that was given its
   money back is paid again only by a dismissal. *)
Follows(m, n) ==
  /\ m.paidAt = TRUE => n.paidAt = TRUE
  /\ Confirmed(m) => Confirmed(n)
  /\ DismissedRefunds(n) = {}
       => /\ DismissedRefunds(m) = {}
          /\ m.paidAt = TRUE /\ n.status = "paid" => m.status = "paid"

LEMMA IssueFollows ==
  ASSUME NEW m \in MoneyRows, NEW asked \in Int, NEW n, n = IssueRefund(m, asked)
  PROVE  /\ Follows(m, n)
         /\ n.method = m.method /\ n.paidAt = m.paidAt
         /\ DismissedRefunds(n) = DismissedRefunds(m)
<1>1. PICK a : a = RefundableNow(m, asked)
  OBVIOUS
<1>2. /\ n.method = m.method /\ n.paidAt = m.paidAt
      /\ DismissedRefunds(n) = DismissedRefunds(m)
      /\ n.status \in {m.status, "refund_pending", "refunded"}
  BY <1>1, RefundStands DEF IssueRefund
<1> QED
  BY <1>2 DEF Follows, Confirmed

LEMMA SameFollows ==
  ASSUME NEW m, NEW n, n.refunds = m.refunds, n.paidAt = m.paidAt,
         n.method = m.method \/ n.method = "cod",
         n.status = m.status \/ n.status # "paid"
  PROVE  Follows(m, n)
<1>1. DismissedRefunds(n) = DismissedRefunds(m)
  BY SameRefunds
<1> QED
  BY <1>1 DEF Follows, Confirmed

LEMMA FirstFollows ==
  ASSUME NEW m, NEW n, DismissedRefunds(n) = DismissedRefunds(m), m.paidAt = FALSE,
         n.paidAt = TRUE
  PROVE  Follows(m, n)
  BY DEF Follows, Confirmed

LEMMA CancelledFollows ==
  ASSUME NEW m \in MoneyRows, NEW gone \in SUBSET Items, NEW kept \in SUBSET Items,
         NEW n, n = RefundCancelled(m, gone, kept) \/ n = RefundAll(m)
  PROVE  Follows(m, n) /\ n.method = m.method
<1>1. Worth(gone) \in Int /\ m.total \in Int
  BY PricesAdd, MoneyFields
<1>2. CASE n = RefundAll(m)
  BY <1>1, <1>2, IssueFollows DEF RefundAll
<1>3. CASE n = IssueRefund(m, Worth(gone))
  BY <1>1, <1>3, IssueFollows
<1>4. CASE n = [m EXCEPT !.total = PriceOf(kept)]
  <2>1. /\ n.refunds = m.refunds /\ n.paidAt = m.paidAt /\ n.method = m.method
        /\ n.status = m.status
    BY <1>4 DEF MoneyRows
  <2> QED
    BY <2>1, SameFollows
<1> QED
  BY <1>2, <1>3, <1>4 DEF RefundCancelled

LEMMA SettledFollows ==
  ASSUME NEW m \in MoneyRows, PaidStays(m), NEW amount, amount \in Nat,
         NEW calledOff, NEW n, n = Settled(m, amount, calledOff)
  PROVE  Follows(m, n) /\ n.method \in {m.method, "online"}
<1> DEFINE credit == [m EXCEPT !.wallet = @ + amount]
           taken == [TakenBy(m, "platform") EXCEPT !.method = "online",
                                                   !.wallet = @ + (amount - m.total)]
<1>1. CASE ~IsNeeded(m, amount)
  <2>1. n = credit
    BY <1>1 DEF Settled
  <2>2. /\ credit.refunds = m.refunds /\ credit.paidAt = m.paidAt
        /\ credit.method = m.method /\ credit.status = m.status
    BY CreditWrites
  <2> HIDE DEF credit
  <2> QED
    BY <2>1, <2>2, SameFollows
<1>2. CASE IsNeeded(m, amount)
  <2>1. n = taken \/ n = RefundAll(taken)
    BY <1>2 DEF Settled
  <2>2. /\ taken \in MoneyRows /\ taken.paidAt = TRUE /\ taken.refunds = m.refunds
        /\ taken.method = "online"
    BY OnlineWrites
  <2> HIDE DEF taken
  <2>3. PICK t : t = taken
    OBVIOUS
  <2>4. m.paidAt = FALSE
    <3>1. m.paidAt \in BOOLEAN
      BY MoneyFields
    <3> QED
      BY <1>2, <3>1 DEF IsNeeded, Payable, PaidStays
  <2>5. DismissedRefunds(t) = DismissedRefunds(m)
    BY <2>2, <2>3, SameRefunds
  <2>6. ASSUME n = RefundAll(t)
        PROVE  /\ n.paidAt = TRUE /\ n.method = t.method
               /\ DismissedRefunds(n) = DismissedRefunds(t)
    <3>1. PICK asked \in Int : n = IssueRefund(t, asked)
      BY <2>2, <2>3, <2>6, MoneyFields DEF RefundAll
    <3> QED
      BY <2>2, <2>3, <3>1, IssueFollows
  <2> QED
    BY <2>1, <2>2, <2>3, <2>4, <2>5, <2>6, FirstFollows
<1> QED
  BY <1>1, <1>2

LEMMA MarkedFollows ==
  ASSUME NEW m \in MoneyRows, NEW k \in PendingRefunds(m), NEW n,
         n = RefundSent(m, k) \/ n = RefundDismissed(m, k)
  PROVE  Follows(m, n) /\ n.method = m.method
<1>1. n.paidAt = m.paidAt /\ n.method = m.method
  BY SentWrites, DismissedWrites
<1>2. CASE n = RefundSent(m, k)
  <2>1. /\ n.refunds = Marked(m.refunds, k, "completed")
        /\ n.status \in {m.status, "refunded"}
    BY <1>2, SentWrites
  <2>2. DismissedRefunds(n) = DismissedRefunds(m)
    BY <2>1, RefundSettled
  <2> QED
    BY <1>1, <2>1, <2>2 DEF Follows, Confirmed
<1>3. CASE n = RefundDismissed(m, k)
  <2>1. n.refunds = Marked(m.refunds, k, "failed")
    BY <1>3, DismissedWrites
  <2>2. DismissedRefunds(n) # {}
    BY <2>1, RefundSettled
  <2> QED
    BY <1>1, <2>2 DEF Follows, Confirmed
<1> QED
  BY <1>2, <1>3

(* A checkout under way is of an order that is on online payment still. *)
CheckoutsRead == Asked("checkout") => money.method = "online"

(* Only recorded cash can replace a payment, if no checkout finds the order put on
   another payment meanwhile. *)
LEMMA PaymentFollows ==
  ASSUME CheckoutsRead, KeptInv, [Next]_vars
  PROVE  /\ money.paidAt = TRUE => money'.paidAt = TRUE
         /\ Confirmed(money) => Confirmed(money')
         /\ Follows(money, money') \/ RecordsCash
<1>1. MoneyMoves
  BY EveryStepMovesMoney DEF KeptInv
<1>0. PICK m, n : m = money /\ n = money'
  OBVIOUS
<1>2. /\ m \in MoneyRows /\ PaidStays(m) /\ m.paidAt \in BOOLEAN
      /\ attempts \in [Attempts -> AttemptRows]
  BY <1>0, MoneyFields DEF KeptInv, MoneyInv, SoundMoney
<1> SUFFICES /\ m.paidAt = TRUE => n.paidAt = TRUE
             /\ Confirmed(m) => Confirmed(n)
             /\ Follows(m, n) \/ RecordsCash
  BY <1>0
<1>3. SUFFICES ASSUME ~RecordsCash PROVE Follows(m, n)
  <2>1. CASE RecordsCash
    <3>1. n.paidAt = TRUE
      BY <1>0, <1>2, <2>1 DEF RecordsCash, TakenBy, Taken, MoneyRows
    <3> QED
      BY <2>1, <3>1 DEF Confirmed
  <2> QED
    BY <2>1 DEF Follows
<1>4. CASE CancelsAll
  <2>1. {} \in SUBSET Items /\ n = RefundAll(m)
    BY <1>0, <1>4 DEF CancelsAll
  <2> QED
    BY <1>2, <2>1, CancelledFollows
<1>5. CASE CancelsSome
  <2>1. PICK gone \in SUBSET Items : n = RefundCancelled(m, gone, Kept \ gone)
    BY <1>0, <1>5 DEF CancelsSome
  <2>2. Kept \ gone \in SUBSET Items
    BY DEF Kept
  <2> QED
    BY <1>2, <2>1, <2>2, CancelledFollows
<1>6. CASE Settles
  <2>1. PICK a \in Attempts :
          n = Settled(m, attempts[a].amount, orderStatus \in {"cancelled", "refunded"})
    BY <1>0, <1>6 DEF Settles, SettleAttempt
  <2>2. PICK amount, calledOff : amount = attempts[a].amount /\ n = Settled(m, amount, calledOff)
    BY <2>1
  <2>3. amount \in Nat
    BY <1>2, <2>2 DEF AttemptRows
  <2> QED
    BY <1>2, <2>2, <2>3, SettledFollows
<1>7. CASE Sends \/ Dismisses
  <2>1. PICK k \in PendingRefunds(m) : n = RefundSent(m, k) \/ n = RefundDismissed(m, k)
    BY <1>0, <1>7 DEF Sends, Dismisses
  <2> QED
    BY <1>2, <2>1, MarkedFollows
<1>8. CASE RiderTakesCash \/ Confirms
  <2>1. PICK collector : n = TakenBy(m, collector)
    BY <1>0, <1>8 DEF RiderTakesCash, Confirms
  <2>2. m.paidAt = FALSE
    BY <1>0, <1>2, <1>8 DEF RiderTakesCash, Confirms, CashAtDoor, PaidStays
  <2>3. n.paidAt = TRUE /\ n.refunds = m.refunds
    BY <1>2, <2>1 DEF TakenBy, Taken, MoneyRows
  <2> QED
    BY <2>2, <2>3, SameRefunds, FirstFollows
<1>9. CASE GivesBack
  <2>1. PICK asked \in Nat : CanRefund(m, asked) /\ n = Refunded(m, asked)
    BY <1>0, <1>9 DEF GivesBack
  <2>2. n = IssueRefund(m, asked) /\ asked \in Int
    BY <2>1 DEF IssueRefund
  <2> QED
    BY <1>2, <2>2, IssueFollows
<1>10. CASE Reports \/ Disputes \/ ChoosesCash
  <2>1. /\ n.refunds = m.refunds /\ n.paidAt = m.paidAt
        /\ n.method = m.method \/ n.method = "cod"
        /\ n.status # "paid"
    BY <1>0, <1>2, <1>10 DEF Reports, Disputes, ChoosesCash, PutOnCash, MoneyRows
  <2> QED
    BY <2>1, SameFollows
<1>11. CASE PaysFromWallet
  <2>1. PICK amount \in Rupees : n = PaidFromWallet(m, amount)
    BY <1>0, <1>11 DEF PaysFromWallet, Rupees
  <2>2. n.paidAt = TRUE /\ n.refunds = m.refunds
    BY <1>2, <2>1 DEF PaidFromWallet, Taken, MoneyRows
  <2>3. m.paidAt = FALSE
    BY <1>0, <1>2, <1>11 DEF PaysFromWallet, MethodOpen, PaidStays
  <2> QED
    BY <2>2, <2>3, SameRefunds, FirstFollows
<1>12. CASE Rests
  BY <1>0, <1>12, SameFollows DEF Rests
<1>13. CASE GoesOnline
  <2>1. m.method = "online"
    BY <1>0, <1>13 DEF GoesOnline, CheckoutsRead
  <2>2. /\ n.refunds = m.refunds /\ n.paidAt = m.paidAt /\ n.method = m.method
        /\ n.status = m.status
    BY <1>0, <1>2, <1>13, <2>1 DEF GoesOnline, MoneyRows
  <2> QED
    BY <2>2, SameFollows
<1> QED
  BY <1>1, <1>3, <1>4, <1>5, <1>6, <1>7, <1>8, <1>9, <1>10, <1>11, <1>12, <1>13
  DEF MoneyMoves

(* Only a change to cash and a wallet payment take an order off online payment. *)
LEMMA OnlineStays ==
  ASSUME KeptInv, [Next]_vars, money.method = "online", ~Asked("cash"), ~Asked("walletPay")
  PROVE  money'.method = "online"
<1>1. MoneyMoves /\ ~ChoosesCash /\ ~PaysFromWallet
  BY EveryStepMovesMoney DEF KeptInv, ChoosesCash, PaysFromWallet
<1>0. PICK m, n : m = money /\ n = money'
  OBVIOUS
<1>2. /\ m \in MoneyRows /\ PaidStays(m) /\ m.method = "online"
      /\ attempts \in [Attempts -> AttemptRows]
  BY <1>0 DEF KeptInv, MoneyInv, SoundMoney
<1> SUFFICES n.method = "online"
  BY <1>0
<1>3. CASE CancelsAll \/ CancelsSome
  <2>1. PICK gone \in SUBSET Items :
          n = RefundAll(m) \/ n = RefundCancelled(m, gone, Kept \ gone)
    BY <1>0, <1>3 DEF CancelsAll, CancelsSome
  <2>2. Kept \ gone \in SUBSET Items
    BY DEF Kept
  <2> QED
    BY <1>2, <2>1, <2>2, CancelledFollows
<1>4. CASE Settles
  <2>1. PICK a \in Attempts :
          n = Settled(m, attempts[a].amount, orderStatus \in {"cancelled", "refunded"})
    BY <1>0, <1>4 DEF Settles, SettleAttempt
  <2>2. PICK amount, calledOff : amount = attempts[a].amount /\ n = Settled(m, amount, calledOff)
    BY <2>1
  <2>3. amount \in Nat
    BY <1>2, <2>2 DEF AttemptRows
  <2> QED
    BY <1>2, <2>2, <2>3, SettledFollows
<1>5. CASE Sends \/ Dismisses
  <2>1. PICK k \in PendingRefunds(m) : n = RefundSent(m, k) \/ n = RefundDismissed(m, k)
    BY <1>0, <1>5 DEF Sends, Dismisses
  <2> QED
    BY <1>2, <2>1, MarkedFollows
<1>6. CASE RecordsCash \/ RiderTakesCash \/ Confirms
  <2>1. PICK collector : n = TakenBy(m, collector)
    BY <1>0, <1>6 DEF RecordsCash, RiderTakesCash, Confirms
  <2> QED
    BY <1>2, <2>1 DEF TakenBy, Taken, MoneyRows
<1>7. CASE GivesBack
  <2>1. PICK asked \in Nat : CanRefund(m, asked) /\ n = Refunded(m, asked)
    BY <1>0, <1>7 DEF GivesBack
  <2>2. n = IssueRefund(m, asked) /\ asked \in Int
    BY <2>1 DEF IssueRefund
  <2> QED
    BY <1>2, <2>2, IssueFollows
<1>8. CASE Reports \/ Disputes \/ GoesOnline \/ Rests
  BY <1>0, <1>2, <1>8 DEF Reports, Disputes, GoesOnline, Rests, MoneyRows
<1> QED
  BY <1>1, <1>3, <1>4, <1>5, <1>6, <1>7, <1>8 DEF MoneyMoves

(* The server handles one request at a time, or none is a checkout. *)
CheckoutsApart == "checkout" \notin Racing \/ OneAtATime

LEMMA CheckoutBegins ==
  ASSUME CallOK, NEW c \in Callers, BeginRequest(c), call'[c].op = "checkout"
  PROVE  money.method = "online"
<1>1. ASSUME NEW request, Begin(c, request) PROVE call'[c] = request
  BY <1>1 DEF Begin, CallOK
<1>2. ASSUME NEW i \in Items, NEW to \in ItemStatuses, BeginMove(c, i, to) PROVE FALSE
  BY <1>1, <1>2 DEF BeginMove, Request, Idle
<1>3. ASSUME NEW to \in OrderStatuses, BeginAdvance(c, to) PROVE FALSE
  BY <1>1, <1>3 DEF BeginAdvance, Request, Idle
<1>4. ASSUME NEW asked \in RefundAmounts, BeginRefund(c, asked) PROVE FALSE
  BY <1>1, <1>4 DEF BeginRefund, Request, Idle
<1>5. ASSUME NEW verdict \in {"confirm", "dispute"}, BeginVerdict(c, verdict) PROVE FALSE
  BY <1>1, <1>5 DEF BeginVerdict, Request, Idle
<1>6. ~BeginReady(c) /\ ~BeginRetry(c) /\ ~BeginClaim(c)
  BY <1>1 DEF BeginReady, BeginRetry, BeginClaim, Request, Idle
<1>7. ~BeginSubmit(c) /\ ~BeginCash(c)
  BY <1>1 DEF BeginSubmit, BeginCash, Request, Idle
<1>8. ~BeginAdminConfirm(c) /\ ~BeginWalletPay(c)
  BY <1>1 DEF BeginAdminConfirm, BeginWalletPay, Request, Idle
<1> QED
  BY <1>2, <1>3, <1>4, <1>5, <1>6, <1>7, <1>8 DEF BeginRequest, BeginCheckout

LEMMA CheckoutsReadStays ==
  ASSUME CheckoutsApart, KeptInv, CheckoutsRead, [Next]_vars
  PROVE  CheckoutsRead'
<1>1. RequestsMade /\ CallOK
  BY DEF KeptInv, MoneyInv, IInv
<1>2. ASSUME Asked("checkout")
      PROVE  OneAtATime /\ ~Asked("cash") /\ ~Asked("walletPay")
  BY <1>1, <1>2 DEF CheckoutsApart, OneAtATime, RequestsMade, Asked
<1>3. CASE UNCHANGED call
  <2>1. Asked("checkout")' <=> Asked("checkout")
    BY <1>3 DEF Asked
  <2> QED
    BY <1>2, <2>1, OnlineStays DEF CheckoutsRead
<1>4. CASE Crash
  BY <1>4 DEF Crash, CheckoutsRead, Asked, Idle
<1>5. ASSUME NEW c \in Callers, BeginRequest(c) PROVE CheckoutsRead'
  <2>1. UNCHANGED money
    BY <1>5, HoldsBegin
  <2>2. \A d \in Callers \ {c} : call'[d] = call[d]
    BY <1>1, <1>5 DEF BeginRequest, BeginMove, BeginReady, BeginAdvance, BeginRefund,
       BeginRetry, BeginSubmit, BeginVerdict, BeginAdminConfirm, BeginCheckout,
       BeginCash, BeginWalletPay, BeginClaim, Begin, CallOK
  <2> QED
    BY <1>1, <1>5, <2>1, <2>2, CheckoutBegins DEF CheckoutsRead, Asked
<1>6. ASSUME NEW c \in Callers, Return(c) PROVE CheckoutsRead'
  <2>1. call'[c].op = "none" /\ \A d \in Callers \ {c} : call'[d] = call[d]
    BY <1>1, <1>6 DEF Return, Idle, CallOK
  <2>2. ~Asked("checkout")'
    BY <1>1, <2>1 DEF CheckoutsApart, OneAtATime, RequestsMade, Asked
  <2> QED
    BY <2>2 DEF CheckoutsRead
<1> QED
  BY <1>3, <1>4, <1>5, <1>6, RequestsChange

(* What the kitchen may have sent out, and an order of which nothing is. *)
Served == {"ready", "dispatched", "in_transit", "delivered", "delivery_failed",
           "completed"}

Early ==
  /\ orderStatus \notin Served
  /\ \A i \in Items : items[i] \notin Served
  /\ job \notin Travelling \union {"delivered"}
  /\ \A c \in Callers : /\ call[c].op \notin {"ready", "retry"}
                        /\ call[c].op = "move" => call[c].to \notin Served

(* A move by hand follows the table from what it read. *)
MovesRead ==
  \A c \in Callers :
    call[c].op = "move" => <<call[c].from, call[c].to>> \in ItemTransitions

(* The inductive invariant: food is out, ready or about to be only on an order
   that is for cash or paid. *)
FoodInv == KeptInv /\ MovesRead /\ CheckoutsRead /\ (Confirmed(money) \/ Early)

(* Which requests begin with neither a move by hand, a ready order nor a retry. *)
LEMMA OthersBegin ==
  ASSUME NEW c \in Callers, BeginRequest(c)
  PROVE  \/ \E i \in Items, to \in ItemStatuses : BeginMove(c, i, to)
         \/ BeginReady(c) \/ BeginRetry(c)
         \/ \E request : Begin(c, request) /\ request.op \notin {"move", "ready", "retry"}
<1> DEFINE Other == \E request : Begin(c, request) /\ request.op \notin {"move", "ready", "retry"}
<1>1. ASSUME NEW request, Begin(c, request), request.op \notin {"move", "ready", "retry"}
      PROVE  Other
  BY <1>1
<1> HIDE DEF Other
<1>2. ASSUME NEW to \in OrderStatuses, BeginAdvance(c, to) PROVE Other
  BY <1>1, <1>2 DEF BeginAdvance, Request, Idle
<1>3. ASSUME NEW asked \in RefundAmounts, BeginRefund(c, asked) PROVE Other
  BY <1>1, <1>3 DEF BeginRefund, Request, Idle
<1>4. ASSUME NEW verdict \in {"confirm", "dispute"}, BeginVerdict(c, verdict) PROVE Other
  BY <1>1, <1>4 DEF BeginVerdict, Request, Idle
<1>5. ASSUME BeginSubmit(c) \/ BeginCash(c) \/ BeginClaim(c) PROVE Other
  BY <1>1, <1>5 DEF BeginSubmit, BeginCash, BeginClaim, Request, Idle
<1>6. ASSUME BeginAdminConfirm(c) PROVE Other
  BY <1>1, <1>6 DEF BeginAdminConfirm, Request, Idle
<1>7. ASSUME BeginCheckout(c) \/ BeginWalletPay(c) PROVE Other
  <2>1. PICK op \in {"checkout", "walletPay"} :
          Begin(c, [Request(op) EXCEPT !.amount = money.total])
    BY <1>7 DEF BeginCheckout, BeginWalletPay
  <2>2. [Request(op) EXCEPT !.amount = money.total].op = op
    BY DEF Request, Idle
  <2> QED
    BY <1>1, <2>1, <2>2
<1> QED
  BY <1>2, <1>3, <1>4, <1>5, <1>6, <1>7 DEF BeginRequest, Other

LEMMA MovesReadStays ==
  ASSUME CallOK, MovesRead, [Next]_vars
  PROVE  MovesRead'
<1>1. ASSUME NEW c \in Callers, Return(c) PROVE MovesRead'
  BY <1>1 DEF CallOK, MovesRead, Return, Idle
<1>2. ASSUME NEW c \in Callers, NEW request, Begin(c, request),
             request.op = "move" => <<request.from, request.to>> \in ItemTransitions
      PROVE  MovesRead'
  BY <1>2 DEF CallOK, MovesRead, Begin
<1>3. ASSUME NEW c \in Callers, BeginRequest(c) PROVE MovesRead'
  <2>1. ASSUME NEW i \in Items, NEW to \in ItemStatuses, BeginMove(c, i, to)
        PROVE  MovesRead'
    BY <1>2, <2>1 DEF BeginMove, Request, Idle
  <2>2. CASE BeginReady(c) \/ BeginRetry(c)
    BY <1>2, <2>2 DEF BeginReady, BeginRetry, Request, Idle
  <2> QED
    BY <1>2, <1>3, <2>1, <2>2, OthersBegin
<1>4. CASE Crash
  BY <1>4 DEF Crash, MovesRead, Idle
<1>5. CASE UNCHANGED call
  BY <1>5 DEF MovesRead
<1> QED
  BY <1>1, <1>3, <1>4, <1>5, RequestsChange

(* A request begun while the order is not confirmed serves nothing. *)
LEMMA EarlyBegins ==
  ASSUME CallOK, Early, ~Confirmed(money), PaidStays(money), NEW c \in Callers,
         BeginRequest(c)
  PROVE  Early'
<1> DEFINE Mild(request) ==
             /\ request.op \notin {"ready", "retry"}
             /\ request.op = "move" => request.to \notin Served
<1>1. ~PaymentConfirmed
  BY DEF Confirmed, PaidStays, PaymentConfirmed
<1>2. ASSUME NEW request, Begin(c, request), Mild(request) PROVE Early'
  BY <1>2 DEF CallOK, Early, Begin, orderVars, riderVars
<1> HIDE DEF Mild
<1>3. ASSUME NEW i \in Items, NEW to \in ItemStatuses, BeginMove(c, i, to) PROVE Early'
  <2>1. items[i] \notin Served /\ <<items[i], to>> \in ItemTransitions /\ to # "ready"
    BY <1>1, <1>3 DEF BeginMove, MayHandOver, Early
  <2>2. to \notin Served
    BY <2>1 DEF ItemTransitions, Served
  <2> DEFINE request == [Request("move") EXCEPT !.item = i, !.from = items[i], !.to = to,
                                                !.cash = CashAtDoor(money)]
  <2>3. Begin(c, request) /\ request.op = "move" /\ request.to = to
    BY <1>3 DEF BeginMove, Request, Idle
  <2> HIDE DEF request
  <2> QED
    BY <1>2, <2>2, <2>3 DEF Mild
<1>4. ~BeginReady(c) /\ ~BeginRetry(c)
  BY <1>1 DEF BeginReady, BeginRetry, Early, Served
<1>5. ASSUME NEW request, Begin(c, request), request.op \notin {"move", "ready", "retry"}
      PROVE  Early'
  BY <1>2, <1>5 DEF Mild
<1> QED
  BY <1>3, <1>4, <1>5, OthersBegin

LEMMA EarlyStays ==
  ASSUME "advance" \notin Racing, KeptInv, MovesRead, Early, ~Confirmed(money), [Next]_vars
  PROVE  Early'
<1>1. /\ CallOK /\ items \in [Items -> ItemStatuses] /\ PaidStays(money)
      /\ \A c \in Callers : call[c].op # "advance"
  BY DEF KeptInv, MoneyInv, IInv, ControlTypeOK, RequestsMade
<1>2. ASSUME UNCHANGED call, job' \notin Travelling \union {"delivered"}, orderStatus' \notin Served,
             items' \in [Items -> ItemStatuses],
             \A i \in Items : items'[i] = items[i] \/ items'[i] \notin Served
      PROVE  Early'
  BY <1>2 DEF Early
<1>3. ASSUME NEW c \in Callers, Return(c), job' \notin Travelling \union {"delivered"},
             orderStatus' \notin Served,
             \A i \in Items : items'[i] = items[i] \/ items'[i] \notin Served
      PROVE  Early'
  BY <1>1, <1>3 DEF Early, CallOK, Return, Idle
<1>4. ASSUME NEW S, CancelItems(S)
      PROVE  /\ items' \in [Items -> ItemStatuses]
             /\ \A i \in Items : items'[i] = items[i] \/ items'[i] \notin Served
  BY <1>1, <1>4 DEF CancelItems, Become, ItemStatuses, Served
<1>5. ASSUME CloseJob PROVE job' \notin Travelling \union {"delivered"}
  BY <1>5 DEF CloseJob, Early, Travelling
<1>6. ASSUME CancelOrder PROVE Early'
  BY <1>2, <1>4, <1>5, <1>6 DEF CancelOrder, Served
<1>7. ASSUME NEW S, CancelByKitchen(S) PROVE Early'
  <2>1. orderStatus' \notin Served /\ job' \notin Travelling \union {"delivered"}
    BY <1>5, <1>7 DEF CancelByKitchen, Early, Served
  <2> QED
    BY <1>2, <1>4, <1>7, <2>1 DEF CancelByKitchen
<1>8. CASE CustomerCancel \/ AdminCancel \/ RejectOrder \/ SweepOrder
           \/ \E i \in Items : CancelItem(i)
  <2>1. CASE UNCHANGED <<orderVars, riderVars, call>>
    BY <1>1, <1>2, <2>1 DEF orderVars, riderVars, Early
  <2> QED
    BY <1>6, <1>7, <1>8, <2>1
    DEF CustomerCancel, AdminCancel, RejectOrder, SweepOrder, CancelItem
<1>9. CASE AcceptOrder
  <2>1. /\ UNCHANGED <<job, call>> /\ orderStatus' = "preparing"
        /\ items' = Become(LiveItems, "preparing")
    BY <1>9 DEF AcceptOrder, riderVars
  <2> QED
    BY <1>1, <1>2, <2>1 DEF Become, Served, Early, ItemStatuses
<1>10. CASE EnsureDelivery \/ ReleaseJob
  <2>1. UNCHANGED <<orderVars, call>> /\ job' \in {job, "pending"}
    BY <1>10 DEF EnsureDelivery, ReleaseJob
  <2> QED
    BY <1>1, <1>2, <2>1 DEF orderVars, Early, Travelling
<1>11. CASE MoneyStep
  <2>1. UNCHANGED <<orderVars, job, call>>
    BY <1>11 DEF MoneyStep, RecordOrderCompletion, SettleAttempt, ExpireAttempt,
       CompleteRefund, DismissRefund, SelectStale, riderVars
  <2> QED
    BY <1>1, <1>2, <2>1 DEF orderVars, Early
<1>12. ASSUME NEW to \in JobStatuses, MoveJob(to) PROVE Early'
  <2>1. /\ <<job, to>> \in DeliveryTransitions /\ job \notin Travelling
        /\ ~MoveRefused(job, to, orderStatus, money.method = "cod", money.status)
    BY <1>12 DEF MoveJob, Early
  <2>2. money.method # "cod" /\ money.status # "paid" /\ orderStatus \notin KitchenReady
    BY <1>1 DEF Confirmed, PaidStays, Early, Served, KitchenReady
  <2>3. to = "arrived_at_pickup"
    BY <2>1, <2>2 DEF DeliveryTransitions, MoveRefused, Travelling
  <2>4. UNCHANGED <<orderStatus, items, call>> /\ job' = to
    BY <1>12, <2>3 DEF MoveJob, PushedOrderStatus
  <2> QED
    BY <1>1, <1>2, <2>3, <2>4 DEF Early, Travelling
<1>13. CASE Crash
  BY <1>1, <1>13 DEF Crash, Early, orderVars, riderVars, Idle
<1>14. CASE UNCHANGED vars
  BY <1>14 DEF vars, orderVars, riderVars, Early
<1>15. ASSUME NEW c \in Callers, BeginRequest(c) PROVE Early'
  BY <1>1, <1>15, EarlyBegins
<1>16. ASSUME NEW c \in Callers, FinishRequest(c) PROVE Early'
  <2>1. CASE MoneyRequest(c) \/ ClaimJob(c)
    <3>1. UNCHANGED orderVars /\ Return(c) /\ job' \in {job, "assigned"}
      BY <2>1 DEF MoneyRequest, SubmitPayment, KitchenVerdict, AdminConfirm, OpenCheckout,
         ChooseCash, PayFromWallet, Refuse, ClaimJob, riderVars
    <3> QED
      BY <1>3, <3>1 DEF orderVars, Early, Travelling
  <2>2. CASE ProcessRefund(c)
    <3>1. UNCHANGED <<items, job>> /\ Return(c) /\ orderStatus' \in {orderStatus, "refunded"}
      BY <2>2 DEF ProcessRefund, riderVars
    <3> QED
      BY <1>3, <3>1 DEF Early, Served
  <2>3. CASE MoveItem(c)
    <3>1. /\ call[c].op = "move" /\ call[c].to \notin Served /\ Return(c) /\ job' = job
          /\ items' = Become({call[c].item}, call[c].to)
          /\ orderStatus' = Derived(items', call[c].to)
      BY <2>3 DEF MoveItem, Early, riderVars
    <3>2. orderStatus' \notin Served
      BY <3>1 DEF Derived, Early, Served
    <3>3. \A i \in Items : items'[i] = items[i] \/ items'[i] \notin Served
      BY <3>1 DEF Become
    <3> QED
      BY <1>3, <3>1, <3>2, <3>3 DEF Early
  <2>4. ~MarkReady(c) /\ ~RetryDelivery(c) /\ ~AdvanceOrder(c)
    BY <1>1 DEF MarkReady, RetryDelivery, AdvanceOrder, Early
  <2> QED
    BY <1>16, <2>1, <2>2, <2>3, <2>4 DEF FinishRequest, MoneyRequest
<1> QED
  BY <1>8, <1>9, <1>10, <1>11, <1>12, <1>13, <1>14, <1>15, <1>16 DEF Next, MoneyStep

LEMMA FoodInvStarts == Init => FoodInv
<1> SUFFICES ASSUME Init PROVE FoodInv
  OBVIOUS
<1>1. PICK method \in PlacedWith : money = MoneyAtPlacement(method)
  BY DEF Init
<1>2. MoneyInv /\ PaidStays(money)
  BY <1>1, MoneyInvStarts, PlacedKeeps
<1>3. Early /\ MovesRead /\ CheckoutsRead
  BY DEF Init, Early, MovesRead, CheckoutsRead, Asked, Served, Travelling, Idle
<1> QED
  BY <1>2, <1>3 DEF FoodInv, KeptInv

LEMMA FoodInvStays ==
  ASSUME "advance" \notin Racing, CheckoutsApart, FoodInv, [Next]_vars
  PROVE  FoodInv'
<1>1. KeptInv' /\ MovesRead' /\ CheckoutsRead'
  BY PaidStaysStays, MovesReadStays, CheckoutsReadStays DEF FoodInv, KeptInv, MoneyInv, IInv
<1>2. ASSUME Confirmed(money) PROVE Confirmed(money')
  BY <1>2, PaymentFollows DEF FoodInv
<1>3. ASSUME ~Confirmed(money) PROVE Early'
  BY <1>3, EarlyStays DEF FoodInv
<1> QED
  BY <1>1, <1>2, <1>3 DEF FoodInv

(* Food paid by transfer, card or wallet leaves the kitchen only when the money
   was received, whatever was read before the payment or the order moved. An
   admin can hand over what is not paid, and a checkout that overlaps another request
   can put an order of which the food went out for cash back on a card. *)
THEOREM FoodIsPaidFor ==
  ASSUME "advance" \notin Racing, CheckoutsApart
  PROVE  Spec => FoodLeavesPaid
<1>1. FoodInv /\ [Next]_vars
        => [~OutOfTheKitchen /\ OutOfTheKitchen' /\ money.method # "cod" => money.paidAt]_vars
  <2> SUFFICES ASSUME FoodInv, [Next]_vars, ~OutOfTheKitchen, OutOfTheKitchen',
                      money.method # "cod"
               PROVE  money.paidAt
    OBVIOUS
  <2>1. ASSUME ~Confirmed(money) PROVE FALSE
    <3>1. Early'
      BY <2>1, EarlyStays DEF FoodInv
    <3> QED
      BY <3>1 DEF Early, OutOfTheKitchen, Served, Travelling
  <2> QED
    BY <2>1 DEF Confirmed
<1> QED
  BY <1>1, FoodInvStarts, FoodInvStays, PTL DEF Spec, FoodLeavesPaid

-----------------------------------------------------------------------------
(* A paid delivery is in the platform's books. *)

(* A kitchen's delivery that takes no cash was judged on a payment received. *)
DeliveriesRead ==
  \A c \in Callers :
    call[c].op = "move" /\ call[c].to = "delivered" /\ call[c].cash = FALSE
      => money.paidAt = TRUE

PostedInv ==
  /\ FoodInv
  /\ DeliveriesRead
  /\ orderStatus \in Finished => money.paidAt = TRUE
  /\ DeliveredPaidIsPosted

LEMMA DeliveriesReadStays ==
  ASSUME FoodInv, DeliveriesRead, [Next]_vars
  PROVE  DeliveriesRead'
<1>1. /\ CallOK /\ PaidStays(money)
      /\ money.paidAt = TRUE => money'.paidAt = TRUE
  BY PaymentFollows DEF FoodInv, KeptInv, MoneyInv, IInv
<1>2. ASSUME NEW c \in Callers, Return(c) PROVE DeliveriesRead'
  BY <1>1, <1>2 DEF CallOK, DeliveriesRead, Return, Idle
<1>3. CASE Crash
  BY <1>3 DEF Crash, DeliveriesRead, Idle
<1>4. CASE UNCHANGED call
  BY <1>1, <1>4 DEF DeliveriesRead
<1>5. ASSUME NEW c \in Callers, NEW request, Begin(c, request),
             request.op = "move" /\ request.to = "delivered" /\ request.cash = FALSE
               => money.paidAt = TRUE
      PROVE  DeliveriesRead'
  BY <1>1, <1>5 DEF CallOK, DeliveriesRead, Begin
<1>6. ASSUME NEW c \in Callers, NEW i \in Items, NEW to \in ItemStatuses, BeginMove(c, i, to)
      PROVE  DeliveriesRead'
  <2> DEFINE request == [Request("move") EXCEPT !.item = i, !.from = items[i], !.to = to,
                                                !.cash = CashAtDoor(money)]
  <2>1. Begin(c, request) /\ request.to = to /\ request.cash = CashAtDoor(money)
    BY <1>6 DEF BeginMove, Request, Idle
  <2> HIDE DEF request
  <2>2. ASSUME to = "delivered", ~CashAtDoor(money) PROVE money.paidAt = TRUE
    <3>1. items[i] \in Served
      BY <1>6, <2>2 DEF BeginMove, ItemTransitions, Served
    <3>2. Confirmed(money)
      BY <3>1 DEF FoodInv, Early
    <3> QED
      BY <1>1, <2>2, <3>2 DEF Confirmed, CashAtDoor, PaidStays
  <2> QED
    BY <1>5, <2>1, <2>2
<1>7. ASSUME NEW c \in Callers, BeginRequest(c) PROVE DeliveriesRead'
  <2>1. CASE BeginReady(c) \/ BeginRetry(c)
    BY <1>5, <2>1 DEF BeginReady, BeginRetry, Request, Idle
  <2> QED
    BY <1>5, <1>6, <1>7, <2>1, OthersBegin
<1> QED
  BY <1>2, <1>3, <1>4, <1>7, RequestsChange

(* Who finishes an order when no admin moves it: the rider or the kitchen, and
   the call that posts it is left to make. *)
LEMMA FinishingSteps ==
  ASSUME "advance" \notin Racing, MoneyInv, [Next]_vars,
         orderStatus \notin Finished, orderStatus' \in Finished
  PROVE  /\ "recordOrderCompletion" \in after'
         /\ \/ MoveJob("delivered")
            \/ \E c \in Callers : MoveItem(c) /\ call[c].to = "delivered"
                                  /\ orderStatus' = "delivered"
<1>1. \A c \in Callers : ~AdvanceOrder(c)
  BY DEF MoneyInv, RequestsMade, AdvanceOrder
<1>2. ~CancelOrder /\ \A S : ~CancelByKitchen(S)
  BY DEF CancelOrder, CancelByKitchen, Finished
<1>3. \/ \E to \in JobStatuses : MoveJob(to)
      \/ \E c \in Callers : MoveItem(c)
  <2>1. orderStatus' # orderStatus
    OBVIOUS
  <2>2. ASSUME NEW c \in Callers, BeginRequest(c) PROVE FALSE
    BY <2>1, <2>2 DEF BeginRequest, BeginMove, BeginReady, BeginAdvance, BeginRefund,
       BeginRetry, BeginSubmit, BeginVerdict, BeginAdminConfirm, BeginCheckout,
       BeginCash, BeginWalletPay, BeginClaim, Begin, orderVars
  <2>3. ASSUME NEW c \in Callers, FinishRequest(c) PROVE MoveItem(c)
    <3>1. ~MoneyRequest(c) /\ ~ClaimJob(c)
      BY <2>1 DEF MoneyRequest, SubmitPayment, KitchenVerdict, AdminConfirm, OpenCheckout,
         ChooseCash, PayFromWallet, Refuse, ClaimJob, orderVars
    <3>2. ~MarkReady(c) /\ ~RetryDelivery(c) /\ ~ProcessRefund(c)
      BY DEF MarkReady, RetryDelivery, ProcessRefund, Finished
    <3> QED
      BY <1>1, <2>3, <3>1, <3>2 DEF FinishRequest, MoneyRequest
  <2>4. ~MoneyStep /\ ~EnsureDelivery /\ ~ReleaseJob /\ ~Crash /\ ~UNCHANGED vars
    BY <2>1 DEF MoneyStep, RecordOrderCompletion, SettleAttempt, ExpireAttempt,
       CompleteRefund, DismissRefund, SelectStale, EnsureDelivery, ReleaseJob, Crash,
       vars, orderVars
  <2>5. ~AcceptOrder /\ ~CustomerCancel /\ ~AdminCancel /\ ~RejectOrder
        /\ ~SweepOrder /\ \A i \in Items : ~CancelItem(i)
    BY <1>2, <2>1 DEF AcceptOrder, CustomerCancel, AdminCancel, RejectOrder, SweepOrder,
       CancelItem, orderVars, Finished
  <2> QED
    BY <2>2, <2>3, <2>4, <2>5 DEF Next, MoneyStep
<1>4. ASSUME NEW to \in JobStatuses, MoveJob(to)
      PROVE  to = "delivered" /\ "recordOrderCompletion" \in after'
  BY <1>4 DEF MoveJob, PushedOrderStatus, Finished, CallsOnceDelivered
<1>5. ASSUME NEW c \in Callers, MoveItem(c)
      PROVE  /\ call[c].to = "delivered" /\ orderStatus' = "delivered"
             /\ "recordOrderCompletion" \in after'
  <2>1. orderStatus' = Derived(items', call[c].to)
    BY <1>5 DEF MoveItem
  <2>2. call[c].to = "delivered" /\ orderStatus' = "delivered"
    BY <2>1 DEF Derived, Finished
  <2> QED
    BY <1>5, <2>2 DEF MoveItem, CallsOnceDelivered, Finished
<1> QED
  BY <1>3, <1>4, <1>5

(* An order is finished on money received: cash is taken as it is delivered. *)
LEMMA FinishingIsPaid ==
  ASSUME "advance" \notin Racing, CheckoutsApart, PostedInv, [Next]_vars
  PROVE  orderStatus' \in Finished => money'.paidAt = TRUE
<1> SUFFICES ASSUME orderStatus' \in Finished PROVE money'.paidAt = TRUE
  OBVIOUS
<1>1. /\ money \in MoneyRows /\ PaidStays(money) /\ RequestsMade
      /\ money.paidAt = TRUE => money'.paidAt = TRUE
  BY PaymentFollows DEF PostedInv, FoodInv, KeptInv, MoneyInv, SoundMoney
<1>2. CASE orderStatus \in Finished
  BY <1>1, <1>2 DEF PostedInv
<1>3. ASSUME NEW collector, money' = TakenBy(money, collector) PROVE money'.paidAt = TRUE
  BY <1>1, <1>3 DEF TakenBy, Taken, MoneyRows
<1>4. CASE MoveJob("delivered")
  <2>1. CASE CashAtDoor(money)
    BY <1>3, <1>4, <2>1 DEF MoveJob
  <2>2. CASE ~CashAtDoor(money)
    <3>1. job \in Travelling
      BY <1>4 DEF MoveJob, DeliveryTransitions, Travelling
    <3>2. Confirmed(money)
      BY <3>1 DEF PostedInv, FoodInv, Early
    <3> QED
      BY <1>1, <2>2, <3>2 DEF Confirmed, CashAtDoor, PaidStays
  <2> QED
    BY <2>1, <2>2
<1>5. ASSUME NEW c \in Callers, MoveItem(c), call[c].to = "delivered",
             orderStatus' = "delivered", orderStatus \notin Finished
      PROVE  money'.paidAt = TRUE
  <2>1. call[c].op = "move" /\ call[c].cash \in BOOLEAN
    BY <1>1, <1>5 DEF MoveItem, RequestsMade, Calls
  <2>2. CASE call[c].cash = TRUE
    BY <1>3, <1>5, <2>2 DEF MoveItem, Finished
  <2>3. CASE call[c].cash = FALSE
    BY <1>1, <1>5, <2>1, <2>3 DEF PostedInv, DeliveriesRead
  <2> QED
    BY <2>1, <2>2, <2>3
<1> QED
  BY <1>2, <1>4, <1>5, FinishingSteps DEF PostedInv, FoodInv, KeptInv

(* What is posted stays posted, and the call that posts is made or lost. *)
LEMMA PostingSteps ==
  ASSUME [Next]_vars
  PROVE  \/ RecordOrderCompletion
         \/ Crash
         \/ /\ UNCHANGED <<posted, crashes>>
            /\ "recordOrderCompletion" \in after => "recordOrderCompletion" \in after'
<1>1. ASSUME NEW c \in Callers, BeginRequest(c) PROVE UNCHANGED <<posted, crashes, after>>
  BY <1>1 DEF BeginRequest, BeginMove, BeginReady, BeginAdvance, BeginRefund,
     BeginRetry, BeginSubmit, BeginVerdict, BeginAdminConfirm, BeginCheckout,
     BeginCash, BeginWalletPay, BeginClaim, Begin
<1>2. ASSUME NEW c \in Callers, FinishRequest(c)
      PROVE  UNCHANGED <<posted, crashes>> /\ after \subseteq after'
  BY <1>2 DEF FinishRequest, MoveItem, MarkReady, AdvanceOrder, ProcessRefund,
     RetryDelivery, SubmitPayment, KitchenVerdict, AdminConfirm, OpenCheckout,
     ChooseCash, PayFromWallet, ClaimJob, Refuse
<1>3. ASSUME NEW to \in JobStatuses, MoveJob(to)
      PROVE  UNCHANGED <<posted, crashes>> /\ after \subseteq after'
  BY <1>3 DEF MoveJob
<1>4. CASE EnsureDelivery
  BY <1>4 DEF EnsureDelivery
<1>5. CASE AcceptOrder
  BY <1>5 DEF AcceptOrder
<1> QED
  BY <1>1, <1>2, <1>3, <1>4, <1>5
  DEF Next, vars, CustomerCancel, AdminCancel, CancelOrder, CancelItem, CancelByKitchen,
     RejectOrder, ReleaseJob, SettleAttempt, ExpireAttempt, CompleteRefund, DismissRefund,
     SelectStale, SweepOrder

(* A finished order takes no more cash. *)
LEMMA FinishedTakesNoCash ==
  ASSUME "advance" \notin Racing, MoneyInv, [Next]_vars, orderStatus \in Finished,
         orderStatus' \in Finished, RecordsCash
  PROVE  UNCHANGED money
<1>1. PICK c \in Callers : MoveItem(c)
  BY DEF RecordsCash, AdvanceOrder, MoneyInv, RequestsMade
<1>2. \A i \in Items : items[i] \in {"delivered", "cancelled"}
  BY DEF MoneyInv, IInv, DeliveredIsComplete, Finished
<1>3. FALSE
  BY <1>1, <1>2 DEF MoveItem, MoneyInv, IInv, CallOK, RequestOK
<1> QED
  BY <1>3

LEMMA PostedStays ==
  ASSUME "advance" \notin Racing, CheckoutsApart, PostedInv, [Next]_vars
  PROVE  DeliveredPaidIsPosted'
<1>1. /\ FoodInv /\ KeptInv /\ MoneyInv /\ RestTyped /\ CheckoutsRead
      /\ orderStatus \in Finished => money.paidAt = TRUE
  BY DEF PostedInv, FoodInv, KeptInv, MoneyInv
<1> SUFFICES ASSUME orderStatus' \in Finished, money'.status = "paid",
                    "recordOrderCompletion" \notin after', crashes' = 0,
                    DismissedRefunds(money') = {}
             PROVE  posted'
  BY DEF DeliveredPaidIsPosted, Finished
<1>2. orderStatus \in Finished
  BY <1>1, FinishingSteps
<1>3. money.status = "paid" /\ DismissedRefunds(money) = {}
  <2>1. CASE RecordsCash
    <3>1. \A c \in Callers : ~AdvanceOrder(c)
      BY <1>1 DEF MoneyInv, RequestsMade, AdvanceOrder
    <3>2. UNCHANGED money
      BY <1>1, <1>2, <2>1, FinishedTakesNoCash
    <3> QED
      BY <3>2
  <2>2. CASE Follows(money, money')
    BY <1>1, <1>2, <2>2 DEF Follows
  <2> QED
    BY <1>1, <2>1, <2>2, PaymentFollows
<1>4. CASE RecordOrderCompletion
  BY <1>3, <1>4 DEF RecordOrderCompletion
<1>5. ~Crash
  BY <1>1, BoundsAssumption DEF Crash, RestTyped
<1>6. CASE /\ UNCHANGED <<posted, crashes>>
           /\ "recordOrderCompletion" \in after => "recordOrderCompletion" \in after'
  BY <1>2, <1>3, <1>6 DEF PostedInv, DeliveredPaidIsPosted, Finished
<1> QED
  BY <1>4, <1>5, <1>6, PostingSteps

(* The platform ledger has every order that was delivered and paid, once the call
   made after the delivery has run: no payment can come in after a delivery that
   a rider or a kitchen made, and only a dismissal makes an order paid again. *)
THEOREM DeliveriesArePosted ==
  ASSUME "advance" \notin Racing, CheckoutsApart
  PROVE  Spec => []DeliveredPaidIsPosted
<1>1. Init => PostedInv
  <2>1. Init => DeliveriesRead /\ orderStatus \notin Finished
    BY DEF Init, DeliveriesRead, Idle, Finished
  <2> QED
    BY <2>1, FoodInvStarts DEF PostedInv, DeliveredPaidIsPosted, Finished
<1>2. PostedInv /\ [Next]_vars => PostedInv'
  <2> SUFFICES ASSUME PostedInv, [Next]_vars PROVE PostedInv'
    OBVIOUS
  <2>1. FoodInv' /\ DeliveriesRead'
    BY FoodInvStays, DeliveriesReadStays DEF PostedInv
  <2> QED
    BY <2>1, FinishingIsPaid, PostedStays DEF PostedInv
<1>3. PostedInv => DeliveredPaidIsPosted
  BY DEF PostedInv
<1> QED
  BY <1>1, <1>2, <1>3, PTL DEF Spec

-----------------------------------------------------------------------------
(* A ready order has a rider's job. A job is closed with its order only, and only a
   retry would open that order again. *)

OnItsWay == {"ready", "dispatched", "in_transit", "delivery_failed"}

SomeDelivered == \E i \in Items : items[i] = "delivered"

(* An order that was ready has its job, or the call is still to be made that posts it;
   a retry under way finds that of the order it read, or an order cancelled since, of
   which nothing is kept: what no rider delivered was delivered with its order. *)
JobPosted ==
  PlatformRider /\ orderStatus \in OnItsWay /\ Kept # {} /\ crashes = 0 /\ job = "none"
    => "ensureDelivery" \in after

RetryRead ==
  RetryHeld /\ job = "none" => orderStatus \in {"delivery_failed", "cancelled"}

DeliveredApart ==
  PlatformRider /\ job = "none" /\ SomeDelivered => orderStatus \in Over /\ ~RetryHeld

JobInv ==
  /\ KeptInv /\ CashInv
  /\ job = "cancelled" => orderStatus \in Closed
  /\ JobPosted /\ RetryRead /\ DeliveredApart

(* A job that exists goes on existing, and is closed only with its order. *)
LEMMA JobSteps ==
  ASSUME [Next]_vars
  PROVE  /\ job' = "none" => job = "none"
         /\ job' = "cancelled" => job = "cancelled" \/ orderStatus' = "cancelled"
<1>1. CASE CustomerCancel \/ AdminCancel \/ SweepOrder
  BY <1>1 DEF CustomerCancel, AdminCancel, SweepOrder, CancelOrder, CloseJob, riderVars
<1>2. ASSUME NEW S, CancelByKitchen(S)
      PROVE  /\ job' = "none" => job = "none"
             /\ job' = "cancelled" => job = "cancelled" \/ orderStatus' = "cancelled"
  BY <1>2 DEF CancelByKitchen, CloseJob
<1>3. CASE EnsureDelivery \/ ReleaseJob
  BY <1>3 DEF EnsureDelivery, ReleaseJob
<1>4. ASSUME NEW to \in JobStatuses, MoveJob(to) PROVE job' \notin {"none", "cancelled"}
  BY <1>4 DEF MoveJob, DeliveryTransitions
<1>5. ASSUME NEW c \in Callers, AdvanceOrder(c) \/ RetryDelivery(c) \/ ClaimJob(c)
      PROVE  job' # "cancelled" \/ job = "cancelled"
  BY <1>5 DEF AdvanceOrder, RetryDelivery, ClaimJob
<1>6. ASSUME NEW c \in Callers, AdvanceOrder(c) \/ RetryDelivery(c) \/ ClaimJob(c)
      PROVE  job' = "none" => job = "none"
  BY <1>6 DEF AdvanceOrder, RetryDelivery, ClaimJob
<1>7. ASSUME NEW c \in Callers,
             MoveItem(c) \/ MarkReady(c) \/ ProcessRefund(c) \/ MoneyRequest(c)
      PROVE  job' = job
  BY <1>7 DEF MoveItem, MarkReady, ProcessRefund, MoneyRequest, SubmitPayment,
     KitchenVerdict, AdminConfirm, OpenCheckout, ChooseCash, PayFromWallet, Refuse,
     riderVars
<1>8. ASSUME NEW c \in Callers, BeginRequest(c) PROVE job' = job
  BY <1>8 DEF BeginRequest, BeginMove, BeginReady, BeginAdvance, BeginRefund,
     BeginRetry, BeginSubmit, BeginVerdict, BeginAdminConfirm, BeginCheckout,
     BeginCash, BeginWalletPay, BeginClaim, Begin, riderVars
<1>9. CASE MoneyStep \/ AcceptOrder \/ Crash \/ UNCHANGED vars
  BY <1>9 DEF MoneyStep, AcceptOrder, RecordOrderCompletion, SettleAttempt,
     ExpireAttempt, CompleteRefund, DismissRefund, SelectStale, Crash, vars, riderVars
<1> QED
  BY <1>1, <1>2, <1>3, <1>4, <1>5, <1>6, <1>7, <1>8, <1>9
  DEF Next, MoneyStep, FinishRequest, MoneyRequest, CancelItem, RejectOrder

(* Whatever makes an order ready leaves the call that posts its job to be made, and
   that call posts it. *)
LEMMA ReadySteps ==
  ASSUME RetriesApart, JobInv, [Next]_vars, PlatformRider,
         orderStatus' \in OnItsWay, Kept' # {}, job' = "none",
         "ensureDelivery" \notin after', crashes' = 0
  PROVE  FALSE
<1>1. /\ job = "none" /\ KeptInv /\ MoneyInv /\ IInv
      /\ orderStatus \in OnItsWay /\ Kept # {} /\ crashes = 0 => "ensureDelivery" \in after
  BY JobSteps DEF JobInv, JobPosted, KeptInv, MoneyInv
<1>2. ASSUME UNCHANGED <<orderStatus, items, crashes, after>> PROVE FALSE
  BY <1>1, <1>2 DEF Kept
<1>3. ~CancelOrder
  BY DEF CancelOrder, OnItsWay
<1>4. ASSUME NEW S, CancelByKitchen(S) PROVE FALSE
  <2>1. UNCHANGED <<orderStatus, after, crashes>>
    BY <1>4 DEF CancelByKitchen, OnItsWay
  <2>2. Kept # {}
    BY <1>4 DEF CancelByKitchen, CancelItems, Become, Kept
  <2> QED
    BY <1>1, <2>1, <2>2
<1>5. ~EnsureDelivery
  BY <1>1 DEF EnsureDelivery, NeedsJob, ClosedForDelivery, OnItsWay, orderVars, Kept
<1>6. ~(\E to \in JobStatuses : MoveJob(to)) /\ ~ReleaseJob
  BY DEF MoveJob, DeliveryTransitions, ReleaseJob
<1>7. ~AcceptOrder /\ ~Crash
  BY <1>1, BoundsAssumption DEF AcceptOrder, Crash, MoneyInv, RestTyped
<1>8. ASSUME NEW c \in Callers, MoveItem(c) PROVE FALSE
  <2>1. /\ call[c].item \in Items /\ items[call[c].item] # "cancelled"
        /\ call[c].to \notin {"dispatched", "in_transit", "delivery_failed"}
    BY <1>1, <1>8 DEF IInv, CallOK, RequestOK, MoveItem, JobInv, CashInv, HandoversRead,
       HandoverRead, PlatformRider
  <2>2. orderStatus' \in {orderStatus, "confirmed", "preparing", "ready", "delivered"}
    BY <1>8, <2>1 DEF MoveItem, Derived
  <2>3. orderStatus' = orderStatus /\ crashes' = crashes /\ after \subseteq after'
    BY <1>8, <2>2 DEF MoveItem, OnItsWay
  <2>4. Kept # {}
    BY <2>1 DEF Kept
  <2> QED
    BY <1>1, <2>3, <2>4
<1>9. ASSUME NEW c \in Callers, AdvanceOrder(c) PROVE FALSE
  <2>1. /\ orderStatus = call[c].from /\ orderStatus' = call[c].to
        /\ call[c].to # "ready" /\ call[c].to # "delivered"
        /\ items' = items /\ crashes' = crashes /\ after' = after
    BY <1>9 DEF AdvanceOrder, Unmoved, CallsOnceReady, OnItsWay
  <2>2. call[c].to \in OnItsWay => call[c].from \in OnItsWay
    BY <1>9, <2>1 DEF AdvanceOrder, JobInv, CashInv, HandoversRead, HandoverRead, OnItsWay
  <2> QED
    BY <1>1, <2>1, <2>2 DEF Kept
<1>10. ASSUME NEW c \in Callers, RetryDelivery(c) PROVE FALSE
  <2>1. orderStatus \in {"delivery_failed", "cancelled"} /\ ~SomeDelivered
    BY <1>1, <1>10, RetryIsAlone DEF JobInv, RetryRead, DeliveredApart, RetryDelivery, MoneyInv
  <2>2. Kept # {} /\ UNCHANGED <<after, crashes>>
    BY <1>10 DEF RetryDelivery, Kept, Become
  <2>3. orderStatus # "cancelled"
    BY <1>1, <2>1, <2>2 DEF IInv, CancelledIsClosed, SomeDelivered, Kept
  <2> QED
    BY <1>1, <2>1, <2>2, <2>3 DEF OnItsWay
<1>11. ASSUME NEW c \in Callers, MarkReady(c) \/ ClaimJob(c) PROVE FALSE
  BY <1>11 DEF MarkReady, ClaimJob, CallsOnceReady
<1>12. ASSUME NEW c \in Callers, ProcessRefund(c) PROVE FALSE
  <2>1. UNCHANGED <<items, after, crashes>> /\ orderStatus' \in {orderStatus, "refunded"}
    BY <1>12 DEF ProcessRefund
  <2> QED
    BY <1>2, <2>1 DEF OnItsWay
<1>13. ASSUME NEW c \in Callers, MoneyRequest(c) PROVE FALSE
  <2>1. UNCHANGED <<orderStatus, items, crashes>> /\ after \subseteq after'
    BY <1>13 DEF MoneyRequest, SubmitPayment, KitchenVerdict, AdminConfirm,
       OpenCheckout, ChooseCash, PayFromWallet, Refuse, orderVars
  <2> QED
    BY <1>1, <2>1 DEF Kept
<1>14. ASSUME NEW c \in Callers, BeginRequest(c) PROVE FALSE
  BY <1>2, <1>14 DEF BeginRequest, BeginMove, BeginReady, BeginAdvance, BeginRefund,
     BeginRetry, BeginSubmit, BeginVerdict, BeginAdminConfirm, BeginCheckout,
     BeginCash, BeginWalletPay, BeginClaim, Begin, orderVars
<1>15. CASE MoneyStep \/ UNCHANGED vars
  <2>1. UNCHANGED <<orderStatus, items, crashes>>
        /\ ("ensureDelivery" \in after => "ensureDelivery" \in after')
    BY <1>15 DEF MoneyStep, RecordOrderCompletion, SettleAttempt, ExpireAttempt,
       CompleteRefund, DismissRefund, SelectStale, vars, orderVars
  <2> QED
    BY <1>1, <2>1 DEF Kept
<1>16. CASE SweepOrder
  BY <1>2, <1>3, <1>16 DEF SweepOrder, orderVars
<1> QED
  BY <1>3, <1>4, <1>5, <1>6, <1>7, <1>8, <1>9, <1>10, <1>11, <1>12, <1>13, <1>14, <1>15,
     <1>16
  DEF Next, MoneyStep, FinishRequest, MoneyRequest, CustomerCancel, AdminCancel,
      CancelItem, RejectOrder

(* What becomes of an order while nothing but a retry is in flight and it has no job. *)
LEMMA HeldOrderStays ==
  ASSUME [Next]_vars, \A c \in Callers : ~FinishRequest(c), job = "none",
         orderStatus \in {"delivery_failed", "cancelled"}
  PROVE  orderStatus' \in {"delivery_failed", "cancelled"}
<1>1. CASE CustomerCancel \/ AdminCancel \/ SweepOrder
  BY <1>1 DEF CustomerCancel, AdminCancel, SweepOrder, CancelOrder, orderVars
<1>2. ASSUME NEW S, CancelByKitchen(S) PROVE orderStatus' \in {orderStatus, "cancelled"}
  BY <1>2 DEF CancelByKitchen
<1>3. ~AcceptOrder /\ ~(\E to \in JobStatuses : MoveJob(to))
  BY DEF AcceptOrder, MoveJob, DeliveryTransitions
<1>4. CASE EnsureDelivery \/ ReleaseJob \/ Crash \/ MoneyStep \/ UNCHANGED vars
  BY <1>4 DEF EnsureDelivery, ReleaseJob, Crash, MoneyStep, RecordOrderCompletion,
     SettleAttempt, ExpireAttempt, CompleteRefund, DismissRefund, SelectStale, vars, orderVars
<1>5. ASSUME NEW c \in Callers, BeginRequest(c) PROVE orderStatus' = orderStatus
  BY <1>5 DEF BeginRequest, BeginMove, BeginReady, BeginAdvance, BeginRefund,
     BeginRetry, BeginSubmit, BeginVerdict, BeginAdminConfirm, BeginCheckout,
     BeginCash, BeginWalletPay, BeginClaim, Begin, orderVars
<1> QED
  BY <1>1, <1>2, <1>3, <1>4, <1>5 DEF Next, MoneyStep, CancelItem, RejectOrder

LEMMA RetryReadStays ==
  ASSUME RetriesApart, JobInv, HoldsFollow, [Next]_vars
  PROVE  RetryRead'
<1> SUFFICES ASSUME RetryHeld', job' = "none"
             PROVE  orderStatus' \in {"delivery_failed", "cancelled"}
  BY DEF RetryRead
<1>1. ASSUME NEW c \in Callers, FinishRequest(c) PROVE FALSE
  <2>1. Return(c)
    BY <1>1 DEF FinishRequest, MoveItem, MarkReady, AdvanceOrder, ProcessRefund,
       RetryDelivery, SubmitPayment, KitchenVerdict, AdminConfirm, OpenCheckout,
       ChooseCash, PayFromWallet, ClaimJob, Refuse
  <2> QED
    BY <2>1, ReturnHoldsNone DEF JobInv, KeptInv, MoneyInv
<1>2. job = "none"
  BY JobSteps
<1>3. CASE RetryHeld
  <2>1. orderStatus \in {"delivery_failed", "cancelled"}
    BY <1>2, <1>3 DEF JobInv, RetryRead
  <2> QED
    BY <1>1, <1>2, <2>1, HeldOrderStays
<1>4. CASE ~RetryHeld
  BY <1>4 DEF HoldsFollow, orderVars
<1> QED
  BY <1>3, <1>4

(* Without a rider's job and without a kitchen that delivers, an item is delivered
   only with its order, by an admin. *)
LEMMA WhoDelivers ==
  ASSUME JobInv, [Next]_vars, PlatformRider, job' = "none", SomeDelivered', ~SomeDelivered
  PROVE  \E c \in Callers : AdvanceOrder(c) /\ orderStatus' = "delivered"
<1>1. ASSUME UNCHANGED items PROVE FALSE
  BY <1>1 DEF SomeDelivered
<1>2. ASSUME NEW S, NEW status, items' = Become(S, status), status # "delivered" PROVE FALSE
  BY <1>2 DEF SomeDelivered, Become
<1>3. ~CancelOrder
  BY <1>2 DEF CancelOrder, CancelItems
<1>4. ASSUME NEW S, CancelByKitchen(S) PROVE FALSE
  BY <1>2, <1>4 DEF CancelByKitchen, CancelItems
<1>5. ~AcceptOrder /\ ~(\E c \in Callers : MarkReady(c) \/ RetryDelivery(c))
  BY <1>2 DEF AcceptOrder, MarkReady, RetryDelivery
<1>6. ~(\E to \in JobStatuses : MoveJob(to))
  BY DEF MoveJob, DeliveryTransitions
<1>7. ASSUME NEW c \in Callers, MoveItem(c) PROVE FALSE
  <2>1. call[c].to # "delivered"
    BY <1>7 DEF MoveItem, JobInv, CashInv, HandoversRead, HandoverRead, PlatformRider
  <2>2. items' = Become({call[c].item}, call[c].to)
    BY <1>7 DEF MoveItem
  <2> QED
    BY <1>2, <2>1, <2>2
<1>8. ASSUME NEW c \in Callers, AdvanceOrder(c) PROVE orderStatus' = "delivered"
  BY <1>1, <1>8 DEF AdvanceOrder
<1>9. ASSUME NEW c \in Callers, ProcessRefund(c) \/ MoneyRequest(c) \/ ClaimJob(c) PROVE FALSE
  BY <1>1, <1>9 DEF ProcessRefund, MoneyRequest, SubmitPayment, KitchenVerdict, AdminConfirm,
     OpenCheckout, ChooseCash, PayFromWallet, Refuse, ClaimJob, orderVars
<1>10. ASSUME NEW c \in Callers, BeginRequest(c) PROVE FALSE
  BY <1>1, <1>10 DEF BeginRequest, BeginMove, BeginReady, BeginAdvance, BeginRefund,
     BeginRetry, BeginSubmit, BeginVerdict, BeginAdminConfirm, BeginCheckout,
     BeginCash, BeginWalletPay, BeginClaim, Begin, orderVars
<1>11. ~(EnsureDelivery \/ ReleaseJob \/ Crash \/ MoneyStep \/ UNCHANGED vars)
  BY <1>1 DEF EnsureDelivery, ReleaseJob, Crash, MoneyStep, RecordOrderCompletion,
     SettleAttempt, ExpireAttempt, CompleteRefund, DismissRefund, SelectStale, vars, orderVars
<1>12. ~SweepOrder
  BY <1>1, <1>3 DEF SweepOrder, orderVars
<1> QED
  BY <1>3, <1>4, <1>5, <1>6, <1>7, <1>8, <1>9, <1>10, <1>11, <1>12
  DEF Next, MoneyStep, FinishRequest, MoneyRequest, CustomerCancel, AdminCancel,
      CancelItem, RejectOrder

LEMMA DeliveredApartStays ==
  ASSUME RetriesApart, JobInv, HoldsFollow, [Next]_vars
  PROVE  DeliveredApart'
<1> SUFFICES ASSUME PlatformRider, job' = "none", SomeDelivered'
             PROVE  orderStatus' \in Over /\ ~RetryHeld'
  BY DEF DeliveredApart, PlatformRider
<1>1. KeptInv /\ CashInv /\ RequestsMade /\ CallOK /\ HandoversRead
  BY DEF JobInv, KeptInv, MoneyInv, IInv, CashInv
<1>2. CASE ~SomeDelivered
  <2>1. PICK c \in Callers : AdvanceOrder(c) /\ orderStatus' = "delivered"
    BY <1>2, WhoDelivers
  <2>2. ~RetryHeld'
    BY <1>1, <2>1, ReturnHoldsNone DEF AdvanceOrder
  <2> QED
    BY <2>1, <2>2 DEF Over
<1>3. CASE SomeDelivered
  <2>1. orderStatus \in Over /\ ~RetryHeld
    BY <1>3, JobSteps DEF JobInv, DeliveredApart
  <2>2. ~RetryHeld'
    BY <2>1 DEF HoldsFollow, Over, Closed
  <2>3. ASSUME NEW c \in Callers, AdvanceOrder(c) PROVE orderStatus' \in Over
    BY <1>1, <2>1, <2>3
    DEF AdvanceOrder, Unmoved, HandoversRead, HandoverRead, CallOK, RequestOK, Over
  <2>4. ~(\E to \in JobStatuses : MoveJob(to))
    BY DEF MoveJob, DeliveryTransitions
  <2>5. ~(\E c \in Callers : RetryDelivery(c))
    BY <2>1 DEF RetryDelivery, RetryHeld
  <2>6. Quiet => orderStatus' \in Over
    BY <2>1 DEF Quiet
  <2> QED
    BY <1>1, <2>2, <2>3, <2>4, <2>5, <2>6, OtherStepsAreQuiet
<1> QED
  BY <1>2, <1>3

LEMMA JobInvStays ==
  ASSUME RetriesApart, JobInv, [Next]_vars
  PROVE  JobInv'
<1>1. KeptInv' /\ CashInv' /\ HoldsFollow
  BY CashInvStays, HoldsChange DEF JobInv
<1>2. job' = "cancelled" => orderStatus' \in Closed
  <2>1. orderStatus \in Closed
          => orderStatus' \in Closed \/ \E c \in Callers : RetryDelivery(c)
    BY ClosedStaysClosed DEF JobInv, KeptInv, MoneyInv
  <2>2. (\E c \in Callers : RetryDelivery(c)) => job' # "cancelled"
    BY DEF RetryDelivery
  <2> QED
    BY <2>1, <2>2, JobSteps DEF JobInv, Closed
<1>3. JobPosted'
  <2> SUFFICES ASSUME PlatformRider, orderStatus' \in OnItsWay, Kept' # {}, crashes' = 0,
                      job' = "none", "ensureDelivery" \notin after'
               PROVE  FALSE
    BY DEF JobPosted, PlatformRider, OnItsWay
  <2> QED
    BY ReadySteps
<1>4. RetryRead' /\ DeliveredApart'
  BY <1>1, RetryReadStays, DeliveredApartStays
<1> QED
  BY <1>1, <1>2, <1>3, <1>4 DEF JobInv

(* A ready order waiting for a platform rider is on offer to riders or taken: with any
   number of requests in flight when no failed delivery is retried, and with retries
   when one request is handled at a time. *)
THEOREM ReadyOrdersHaveJobs ==
  ASSUME "retry" \notin Racing \/ OneAtATime
  PROVE  Spec => []ReadyHasJob
<1>1. Init => JobInv
  <2> SUFFICES ASSUME Init PROVE JobInv
    OBVIOUS
  <2>1. KeptInv /\ CashInv
    BY CashInvStarts
  <2>2. JobPosted /\ DeliveredApart
    BY DEF Init, JobPosted, DeliveredApart, SomeDelivered, OnItsWay
  <2>3. RetryRead
    BY DEF Init, RetryRead, RetryHeld, Idle
  <2> QED
    BY <2>1, <2>2, <2>3 DEF Init, JobInv
<1>2. JobInv /\ [Next]_vars => JobInv'
  BY JobInvStays DEF RetriesApart
<1>3. JobInv => ReadyHasJob
  BY DEF JobInv, JobPosted, OnItsWay, ReadyHasJob, Closed
<1> QED
  BY <1>1, <1>2, <1>3, PTL DEF Spec
=============================================================================
