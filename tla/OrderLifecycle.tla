---------------------------- MODULE OrderLifecycle ----------------------------
(* One order from placement to its end: the customer, the kitchen, the admins,
   the rider, the payment gateway and the stale-order sweep all act on it.

   The server runs every request as an asynchronous handler on a database with
   Read Committed transactions. A handler reads the order, decides, and then
   opens a transaction that takes the order row. A handler that decides again
   under the lock, from what it reads there, is one atomic step here. A handler
   that acts on what it read before the lock is two: Begin... remembers the read
   in call[c], and the step of the same name commits on a state that may have
   moved meanwhile, or gives up (Refuse). What a handler does after its commit,
   in transactions of their own, waits in after and is lost when the server
   stops. An order has one kitchen, as placement requires. *)
EXTENDS OrderTables, OrderMoney

CONSTANTS Handover,      \* "rider", "kitchen" or "hub": who hands the food over
          Callers,       \* requests that can be in flight at once
          Racing,        \* which two-step requests are made
          Attempts,      \* online checkout sessions
          RefundAmounts, \* amounts an admin may ask to refund
          MaxDismissals, \* bound: refunds an admin dismisses
          MaxCrashes     \* bound: server restarts

TwoStep == {"move", "ready", "advance", "refund", "retry", "submit", "confirm",
            "dispute", "adminConfirm", "checkout", "cash", "walletPay", "claim"}

ASSUME HandoverAssumption == Handover \in {"rider", "kitchen", "hub"}
ASSUME RacingAssumption   == Racing \subseteq TwoStep
ASSUME AmountsAssumption  == RefundAmounts \subseteq Nat \ {0}
ASSUME AttemptsAssumption == IsFiniteSet(Attempts)
ASSUME BoundsAssumption   == MaxDismissals \in Nat /\ MaxCrashes \in Nat

VARIABLES
  orderStatus,  \* Order.orderStatus
  items,        \* OrderItem.status of each item
  returned,     \* how many times each item's stock and hub units were put back
  promoHeld,    \* the order still counts against its promotion's limits
  money,        \* payment, refunds and wallet credit (OrderMoney)
  attempts,     \* PaymentAttempt rows
  job,          \* Delivery.status, "none" before the row exists
  riderPaid,    \* the delivery fee entry of the rider ledger is there
  riderCash,    \* the cash_collected entry of the rider ledger
  posted,       \* the platform ledger has the order's entries
  after,        \* calls to make after a commit, not made yet
  call,         \* what each request in flight read and decided
  selected,     \* the sweep has the order on its list
  crashes       \* restarts so far

orderVars == <<orderStatus, items, returned, promoHeld>>
riderVars == <<job, riderPaid, riderCash>>
vars == <<orderVars, money, attempts, riderVars, posted, after, call, selected,
          crashes>>

Idle == [op |-> "none", item |-> "none", from |-> "none", to |-> "none",
         amount |-> 0, cash |-> FALSE, wallet |-> FALSE]

(* The rules an order's delivery sets. *)
PlatformRider == Handover = "rider"

CodCollector == CASE Handover = "rider"   -> "rider"
                  [] Handover = "kitchen" -> "seller"
                  [] Handover = "hub"     -> "platform"

Unclosed(i) == items[i] \notin {"cancelled", "delivered"}
LiveItems_Undelivered == {i \in Items : items[i] # "delivered"}   \* slip
LiveItems   == {i \in Items : Unclosed(i)}
Kept        == {i \in Items : items[i] # "cancelled"}

(* The next status of the items: those in S become status. *)
Become(S, status) == [i \in Items |-> IF i \in S THEN status ELSE items[i]]

Init ==
  /\ orderStatus = "pending"
  /\ items = [i \in Items |-> "pending"]
  /\ returned = [i \in Items |-> 0]
  /\ promoHeld = TRUE
  /\ \E method \in PlacedWith : money = MoneyAtPlacement(method)
  /\ attempts = [a \in Attempts |-> [status |-> "none", amount |-> 0]]
  /\ job = "none" /\ riderPaid = FALSE /\ riderCash = 0
  /\ posted = FALSE
  /\ after = {}
  /\ call = [c \in Callers |-> Idle]
  /\ selected = FALSE
  /\ crashes = 0

-----------------------------------------------------------------------------
(* What several handlers share. *)

(* Cancelling items puts their stock, and the hub units they took, back. *)
CancelItems(S) ==
  /\ items' = Become(S, "cancelled")
  /\ returned' = [i \in Items |-> IF i \in S THEN returned[i] + 1 ELSE returned[i]]

(* cancelOpenDelivery: no rider can finish the job of an order called off. *)
CloseJob == job' = IF job \in {"none", "delivered", "cancelled"} THEN job
                   ELSE "cancelled"

(* The transaction customer, admin and sweep cancels share. *)
CancelOrder ==
  /\ orderStatus' = "cancelled"
  /\ CancelItems(LiveItems)
  /\ CloseJob
  /\ promoHeld' = FALSE
  /\ money' = RefundAll(money)
  /\ UNCHANGED <<attempts, riderPaid, riderCash, posted, after, call, crashes>>

(* Items cancelled by their kitchen: the order follows once none is kept. *)
CancelByKitchen(S) ==
  /\ CancelItems(S)
  /\ money' = RefundCancelled(money, S, Kept \ S)
  /\ IF Kept \subseteq S
     THEN orderStatus' = "cancelled" /\ promoHeld' = FALSE /\ CloseJob
     ELSE UNCHANGED <<orderStatus, promoHeld, job>>
  /\ UNCHANGED <<attempts, riderPaid, riderCash, posted, after, call, selected,
                 crashes>>

(* postDeliveryEntries: one row per job and type, so a second posting is lost. *)
PostDeliveryEntries_OneRow(cash) == riderPaid' = TRUE /\ riderCash' = riderCash \* slip

PostDeliveryEntries(cash) ==
  /\ riderPaid' = TRUE
  /\ riderCash' = IF riderCash = 0 THEN cash ELSE riderCash

(* The calls a handler makes once its commit made the order ready, delivered. *)
CallsOnceDelivered_None == {}   \* slip: the ledger is not posted
CallsOnceReady == {"ensureDelivery"}
CallsOnceDelivered == {"recordOrderCompletion"}

Begin(c, request) ==
  /\ call[c] = Idle
  /\ request.op \in Racing
  /\ call' = [call EXCEPT ![c] = request]
  /\ UNCHANGED <<orderVars, money, attempts, riderVars, posted, after, selected,
                 crashes>>

Return(c) == call' = [call EXCEPT ![c] = Idle]

Request(op) == [Idle EXCEPT !.op = op]

-----------------------------------------------------------------------------
(* Handlers that decide again under the order's lock. *)

(* OrderCancellation.cancelOrder: only before the kitchen accepted. *)
CustomerCancel ==
  /\ orderStatus = "pending"
  /\ CancelOrder
  /\ UNCHANGED selected

(* AdminOrderService.cancelOrder by an admin, who may also call off a ready
   order no rider has taken. *)
AdminCancel ==
  /\ \/ orderStatus \in AdminCancellable
     \/ /\ orderStatus = "ready" /\ PlatformRider /\ Kept # {}
        /\ job \in {"none", "pending"}
  /\ CancelOrder
  /\ UNCHANGED selected

(* cancelOrderItem looks at the item only, never at the order's status. *)
CancelItem(i) ==
  /\ items[i] \in ItemCancellable
  /\ CancelByKitchen({i})

RejectOrder ==
  /\ orderStatus \in Rejectable
  /\ LiveItems # {}
  /\ CancelByKitchen(LiveItems)

AcceptOrder ==
  /\ orderStatus \in {"pending", "confirmed"}
  /\ orderStatus' = "preparing"
  /\ items' = Become(LiveItems, "preparing")
  /\ after' = after \union {"ensureDelivery"}
  /\ UNCHANGED <<returned, promoHeld, money, attempts, riderVars, posted, call,
                 selected, crashes>>

(* ensureDeliveryForOrder, called after the commits that start the cooking. *)
NeedsJob_Unlocked ==   \* slip: the order is not looked at under its lock
  PlatformRider /\ job = "none"

NeedsJob_Cooking ==   \* slip: a job is only posted while the kitchen cooks
  PlatformRider /\ job = "none" /\ orderStatus \in {"confirmed", "preparing"}

NeedsJob == /\ PlatformRider /\ Kept # {} /\ job = "none"
            /\ orderStatus \notin ClosedForDelivery

EnsureDelivery ==
  /\ "ensureDelivery" \in after
  /\ after' = after \ {"ensureDelivery"}
  /\ job' = IF NeedsJob THEN "pending" ELSE job
  /\ UNCHANGED <<orderVars, money, attempts, riderPaid, riderCash, posted, call,
                 selected, crashes>>

(* recordOrderCompletion: once, and only for money that was received. *)
RecordOrderCompletion ==
  /\ "recordOrderCompletion" \in after
  /\ after' = after \ {"recordOrderCompletion"}
  /\ posted' = (posted \/ money.status = "paid")
  /\ UNCHANGED <<orderVars, money, attempts, riderVars, call, selected, crashes>>

(* RiderService.updateDeliveryStatus: the rider moves the job and, when the
   order stands elsewhere, the order and every item not cancelled with it. *)
MoveJob(to) ==
  /\ <<job, to>> \in DeliveryTransitions
  /\ ~MoveRefused(job, to, orderStatus, money.method = "cod", money.status)
  /\ LET pushed == PushedOrderStatus(to)
         moves  == pushed \notin {"none", orderStatus}
         paying == to = "delivered" /\ CashAtDoor(money)
     IN  /\ job' = to
         /\ orderStatus' = IF moves THEN pushed ELSE orderStatus
         /\ items' = IF moves THEN Become(Kept, pushed) ELSE items
         /\ money' = IF paying THEN TakenBy(money, "rider") ELSE money
         /\ IF to = "delivered"
            THEN PostDeliveryEntries(IF paying THEN money.total ELSE 0)
            ELSE UNCHANGED <<riderPaid, riderCash>>
         /\ after' = IF to = "delivered"
                     THEN after \union CallsOnceDelivered ELSE after
  /\ UNCHANGED <<returned, promoHeld, attempts, posted, call, selected, crashes>>

(* releaseDelivery: back to the pool before the pick-up. *)
ReleaseJob ==
  /\ job \in BeforePickup
  /\ job' = "pending"
  /\ UNCHANGED <<orderVars, money, attempts, riderPaid, riderCash, posted, after,
                 call, selected, crashes>>

(* The gateway reports session a paid: its return page, its webhook or both. *)
SettleAttempt(a) ==
  /\ attempts[a].status \in {"pending", "expired"}
  /\ attempts' = [attempts EXCEPT ![a].status =
                    IF IsNeeded(money, attempts[a].amount) THEN "paid"
                    ELSE "duplicate"]
  /\ money' = Settled(money, attempts[a].amount,
                      orderStatus \in {"cancelled", "refunded"})
  /\ UNCHANGED <<orderVars, riderVars, posted, after, call, selected, crashes>>

(* expireStaleAttempts: nobody came back within two hours. *)
ExpireAttempt(a) ==
  /\ attempts[a].status = "pending"
  /\ attempts' = [attempts EXCEPT ![a].status = "expired"]
  /\ UNCHANGED <<orderVars, money, riderVars, posted, after, call, selected,
                 crashes>>

CompleteRefund(k) ==
  /\ k \in PendingRefunds(money)
  /\ money' = RefundSent(money, k)
  /\ UNCHANGED <<orderVars, attempts, riderVars, posted, after, call, selected,
                 crashes>>

DismissRefund(k) ==
  /\ k \in PendingRefunds(money)
  /\ Cardinality(DismissedRefunds(money)) < MaxDismissals
  /\ money' = RefundDismissed(money, k)
  /\ UNCHANGED <<orderVars, attempts, riderVars, posted, after, call, selected,
                 crashes>>

-----------------------------------------------------------------------------
(* Handlers that act on what they read before the lock. *)

(* Money sent by transfer or card is in before the food leaves the kitchen. *)
PaymentConfirmed_Reported ==   \* slip: a reported transfer is taken as paid
  money.method = "cod" \/ money.status \in {"paid", "payment_submitted"}

PaymentConfirmed == money.method = "cod" \/ money.status = "paid"

NotRefunded == money.status \notin {"refund_pending", "refunded"}

(* assertMayHandOver, judged on the order as read. *)
MayHandOver(to) ==
  /\ to = "delivered" => NotRefunded
  /\ to \in {"dispatched", "in_transit", "delivered", "delivery_failed"}
       => Handover = "kitchen"
  /\ to \in {"ready", "dispatched"} => PaymentConfirmed

(* updateOrderItemStatus, also each step of a kitchen's own handover. *)
BeginMove(c, i, to) ==
  /\ <<items[i], to>> \in ItemTransitions
  /\ MayHandOver(to)
  /\ Begin(c, [Request("move") EXCEPT !.item = i, !.from = items[i], !.to = to,
                                      !.cash = CashAtDoor(money)])

AllAt_Some(next, S) == \E i \in Items : next[i] \in S   \* slip

AllAt(next, S) == \A i \in Items : next[i] \in S

(* What the order becomes once an item is at to and all items are next. *)
Derived(next, to) ==
  LET all(S) == AllAt(next, S)
      open   == orderStatus \notin {"cancelled", "refunded"}
  IN  CASE to = "ready" /\ all({"ready"})
             /\ orderStatus \in {"confirmed", "preparing"} -> "ready"
        [] to = "preparing" /\ all({"preparing"})
             /\ orderStatus = "pending" -> "preparing"
        [] to = "confirmed" /\ orderStatus = "pending" -> "confirmed"
        [] to = "dispatched" /\ all({"dispatched", "cancelled"})
             /\ orderStatus = "ready" -> "dispatched"
        [] to = "delivery_failed" /\ open -> "delivery_failed"
        [] to = "delivered" /\ all({"delivered", "cancelled"}) /\ open -> "delivered"
        [] OTHER -> orderStatus

MoveItem(c) ==
  LET k == call[c] IN
  /\ k.op = "move" /\ items[k.item] = k.from
  /\ items' = Become({k.item}, k.to)
  /\ orderStatus' = Derived(items', k.to)
  /\ LET moved == orderStatus' # orderStatus IN
     /\ money' = IF moved /\ orderStatus' = "delivered" /\ k.cash
                 THEN TakenBy(money, CodCollector) ELSE money
     /\ after' = after
          \union (IF moved /\ orderStatus' = "delivered"
                  THEN CallsOnceDelivered ELSE {})
          \union (IF moved /\ orderStatus' \in {"confirmed", "preparing", "ready"}
                  THEN {"ensureDelivery"} ELSE {})
  /\ Return(c)
  /\ UNCHANGED <<returned, promoHeld, attempts, riderVars, posted, selected,
                 crashes>>

(* markOrderReady: the payment is checked before the lock, the status again
   under it. *)
BeginReady(c) ==
  /\ orderStatus \in {"confirmed", "preparing"}
  /\ PaymentConfirmed
  /\ Begin(c, Request("ready"))

StillCooking == orderStatus \in {"confirmed", "preparing"}

MarkReady(c) ==
  /\ call[c].op = "ready" /\ StillCooking
  /\ orderStatus' = "ready"
  /\ items' = Become(LiveItems, "ready")
  /\ after' = after \union CallsOnceReady
  /\ Return(c)
  /\ UNCHANGED <<returned, promoHeld, money, attempts, riderVars, posted,
                 selected, crashes>>

(* AdminOrderService.updateOrderStatus. *)
BeginAdvance(c, to) ==
  /\ IsOrderStep(orderStatus, to)
  /\ to = "delivered" => NotRefunded
  /\ Begin(c, [Request("advance") EXCEPT !.from = orderStatus, !.to = to,
                                         !.cash = CashAtDoor(money)])

(* The update is guarded by the status the step was judged from. *)
Unmoved_AsRead(k) == TRUE   \* slip: an unguarded update

Unmoved(k) == orderStatus = k.from

AdvanceOrder(c) ==
  LET k == call[c]
      delivering == k.to = "delivered"
      paying     == delivering /\ k.cash
      closing    == delivering /\ job \in ActiveJob
  IN
  /\ k.op = "advance" /\ Unmoved(k)
  /\ orderStatus' = k.to
  /\ items' = IF delivering THEN Become(LiveItems, "delivered") ELSE items
  /\ money' = IF paying THEN TakenBy(money, CodCollector) ELSE money
  /\ job' = IF closing THEN "delivered" ELSE job
  /\ IF closing
     THEN PostDeliveryEntries(IF paying /\ PlatformRider THEN money.total ELSE 0)
     ELSE UNCHANGED <<riderPaid, riderCash>>
  /\ after' = after
       \union (IF delivering THEN CallsOnceDelivered ELSE {})
       \union (IF k.to = "ready" THEN CallsOnceReady ELSE {})
  /\ Return(c)
  /\ UNCHANGED <<returned, promoHeld, attempts, posted, selected, crashes>>

(* processRefund: a wallet refund that covers the total closes the order. *)
BeginRefund(c, asked) ==
  /\ money.status = "paid" /\ orderStatus \notin InFlight
  /\ asked <= money.total
  /\ Begin(c, [Request("refund") EXCEPT !.amount = asked,
                                        !.wallet = money.method = "wallet"])

ProcessRefund(c) ==
  LET asked == call[c].amount IN
  /\ call[c].op = "refund" /\ CanRefund(money, asked)
  /\ money' = Refunded(money, asked)
  /\ orderStatus' = IF call[c].wallet /\ CoversTotal(money, asked)
                    THEN "refunded" ELSE orderStatus
  /\ Return(c)
  /\ UNCHANGED <<items, returned, promoHeld, attempts, riderVars, posted, after,
                 selected, crashes>>

(* retryDelivery writes without looking at the order again: the job goes back
   to the pool and every item not cancelled back to ready. *)
BeginRetry(c) ==
  /\ orderStatus = "delivery_failed"
  /\ Begin(c, Request("retry"))

RetryDelivery(c) ==
  /\ call[c].op = "retry"
  /\ orderStatus' = "ready"
  /\ items' = Become(Kept, "ready")
  /\ job' = IF job = "none" THEN "none" ELSE "pending"
  /\ Return(c)
  /\ UNCHANGED <<returned, promoHeld, money, attempts, riderPaid, riderCash,
                 posted, after, selected, crashes>>

(* submitManualPayment: the customer reports a transfer. *)
BeginSubmit(c) ==
  /\ money.method \in {"transfer", "online"}
  /\ money.status # "paid" /\ orderStatus \notin {"cancelled", "refunded"}
  /\ Begin(c, Request("submit"))

SubmitPayment(c) ==
  /\ call[c].op = "submit" /\ money.status \in Payable
  /\ money' = [money EXCEPT !.status = "payment_submitted"]
  /\ Return(c)
  /\ UNCHANGED <<orderVars, attempts, riderVars, posted, after, selected, crashes>>

(* confirmManualPayment by the kitchen: verdict "confirm" or "dispute". *)
BeginVerdict(c, verdict) ==
  /\ money.method = "transfer" /\ orderStatus \notin {"cancelled", "refunded"}
  /\ verdict \in {"confirm", "dispute"}
  /\ Begin(c, Request(verdict))

KitchenVerdict(c) ==
  /\ call[c].op \in {"confirm", "dispute"}
  /\ money.status = "payment_submitted"
  /\ IF call[c].op = "confirm"
     THEN /\ money' = TakenBy(money, "seller")
          /\ after' = IF orderStatus \in {"delivered", "completed"}
                      THEN after \union {"recordOrderCompletion"} ELSE after
     ELSE money' = [money EXCEPT !.status = "disputed"] /\ UNCHANGED after
  /\ Return(c)
  /\ UNCHANGED <<orderVars, attempts, riderVars, posted, selected, crashes>>

(* adminConfirmManualPayment: whether to post the ledger is decided from the
   status read before the payment is written. *)
BeginAdminConfirm(c) ==
  /\ money.method = "transfer" /\ orderStatus \notin {"cancelled", "refunded"}
  /\ Begin(c, [Request("adminConfirm") EXCEPT !.from = orderStatus])

AdminConfirm(c) ==
  /\ call[c].op = "adminConfirm"
  /\ money.status \in {"payment_submitted", "disputed"}
  /\ money' = TakenBy(money, "seller")
  /\ after' = IF call[c].from \in {"delivered", "completed"}
              THEN after \union {"recordOrderCompletion"} ELSE after
  /\ Return(c)
  /\ UNCHANGED <<orderVars, attempts, riderVars, posted, selected, crashes>>

(* What processPayment asks of the order it reads, whatever the method. *)
MayStillPay == /\ money.status \notin {"paid", "refund_pending", "refunded"}
               /\ orderStatus \notin {"cancelled", "refunded"}

(* processPayment with cash: only the payment is looked at again. *)
BeginCash(c) == MayStillPay /\ Begin(c, Request("cash"))

ChooseCash(c) ==
  /\ call[c].op = "cash" /\ money.status \in MethodOpen
  /\ money' = PutOnCash(money)
  /\ Return(c)
  /\ UNCHANGED <<orderVars, attempts, riderVars, posted, after, selected, crashes>>

(* processWalletPayment: order and payment are claimed together; the total was
   read before. The debit may find too little in the wallet (Refuse). *)
BeginWalletPay(c) ==
  MayStillPay /\ Begin(c, [Request("walletPay") EXCEPT !.amount = money.total])

PayFromWallet(c) ==
  /\ call[c].op = "walletPay" /\ money.status \in MethodOpen
  /\ orderStatus \notin {"cancelled", "refunded"}
  /\ money' = PaidFromWallet(money, call[c].amount)
  /\ Return(c)
  /\ UNCHANGED <<orderVars, attempts, riderVars, posted, after, selected, crashes>>

(* startOrderCheckout: the session is for the total read before the gateway
   was called; the order is put on online payment whatever it is on by then. *)
BeginCheckout(c) ==
  /\ money.method = "online" /\ MayStillPay
  /\ Begin(c, [Request("checkout") EXCEPT !.amount = money.total])

OpenCheckout(c, a) ==
  /\ call[c].op = "checkout" /\ attempts[a].status = "none"
  /\ attempts' = [attempts EXCEPT ![a] = [status |-> "pending",
                                          amount |-> call[c].amount]]
  /\ money' = [money EXCEPT !.method = "online"]
  /\ Return(c)
  /\ UNCHANGED <<orderVars, riderVars, posted, after, selected, crashes>>

(* claimDelivery: the job and its order are read unlocked, the claim then needs
   the job still pending. *)
BeginClaim(c) ==
  /\ job = "pending" /\ orderStatus \notin ClosedForDelivery
  /\ Begin(c, Request("claim"))

ClaimJob(c) ==
  /\ call[c].op = "claim" /\ job = "pending"
  /\ job' = "assigned"
  /\ Return(c)
  /\ UNCHANGED <<orderVars, money, attempts, riderPaid, riderCash, posted, after,
                 selected, crashes>>

(* The request finds the row changed under it and returns a conflict; a checkout
   may also fail at the gateway, and a debit at the wallet. *)
Conflict(k) ==
  CASE k.op = "move"         -> items[k.item] # k.from
    [] k.op = "ready"        -> ~StillCooking
    [] k.op = "advance"      -> ~Unmoved(k)
    [] k.op = "refund"       -> ~CanRefund(money, k.amount)
    [] k.op = "submit"       -> money.status \notin Payable
    [] k.op \in {"confirm", "dispute"} -> money.status # "payment_submitted"
    [] k.op = "adminConfirm" -> money.status \notin {"payment_submitted", "disputed"}
    [] k.op \in {"checkout", "walletPay"} -> TRUE
    [] k.op = "cash"         -> money.status \notin MethodOpen
    [] k.op = "claim"        -> job # "pending"
    [] OTHER                 -> FALSE

Refuse(c) ==
  /\ Conflict(call[c])
  /\ Return(c)
  /\ UNCHANGED <<orderVars, money, attempts, riderVars, posted, after, selected,
                 crashes>>

-----------------------------------------------------------------------------
(* sweepStaleOrders. How long the order has waited is not modelled: it may be
   past either limit whenever its status and payment match the query. *)

PaymentOverdue_Pending ==   \* slip: accepted orders are never overdue
  /\ money.method # "cod" /\ money.status \in {"pending", "failed"}
  /\ orderStatus = "pending"

PaymentOverdue == /\ money.method # "cod"
                  /\ money.status \in {"pending", "failed"}
                  /\ orderStatus \in {"pending", "confirmed", "preparing"}

AcceptanceOverdue_Unpaid ==   \* slip: paid orders are left waiting
  orderStatus = "pending" /\ money.status # "paid"

AcceptanceOverdue == orderStatus = "pending"

SelectStale ==
  /\ ~selected
  /\ PaymentOverdue \/ AcceptanceOverdue
  /\ selected' = TRUE
  /\ UNCHANGED <<orderVars, money, attempts, riderVars, posted, after, call,
                 crashes>>

(* The cancel of a listed order asks only that it is still cancellable. *)
SweepOrder ==
  /\ selected
  /\ selected' = FALSE
  /\ IF orderStatus \in AdminCancellable
     THEN CancelOrder
     ELSE UNCHANGED <<orderVars, money, attempts, riderVars, posted, after, call,
                      crashes>>

(* The server restarts: what was in flight is gone, what was committed stays. *)
Crash ==
  /\ crashes < MaxCrashes
  /\ crashes' = crashes + 1
  /\ call' = [c \in Callers |-> Idle]
  /\ after' = {}
  /\ selected' = FALSE
  /\ UNCHANGED <<orderVars, money, attempts, riderVars, posted>>

BeginRequest(c) ==
  \/ \E i \in Items, to \in ItemStatuses : BeginMove(c, i, to)
  \/ BeginReady(c)
  \/ \E to \in OrderStatuses : BeginAdvance(c, to)
  \/ \E asked \in RefundAmounts : BeginRefund(c, asked)
  \/ BeginRetry(c)
  \/ BeginSubmit(c)
  \/ \E verdict \in {"confirm", "dispute"} : BeginVerdict(c, verdict)
  \/ BeginAdminConfirm(c)
  \/ BeginCheckout(c)
  \/ BeginCash(c)
  \/ BeginWalletPay(c)
  \/ BeginClaim(c)

FinishRequest(c) ==
  \/ MoveItem(c)
  \/ MarkReady(c)
  \/ AdvanceOrder(c)
  \/ ProcessRefund(c)
  \/ RetryDelivery(c)
  \/ SubmitPayment(c)
  \/ KitchenVerdict(c)
  \/ AdminConfirm(c)
  \/ \E a \in Attempts : OpenCheckout(c, a)
  \/ ChooseCash(c)
  \/ PayFromWallet(c)
  \/ ClaimJob(c)
  \/ Refuse(c)

Next ==
  \/ CustomerCancel
  \/ AdminCancel
  \/ \E i \in Items : CancelItem(i)
  \/ RejectOrder
  \/ AcceptOrder
  \/ EnsureDelivery
  \/ RecordOrderCompletion
  \/ \E to \in JobStatuses : MoveJob(to)
  \/ ReleaseJob
  \/ \E a \in Attempts : SettleAttempt(a) \/ ExpireAttempt(a)
  \/ \E k \in DOMAIN money.refunds : CompleteRefund(k) \/ DismissRefund(k)
  \/ \E c \in Callers : BeginRequest(c) \/ FinishRequest(c)
  \/ SelectStale
  \/ SweepOrder
  \/ Crash

Spec == Init /\ [][Next]_vars

(* The sweep runs every two minutes and the server's own follow-up calls are
   made as long as it runs; nobody else is obliged to act. *)
Fairness ==
  /\ WF_vars(SelectStale) /\ WF_vars(SweepOrder)
  /\ WF_vars(EnsureDelivery) /\ WF_vars(RecordOrderCompletion)

FairSpec == Spec /\ Fairness
=============================================================================
