--------------------------- MODULE OrderProperties ---------------------------
(* What an order's handlers promise together. Each property needs several
   handlers, usually of several actors, to go wrong before it fails. *)
EXTENDS OrderLifecycle

Calls == [op : TwoStep \union {"none"}, item : Items \union {"none"},
          from : OrderStatuses \union {"none"}, to : OrderStatuses \union {"none"},
          amount : Nat, cash : BOOLEAN, wallet : BOOLEAN]

(* The control state: where the order, its items, its job and the requests in
   flight stand. *)
ControlTypeOK ==
  /\ orderStatus \in OrderStatuses
  /\ items \in [Items -> ItemStatuses]
  /\ returned \in [Items -> Nat]
  /\ promoHeld \in BOOLEAN
  /\ job \in JobStatuses
  /\ after \subseteq {"ensureDelivery", "recordOrderCompletion"}

(* Every variable holds a value of its type. *)
TypeOK ==
  /\ ControlTypeOK
  /\ MoneyTypeOK(money, PaymentStatuses)
  /\ \A a \in Attempts :
       /\ attempts[a].status \in {"none", "pending", "expired", "paid", "duplicate"}
       /\ attempts[a].amount \in Nat
  /\ riderPaid \in BOOLEAN /\ riderCash \in Nat
  /\ posted \in BOOLEAN
  /\ call \in [Callers -> Calls]
  /\ selected \in BOOLEAN
  /\ crashes \in 0 .. MaxCrashes

-----------------------------------------------------------------------------
(* Whatever mix of customer, kitchen, admin and sweep cancellations hits an
   order, and whichever of them race, an item's stock is put back exactly when
   the item is cancelled: never twice, and never for an item still sold. *)
RestockedOnce ==
  \A i \in Items : returned[i] = IF items[i] = "cancelled" THEN 1 ELSE 0

(* A cancelled order is closed everywhere: no item can still be cooked, no job
   can still be taken or finished by a rider, and its promotion is free again.
   (A job can have been delivered before a kitchen's cancel.) *)
CancelledIsClosed ==
  orderStatus = "cancelled" =>
    /\ \A i \in Items : items[i] \in {"cancelled", "delivered"}
    /\ job \in {"none", "cancelled", "delivered"}
    /\ ~promoHeld

(* A closed order stays closed, and a delivered one stays over. Of all the handlers
   that read first and write later, and of all a rider does with a job, only the retry
   of a failed delivery can bring such an order back. *)
Closed == {"cancelled", "refunded"}

Over == {"delivered", "completed"} \union Closed

RetryCommits == \E c \in Callers : call[c].op = "retry" /\ call'[c] = Idle

OnlyRetryRevives ==
  [][(\E S \in {Closed, Over} : orderStatus \in S /\ orderStatus' \notin S)
       => RetryCommits]_vars

(* An order recorded as delivered has no item left to cook or carry, whoever
   delivered it item by item or as a whole. *)
DeliveredIsComplete ==
  orderStatus \in {"delivered", "completed"} =>
    \A i \in Items : items[i] \in {"delivered", "cancelled"}

(* A ready order waiting for a platform rider is on offer to riders, or taken:
   whatever route made it ready, once the follow-up call has run (and no restart
   lost it) its job exists and was not closed. With one request in flight besides the
   atomic ones it holds whatever the request is; with more, unless a delivery is
   retried: of two retries judged at once, the later one can send an order out that
   was delivered since. *)
ReadyHasJob ==
  /\ orderStatus = "ready" /\ PlatformRider /\ Kept # {}
  /\ "ensureDelivery" \notin after /\ crashes = 0
  => job \notin {"none", "cancelled"}

(* Food paid by transfer, card or wallet leaves the kitchen only when the money
   was received, although the payment and the hand-over are written by different
   requests and the customer may still change how to pay. *)
OutOfTheKitchen ==
  \/ job \in {"picked_up", "in_transit", "arrived_at_customer", "delivered"}
  \/ \E i \in Items : items[i] \in {"dispatched", "in_transit", "delivered"}

FoodLeavesPaid ==
  [][~OutOfTheKitchen /\ OutOfTheKitchen' /\ money.method # "cod"
       => money.paidAt]_vars

(* The rider ledger charges a rider for cash exactly when a rider took it: the
   rider whose delivery took the money is charged in full, whoever recorded the
   delivery, and nobody is charged for money somebody else took. (With more than one
   request in flight: unless a delivery is retried, as above.) *)
CashIsCharged ==
  /\ riderCash # 0 => money.collectedBy = "rider" /\ riderCash = money.paid
  /\ money.collectedBy = "rider" /\ job = "delivered" => riderCash = money.paid

(* Refunds never add up to more than the order's total, however many cancels,
   admin refunds, dismissals and late payments were processed. The exception is a
   reported transfer whose refund is recorded with a cancelled item and which the
   kitchen disputes afterwards: the order counts as unpaid, and the next cancelled
   item lowers the total under the refund that stands. *)
RefundWithinTotal == Standing(money) <= money.total

(* A payment recorded as refunded is settled: no refund still waits to be sent,
   and, unless an admin dismissed one, the customer has the whole total back. *)
RefundedIsSettled ==
  money.status = "refunded" =>
    /\ PendingRefunds(money) = {}
    /\ DismissedRefunds(money) = {} => Standing(money) = money.total

(* The platform does not keep the money of a cancelled order: if it was paid,
   a refund of it is recorded, except where an admin dismissed that refund, and
   except for a transfer reported or confirmed as the cancel commits. *)
CancelledOwesRefund ==
  /\ orderStatus = "cancelled" /\ DismissedRefunds(money) = {}
  => money.status \notin {"paid", "payment_submitted"}

(* Every rupee that came through the gateway or the wallet is accounted for
   once, as the payment of the order or in the wallet: sessions that outlive
   their order, double payments, totals that shrank and changes of method
   included. (At a hub the platform also takes cash.) Checked without the
   deliveries an admin or the kitchen records, which can overwrite such a payment
   as cash: DoorMoneyIsCash. *)
SentBack == {k \in DOMAIN money.refunds : money.refunds[k].back}

MoneyIsKept ==
  Handover # "hub" =>
    SumFunctionOnSet([a \in Attempts |-> attempts[a].amount],
                     {a \in Attempts : attempts[a].status \in {"paid", "duplicate"}})
      = (money.wallet - AmountOf(money, SentBack))
        + (IF money.collectedBy = "platform" THEN money.paid ELSE 0)

(* The platform ledger has every order that was delivered and paid, once the
   call made after the delivery's commit has run. Excepted are a restart, which
   loses the call, and a dismissed refund, which makes an order paid again. *)
DeliveredPaidIsPosted ==
  /\ orderStatus \in {"delivered", "completed"} /\ money.status = "paid"
  /\ "recordOrderCompletion" \notin after
  /\ crashes = 0 /\ DismissedRefunds(money) = {}
  => posted

(* An order no kitchen accepts does not stay pending: the sweep ends it if no one
   else moves it, restarts included. *)
PendingIsSettled == orderStatus = "pending" ~> orderStatus # "pending"

(* An order cooked for money that never comes is not cooked for ever. *)
Unpaid == /\ money.method # "cod" /\ money.status \in {"pending", "failed"}
          /\ orderStatus \in {"confirmed", "preparing"}

UnpaidIsSettled == Unpaid ~> ~Unpaid
=============================================================================
