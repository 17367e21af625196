------------------------------ MODULE OrderMoney ------------------------------
(* The money of one order: how it is paid, its payment status, who holds the
   payment, its total, its refunds and what the order added to the customer's
   wallet (less than nothing when it was paid from there). The operators map
   one money record to the next; the order handlers apply them inside the
   transaction that holds the order row, so each is one step of the database.

   Prices stand for what the customer pays for an item, discount share and GST
   included, and Fee for the delivery fee of the order's one kitchen. *)
EXTENDS Integers, Sequences, FiniteSets, Functions

CONSTANTS Items,     \* the items of the order
          Price,     \* what the customer pays for each item
          Fee,       \* the delivery fee the customer pays
          PlacedWith \* the ways it may be paid when it is placed

Methods == {"cod", "wallet", "transfer", "online"}

ASSUME ItemsAssumption  == Items # {} /\ IsFiniteSet(Items)
ASSUME PriceAssumption  == Price \in [Items -> Nat \ {0}]
ASSUME FeeAssumption    == Fee \in Nat
ASSUME MethodAssumption == PlacedWith \subseteq Methods

RefundStatuses == {"pending", "completed", "failed"}

Worth(S) == SumFunctionOnSet(Price, S)

(* What the order's live items come to, delivery included. *)
PriceOf(S) == Worth(S) + Fee

(* Refunds that still count: everything not dismissed. *)
StandingRefunds(m) == {k \in DOMAIN m.refunds : m.refunds[k].status # "failed"}

PendingRefunds(m) == {k \in DOMAIN m.refunds : m.refunds[k].status = "pending"}

DismissedRefunds(m) == DOMAIN m.refunds \ StandingRefunds(m)

AmountOf(m, S) ==
  SumFunctionOnSet([k \in DOMAIN m.refunds |-> m.refunds[k].amount], S)

Standing(m) == AmountOf(m, StandingRefunds(m))

Lesser(a, b) == IF a < b THEN a ELSE b

(* isCashAtDoor: the order's money is still to be taken at the door. *)
CashAtDoor(m) == m.method = "cod" /\ m.status # "paid"

(* issueRefund: give back what was asked for, never more than what is left. A
   wallet is credited at once; any other refund waits for an admin to send it. *)
RefundableNow_OfTotal(m, asked) == Lesser(asked, m.total)   \* slip: earlier refunds

RefundableNow(m, asked) == Lesser(asked, m.total - Standing(m))

CanRefund(m, asked) ==
  m.status \in {"paid", "payment_submitted"} /\ RefundableNow(m, asked) > 0

CoversTotal(m, asked) == Standing(m) + RefundableNow(m, asked) >= m.total

Refunded(m, asked) ==
  LET amount == RefundableNow(m, asked)
      back   == m.method = "wallet"
      row    == [amount |-> amount, back |-> back,
                 status |-> IF back THEN "completed" ELSE "pending"]
      closed == IF back THEN "refunded" ELSE "refund_pending"
  IN  [m EXCEPT !.refunds = Append(@, row),
                !.wallet  = IF back THEN @ + amount ELSE @,
                !.status  = IF CoversTotal(m, asked) THEN closed ELSE @]

IssueRefund(m, asked) == IF CanRefund(m, asked) THEN Refunded(m, asked) ELSE m

RefundAll(m) == IssueRefund(m, m.total)

(* refundForCancelledItems: the order loses the items in gone and keeps those
   in kept. An unpaid order is priced again from what it keeps. *)
RefundCancelled(m, gone, kept) ==
  CASE kept = {} -> RefundAll(m)
    [] kept # {} /\ m.status \in {"pending", "failed", "disputed"} ->
         [m EXCEPT !.total = PriceOf(kept)]
    [] OTHER -> IssueRefund(m, Worth(gone))

(* completeRefundRecord: an admin has sent pending refund k. *)
RefundSent_AtOnce(m, k) ==   \* slip: the other pending refunds are not counted
  [m EXCEPT !.refunds[k].status = "completed",
            !.status = IF @ = "refund_pending" THEN "refunded" ELSE @]

RefundSent(m, k) ==
  LET sent == [m EXCEPT !.refunds[k].status = "completed"]
  IN  IF m.status = "refund_pending" /\ PendingRefunds(sent) = {}
      THEN [sent EXCEPT !.status = "refunded"] ELSE sent

(* dismissRefund: an admin decides refund k is not owed after all. The order
   leaves refund_pending only when no refund stands at all. *)
RefundDismissed(m, k) ==
  LET dropped == [m EXCEPT !.refunds[k].status = "failed"]
  IN  IF m.status = "refund_pending" /\ StandingRefunds(dropped) = {}
      THEN [dropped EXCEPT !.status = IF m.paidAt THEN "paid" ELSE "failed"]
      ELSE dropped

(* The collector takes amount for the order: money in hand from now on. *)
Taken(m, collector, amount) ==
  [m EXCEPT !.status = "paid", !.paidAt = TRUE, !.collectedBy = collector,
            !.paid = amount]

TakenBy(m, collector) == Taken(m, collector, m.total)

(* processPayment with cash, and from the wallet, which is debited by the total
   the request read before it claimed the order. *)
MethodOpen == {"pending", "failed"}

PutOnCash(m) == [m EXCEPT !.method = "cod", !.status = "pending"]

PaidFromWallet(m, amount) ==
  [Taken(m, "platform", amount) EXCEPT !.method = "wallet", !.wallet = @ - amount]

(* settleAttempt: a gateway session for amount was paid. Money an order does
   not need goes to the customer's wallet; money for an order that was called
   off is refunded. *)
Payable_Refunding == {"pending", "failed", "payment_submitted", "disputed",
                      "refund_pending"}   \* slip: money on its way back

Payable == {"pending", "failed", "payment_submitted", "disputed"}

IsNeeded(m, amount) == m.status \in Payable /\ amount >= m.total

Settled_Late(m, amount, calledOff) ==   \* slip: nobody asks if it was called off
  IF IsNeeded(m, amount)
  THEN [TakenBy(m, "platform") EXCEPT !.method = "online",
                                      !.wallet = @ + (amount - m.total)]
  ELSE [m EXCEPT !.wallet = @ + amount]

Settled(m, amount, calledOff) ==
  LET taken == [TakenBy(m, "platform") EXCEPT !.method = "online",
                                              !.wallet = @ + (amount - m.total)]
  IN  CASE ~IsNeeded(m, amount) -> [m EXCEPT !.wallet = @ + amount]
        [] IsNeeded(m, amount) /\ calledOff -> RefundAll(taken)
        [] OTHER -> taken

(* Placement: a wallet order is paid as it is placed, any other is not. *)
MoneyAtPlacement(method) ==
  LET unpaid == [method |-> method, status |-> "pending", paidAt |-> FALSE,
                 collectedBy |-> "none", paid |-> 0, total |-> PriceOf(Items),
                 refunds |-> <<>>, wallet |-> 0]
  IN  IF method = "wallet" THEN PaidFromWallet(unpaid, unpaid.total) ELSE unpaid

Collectors == {"none", "platform", "seller", "rider"}

IsRefund(r) ==
  r.amount \in Nat \ {0} /\ r.back \in BOOLEAN /\ r.status \in RefundStatuses

MoneyTypeOK(m, statuses) ==
  /\ DOMAIN m = {"method", "status", "paidAt", "collectedBy", "paid", "total",
                 "refunds", "wallet"}
  /\ m.method \in Methods /\ m.status \in statuses
  /\ m.paidAt \in BOOLEAN /\ m.collectedBy \in Collectors
  /\ m.paid \in Nat /\ m.total \in Nat /\ m.wallet \in Int
  /\ \A k \in DOMAIN m.refunds : IsRefund(m.refunds[k])
=============================================================================
