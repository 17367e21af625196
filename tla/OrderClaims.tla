----------------------------- MODULE OrderClaims -----------------------------
(* What the documents, comments and messages in the code say of an order, where
   the handlers together do not keep it. The run ClaimRetryFailed refutes the first;
   README.md names an instance in which TLC refutes each of the others. *)
EXTENDS OrderProperties

(* "Only a failed delivery can be retried" (admin-order.service.ts:624): the
   retry that puts an order back to ready finds its delivery failed. *)
OnlyFailedIsRetried == [][RetryCommits => orderStatus = "delivery_failed"]_vars

(* "Wallet, Safepay / card: Nuray" (BUSINESS_RULES.md:207): what an order paid
   from the wallet or through the gateway brought in is Nuray's, not money a
   rider or a kitchen took at the door. *)
DoorMoneyIsCash ==
  money.method \in {"wallet", "online"} /\ money.paidAt
    => money.collectedBy = "platform"

(* "no double debit, no order marked paid without the money"
   (payment.service.ts:150): a paid order was paid exactly its total. *)
PaidIsTotal == money.paidAt => money.paid = money.total
=============================================================================
