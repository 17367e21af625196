----------------------------- MODULE OrderTables -----------------------------
(* The statuses of an order, of its items, of its rider job and of its payment,
   and the tables that say which status may follow which. Nothing here has a
   state: the modules that move orders consult these tables.

   An item and its order share most status names; an order can also be
   "completed" or "refunded". A job status is the delivery row's, with "none"
   for an order that has no delivery row yet. *)
EXTENDS Integers, Sequences

ItemStatuses == {"pending", "confirmed", "preparing", "ready", "dispatched",
                 "in_transit", "delivered", "delivery_failed", "cancelled"}

OrderStatuses == ItemStatuses \union {"completed", "refunded"}

PaymentStatuses == {"pending", "payment_submitted", "paid", "disputed",
                    "failed", "refund_pending", "refunded"}

JobStatuses == {"none", "pending", "assigned", "arrived_at_pickup",
                "picked_up", "in_transit", "arrived_at_customer",
                "delivered", "delivery_failed", "cancelled"}

(* ITEM_TRANSITIONS: what a kitchen may do to one item by hand. Cancelling is
   absent on purpose, it goes through the handlers that restock. *)
ItemTransitions ==
  { <<"pending", "confirmed">>, <<"confirmed", "preparing">>,
    <<"preparing", "ready">>, <<"ready", "dispatched">>,
    <<"dispatched", "in_transit">>, <<"dispatched", "delivered">>,
    <<"dispatched", "delivery_failed">>,
    <<"in_transit", "delivered">>, <<"in_transit", "delivery_failed">> }

(* ORDER_FORWARD_SEQUENCE and isValidOrderStatusTransition: an admin moves an
   order exactly one step forward, or reports that its delivery failed.
   Cancelled and refunded are refused before the table is consulted. *)
OrderForwardSequence == <<"pending", "confirmed", "preparing", "ready",
                          "dispatched", "in_transit", "delivered", "completed">>

IsOrderStep(from, to) ==
  \/ \E k \in 1 .. Len(OrderForwardSequence) - 1 :
       from = OrderForwardSequence[k] /\ to = OrderForwardSequence[k + 1]
  \/ to = "delivery_failed" /\ from \in {"dispatched", "in_transit"}

(* DELIVERY_TRANSITIONS: what a rider may do to a job they hold. *)
DeliveryTransitions ==
  { <<"assigned", "arrived_at_pickup">>, <<"assigned", "picked_up">>,
    <<"arrived_at_pickup", "picked_up">>, <<"arrived_at_pickup", "in_transit">>,
    <<"arrived_at_pickup", "delivery_failed">>,
    <<"picked_up", "in_transit">>, <<"picked_up", "delivery_failed">>,
    <<"in_transit", "arrived_at_customer">>, <<"in_transit", "delivered">>,
    <<"in_transit", "delivery_failed">>,
    <<"arrived_at_customer", "delivered">>,
    <<"arrived_at_customer", "delivery_failed">> }

(* ACTIVE_DELIVERY_STATUSES: held by a rider and not finished. *)
ActiveJob == {"assigned", "arrived_at_pickup", "picked_up", "in_transit",
              "arrived_at_customer"}

BeforePickup == {"assigned", "arrived_at_pickup"}

KitchenReady == {"ready", "dispatched", "in_transit"}

(* ORDER_CLOSED_FOR_DELIVERY: no rider job is posted for such an order. *)
ClosedForDelivery == {"cancelled", "refunded", "delivered", "completed"}

(* Slip: the job's status is written to the order as it is. *)
PushedOrderStatus_AsIs(jobStatus) == jobStatus

(* ORDER_STATUS_FOR_DELIVERY_STATUS: the order status a job status pushes the
   order to; a rider who arrives at the kitchen pushes it nowhere. *)
PushedOrderStatus(jobStatus) ==
  CASE jobStatus = "picked_up" -> "dispatched"
    [] jobStatus \in {"in_transit", "arrived_at_customer"} -> "in_transit"
    [] jobStatus \in {"delivered", "delivery_failed"} -> jobStatus
    [] OTHER -> "none"

(* refuseDeliveryMove: why a rider cannot make this move now, judged from the
   order's status and payment. *)
MoveRefused(from, to, order, cash, payment) ==
  \/ order \in {"cancelled", "refunded", "completed"}
  \/ payment \in {"refund_pending", "refunded"}
  \/ /\ to \in {"picked_up", "in_transit"} /\ from # "picked_up"
     /\ order \notin KitchenReady
  \/ /\ to = "delivery_failed" /\ from = "arrived_at_pickup"
     /\ order \notin KitchenReady
  \/ to = "picked_up" /\ ~cash /\ payment # "paid"

(* Orders the three cancelling paths accept. *)
AdminCancellable == {"pending", "confirmed", "preparing", "delivery_failed"}
Rejectable       == {"pending", "confirmed", "preparing", "ready"}
ItemCancellable  == {"pending", "confirmed", "preparing"}

(* Orders processRefund refuses: still in flight, to be cancelled instead. *)
InFlight == {"pending", "confirmed", "preparing", "ready", "dispatched",
             "in_transit"}
=============================================================================
