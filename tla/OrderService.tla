---------------------------- MODULE OrderService ----------------------------
(***************************************************************************)
(* The order service: the orders schema, PlaceOrder, and the consumer of   *)
(* the terminal events, group "order-status".                              *)
(*                                                                         *)
(* PlaceOrder answers after two separate steps: the database transaction,  *)
(* after which the order exists, and the publication of OrderPlaced.  Each *)
(* request runs in its own goroutine, so between the two anything else may *)
(* happen, the death of the pod included; `publishing' holds the orders    *)
(* whose request is between the two.                                       *)
(***************************************************************************)
EXTENDS EventLog

CONSTANT Prices    \* the catalogue: the products on sale and their cents

ASSUME PricesAssumption == /\ DOMAIN Prices \subseteq Products /\ IsFiniteSet(DOMAIN Prices)
                           /\ Prices \in [DOMAIN Prices -> Nat]

VARIABLES status,        \* orders.status, "NONE" while there is no such row
          items,         \* order_items of an order
          publishing,    \* committed orders whose event is not out yet
          orderHandled   \* positions of group "order-status"

orderVars == <<status, items, publishing, orderHandled>>

OrderTopics == { TopicPaymentsCompleted, TopicPaymentsFailed,
                 TopicInventoryRejected }

EmptyCart == [p \in Products |-> 0]

Lines(cart) == { p \in Products : cart[p] > 0 }

\* The total of a priced cart: quantity times unit price over its lines.
Total(cart) ==
    MapThenSumSet(LAMBDA p : cart[p] * Prices[p], Lines(cart))

\* A cart can be priced when the catalogue has every product in it.
Priced(cart) == Lines(cart) \subseteq DOMAIN Prices

OrderTypeOK ==
    /\ status \in [Orders -> {"NONE", "PENDING", "PAID", "PAYMENT_FAILED", "REJECTED"}]
    /\ items \in [Orders -> Carts \cup {EmptyCart}]
    /\ publishing \subseteq Orders
    /\ PositionsOK(orderHandled, OrderTopics)

OrderInit ==
    /\ status = [o \in Orders |-> "NONE"]
    /\ items = [o \in Orders |-> EmptyCart]
    /\ publishing = {}
    /\ orderHandled = NothingHandled(OrderTopics)

-----------------------------------------------------------------------------
\* PlaceOrder up to and including the commit of the order and its items.
PlaceOrder(o, cart) ==
    /\ status[o] = "NONE"
    /\ Priced(cart)
    /\ status' = [status EXCEPT ![o] = "PENDING"]
    /\ items' = [items EXCEPT ![o] = cart]
    /\ publishing' = publishing \cup {o}
    /\ UNCHANGED <<log, faults, orderHandled>>

\* One attempt of publishOrderPlaced.  Unless it is acknowledged the producer
\* tries again, although the record may have reached the log.
PublishOrderPlaced(o, acked) ==
    /\ o \in publishing
    /\ Publish(TopicOrdersPlaced, OrderPlaced(o, items[o], Total(items[o])))
    /\ publishing' = IF acked THEN publishing \ {o} ELSE publishing
    /\ Charge(Cost(~acked))
    /\ UNCHANGED <<status, items, orderHandled>>

\* The attempts run out, the request is cancelled or the pod dies: the error
\* is logged at most, and nobody publishes this event later.
DropOrderPlaced(o) ==
    /\ o \in publishing
    /\ publishing' = publishing \ {o}
    /\ Charge(1)
    /\ UNCHANGED <<log, status, items, orderHandled>>

-----------------------------------------------------------------------------
\* A mutant of NewStatus: a failed payment rejects the order.
FailedIsRejected(t) == IF t = TopicPaymentsCompleted THEN "PAID" ELSE "REJECTED"

\* The status an event of topic t stands for.
NewStatus(t) == CASE t = TopicPaymentsCompleted -> "PAID"
                  [] t = TopicPaymentsFailed    -> "PAYMENT_FAILED"
                  [] t = TopicInventoryRejected -> "REJECTED"

\* UPDATE orders SET status = $2 WHERE id = $1: no test of the old status, and
\* no row, no update.
UpdateOrderStatus(o, new) ==
    status' = [status EXCEPT ![o] = IF @ = "NONE" THEN @ ELSE new]

\* StatusHandler.Handle on the k-th event of topic t.
HandleStatus(t, k) ==
    /\ k \in Deliverable(orderHandled, t)
    /\ UpdateOrderStatus(log[t][k].order, NewStatus(t))
    /\ orderHandled' = Handle(orderHandled, t, k)
    /\ Charge(Cost(Redelivered(orderHandled, t, k)))
    /\ UNCHANGED <<log, items, publishing>>

OrderNext ==
    \/ \E o \in Orders, cart \in Carts : PlaceOrder(o, cart)
    \/ \E o \in Orders, acked \in BOOLEAN : PublishOrderPlaced(o, acked)
    \/ \E o \in Orders : DropOrderPlaced(o)
    \/ \E t \in OrderTopics : \E k \in 1..Len(log[t]) : HandleStatus(t, k)
=============================================================================
