-------------------------------- MODULE Saga --------------------------------
(***************************************************************************)
(* The checkout saga: order, inventory and payment service around the log. *)
(* A step is a step of one service; the services share nothing but the log *)
(* (each has a database schema of its own).  Notifications only listen and *)
(* are composed in SagaNotified.                                           *)
(***************************************************************************)
EXTENDS OrderService, InventoryService, PaymentService

vars == <<log, faults, orderVars, inventoryVars, paymentVars>>

OrderStep(A)     == A /\ UNCHANGED <<inventoryVars, paymentVars>>
InventoryStep(A) == A /\ UNCHANGED <<orderVars, paymentVars>>
PaymentStep(A)   == A /\ UNCHANGED <<orderVars, inventoryVars>>

Init ==
    /\ LogInit
    /\ OrderInit
    /\ InventoryInit
    /\ PaymentInit

\* Nobody has anything left to publish or to handle.
Quiescent ==
    /\ publishing = {}
    /\ \A pod \in InventoryPods : emitting[pod] = Idle
    /\ CaughtUp(orderHandled)
    /\ CaughtUp(inventoryHandled)
    /\ CaughtUp(paymentHandled)

\* Waiting for the next request is the only way to stop: a deadlock is a state
\* with work left that no service can do.
Rest == Quiescent /\ UNCHANGED vars

Next ==
    \/ OrderStep(OrderNext)
    \/ InventoryStep(InventoryNext)
    \/ PaymentStep(PaymentNext)
    \/ Rest

Spec == Init /\ [][Next]_vars

(***************************************************************************)
(* Fairness.  A request that is not cut off publishes its event; a record  *)
(* at the head of a group is offered again until some pod has handled it,  *)
(* because offsets are committed after the handler and a pod that exits is *)
(* restarted; a handler that is let run ends.  Customers owe nothing.      *)
(***************************************************************************)
Fairness ==
    /\ \A o \in Orders :
          WF_vars(OrderStep(PublishOrderPlaced(o, TRUE)))
    /\ \A t \in OrderTopics :
          WF_vars(OrderStep(HandleStatus(t, orderHandled[t] + 1)))
    /\ WF_vars(InventoryStep(\E pod \in InventoryPods :
          HandleOrderPlaced(pod, inventoryHandled[TopicOrdersPlaced] + 1)))
    /\ \A pod \in InventoryPods :
          WF_vars(InventoryStep(Emit(pod, TRUE)))
    /\ WF_vars(InventoryStep(
          HandlePaymentFailed(inventoryHandled[TopicPaymentsFailed] + 1)))
    /\ WF_vars(PaymentStep(\E limit \in Limits :
          HandleStockReserved(paymentHandled[TopicInventoryReserved] + 1, limit, TRUE)))

FairSpec == Spec /\ Fairness

-----------------------------------------------------------------------------
(* Properties *)

\* Every variable has its type.
TypeOK == LogTypeOK /\ OrderTypeOK /\ InventoryTypeOK /\ PaymentTypeOK

TerminalTopics == OrderTopics

Terminal == { NewStatus(t) : t \in TerminalTopics }

\* The events of an order never contradict each other: whatever is redelivered
\* or published twice, at most one of paid, declined and rejected is announced.
\* Order and notification service apply such events in any order, so they rely
\* on it.
OneOutcome ==
    \A o \in Orders : \A t, u \in TerminalTopics :
        o \in Announced(t) \cap Announced(u) => t = u

\* The units of product p that the reservations still in force hold.
Held(p) ==
    MapThenSumSet(LAMBDA o : reservations[o][p],
                  { o \in Orders : processed[o] = "RESERVED" })

\* No unit of stock is lost or invented: what is not available is reserved, and
\* what is reserved is exactly what orders with a reservation in force hold.
\* Reserving twice, releasing twice, and releasing for a rejected order all
\* break it.
StockConserved ==
    \A p \in StockRows : /\ reserved[p] = Held(p)
                         /\ available[p] + reserved[p] = InitialStock[p]

\* The half of StockConserved that needs no sum over orders.
NoUnitLost ==
    \A p \in StockRows : available[p] + reserved[p] = InitialStock[p]

\* The order service and the inventory service, which share no database, agree:
\* the goods of an order shown as paid are reserved and are never given back,
\* and no stock stays with an order shown as rejected.
PaidKeepsStock ==
    \A o \in Orders : /\ status[o] = "PAID" => processed[o] = "RESERVED"
                      /\ status[o] = "REJECTED" => processed[o] = "REJECTED"
                      /\ processed[o] = "RELEASED" => status[o] # "PAID"

\* When the log is drained, every order whose event was published has its final
\* status and its stock is where that status says; any other order is PENDING
\* and holds nothing.
AgreementAtRest ==
    Quiescent => \A o \in Orders :
        <<status[o], processed[o]>> \in
            IF o \in Announced(TopicOrdersPlaced)
            THEN { <<"PAID", "RESERVED">>, <<"PAYMENT_FAILED", "RELEASED">>,
                   <<"REJECTED", "REJECTED">> }
            ELSE { <<"NONE", "NONE">>, <<"PENDING", "NONE">> }

\* The status the customer polls for, once final, never changes again, although
\* the update tests nothing and every event may come again at any later time.
TerminalStatusFinal ==
    [][\A o \in Orders : status[o] \in Terminal => status'[o] = status[o]]_vars

\* An order whose OrderPlaced is in the log gets its final status.
PublishedOrderSettles ==
    \A o \in Orders : o \in Announced(TopicOrdersPlaced) ~> status[o] \in Terminal

\* Every order that was placed gets its final status.  It does not hold: the
\* event of a committed order is published only by the request that placed it.
PlacedOrderSettles ==
    \A o \in Orders : status[o] = "PENDING" ~> status[o] \in Terminal

(***************************************************************************)
(* The inductive invariant.  Every event, every result on its way and every *)
(* status is backed by the row or the event that caused it, and these rows  *)
(* and events never go away; the payments are tied together by the total    *)
(* they were computed from.                                                 *)
(***************************************************************************)
Granted(o) == processed[o] \in {"RESERVED", "RELEASED"}

\* An order comes before its events and before its stock.
OrderFirst ==
    \A o \in Orders :
        /\ status[o] # "NONE" => items[o] \in Carts /\ Priced(items[o])
        /\ o \in publishing \/ processed[o] # "NONE" => status[o] # "NONE"

PlacedBacked ==
    \A e \in Published(TopicOrdersPlaced) :
        /\ status[e.order] # "NONE"
        /\ e.items = items[e.order]
        /\ e.total = Total(items[e.order])

\* A result on its way is the one its order has, or had before a release.
Supported(e) ==
    /\ processed[e.order] # "NONE"
    /\ e.total = Total(items[e.order])
    /\ e.result = "RESERVED" => Granted(e.order)
    /\ e.result = "REJECTED" => processed[e.order] = "REJECTED"

ResultBacked ==
    \A pod \in InventoryPods : emitting[pod] # Idle => Supported(emitting[pod])

StockEventsBacked ==
    /\ \A e \in Published(TopicInventoryReserved) :
          Granted(e.order) /\ e.total = Total(items[e.order])
    /\ \A e \in Published(TopicInventoryRejected) : processed[e.order] = "REJECTED"

PaymentsBacked ==
    /\ \A e \in Published(TopicPaymentsCompleted) :
          /\ Granted(e.order)
          /\ \E limit \in Limits : ~Declined(Total(items[e.order]), limit)
    /\ \A e \in Published(TopicPaymentsFailed) :
          /\ Granted(e.order)
          /\ \E limit \in Limits : Declined(Total(items[e.order]), limit)

StatusBacked ==
    \A o \in Orders :
        /\ \A t \in OrderTopics : status[o] = NewStatus(t) => o \in Announced(t)
        /\ processed[o] = "RELEASED" => o \in Announced(TopicPaymentsFailed)

\* Nothing is announced, shown or released without its cause.
Backed ==
    /\ OrderFirst
    /\ PlacedBacked
    /\ ResultBacked
    /\ StockEventsBacked
    /\ PaymentsBacked
    /\ StatusBacked

IInv == TypeOK /\ Backed /\ NoUnitLost

(***************************************************************************)
(* The inductive invariant of AgreementAtRest.  A group moves past a record *)
(* only when its work is in the rows or in the log, and nothing undoes it;  *)
(* so when every group has reached the end, the work of every record is.    *)
(***************************************************************************)

\* A result comes from an OrderPlaced, a payment from a StockReserved.
Sources ==
    /\ \A o \in Orders : processed[o] # "NONE" => o \in Announced(TopicOrdersPlaced)
    /\ Announced(TopicPaymentsCompleted) \cup Announced(TopicPaymentsFailed)
          \subseteq Announced(TopicInventoryReserved)

\* A result on its way belongs to a record that is, at the latest, the next one
\* of its group.
EmissionsFollow ==
    \A pod \in InventoryPods : emitting[pod] # Idle =>
        /\ emitting[pod].offset <= inventoryHandled[TopicOrdersPlaced] + 1
        /\ emitting[pod].order = log[TopicOrdersPlaced][emitting[pod].offset].order
        /\ emitting[pod].result = "RELEASED" =>
              processed[emitting[pod].order] = "RELEASED"

\* The inventory service has a result for the order and has announced it.
Answered(o) ==
    /\ processed[o] # "NONE"
    /\ Granted(o) => o \in Announced(TopicInventoryReserved)
    /\ processed[o] = "REJECTED" => o \in Announced(TopicInventoryRejected)

HandledDone ==
    /\ \A k \in 1..inventoryHandled[TopicOrdersPlaced] :
          Answered(log[TopicOrdersPlaced][k].order)
    /\ \A k \in 1..paymentHandled[TopicInventoryReserved] :
          log[TopicInventoryReserved][k].order \in
              Announced(TopicPaymentsCompleted) \cup Announced(TopicPaymentsFailed)
    /\ \A k \in 1..inventoryHandled[TopicPaymentsFailed] :
          processed[log[TopicPaymentsFailed][k].order] = "RELEASED"
    /\ \A t \in OrderTopics : \A k \in 1..orderHandled[t] :
          status[log[t][k].order] = NewStatus(t)

RestInv == Sources /\ EmissionsFollow /\ HandledDone

(* Refinement *)

\* Where the order is in its life, read from the inventory schema and the log.
Phase(o) ==
    CASE status[o] = "NONE"           -> "none"
      [] processed[o] = "REJECTED"    -> "refused"
      [] processed[o] = "RELEASED"    -> "returned"
      [] processed[o] = "RESERVED"    ->
            IF o \in Announced(TopicPaymentsCompleted) THEN "paid"
            ELSE IF o \in Announced(TopicPaymentsFailed) THEN "declined"
            ELSE "held"
      [] OTHER                        -> "placed"

Lifecycle == INSTANCE OrderLifecycle
    WITH phase <- [o \in Orders |-> Phase(o)], demand <- items,
         stock <- available, shown <- status

\* The three services and the log implement the life of an order: what is held is
\* paid for or declined, what is declined goes back, and the customer is shown it.
LifecycleLive == Lifecycle!LiveSpec
=============================================================================
