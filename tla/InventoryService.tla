-------------------------- MODULE InventoryService --------------------------
(***************************************************************************)
(* The inventory service: the inventory schema and the consumer group      *)
(* "inventory", which reserves stock for OrderPlaced, announces the        *)
(* result, and gives the stock back on PaymentFailed.                      *)
(*                                                                         *)
(* HandleOrderPlaced is two steps, because the transaction commits before  *)
(* the result is published and the pod may die or lose its partition in    *)
(* between; emitting[pod] is what a pod between the two still has to       *)
(* publish.  The transaction is one step: the row locks on stock and the   *)
(* primary keys of processed_orders and reservations let only one          *)
(* transaction per order commit, and let it see every earlier one.         *)
(***************************************************************************)
EXTENDS EventLog

CONSTANTS InventoryPods,  \* pods that may be alive at once (rolling update)
          InitialStock    \* the seeded rows of stock: product -> available

ASSUME InitialStockAssumption ==
    /\ DOMAIN InitialStock \subseteq Products
    /\ InitialStock \in [DOMAIN InitialStock -> Nat]

VARIABLES available,        \* stock.available, per row
          reserved,         \* stock.reserved, per row
          processed,        \* processed_orders.result, "NONE" without a row
          reservations,     \* reservations: order -> product -> quantity
          emitting,         \* per pod: the result it has still to publish
          inventoryHandled  \* positions of group "inventory"

inventoryVars == <<available, reserved, processed, reservations, emitting,
                   inventoryHandled>>

InventoryTopics == { TopicOrdersPlaced, TopicPaymentsFailed }

StockRows == DOMAIN InitialStock

Results == {"NONE", "RESERVED", "REJECTED", "RELEASED"}

NoLines == [p \in Products |-> 0]

\* What a pod is doing with the record at offset k; Idle is nothing.
Idle == [offset |-> 0]

Emission(k, event, result) ==
    [offset |-> k, order |-> event.order, total |-> event.total, result |-> result]

Emissions == [offset : Nat \ {0}, order : Orders, total : Nat,
              result : Results \ {"NONE"}]

InventoryTypeOK ==
    /\ available \in [StockRows -> Nat]
    /\ reserved \in [StockRows -> Nat]
    /\ processed \in [Orders -> Results]
    /\ reservations \in [Orders -> Carts \cup {NoLines}]
    /\ emitting \in [InventoryPods -> {Idle} \cup Emissions]
    /\ \A pod \in InventoryPods :
          emitting[pod].offset <= Len(log[TopicOrdersPlaced])
    /\ PositionsOK(inventoryHandled, InventoryTopics)

InventoryInit ==
    /\ available = InitialStock
    /\ reserved = [p \in StockRows |-> 0]
    /\ processed = [o \in Orders |-> "NONE"]
    /\ reservations = [o \in Orders |-> NoLines]
    /\ emitting = [pod \in InventoryPods |-> Idle]
    /\ inventoryHandled = NothingHandled(InventoryTopics)

-----------------------------------------------------------------------------
(* OrderPlaced *)

\* A mutant of Sufficient: the row need only exist.
RowExists(cart) == \A p \in Products : cart[p] > 0 => p \in StockRows

\* Every line has a row of stock that covers it.
Sufficient(cart) ==
    \A p \in Products :
        cart[p] > 0 => p \in StockRows /\ cart[p] <= available[p]

\* Mutants of AlreadyProcessed: no lookup; a lookup of reservations only.
NeverProcessed(o)  == FALSE
AlreadyReserved(o) == processed[o] = "RESERVED"

\* GetProcessedOrder finds a row: the result is taken from it.
AlreadyProcessed(o) == processed[o] # "NONE"

\* ReserveStock and InsertReservation for every line, InsertProcessedOrder.
Reserve(o, cart) ==
    /\ Sufficient(cart)
    /\ available' = [p \in StockRows |-> available[p] - cart[p]]
    /\ reserved' = [p \in StockRows |-> reserved[p] + cart[p]]
    /\ reservations' = [reservations EXCEPT ![o] = cart]
    /\ processed' = [processed EXCEPT ![o] = "RESERVED"]

\* InsertProcessedOrder alone.
Reject(o, cart) ==
    /\ ~Sufficient(cart)
    /\ processed' = [processed EXCEPT ![o] = "REJECTED"]
    /\ UNCHANGED <<available, reserved, reservations>>

\* Another pod is still at work on the partition: this one was given it while
\* the other lives on (a rebalance, a rolling update).
TakenOver(pod) ==
    \E other \in InventoryPods \ {pod} : emitting[other] # Idle

\* handleOrderPlaced up to emit: look the order up, else reserve.
HandleOrderPlaced(pod, k) ==
    /\ emitting[pod] = Idle
    /\ k \in Deliverable(inventoryHandled, TopicOrdersPlaced)
    /\ LET event == log[TopicOrdersPlaced][k]
           o     == event.order
       IN  /\ \/ /\ AlreadyProcessed(o)
                 /\ UNCHANGED <<available, reserved, processed, reservations>>
              \/ /\ ~AlreadyProcessed(o)
                 /\ Reserve(o, event.items) \/ Reject(o, event.items)
           /\ emitting' = [emitting EXCEPT
                              ![pod] = Emission(k, event, processed'[o])]
    /\ Charge(Cost(\/ Redelivered(inventoryHandled, TopicOrdersPlaced, k)
                   \/ TakenOver(pod)))
    /\ UNCHANGED <<log, inventoryHandled>>

\* The event a result is announced by; a released order has nothing to announce.
Announce(e) ==
    \/ /\ e.result = "RESERVED"
       /\ Publish(TopicInventoryReserved, StockReserved(e.order, e.total))
    \/ /\ e.result = "REJECTED"
       /\ Publish(TopicInventoryRejected, StockRejected(e.order))
    \/ /\ e.result = "RELEASED"
       /\ UNCHANGED log

\* emit: one attempt to publish the result.  When it is acknowledged, or there
\* is nothing to publish, the handler returns nil.
Emit(pod, acked) ==
    /\ emitting[pod] # Idle
    /\ emitting[pod].result = "RELEASED" => acked
    /\ Announce(emitting[pod])
    /\ emitting' = IF acked THEN [emitting EXCEPT ![pod] = Idle] ELSE emitting
    /\ inventoryHandled' =
          IF acked THEN Handle(inventoryHandled, TopicOrdersPlaced, emitting[pod].offset)
          ELSE inventoryHandled
    /\ Charge(Cost(~acked))
    /\ UNCHANGED <<available, reserved, processed, reservations>>

\* The attempts run out, or the pod dies, before the result is out: the record
\* stays uncommitted and comes again.
EmitFails(pod) ==
    /\ emitting[pod] # Idle
    /\ emitting' = [emitting EXCEPT ![pod] = Idle]
    /\ Charge(1)
    /\ UNCHANGED <<log, available, reserved, processed, reservations,
                   inventoryHandled>>

-----------------------------------------------------------------------------
(* PaymentFailed *)

\* A mutant of Releasable: without AND result = 'RESERVED'.
EverReserved(o) == processed[o] \in {"RESERVED", "RELEASED"}

\* MarkOrderReleased affects a row only for a reserved order.
Releasable(o) == processed[o] = "RESERVED"

\* ReleaseStock for every line of the reservation; the table's CHECK refuses a
\* negative reserved.
Release(o) ==
    /\ \A p \in StockRows : reservations[o][p] <= reserved[p]
    /\ available' = [p \in StockRows |-> available[p] + reservations[o][p]]
    /\ reserved' = [p \in StockRows |-> reserved[p] - reservations[o][p]]
    /\ processed' = [processed EXCEPT ![o] = "RELEASED"]

\* handlePaymentFailed on the k-th event, one transaction, by an idle pod.
HandlePaymentFailed(k) ==
    /\ \E pod \in InventoryPods : emitting[pod] = Idle
    /\ k \in Deliverable(inventoryHandled, TopicPaymentsFailed)
    /\ LET o == log[TopicPaymentsFailed][k].order
       IN  \/ Releasable(o) /\ Release(o)
           \/ /\ ~Releasable(o)
              /\ UNCHANGED <<available, reserved, processed>>
    /\ inventoryHandled' = Handle(inventoryHandled, TopicPaymentsFailed, k)
    /\ Charge(Cost(Redelivered(inventoryHandled, TopicPaymentsFailed, k)))
    /\ UNCHANGED <<log, reservations, emitting>>

InventoryNext ==
    \/ \E pod \in InventoryPods :
          \/ \E k \in 1..Len(log[TopicOrdersPlaced]) : HandleOrderPlaced(pod, k)
          \/ \E acked \in BOOLEAN : Emit(pod, acked)
          \/ EmitFails(pod)
    \/ \E k \in 1..Len(log[TopicPaymentsFailed]) : HandlePaymentFailed(k)
=============================================================================
