------------------------------ MODULE EventLog ------------------------------
(***************************************************************************)
(* The bus the services share: the topics of pkg/events, the payloads of   *)
(* proto/events, and what pkg/kafka promises a producer and a handler.     *)
(*                                                                         *)
(* A topic has one partition, so it is one append-only sequence of events. *)
(* A producer appends; it may append and yet see an error, and then it     *)
(* appends again (Producer.Publish retries with a fresh record).  For each *)
(* consumer group a function `handled' gives the length of the prefix of   *)
(* every topic whose handler has returned nil at least once.  The group    *)
(* offers a handler any record up to the first unhandled one: a record     *)
(* behind that point comes again when a batch was not committed before a   *)
(* crash or when a pod that lost its partition is still working on it.     *)
(*                                                                         *)
(* Everything that departs from one record, one handling costs one unit of *)
(* the budget MaxFaults, the bound that keeps the log finite.              *)
(***************************************************************************)
EXTENDS Integers, Sequences, FiniteSetsExt

CONSTANTS Orders,     \* the ids the order database may hand out
          Products,   \* product ids
          Carts,      \* the aggregated carts customers check out
          MaxFaults   \* how many faults a behaviour may contain

\* A cart gives every product its quantity, 0 when the product is not in it.
ASSUME CartsAssumption ==
    \A cart \in Carts : /\ cart \in [Products -> Nat]
                        /\ \E p \in Products : cart[p] > 0

ASSUME MaxFaultsAssumption == MaxFaults \in Nat

VARIABLES log,      \* log[t] is the sequence of events of topic t
          faults    \* faults spent so far

TopicOrdersPlaced      == "orders.placed"
TopicPaymentsCompleted == "payments.completed"
TopicPaymentsFailed    == "payments.failed"
TopicInventoryReserved == "inventory.reserved"
TopicInventoryRejected == "inventory.rejected"

Topics == { TopicOrdersPlaced, TopicPaymentsCompleted, TopicPaymentsFailed,
            TopicInventoryReserved, TopicInventoryRejected }

\* The payloads; names, reasons and time stamps are left out.
OrderPlaced(o, cart, total) == [order |-> o, items |-> cart, total |-> total]
StockReserved(o, total)     == [order |-> o, total |-> total]
StockRejected(o)            == [order |-> o]
PaymentCompleted(o)         == [order |-> o]
PaymentFailed(o)            == [order |-> o]

Events(t) ==
    IF t = TopicOrdersPlaced THEN [order : Orders, items : Carts, total : Nat]
    ELSE IF t = TopicInventoryReserved THEN [order : Orders, total : Nat]
    ELSE [order : Orders]

LogTypeOK ==
    /\ DOMAIN log = Topics
    /\ \A t \in Topics : log[t] \in Seq(Events(t))
    /\ faults \in 0..MaxFaults

LogInit ==
    /\ log = [t \in Topics |-> <<>>]
    /\ faults = 0

-----------------------------------------------------------------------------
(* Producing *)

Publish(t, event) == log' = [log EXCEPT ![t] = Append(@, event)]

\* The events of a topic, and the orders they are about.
Published(t) == Range(log[t])
Announced(t) == { e.order : e \in Published(t) }

(* Consuming *)

\* The offsets a group with these positions may be offered.
Deliverable(handled, t) ==
    { k \in 1..Len(log[t]) : k <= handled[t] + 1 }

\* Whether offset k has been handled before.
Redelivered(handled, t, k) == k <= handled[t]

\* A mutant of Handle: everything fetched counts as handled.
HandleAll(handled, t, k) == [handled EXCEPT ![t] = Len(log[t])]

\* The positions after the handler of offset k has returned nil.
Handle(handled, t, k) ==
    [handled EXCEPT ![t] = IF k > @ THEN k ELSE @]

\* The positions of a group on its topics never run ahead of the log.
PositionsOK(handled, topics) ==
    /\ handled \in [topics -> Nat]
    /\ \A t \in topics : handled[t] <= Len(log[t])

NothingHandled(topics) == [t \in topics |-> 0]

CaughtUp(handled) == \A t \in DOMAIN handled : handled[t] = Len(log[t])

(* Faults *)

Charge(n) ==
    /\ faults + n <= MaxFaults
    /\ faults' = faults + n

\* What a record handled again and a publication without answer cost.
Cost(fault) == IF fault THEN 1 ELSE 0
=============================================================================
