--------------------------- MODULE PaymentService ---------------------------
(***************************************************************************)
(* The payment service: a stateless consumer, group "payment", that        *)
(* answers every StockReserved with the outcome of a simulated payment.    *)
(* It remembers nothing, so it answers a redelivered record again.         *)
(***************************************************************************)
EXTENDS EventLog

CONSTANT Limits    \* the limits in cents the running pods were started with

ASSUME LimitsAssumption == Limits \subseteq Nat

VARIABLE paymentHandled    \* positions of group "payment"

paymentVars == <<paymentHandled>>

PaymentTopics == { TopicInventoryReserved }

PaymentTypeOK == PositionsOK(paymentHandled, PaymentTopics)

PaymentInit == paymentHandled = NothingHandled(PaymentTopics)

-----------------------------------------------------------------------------
\* The payment pods agree on the limit.
OneLimit == \A limit, other \in Limits : limit = other

\* Orders whose total exceeds the limit are declined.
Declined(total, limit) == total > limit

Answer(event, limit) ==
    IF Declined(event.total, limit)
    THEN Publish(TopicPaymentsFailed, PaymentFailed(event.order))
    ELSE Publish(TopicPaymentsCompleted, PaymentCompleted(event.order))

\* HandleStockReserved on the k-th event: one attempt to publish the answer.
\* Only an acknowledged one lets the group move on; after any other the
\* producer, or a pod that is handed the record again, repeats it.
HandleStockReserved(k, limit, acked) ==
    /\ k \in Deliverable(paymentHandled, TopicInventoryReserved)
    /\ Answer(log[TopicInventoryReserved][k], limit)
    /\ paymentHandled' = IF acked
                         THEN Handle(paymentHandled, TopicInventoryReserved, k)
                         ELSE paymentHandled
    /\ Charge(Cost(~acked)
              + Cost(Redelivered(paymentHandled, TopicInventoryReserved, k)))

PaymentNext ==
    \E k \in 1..Len(log[TopicInventoryReserved]), limit \in Limits,
       acked \in BOOLEAN : HandleStockReserved(k, limit, acked)
=============================================================================
