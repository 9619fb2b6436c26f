---------------------------- MODULE SagaNotified ----------------------------
(***************************************************************************)
(* The saga with the notification service listening to all of its topics.  *)
(***************************************************************************)
EXTENDS Saga, NotificationService

allVars == <<vars, notificationVars>>

NotifiedInit == Init /\ NotificationInit

NotificationStep(A) == A /\ UNCHANGED <<orderVars, inventoryVars, paymentVars>>

NotifiedNext ==
    \/ NotificationStep(NotificationNext)
    \/ Next /\ UNCHANGED notificationVars

\* A record at the head of the group is offered until it has been handled.
NotificationFairness ==
    \A t \in NotificationTopics :
        WF_allVars(NotificationStep(HandleNotification(t, notificationHandled[t] + 1)))

-----------------------------------------------------------------------------
\* Every variable has its type.
NotifiedTypeOK == TypeOK /\ NotificationTypeOK

\* The complete timelines of an order, in whatever order the rows came.
Stories ==
    { {"OrderPlaced", "StockRejected"},
      {"OrderPlaced", "StockReserved", "PaymentCompleted"},
      {"OrderPlaced", "StockReserved", "PaymentFailed"} }

\* A timeline tells each fact once and never two stories at the same time.  The
\* topics are read independently, so any part of a story may come first.
OneStory ==
    \A o \in Orders :
        /\ IsInjective(notifications[o])
        /\ \E story \in Stories : Range(notifications[o]) \subseteq story

\* When the log is drained the timeline is complete and ends as the order page
\* says the order ended.
StoryMatchesStatus ==
    Quiescent /\ CaughtUp(notificationHandled) =>
        \A o \in Orders :
            Range(notifications[o]) =
                CASE status[o] \in {"NONE", "PENDING"} -> {}
                  [] status[o] = "REJECTED" -> {"OrderPlaced", "StockRejected"}
                  [] status[o] = "PAID" ->
                        {"OrderPlaced", "StockReserved", "PaymentCompleted"}
                  [] status[o] = "PAYMENT_FAILED" ->
                        {"OrderPlaced", "StockReserved", "PaymentFailed"}

(***************************************************************************)
(* The inductive invariant: a row tells of an event in the log, no two rows *)
(* of an order tell the same, and what the group has handled has its row.   *)
(***************************************************************************)
Told ==
    /\ \A o \in Orders :
          /\ IsInjective(notifications[o])
          /\ \A t \in Topics : Type(t) \in Range(notifications[o]) => o \in Announced(t)
    /\ \A t \in NotificationTopics : \A k \in 1..notificationHandled[t] :
          Type(t) \in Range(notifications[log[t][k].order])

\* Every event on the bus reaches the timeline of its order: again and again
\* there is nothing left to tell of it.
EveryEventTold ==
    \A o \in Orders :
        []<>(\A t \in Topics : o \in Announced(t) => Type(t) \in Range(notifications[o]))
=============================================================================
