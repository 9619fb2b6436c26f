------------------------ MODULE NotificationService ------------------------
(***************************************************************************)
(* The notification service: group "notification" listens to every topic   *)
(* and keeps at most one row per order and type, oldest first: the         *)
(* timeline of the order page.                                             *)
(***************************************************************************)
EXTENDS EventLog

VARIABLES notifications,        \* notifications[o]: the rows of o, oldest first
          notificationHandled   \* positions of group "notification"

notificationVars == <<notifications, notificationHandled>>

NotificationTopics == Topics

\* A mutant of Type: both answers of the inventory get the same type.
OneInventoryType(t) == CASE t = TopicOrdersPlaced      -> "OrderPlaced"
                         [] t = TopicInventoryReserved -> "StockReserved"
                         [] t = TopicInventoryRejected -> "StockReserved"
                         [] t = TopicPaymentsCompleted -> "PaymentCompleted"
                         [] t = TopicPaymentsFailed    -> "PaymentFailed"

\* The type of the notification an event of topic t becomes.
Type(t) == CASE t = TopicOrdersPlaced      -> "OrderPlaced"
             [] t = TopicInventoryReserved -> "StockReserved"
             [] t = TopicInventoryRejected -> "StockRejected"
             [] t = TopicPaymentsCompleted -> "PaymentCompleted"
             [] t = TopicPaymentsFailed    -> "PaymentFailed"

Types == { Type(t) : t \in Topics }

NotificationTypeOK ==
    /\ notifications \in [Orders -> Seq(Types)]
    /\ PositionsOK(notificationHandled, NotificationTopics)

NotificationInit ==
    /\ notifications = [o \in Orders |-> <<>>]
    /\ notificationHandled = NothingHandled(NotificationTopics)

\* Mutants of InsertNotification: no conflict clause; one row per order.
InsertAlways(o, type) == notifications' = [notifications EXCEPT ![o] = Append(@, type)]
InsertFirst(o, type) ==
    notifications' = IF notifications[o] # <<>> THEN notifications
                     ELSE [notifications EXCEPT ![o] = Append(@, type)]

\* INSERT ... ON CONFLICT (order_id, type) DO NOTHING.
InsertNotification(o, type) ==
    notifications' = IF type \in Range(notifications[o]) THEN notifications
                     ELSE [notifications EXCEPT ![o] = Append(@, type)]

\* Handle on the k-th event of topic t.
HandleNotification(t, k) ==
    /\ k \in Deliverable(notificationHandled, t)
    /\ InsertNotification(log[t][k].order, Type(t))
    /\ notificationHandled' = Handle(notificationHandled, t, k)
    /\ Charge(Cost(Redelivered(notificationHandled, t, k)))
    /\ UNCHANGED log

\* Server.ListNotifications: the rows of the order, oldest first, as they are.
ListNotifications(o) == notifications[o]

NotificationNext ==
    \E t \in NotificationTopics : \E k \in 1..Len(log[t]) : HandleNotification(t, k)
=============================================================================
