-------------------------- MODULE OrderPageProofs --------------------------
(***************************************************************************)
(* What the storefront tells a customer of an order is true: the timeline  *)
(* of the notification service, the status of the order service, and the   *)
(* page that shows the two, read at different moments, next to each other. *)
(***************************************************************************)
EXTENDS OrderPage, SagaProofs

-----------------------------------------------------------------------------
(* The saga underneath *)

\* The services do not read the budget of faults.
LEMMA FaultsUnread ==
    ASSUME IInv, UNCHANGED <<log, orderVars, inventoryVars, paymentVars>>,
           faults' \in 0..MaxFaults
    PROVE  IInv'
<1> USE DEF orderVars, inventoryVars, paymentVars
<1>1. /\ LogTypeOK /\ OrderTypeOK /\ InventoryTypeOK /\ PaymentTypeOK
      /\ OrderFirst /\ PlacedBacked /\ ResultBacked /\ StockEventsBacked
      /\ PaymentsBacked /\ StatusBacked /\ NoUnitLost
  BY DEF IInv, TypeOK, Backed
<1>2. Grows /\ \A t : Published(t)' = Published(t) /\ Announced(t)' = Announced(t)
  BY <1>1, SameLog
<1>3. LogTypeOK'
  BY <1>1 DEF LogTypeOK
<1>4. TypeOK'
  BY <1>1, <1>2, <1>3, OrderTypeKept, InventoryTypeKept, PaymentTypeKept DEF TypeOK
<1>5. OrderFirst' /\ PlacedBacked' /\ StockEventsBacked' /\ PaymentsBacked'
  BY <1>1, <1>2
  DEF OrderFirst, PlacedBacked, StockEventsBacked, PaymentsBacked, Granted
<1>6. ResultBacked' /\ NoUnitLost'
  BY <1>1 DEF ResultBacked, Supported, Granted, NoUnitLost
<1>7. StatusBacked'
  BY <1>1, <1>2 DEF StatusBacked
<1> QED
  BY <1>4, <1>5, <1>6, <1>7 DEF IInv, Backed

LEMMA FaultsUnreadAtRest ==
    ASSUME RestInv, UNCHANGED <<log, orderVars, inventoryVars, paymentVars>>
    PROVE  RestInv'
<1> USE DEF orderVars, inventoryVars, paymentVars
<1>1. \A t : Published(t)' = Published(t) /\ Announced(t)' = Announced(t)
  BY DEF Published, Announced
<1>2. Sources' /\ EmissionsFollow'
  BY <1>1 DEF RestInv, Sources, EmissionsFollow
<1>3. HandledDone'
  BY <1>1 DEF RestInv, HandledDone, Answered, Granted
<1> QED
  BY <1>2, <1>3 DEF RestInv

\* A step of the whole is one of the saga, or one the saga does not notice.
Unnoticed == /\ UNCHANGED <<log, orderVars, inventoryVars, paymentVars>>
             /\ faults' \in 0..MaxFaults

LEMMA TwoKindsOfStep ==
    ASSUME IInv, [PageNext]_pageVars
    PROVE  Unnoticed \/ [Next]_vars
<1>1. LogTypeOK
  BY DEF IInv, TypeOK
<1>2. faults \in 0..MaxFaults
  BY <1>1 DEF LogTypeOK
<1>3. CASE NotificationStep(NotificationNext)
  <2>1. PICK b : Charge(Cost(b)) /\ UNCHANGED <<log, orderVars, inventoryVars, paymentVars>>
    BY <1>3 DEF NotificationStep, NotificationNext, HandleNotification
  <2> QED
    BY <1>1, <2>1, CostNat, Charging DEF Unnoticed
<1>4. CASE \E o \in Orders : PollFails(o)
  <2>1. Charge(1) /\ UNCHANGED <<log, orderVars, inventoryVars, paymentVars>>
    BY <1>4 DEF PollFails
  <2> QED
    BY <1>1, <2>1, Charging DEF Unnoticed
<1>5. CASE UNCHANGED vars
  BY <1>2, <1>5 DEF Unnoticed, vars
<1>6. CASE Next
  BY <1>6
<1> QED
  BY <1>3, <1>4, <1>5, <1>6
  DEF PageNext, NotifiedNext, Open, GetOrder, GetNotifications, Show, Leave, pageVars,
      allVars

\* What the parts that only look on may rely on.
LEMMA SagaKeeps ==
    ASSUME IInv, [PageNext]_pageVars
    PROVE  /\ IInv'
           /\ \A t \in Topics :
                 /\ Len(log[t]) \in Nat /\ Len(log'[t]) \in Nat
                 /\ Len(log[t]) <= Len(log'[t])
                 /\ \A k \in 1..Len(log[t]) : log'[t][k] = log[t][k]
                 /\ Announced(t) \subseteq Announced(t)'
           /\ \A o \in Orders : status[o] # "NONE" => status'[o] # "NONE"
<1>1. /\ \A t \in Topics : Len(log[t]) \in Nat
      /\ status \in [Orders -> {"NONE", "PENDING", "PAID", "PAYMENT_FAILED", "REJECTED"}]
  BY DEF IInv, TypeOK, LogTypeOK, OrderTypeOK
<1>2. CASE Unnoticed
  <2>1. IInv'
    BY <1>2, FaultsUnread DEF Unnoticed
  <2>2. UNCHANGED <<log, status>> /\ \A t : Announced(t)' = Announced(t)
    BY <1>2 DEF Unnoticed, orderVars, Announced, Published
  <2> QED
    BY <1>1, <2>1, <2>2
<1>3. CASE [Next]_vars
  <2>1. IInv'
    BY <1>3, NextIInv
  <2>2. \A o \in Orders : status[o] # "NONE" => status'[o] # "NONE"
    <3>1. CASE OrderStep(\E t \in OrderTopics : \E k \in 1..Len(log[t]) : HandleStatus(t, k))
      <4>1. \E q, new : /\ new \in {"PAID", "PAYMENT_FAILED", "REJECTED"}
                        /\ UpdateOrderStatus(q, new)
        BY <3>1, StatusFacts DEF OrderStep, HandleStatus
      <4> QED
        BY <1>1, <4>1 DEF UpdateOrderStatus
    <3>2. CASE OrderStep(\E q \in Orders, cart \in Carts : PlaceOrder(q, cart))
      BY <1>1, <3>2 DEF OrderStep, PlaceOrder
    <3>3. CASE UNCHANGED status
      BY <3>3
    <3> QED
      BY <1>3, <3>1, <3>2, <3>3
      DEF Next, OrderStep, OrderNext, PublishOrderPlaced, DropOrderPlaced, InventoryStep,
          PaymentStep, Rest, vars, orderVars
  <2> QED
    BY <1>3, <2>1, <2>2, LogKept
<1> QED
  BY <1>2, <1>3, TwoKindsOfStep

\* And what it may rely on when the payment pods agree on their limit.
LEMMA SagaDecides ==
    ASSUME OneLimit, IInv, RestInv, [PageNext]_pageVars
    PROVE  /\ RestInv'
           /\ \A o \in Orders : status[o] \in Terminal => status'[o] = status[o]
<1>1. CASE Unnoticed
  BY <1>1, FaultsUnreadAtRest DEF Unnoticed, orderVars
<1>2. CASE [Next]_vars
  BY <1>2, NextIInv, NextRestInv, FinalKept
<1> QED
  BY <1>1, <1>2, TwoKindsOfStep

-----------------------------------------------------------------------------
(* The timelines *)

\* Every topic has a type of its own.
LEMMA TypeFacts ==
    /\ Type(TopicOrdersPlaced) = "OrderPlaced"
    /\ Type(TopicInventoryReserved) = "StockReserved"
    /\ Type(TopicInventoryRejected) = "StockRejected"
    /\ Type(TopicPaymentsCompleted) = "PaymentCompleted"
    /\ Type(TopicPaymentsFailed) = "PaymentFailed"
    /\ \A t, u \in Topics : Type(t) = Type(u) => t = u
    /\ \A t \in Topics : Type(t) \in Types
    /\ Types = {"OrderPlaced", "StockReserved", "StockRejected",
                "PaymentCompleted", "PaymentFailed"}
<1>1. /\ Type(TopicOrdersPlaced) = "OrderPlaced"
      /\ Type(TopicInventoryReserved) = "StockReserved"
      /\ Type(TopicInventoryRejected) = "StockRejected"
      /\ Type(TopicPaymentsCompleted) = "PaymentCompleted"
      /\ Type(TopicPaymentsFailed) = "PaymentFailed"
  BY DEF Type, TopicOrdersPlaced, TopicPaymentsCompleted, TopicPaymentsFailed,
         TopicInventoryReserved, TopicInventoryRejected
<1> QED
  BY <1>1, OtherTopics DEF Types

\* A row that is inserted at most once.
LEMMA InsertedOnce ==
    ASSUME NEW S, NEW s \in Seq(S), NEW e \in S, IsInjective(s), e \notin Range(s)
    PROVE  /\ Append(s, e) \in Seq(S)
           /\ IsInjective(Append(s, e))
           /\ Range(Append(s, e)) = Range(s) \cup {e}
<1>1. /\ DOMAIN s = 1..Len(s) /\ Len(s) \in Nat
      /\ DOMAIN Append(s, e) = 1..(Len(s) + 1)
      /\ \A i \in 1..Len(s) : Append(s, e)[i] = s[i]
      /\ Append(s, e)[Len(s) + 1] = e
  OBVIOUS
<1>2. \A i \in 1..Len(s) : s[i] # e
  BY <1>1 DEF Range
<1>3. IsInjective(Append(s, e))
  BY <1>1, <1>2 DEF IsInjective
<1> QED
  BY <1>3, AppendRange

\* What one step does to the timelines.
LEMMA TimelineStep ==
    ASSUME IInv, NotificationTypeOK, Told, [PageNext]_pageVars
    PROVE  \/ UNCHANGED notificationVars
           \/ \E t \in Topics, k \in Nat \ {0} : \E o \in Orders :
                 /\ k <= Len(log[t]) /\ k <= notificationHandled[t] + 1
                 /\ o = log[t][k].order /\ o \in Announced(t)
                 /\ UNCHANGED log
                 /\ notificationHandled' = Handle(notificationHandled, t, k)
                 /\ PositionsOK(notificationHandled, Topics)'
                 /\ notifications'[o] \in Seq(Types) /\ IsInjective(notifications'[o])
                 /\ Range(notifications'[o]) = Range(notifications[o]) \cup {Type(t)}
                 /\ notifications' \in [Orders -> Seq(Types)]
                 /\ \A q \in Orders \ {o} : notifications'[q] = notifications[q]
<1>1. CASE NotificationStep(NotificationNext)
  <2>1. PICK t \in Topics : \E k \in 1..Len(log[t]) : HandleNotification(t, k)
    BY <1>1 DEF NotificationStep, NotificationNext, NotificationTopics
  <2> PICK k \in 1..Len(log[t]) : HandleNotification(t, k)
    BY <2>1
  <2>2. /\ LogTypeOK /\ k \in Nat \ {0} /\ k <= Len(log[t])
        /\ k <= notificationHandled[t] + 1
    BY DEF IInv, TypeOK, LogTypeOK, HandleNotification, Deliverable
  <2>3. PICK o \in Orders : o = log[t][k].order
    BY <2>2, RecordAt
  <2>4. o \in Announced(t)
    BY <2>2, <2>3, RecordAt DEF Announced
  <2>5. /\ UNCHANGED log /\ notificationHandled' = Handle(notificationHandled, t, k)
        /\ k \in Deliverable(notificationHandled, t)
        /\ InsertNotification(o, Type(t))
    BY <2>3 DEF HandleNotification
  <2>6. PositionsOK(notificationHandled, Topics)'
    <3>1. PositionsOK(Handle(notificationHandled, t, k), Topics)
      BY <2>2, <2>5, Handling DEF NotificationTypeOK, NotificationTopics
    <3> QED
      BY <2>5, <3>1 DEF PositionsOK
  <2>7. /\ notifications \in [Orders -> Seq(Types)] /\ IsInjective(notifications[o])
        /\ Type(t) \in Types
    BY TypeFacts DEF NotificationTypeOK, Told
  <2>8. CASE Type(t) \in Range(notifications[o])
    <3>1. notifications' = notifications
      BY <2>5, <2>8 DEF InsertNotification
    <3> QED
      BY <2>2, <2>3, <2>4, <2>5, <2>6, <2>7, <2>8, <3>1
  <2>9. CASE Type(t) \notin Range(notifications[o])
    <3>1. /\ DOMAIN notifications' = Orders
          /\ notifications'[o] = Append(notifications[o], Type(t))
          /\ \A q \in Orders \ {o} : notifications'[q] = notifications[q]
      BY <2>5, <2>7, <2>9 DEF InsertNotification
    <3>2. /\ notifications'[o] \in Seq(Types) /\ IsInjective(notifications'[o])
          /\ Range(notifications'[o]) = Range(notifications[o]) \cup {Type(t)}
      BY <2>7, <2>9, <3>1, InsertedOnce
    <3>3. notifications' \in [Orders -> Seq(Types)]
      BY <2>5, <2>7, <2>9, <3>1, <3>2 DEF InsertNotification
    <3> QED
      BY <2>2, <2>3, <2>4, <2>5, <2>6, <3>1, <3>2, <3>3
  <2> QED
    BY <2>8, <2>9
<1>2. CASE UNCHANGED notificationVars
  BY <1>2
<1> QED
  BY <1>1, <1>2
  DEF PageNext, NotifiedNext, Open, GetOrder, GetNotifications, Show, Leave, PollFails,
      pageVars, allVars

LEMMA NextTold ==
    ASSUME IInv, NotificationTypeOK, Told, [PageNext]_pageVars
    PROVE  NotificationTypeOK' /\ Told'
<1>1. /\ notifications \in [Orders -> Seq(Types)]
      /\ notificationHandled \in [Topics -> Nat]
      /\ \A t \in Topics : notificationHandled[t] <= Len(log[t])
      /\ \A o \in Orders : IsInjective(notifications[o])
      /\ \A o \in Orders, t \in Topics :
            Type(t) \in Range(notifications[o]) => o \in Announced(t)
      /\ \A t \in Topics : \A i \in 1..notificationHandled[t] :
            Type(t) \in Range(notifications[log[t][i].order])
  BY DEF NotificationTypeOK, PositionsOK, NotificationTopics, Told
<1>2. /\ \A t \in Topics : /\ Len(log[t]) \in Nat /\ Len(log'[t]) \in Nat
                           /\ Len(log[t]) <= Len(log'[t])
                           /\ \A i \in 1..Len(log[t]) : log'[t][i] = log[t][i]
                           /\ Announced(t) \subseteq Announced(t)'
      /\ LogTypeOK
  BY SagaKeeps DEF IInv, TypeOK
<1>3. \A t \in Topics : \A i \in 1..notificationHandled[t] : log[t][i].order \in Orders
  BY <1>1, <1>2, RecordAt
<1>4. CASE UNCHANGED notificationVars
  <2>1. notifications' = notifications /\ notificationHandled' = notificationHandled
    BY <1>4 DEF notificationVars
  <2>2. NotificationTypeOK'
    BY <1>1, <1>2, <2>1 DEF NotificationTypeOK, PositionsOK, NotificationTopics
  <2>3. \A t \in Topics : \A i \in 1..notificationHandled[t] :
           /\ i \in 1..Len(log[t])
           /\ log'[t][i] = log[t][i]
    BY <1>1, <1>2
  <2>4. Told'
    BY <1>1, <1>2, <2>1, <2>3 DEF Told, NotificationTopics
  <2> QED
    BY <2>2, <2>4
<1>5. ASSUME NEW t \in Topics, NEW k \in Nat \ {0}, NEW o \in Orders,
             k <= Len(log[t]), k <= notificationHandled[t] + 1,
             o = log[t][k].order, o \in Announced(t), UNCHANGED log,
             notificationHandled' = Handle(notificationHandled, t, k),
             PositionsOK(notificationHandled, Topics)',
             notifications'[o] \in Seq(Types), IsInjective(notifications'[o]),
             Range(notifications'[o]) = Range(notifications[o]) \cup {Type(t)},
             notifications' \in [Orders -> Seq(Types)],
             \A q \in Orders \ {o} : notifications'[q] = notifications[q]
      PROVE  NotificationTypeOK' /\ Told'
  <2>1. NotificationTypeOK'
    BY <1>5 DEF NotificationTypeOK, NotificationTopics
  <2>2. \A q \in Orders : Range(notifications[q]) \subseteq Range(notifications'[q])
    BY <1>5
  <2>3. \A q \in Orders : IsInjective(notifications'[q])
    BY <1>1, <1>5
  <2>4. \A q \in Orders, u \in Topics :
           Type(u) \in Range(notifications'[q]) => q \in Announced(u)'
    <3> SUFFICES ASSUME NEW q \in Orders, NEW u \in Topics,
                        Type(u) \in Range(notifications'[q])
                 PROVE  q \in Announced(u)
      BY <1>2
    <3>1. CASE Type(u) \in Range(notifications[q])
      BY <1>1, <3>1
    <3>2. CASE Type(u) \notin Range(notifications[q])
      <4>1. q = o /\ Type(u) = Type(t)
        BY <1>5, <3>2
      <4> QED
        BY <1>5, <4>1, TypeFacts
    <3> QED
      BY <3>1, <3>2
  <2>5. \A u \in Topics : \A i \in 1..notificationHandled'[u] :
           Type(u) \in Range(notifications'[log'[u][i].order])
    <3> SUFFICES ASSUME NEW u \in Topics, NEW i \in 1..notificationHandled'[u]
                 PROVE  Type(u) \in Range(notifications'[log[u][i].order])
      BY <1>5
    <3>1. i \in 1..Handle(notificationHandled, t, k)[u]
      BY <1>5
    <3>2. i \in 1..notificationHandled[u] \/ (u = t /\ i = k)
      <4>1. /\ notificationHandled \in [Topics -> Nat]
            /\ k \in Nat \ {0} /\ k <= notificationHandled[t] + 1
        BY <1>1, <1>5
      <4>2. \A j \in 1..Handle(notificationHandled, t, k)[u] :
               j \in 1..notificationHandled[u] \/ (u = t /\ j = k)
        BY <4>1, OneHandled
      <4> QED
        BY <3>1, <4>2
    <3>3. CASE i \in 1..notificationHandled[u]
      BY <1>1, <1>3, <2>2, <3>3
    <3>4. CASE u = t /\ i = k
      BY <1>5, <3>4
    <3> QED
      BY <3>2, <3>3, <3>4
  <2> QED
    BY <2>1, <2>3, <2>4, <2>5 DEF Told, NotificationTopics
<1> QED
  BY <1>4, <1>5, TimelineStep

-----------------------------------------------------------------------------
(* The page *)

\* PageTypeOK and PageBacked, for one page.
Fine(o) ==
    /\ pages[o] \in Pages
    /\ Cardinality(pages[o].order) <= 1
    /\ Cardinality(pages[o].notifications) <= 1
    /\ pages[o].at # "closed" => status[o] # "NONE"
    /\ pages[o].at = "stopped" => pages[o].status \in TERMINAL
    /\ \A rows \in pages[o].notifications \cup {pages[o].timeline} :
          Range(rows) \subseteq Range(notifications[o])

LEMMA FineFacts ==
    ASSUME PageTypeOK, PageBacked, NEW o \in Orders
    PROVE  Fine(o)
  BY DEF PageTypeOK, PageBacked, Fine

\* The rows of an order and the order itself stay.
LEMMA RowsStay ==
    ASSUME IInv, NotificationTypeOK, Told, [PageNext]_pageVars, NEW o \in Orders
    PROVE  /\ status[o] # "NONE" => status'[o] # "NONE"
           /\ Range(notifications[o]) \subseteq Range(notifications'[o])
<1>1. Range(notifications[o]) \subseteq Range(notifications'[o])
  <2>1. CASE UNCHANGED notificationVars
    BY <2>1 DEF notificationVars
  <2>2. ASSUME NEW t \in Topics, NEW q \in Orders,
               Range(notifications'[q]) = Range(notifications[q]) \cup {Type(t)},
               \A r \in Orders \ {q} : notifications'[r] = notifications[r]
        PROVE  Range(notifications[o]) \subseteq Range(notifications'[o])
    BY <2>2
  <2> QED
    BY <2>1, <2>2, TimelineStep
<1> QED
  BY <1>1, SagaKeeps

\* A page nobody touches stays fine.
LEMMA FineStays ==
    ASSUME IInv, NotificationTypeOK, Told, [PageNext]_pageVars,
           NEW o \in Orders, Fine(o), pages'[o] = pages[o]
    PROVE  Fine(o)'
  BY RowsStay DEF Fine

LEMMA PageRecord ==
    ASSUME NEW at \in {"closed", "polling", "stopped"},
           NEW s \in Statuses \cup {Nothing}, NEW rows \in Seq(Types),
           NEW S \in SUBSET Statuses, NEW R \in SUBSET Seq(Types)
    PROVE  [at |-> at, status |-> s, timeline |-> rows, order |-> S,
            notifications |-> R] \in Pages
  BY DEF Pages

\* What one step does to the pages.
LEMMA PageStep ==
    ASSUME IInv, NotificationTypeOK, PageTypeOK, PageBacked, [PageNext]_pageVars
    PROVE  \/ UNCHANGED pages
           \/ \E o \in Orders :
                 /\ pages' = [pages EXCEPT ![o] = pages'[o]]
                 /\ \A q \in Orders \ {o} : pages'[q] = pages[q]
                 /\ UNCHANGED <<status, notifications>>
                 /\ Fine(o)'
                 /\ \A s \in pages'[o].order \cup {pages'[o].status} :
                       s \in pages[o].order \cup {pages[o].status, status[o], Nothing}
<1>1. ASSUME NEW o \in Orders,
             Open(o) \/ GetOrder(o) \/ GetNotifications(o) \/ Show(o) \/ PollFails(o) \/ Leave(o)
      PROVE  /\ pages' = [pages EXCEPT ![o] = pages'[o]]
             /\ \A q \in Orders \ {o} : pages'[q] = pages[q]
             /\ UNCHANGED <<status, notifications>>
             /\ Fine(o)'
             /\ \A s \in pages'[o].order \cup {pages'[o].status} :
                   s \in pages[o].order \cup {pages[o].status, status[o], Nothing}
  <2>1. Fine(o) /\ pages \in [Orders -> Pages]
    BY FineFacts DEF PageTypeOK
  <2>2. /\ pages' = [pages EXCEPT ![o] = pages'[o]]
        /\ \A q \in Orders \ {o} : pages'[q] = pages[q]
    BY <1>1, <2>1 DEF Open, GetOrder, GetNotifications, Show, PollFails, Leave
  <2>3. UNCHANGED <<status, notifications>>
    BY <1>1 DEF Open, GetOrder, GetNotifications, Show, PollFails, Leave, allVars, vars,
                orderVars, notificationVars
  <2>4. /\ status[o] \in Statuses \cup {"NONE"}
        /\ notifications[o] \in Seq(Types) /\ <<>> \in Seq(Types)
        /\ {notifications[o]} \subseteq Seq(Types)
    BY DEF IInv, TypeOK, OrderTypeOK, NotificationTypeOK, Statuses
  <2>5. /\ Cardinality({}) = 0 /\ Cardinality({status[o]}) = 1
        /\ Cardinality({notifications[o]}) = 1
    BY FS_EmptySet, FS_Singleton
  <2>6. Range(<<>>) = {}
    BY DEF Range
  <2>7. pages[o] \in Pages
    BY <2>1
  <2>8. /\ pages[o].at \in {"closed", "polling", "stopped"}
        /\ pages[o].status \in Statuses \cup {Nothing}
        /\ pages[o].timeline \in Seq(Types)
        /\ pages[o].order \in SUBSET Statuses
        /\ pages[o].notifications \in SUBSET Seq(Types)
    BY <2>7 DEF Pages
  <2>9. CASE Open(o)
    <3>1. pages'[o] = [at |-> "polling", status |-> pages[o].status, timeline |-> pages[o].timeline,
                       order |-> pages[o].order, notifications |-> pages[o].notifications]
      BY <2>1, <2>7, <2>9 DEF Open, Pages
    <3>2. /\ pages'[o].at = "polling" /\ pages'[o].status = pages[o].status
          /\ pages'[o].timeline = pages[o].timeline /\ pages'[o].order = pages[o].order
          /\ pages'[o].notifications = pages[o].notifications
      BY <3>1
    <3>3. pages'[o] \in Pages
      BY <2>1, <2>4, <2>8, <2>9, <3>1 DEF Pages, Fine, Open
    <3> QED
      BY <2>1, <2>2, <2>3, <2>5, <2>6, <2>9, <3>2, <3>3 DEF Fine, Open
  <2>10. CASE GetOrder(o)
    <3>1. pages'[o] = [at |-> pages[o].at, status |-> pages[o].status, timeline |-> pages[o].timeline,
                       order |-> {status[o]}, notifications |-> pages[o].notifications]
      BY <2>1, <2>7, <2>10 DEF GetOrder, Pages
    <3>2. /\ pages'[o].at = pages[o].at /\ pages'[o].status = pages[o].status
          /\ pages'[o].timeline = pages[o].timeline /\ pages'[o].order = {status[o]}
          /\ pages'[o].notifications = pages[o].notifications
      BY <3>1
    <3>3. pages'[o] \in Pages
      BY <2>1, <2>4, <2>8, <2>10, <3>1 DEF Pages, Fine, GetOrder
    <3> QED
      BY <2>1, <2>2, <2>3, <2>5, <2>6, <2>10, <3>2, <3>3 DEF Fine, GetOrder
  <2>11. CASE GetNotifications(o)
    <3>1. pages'[o] = [at |-> pages[o].at, status |-> pages[o].status, timeline |-> pages[o].timeline,
                       order |-> pages[o].order, notifications |-> {notifications[o]}]
      BY <2>1, <2>7, <2>11 DEF GetNotifications, Pages, ListNotifications
    <3>2. /\ pages'[o].at = pages[o].at /\ pages'[o].status = pages[o].status
          /\ pages'[o].timeline = pages[o].timeline /\ pages'[o].order = pages[o].order
          /\ pages'[o].notifications = {notifications[o]}
      BY <3>1
    <3>3. pages'[o] \in Pages
      <4>1. PICK R \in SUBSET Seq(Types) : R = {notifications[o]}
        BY <2>4
      <4>2. pages'[o] = [at |-> pages[o].at, status |-> pages[o].status,
                         timeline |-> pages[o].timeline, order |-> pages[o].order,
                         notifications |-> R]
        BY <3>1, <4>1
      <4> QED
        BY <2>8, <4>2 DEF Pages
    <3>4. \A rows \in pages'[o].notifications \cup {pages'[o].timeline} :
             Range(rows) \subseteq Range(notifications[o])
      BY <2>1, <2>6, <2>11, <3>2 DEF Fine, GetNotifications
    <3> QED
      BY <2>1, <2>2, <2>3, <2>5, <2>11, <3>2, <3>3, <3>4 DEF Fine, GetNotifications
  <2>12. CASE Show(o)
    <3>1. PICK s \in pages[o].order, rows \in pages[o].notifications :
             pages'[o] = [Closed EXCEPT !.at = IF s \in TERMINAL THEN "stopped" ELSE "polling",
                                        !.status = s, !.timeline = rows]
      BY <2>1, <2>12 DEF Show
    <3>2. pages'[o] = [at |-> IF s \in TERMINAL THEN "stopped" ELSE "polling",
                       status |-> s, timeline |-> rows, order |-> {}, notifications |-> {}]
      BY <3>1 DEF Closed
    <3>3. /\ pages'[o].at = IF s \in TERMINAL THEN "stopped" ELSE "polling"
          /\ pages'[o].status = s /\ pages'[o].timeline = rows
          /\ pages'[o].order = {} /\ pages'[o].notifications = {}
      BY <3>2
    <3>4. pages'[o] \in Pages
      BY <2>8, <3>2 DEF Pages
    <3>5. \A r \in pages'[o].notifications \cup {pages'[o].timeline} :
             Range(r) \subseteq Range(notifications[o])
      BY <2>1, <2>6, <2>12, <3>3 DEF Fine, Show
    <3>6. /\ pages'[o].at # "closed" => status'[o] # "NONE"
          /\ pages'[o].at = "stopped" => pages'[o].status \in TERMINAL
      BY <2>1, <2>3, <2>12, <3>3 DEF Fine, Show
    <3>7. Fine(o)'
      BY <2>3, <2>5, <3>3, <3>4, <3>5, <3>6 DEF Fine
    <3>8. \A r \in pages'[o].order \cup {pages'[o].status} : r \in pages[o].order
      BY <3>1, <3>3
    <3> QED
      BY <2>2, <2>3, <3>7, <3>8
  <2>13. CASE PollFails(o)
    <3>1. pages'[o] = [at |-> pages[o].at, status |-> pages[o].status, timeline |-> pages[o].timeline,
                       order |-> {}, notifications |-> {}]
      BY <2>1, <2>7, <2>13 DEF PollFails, Pages
    <3>2. /\ pages'[o].at = pages[o].at /\ pages'[o].status = pages[o].status
          /\ pages'[o].timeline = pages[o].timeline /\ pages'[o].order = {}
          /\ pages'[o].notifications = {}
      BY <3>1
    <3>3. pages'[o] \in Pages
      BY <2>1, <2>4, <2>8, <2>13, <3>1 DEF Pages, Fine, PollFails
    <3> QED
      BY <2>1, <2>2, <2>3, <2>5, <2>6, <2>13, <3>2, <3>3 DEF Fine, PollFails
  <2>14. CASE Leave(o)
    <3>1. pages'[o] = [at |-> "closed", status |-> Nothing, timeline |-> <<>>,
                       order |-> {}, notifications |-> {}]
      BY <2>1, <2>7, <2>14 DEF Leave, Pages, Closed
    <3>2. /\ pages'[o].at = "closed" /\ pages'[o].status = Nothing
          /\ pages'[o].timeline = <<>> /\ pages'[o].order = {}
          /\ pages'[o].notifications = {}
      BY <3>1
    <3>3. pages'[o] \in Pages
      BY <2>4, <3>1, PageRecord
    <3>4. \A rows \in pages'[o].notifications \cup {pages'[o].timeline} :
             Range(rows) \subseteq Range(notifications[o])
      BY <2>1, <2>6, <2>14, <3>2 DEF Fine, Leave
    <3>5. Fine(o)'
      BY <2>3, <2>5, <3>2, <3>3, <3>4 DEF Fine
    <3> QED
      BY <2>2, <2>3, <3>2, <3>5
  <2> QED
    BY <1>1, <2>9, <2>10, <2>11, <2>12, <2>13, <2>14
<1>2. CASE \E o \in Orders : \/ Open(o) \/ GetOrder(o) \/ GetNotifications(o)
                             \/ Show(o) \/ PollFails(o) \/ Leave(o)
  BY <1>1, <1>2
<1> QED
  BY <1>2 DEF PageNext, pageVars

LEMMA NextPage ==
    ASSUME IInv, NotificationTypeOK, Told, PageTypeOK, PageBacked, [PageNext]_pageVars
    PROVE  PageTypeOK' /\ PageBacked'
<1>1. IInv' /\ NotificationTypeOK'
  BY SagaKeeps, NextTold
<1>2. pages \in [Orders -> Pages] /\ \A o \in Orders : Fine(o)
  BY FineFacts DEF PageTypeOK
<1>3. pages' \in [Orders -> Pages] /\ \A o \in Orders : Fine(o)'
  <2>1. CASE UNCHANGED pages
    <3>1. pages' = pages
      BY <2>1
    <3> QED
      BY <1>2, <3>1, FineStays
  <2>2. ASSUME NEW o \in Orders,
               pages' = [pages EXCEPT ![o] = pages'[o]],
               \A q \in Orders \ {o} : pages'[q] = pages[q],
               Fine(o)'
        PROVE  pages' \in [Orders -> Pages] /\ \A q \in Orders : Fine(q)'
    <3>1. \A q \in Orders : Fine(q)'
      BY <1>2, <2>2, FineStays
    <3>2. pages'[o] \in Pages /\ pages \in [Orders -> Pages]
      BY <1>2, <2>2 DEF Fine
    <3> QED
      BY <2>2, <3>1, <3>2
  <2> QED
    BY <2>1, <2>2, PageStep
<1>4. PageTypeOK'
  <2>1. \A o \in Orders : pages'[o].at = "stopped" => pages'[o].status # Nothing
    BY <1>3 DEF Fine, TERMINAL, Nothing
  <2> QED
    BY <1>1, <1>3, <2>1 DEF PageTypeOK, NotifiedTypeOK, IInv, Fine
<1>5. PageBacked'
  BY <1>3 DEF PageBacked, Fine
<1> QED
  BY <1>4, <1>5

\* What a page knows to be final is final for good.
LEMMA NextFinalStillTrue ==
    ASSUME OneLimit, IInv, RestInv, NotificationTypeOK, PageTypeOK, PageBacked,
           FinalStillTrue, [PageNext]_pageVars
    PROVE  FinalStillTrue'
<1>1. TERMINAL = Terminal /\ Nothing \notin TERMINAL
  BY StatusFacts DEF TERMINAL, Terminal, TerminalTopics, Nothing
<1>2. \A o \in Orders : status[o] \in TERMINAL => status'[o] = status[o]
  BY <1>1, SagaDecides
<1>3. \A o \in Orders : \A s \in pages[o].order \cup {pages[o].status} :
         s \in TERMINAL => s = status[o]
  BY DEF FinalStillTrue
<1> SUFFICES ASSUME NEW o \in Orders, NEW s \in pages'[o].order \cup {pages'[o].status},
                    s \in TERMINAL
             PROVE  s = status'[o]
  BY DEF FinalStillTrue
<1>4. s \in pages[o].order \cup {pages[o].status, status[o], Nothing}
  BY PageStep
<1> QED
  BY <1>1, <1>2, <1>3, <1>4

-----------------------------------------------------------------------------
(* The theorems *)

WatchInv == IInv /\ NotificationTypeOK /\ Told /\ PageTypeOK /\ PageBacked

LEMMA InitWatchInv == PageInit => WatchInv
<1> SUFFICES ASSUME PageInit PROVE WatchInv
  OBVIOUS
<1> USE DEF PageInit, NotifiedInit, NotificationInit
<1>1. IInv
  BY InitIInv
<1>2. <<>> \in Seq(Types) /\ Range(<<>>) = {} /\ IsInjective(<<>>)
  BY DEF Range, IsInjective
<1>3. \A t \in Topics : Len(log[t]) = 0
  BY DEF Init, LogInit
<1>4. NotificationTypeOK
  BY <1>2, <1>3 DEF NotificationTypeOK, PositionsOK, NothingHandled, NotificationTopics
<1>5. Told
  BY <1>2 DEF Told, NothingHandled, NotificationTopics
<1>6. \A o \in Orders : pages[o] = [at |-> "closed", status |-> Nothing, timeline |-> <<>>,
                                    order |-> {}, notifications |-> {}]
  BY DEF Closed
<1>7. pages \in [Orders -> Pages]
  BY <1>2, <1>6 DEF Closed, Pages
<1>8. PageTypeOK
  <2>1. Cardinality({}) = 0
    BY FS_EmptySet
  <2>2. \A o \in Orders : /\ pages[o].at = "closed" /\ pages[o].order = {}
                          /\ pages[o].notifications = {}
    BY <1>6
  <2>3. \A o \in Orders : /\ Cardinality(pages[o].order) = 0
                          /\ Cardinality(pages[o].notifications) = 0
    BY <2>1, <2>2
  <2> QED
    BY <1>1, <1>4, <1>7, <2>2, <2>3 DEF PageTypeOK, NotifiedTypeOK, IInv
<1>9. PageBacked
  BY <1>2, <1>6 DEF PageBacked
<1> QED
  BY <1>1, <1>4, <1>5, <1>8, <1>9 DEF WatchInv

LEMMA NextWatchInv == WatchInv /\ [PageNext]_pageVars => WatchInv'
  BY SagaKeeps, NextTold, NextPage DEF WatchInv

\* The rows of the timelines tell of events in the log, once each, and nothing
\* the group has handled is missing; what a page shows of them is still there.
THEOREM WatchInvariance == PageSpec => []WatchInv
  BY InitWatchInv, NextWatchInv, PTL DEF PageSpec

\* Rows, positions and pages always have their types, and a page has at most one
\* answer of each service waiting to be shown.
THEOREM PageTypeCorrect == PageSpec => []PageTypeOK
<1>1. WatchInv => PageTypeOK
  BY DEF WatchInv
<1> QED
  BY <1>1, WatchInvariance, PTL

\* With one limit for all payment pods: also what is final stays.
FinalInv == WatchInv /\ RestInv /\ FinalStillTrue

LEMMA InitFinalInv == PageInit => FinalInv
<1> SUFFICES ASSUME PageInit PROVE FinalInv
  OBVIOUS
<1>1. WatchInv /\ RestInv
  BY InitWatchInv, InitRestInv DEF PageInit, NotifiedInit
<1>2. FinalStillTrue
  BY DEF PageInit, Closed, FinalStillTrue, TERMINAL, Nothing
<1> QED
  BY <1>1, <1>2 DEF FinalInv

LEMMA NextFinalInv ==
    ASSUME OneLimit
    PROVE  FinalInv /\ [PageNext]_pageVars => FinalInv'
<1> SUFFICES ASSUME FinalInv, [PageNext]_pageVars PROVE FinalInv'
  OBVIOUS
<1>1. /\ IInv /\ NotificationTypeOK /\ Told /\ PageTypeOK /\ PageBacked /\ WatchInv
      /\ RestInv /\ FinalStillTrue
  BY DEF FinalInv, WatchInv
<1> QED
  BY <1>1, NextWatchInv, SagaDecides, NextFinalStillTrue DEF FinalInv

THEOREM FinalInvariance == ASSUME OneLimit PROVE PageSpec => []FinalInv
  BY InitFinalInv, NextFinalInv, PTL DEF PageSpec

-----------------------------------------------------------------------------
(* What follows *)

\* Which events of an order go together.
LEMMA AnnouncedTogether ==
    ASSUME OneLimit, IInv, NEW o \in Orders
    PROVE  /\ \A t \in {TopicPaymentsCompleted, TopicPaymentsFailed,
                        TopicInventoryReserved} :
                 o \in Announced(t) => /\ processed[o] # "NONE"
                                       /\ o \notin Announced(TopicInventoryRejected)
           /\ o \in Announced(TopicPaymentsCompleted) =>
                 o \notin Announced(TopicPaymentsFailed)
           /\ \A t \in OrderTopics : status[o] = NewStatus(t) => o \in Announced(t)
<1>1. /\ StockEventsBacked /\ PaymentsBacked /\ StatusBacked /\ OneOutcome
  BY BackedOneOutcome DEF IInv, Backed
<1>2. \A t \in {TopicPaymentsCompleted, TopicPaymentsFailed, TopicInventoryReserved} :
         o \in Announced(t) => Granted(o)
  BY <1>1 DEF StockEventsBacked, PaymentsBacked, Announced
<1>3. o \in Announced(TopicInventoryRejected) => processed[o] = "REJECTED"
  BY <1>1 DEF StockEventsBacked, Announced
<1>4. o \in Announced(TopicPaymentsCompleted) => o \notin Announced(TopicPaymentsFailed)
  BY <1>1, OtherTopics DEF OneOutcome, TerminalTopics
<1> QED
  BY <1>1, <1>2, <1>3, <1>4 DEF Granted, StatusBacked

\* A row of the timeline tells of an event.
LEMMA RowsAnnounced ==
    ASSUME Told, NotificationTypeOK, NEW o \in Orders
    PROVE  /\ Range(notifications[o]) \subseteq Types
           /\ "StockReserved" \in Range(notifications[o]) =>
                 o \in Announced(TopicInventoryReserved)
           /\ "StockRejected" \in Range(notifications[o]) =>
                 o \in Announced(TopicInventoryRejected)
           /\ "PaymentCompleted" \in Range(notifications[o]) =>
                 o \in Announced(TopicPaymentsCompleted)
           /\ "PaymentFailed" \in Range(notifications[o]) =>
                 o \in Announced(TopicPaymentsFailed)
<1>1. notifications[o] \in Seq(Types)
  BY DEF NotificationTypeOK
<1>2. Range(notifications[o]) \subseteq Types
  BY <1>1 DEF Range
<1> QED
  BY <1>2, TypeFacts, TopicFacts DEF Told

\* However the topics are interleaved and whatever comes again, a timeline tells
\* every fact once, and never facts of two different stories.
THEOREM TimelineOneStory == ASSUME OneLimit PROVE PageSpec => []OneStory
<1>1. ASSUME WatchInv PROVE OneStory
  <2>1. IInv /\ NotificationTypeOK /\ Told
    BY <1>1 DEF WatchInv
  <2> SUFFICES ASSUME NEW o \in Orders
               PROVE  \E story \in Stories : Range(notifications[o]) \subseteq story
    BY <2>1 DEF OneStory, Told
  <2> DEFINE R == Range(notifications[o])
  <2>2. CASE "StockRejected" \in R
    <3>1. R \subseteq {"OrderPlaced", "StockRejected"}
      BY <2>1, <2>2, RowsAnnounced, AnnouncedTogether, TypeFacts
    <3> QED
      BY <3>1 DEF Stories
  <2>3. CASE "StockRejected" \notin R /\ "PaymentCompleted" \in R
    <3>1. R \subseteq {"OrderPlaced", "StockReserved", "PaymentCompleted"}
      BY <2>1, <2>3, RowsAnnounced, AnnouncedTogether, TypeFacts
    <3> QED
      BY <3>1 DEF Stories
  <2>4. CASE "StockRejected" \notin R /\ "PaymentCompleted" \notin R
    <3>1. R \subseteq {"OrderPlaced", "StockReserved", "PaymentFailed"}
      BY <2>1, <2>4, RowsAnnounced, TypeFacts
    <3> QED
      BY <3>1 DEF Stories
  <2> QED
    BY <2>2, <2>3, <2>4
<1>2. WatchInv => OneStory
  BY <1>1
<1> QED
  BY <1>2, WatchInvariance, PTL

\* When every group has reached the end of the log, the timeline of an order is
\* complete and tells the story its status stands for.
THEOREM TimelineMatchesStatus == ASSUME OneLimit PROVE PageSpec => []StoryMatchesStatus
<1>1. ASSUME FinalInv PROVE StoryMatchesStatus
  <2>1. /\ IInv /\ RestInv /\ NotificationTypeOK /\ Told /\ AgreementAtRest
        /\ LogTypeOK /\ Sources
    BY <1>1, AgreedAtRest DEF FinalInv, WatchInv, RestInv, IInv, TypeOK
  <2> SUFFICES ASSUME Quiescent, CaughtUp(notificationHandled), NEW o \in Orders
               PROVE  Range(notifications[o]) =
                         CASE status[o] \in {"NONE", "PENDING"} -> {}
                           [] status[o] = "REJECTED" -> {"OrderPlaced", "StockRejected"}
                           [] status[o] = "PAID" ->
                                 {"OrderPlaced", "StockReserved", "PaymentCompleted"}
                           [] status[o] = "PAYMENT_FAILED" ->
                                 {"OrderPlaced", "StockReserved", "PaymentFailed"}
    BY DEF StoryMatchesStatus
  <2> DEFINE R == Range(notifications[o])
  <2>2. \A t \in Topics : Type(t) \in R <=> o \in Announced(t)
    <3> SUFFICES ASSUME NEW t \in Topics PROVE o \in Announced(t) => Type(t) \in R
      BY <2>1 DEF Told
    <3>1. notificationHandled[t] = Len(log[t])
      BY <2>1 DEF NotificationTypeOK, PositionsOK, NotificationTopics, CaughtUp
    <3> QED
      BY <2>1, <3>1, ReachedEnd DEF Told, NotificationTopics
  <2>3. /\ "OrderPlaced" \in R <=> o \in Announced(TopicOrdersPlaced)
        /\ "StockReserved" \in R <=> o \in Announced(TopicInventoryReserved)
        /\ "StockRejected" \in R <=> o \in Announced(TopicInventoryRejected)
        /\ "PaymentCompleted" \in R <=> o \in Announced(TopicPaymentsCompleted)
        /\ "PaymentFailed" \in R <=> o \in Announced(TopicPaymentsFailed)
        /\ R \subseteq {"OrderPlaced", "StockReserved", "StockRejected",
                        "PaymentCompleted", "PaymentFailed"}
    BY <2>1, <2>2, RowsAnnounced, TypeFacts, TopicFacts
  <2>4. /\ o \notin Announced(TopicOrdersPlaced) =>
              status[o] \in {"NONE", "PENDING"} /\ processed[o] = "NONE"
        /\ o \in Announced(TopicOrdersPlaced) =>
              status[o] \in {"PAID", "PAYMENT_FAILED", "REJECTED"}
    BY <2>1 DEF AgreementAtRest
  <2>5. \A p \in {TopicPaymentsCompleted, TopicPaymentsFailed} :
           o \in Announced(p) => o \in Announced(TopicInventoryReserved)
    BY <2>1 DEF Sources
  <2>6. o \in Announced(TopicInventoryRejected) => processed[o] # "NONE"
    BY <2>1 DEF IInv, Backed, StockEventsBacked, Announced
  <2>7. /\ status[o] = "PAID" => o \in Announced(TopicPaymentsCompleted)
        /\ status[o] = "PAYMENT_FAILED" => o \in Announced(TopicPaymentsFailed)
        /\ status[o] = "REJECTED" => o \in Announced(TopicInventoryRejected)
    BY <2>1, AnnouncedTogether, StatusFacts
  <2> HIDE DEF R
  <2>8. CASE o \notin Announced(TopicOrdersPlaced)
    <3>1. R = {}
      BY <2>1, <2>3, <2>4, <2>5, <2>6, <2>8, AnnouncedTogether
    <3> QED
      BY <2>4, <2>8, <3>1 DEF R
  <2>9. CASE o \in Announced(TopicOrdersPlaced) /\ status[o] = "PAID"
    <3>1. R = {"OrderPlaced", "StockReserved", "PaymentCompleted"}
      BY <2>1, <2>3, <2>5, <2>7, <2>9, AnnouncedTogether
    <3> QED
      BY <2>9, <3>1 DEF R
  <2>10. CASE o \in Announced(TopicOrdersPlaced) /\ status[o] = "PAYMENT_FAILED"
    <3>1. R = {"OrderPlaced", "StockReserved", "PaymentFailed"}
      BY <2>1, <2>3, <2>5, <2>7, <2>10, AnnouncedTogether
    <3> QED
      BY <2>10, <3>1 DEF R
  <2>11. CASE o \in Announced(TopicOrdersPlaced) /\ status[o] = "REJECTED"
    <3>1. R = {"OrderPlaced", "StockRejected"}
      BY <2>1, <2>3, <2>7, <2>11, AnnouncedTogether
    <3> QED
      BY <2>11, <3>1 DEF R
  <2> QED
    BY <2>4, <2>8, <2>9, <2>10, <2>11
<1>2. FinalInv => StoryMatchesStatus
  BY <1>1
<1> QED
  BY <1>2, FinalInvariance, PTL

\* A page that stopped polling on an old answer still shows what the order
\* service says.
THEOREM PageStopsRightly == ASSUME OneLimit PROVE PageSpec => []StoppedIsFinal
<1>1. FinalInv => StoppedIsFinal
  BY DEF FinalInv, WatchInv, PageBacked, FinalStillTrue, StoppedIsFinal
<1> QED
  BY <1>1, FinalInvariance, PTL

\* The status and the facts a page shows never contradict each other, although
\* they were read from two services at two moments.
THEOREM PageShowsAgreement == ASSUME OneLimit PROVE PageSpec => []ShownAgree
<1>1. ASSUME FinalInv PROVE ShownAgree
  <2>1. /\ IInv /\ NotificationTypeOK /\ Told /\ PageTypeOK /\ PageBacked /\ FinalStillTrue
    BY <1>1 DEF FinalInv, WatchInv
  <2> SUFFICES ASSUME NEW o \in Orders
               PROVE  Range(pages[o].timeline) \subseteq TellableWith(pages[o].status)
    BY DEF ShownAgree
  <2> DEFINE R == Range(pages[o].timeline)
             s == pages[o].status
  <2>2. R \subseteq Range(notifications[o])
    BY <2>1 DEF PageBacked
  <2>3. R \subseteq Types
    BY <2>1, <2>2, RowsAnnounced
  <2>4. s \in TERMINAL => s = status[o]
    BY <2>1 DEF FinalStillTrue
  <2> HIDE DEF R, s
  <2>5. R \subseteq TellableWith(s)
    <3>1. CASE s = "PAID"
      <4>1. o \in Announced(TopicPaymentsCompleted)
        BY <2>1, <2>4, <3>1, AnnouncedTogether, StatusFacts DEF TERMINAL
      <4>2. R \subseteq {"OrderPlaced", "StockReserved", "PaymentCompleted"}
        BY <2>1, <2>2, <2>3, <4>1, RowsAnnounced, AnnouncedTogether, TypeFacts
      <4> QED
        BY <3>1, <4>2 DEF TellableWith
    <3>2. CASE s = "PAYMENT_FAILED"
      <4>1. o \in Announced(TopicPaymentsFailed)
        BY <2>1, <2>4, <3>2, AnnouncedTogether, StatusFacts DEF TERMINAL
      <4>2. R \subseteq {"OrderPlaced", "StockReserved", "PaymentFailed"}
        BY <2>1, <2>2, <2>3, <4>1, RowsAnnounced, AnnouncedTogether, TypeFacts
      <4> QED
        BY <3>2, <4>2 DEF TellableWith
    <3>3. CASE s = "REJECTED"
      <4>1. o \in Announced(TopicInventoryRejected)
        BY <2>1, <2>4, <3>3, AnnouncedTogether, StatusFacts DEF TERMINAL
      <4>2. R \subseteq {"OrderPlaced", "StockRejected"}
        BY <2>1, <2>2, <2>3, <4>1, RowsAnnounced, AnnouncedTogether, TypeFacts
      <4> QED
        BY <3>3, <4>2 DEF TellableWith
    <3>4. CASE s \notin TERMINAL
      BY <2>3, <3>4 DEF TellableWith, TERMINAL
    <3> QED
      BY <3>1, <3>2, <3>3, <3>4 DEF TERMINAL
  <2> QED
    BY <2>5 DEF R, s
<1>2. FinalInv => ShownAgree
  BY <1>1
<1> QED
  BY <1>2, FinalInvariance, PTL
=============================================================================
