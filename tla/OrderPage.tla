----------------------------- MODULE OrderPage -----------------------------
(***************************************************************************)
(* The order page of the storefront, a client of the order and of the      *)
(* notification service.  A poll asks both at the same time, shows the two *)
(* answers when both are there, and is the last one if the status is final.*)
(*                                                                         *)
(* The gateway passes the requests on and keeps nothing; the two seconds   *)
(* between polls are left out.                                             *)
(***************************************************************************)
EXTENDS SagaNotified

VARIABLE pages   \* order -> the page that is open on it

pageVars == <<allVars, pages>>

Nothing == "nothing"

\* A page that is not open.  status, timeline: what it shows; order and
\* notifications: the answers of the poll that is under way, at most one each.
Closed == [at |-> "closed", status |-> Nothing, timeline |-> <<>>,
           order |-> {}, notifications |-> {}]

\* Mutants of TERMINAL: a status forgotten; one too many.
TwoStatuses  == {"PAID", "PAYMENT_FAILED"}
FourStatuses == {"PAID", "PAYMENT_FAILED", "REJECTED", "PENDING"}

TERMINAL == {"PAID", "PAYMENT_FAILED", "REJECTED"}

Statuses == {"PENDING", "PAID", "PAYMENT_FAILED", "REJECTED"}

Pages == [ at            : {"closed", "polling", "stopped"},
           status        : Statuses \cup {Nothing},
           timeline      : Seq(Types),
           order         : SUBSET Statuses,
           notifications : SUBSET Seq(Types) ]

PageTypeOK ==
    /\ NotifiedTypeOK
    /\ pages \in [Orders -> Pages]
    /\ \A o \in Orders : /\ Cardinality(pages[o].order) <= 1
                         /\ Cardinality(pages[o].notifications) <= 1
                         /\ pages[o].at = "stopped" => pages[o].status # Nothing

PageInit == NotifiedInit /\ pages = [o \in Orders |-> Closed]

\* The customer knows the order when PlaceOrder has answered.
Open(o) ==
    /\ pages[o].at = "closed"
    /\ status[o] # "NONE"
    /\ o \notin publishing
    /\ pages' = [pages EXCEPT ![o].at = "polling"]
    /\ UNCHANGED allVars

\* A mutant of GetOrder: polls overlap.
GetOrderAgain(o) ==
    /\ pages[o].at = "polling"
    /\ pages' = [pages EXCEPT ![o].order = @ \cup {status[o]}]
    /\ UNCHANGED allVars

\* The order service answers from its row, the notification service from its own.
GetOrder(o) ==
    /\ pages[o].at = "polling"
    /\ pages[o].order = {}
    /\ pages' = [pages EXCEPT ![o].order = {status[o]}]
    /\ UNCHANGED allVars

GetNotifications(o) ==
    /\ pages[o].at = "polling"
    /\ pages[o].notifications = {}
    /\ pages' = [pages EXCEPT ![o].notifications = {ListNotifications(o)}]
    /\ UNCHANGED allVars

\* Both answers are there: they are shown, and the next poll begins or there is
\* none.
Show(o) ==
    /\ pages[o].at = "polling"
    /\ \E s \in pages[o].order, rows \in pages[o].notifications :
          pages' = [pages EXCEPT
             ![o] = [Closed EXCEPT !.at = IF s \in TERMINAL THEN "stopped" ELSE "polling",
                                   !.status = s,
                                   !.timeline = rows]]
    /\ UNCHANGED allVars

\* One of the requests fails: what was shown stays, and the next poll begins.
PollFails(o) ==
    /\ pages[o].at = "polling"
    /\ Charge(1)
    /\ pages' = [pages EXCEPT ![o].order = {}, ![o].notifications = {}]
    /\ UNCHANGED <<log, orderVars, inventoryVars, paymentVars, notificationVars>>

\* The customer leaves: answers that still come are dropped.
Leave(o) ==
    /\ pages[o].at # "closed"
    /\ pages' = [pages EXCEPT ![o] = Closed]
    /\ UNCHANGED allVars

PageNext ==
    \/ \E o \in Orders :
          \/ Open(o) \/ GetOrder(o) \/ GetNotifications(o)
          \/ Show(o) \/ PollFails(o) \/ Leave(o)
    \/ NotifiedNext /\ UNCHANGED pages

PageSpec == PageInit /\ [][PageNext]_pageVars

\* The services are fair as in Saga, requests of a page are answered.
PageFairSpec ==
    /\ PageSpec
    /\ Fairness
    /\ NotificationFairness
    /\ \A o \in Orders :
          /\ WF_pageVars(GetOrder(o))
          /\ WF_pageVars(GetNotifications(o))
          /\ WF_pageVars(Show(o))

-----------------------------------------------------------------------------
\* A page that has stopped polling shows what the order service will say for ever,
\* however old the answer was when it arrived.
StoppedIsFinal ==
    \A o \in Orders : pages[o].at = "stopped" => pages[o].status = status[o]

\* The facts that may be told of an order with this status.
TellableWith(s) ==
    CASE s = "PAID"           -> {"OrderPlaced", "StockReserved", "PaymentCompleted"}
      [] s = "PAYMENT_FAILED" -> {"OrderPlaced", "StockReserved", "PaymentFailed"}
      [] s = "REJECTED"       -> {"OrderPlaced", "StockRejected"}
      [] OTHER                -> Types

\* Status and timeline are read from two services at two moments, and still the
\* page never shows a status together with a fact that contradicts it.
ShownAgree ==
    \A o \in Orders : Range(pages[o].timeline) \subseteq TellableWith(pages[o].status)

(***************************************************************************)
(* The inductive invariant.  What a page shows, or is about to show, was    *)
(* read at some earlier time: a final status is still the status, and the   *)
(* rows are still there.                                                    *)
(***************************************************************************)
PageBacked ==
    \A o \in Orders :
        /\ pages[o].at # "closed" => status[o] # "NONE"
        /\ pages[o].at = "stopped" => pages[o].status \in TERMINAL
        /\ \A rows \in pages[o].notifications \cup {pages[o].timeline} :
              Range(rows) \subseteq Range(notifications[o])

FinalStillTrue ==
    \A o \in Orders : \A s \in pages[o].order \cup {pages[o].status} :
        s \in TERMINAL => s = status[o]

\* A page that stays open on an order whose event was published stops in the end.
PageSettles ==
    \A o \in Orders :
        pages[o].at = "polling" /\ o \in Announced(TopicOrdersPlaced)
            ~> pages[o].at # "polling"
=============================================================================
