---------------------------- MODULE InventoryTx ----------------------------
(***************************************************************************)
(* The two transactions of the inventory service, statement by statement.  *)
(*                                                                         *)
(* InventoryService takes each of them as one step.  Here the handlers of  *)
(* several pods run their statements against one PostgreSQL database in    *)
(* READ COMMITTED isolation: a statement sees what is committed, a row it  *)
(* changes or selects FOR UPDATE is locked until the transaction ends, and *)
(* a statement that needs a locked row waits.  Rows are locked in the      *)
(* order of the customer's cart, and released in the order the reservation *)
(* lines are read, so transactions may wait for each other in a circle:    *)
(* PostgreSQL then fails one of them, and its handler starts again.        *)
(*                                                                         *)
(* A transaction's writes are kept with it until it commits.  What can be  *)
(* locked is a row of stock, named by its product, and the row or the key  *)
(* of processed_orders, named by its order.                                *)
(***************************************************************************)
EXTENDS Integers, SequencesExt, Relation

CONSTANTS Pods,          \* pods that run handlers
          Orders,        \* orders that have an OrderPlaced in the log
          Products,
          InitialStock,  \* the seeded rows: product -> available
          Demand,        \* order -> product -> quantity
          Listing,       \* order -> the products its event asks for, in its order
          Unpaid,        \* orders whose payment will be declined
          MaxFailures    \* how many transactions may fail for no reason here,
                         \* and records of released orders come again

ASSUME InventoryTxAssumption ==
    /\ IsFiniteSet(Products) /\ Orders \cap Products = {}
    /\ DOMAIN InitialStock \subseteq Products
    /\ InitialStock \in [DOMAIN InitialStock -> Nat]
    /\ Demand \in [Orders -> [Products -> Nat]]
    /\ Listing \in [Orders -> Seq(Products)]
    /\ \A o \in Orders : /\ Range(Listing[o]) = { p \in Products : Demand[o][p] > 0 }
                         /\ Listing[o] # <<>>
    /\ Unpaid \subseteq Orders
    /\ MaxFailures \in Nat

VARIABLES available, reserved,  \* stock, as committed
          processed,            \* processed_orders.result, "NONE" without a row
          reservations,         \* reservations: order -> product -> quantity
          tx,                   \* the transaction each pod runs
          waiting,              \* the pods that wait for a lock, the first first
          failures              \* failed transactions and redeliveries so far

database == <<available, reserved, processed, reservations>>
vars     == <<database, tx, waiting, failures>>

StockRows == DOMAIN InitialStock
NoLines   == [p \in Products |-> 0]

\* No transaction, and one that is about to run its first statement on todo.
NoTx == [at |-> "idle", holds |-> {}]

Begun(statement, o, todo) ==
    [at |-> statement, order |-> o, todo |-> todo, moved |-> NoLines,
     result |-> "NONE", holds |-> {}]

Statements == {"GetStockForUpdate", "ReserveStock", "InsertProcessedOrder",
               "MarkOrderReleased", "ReleaseStock", "Commit"}

\* A transaction has lines left exactly in the statements that go line by line; a
\* line asks for at least one unit, the CHECK of reservations.quantity; and its
\* order is locked from the statement that writes to processed_orders.
Transactions ==
    { t \in [at : Statements, order : Orders, todo : Seq(Products),
             moved : [Products -> Nat],
             result : {"NONE", "RESERVED", "REJECTED", "RELEASED"},
             holds : SUBSET (StockRows \cup Orders)] :
         /\ t.at \in {"GetStockForUpdate", "ReserveStock", "ReleaseStock"} <=> t.todo # <<>>
         /\ \A p \in Range(t.todo) : Demand[t.order][p] > 0
         /\ t.at \in {"ReleaseStock", "Commit"} <=> t.order \in t.holds }

TypeOK ==
    /\ available \in [StockRows -> Nat] /\ reserved \in [StockRows -> Nat]
    /\ processed \in [Orders -> {"NONE", "RESERVED", "REJECTED", "RELEASED"}]
    /\ reservations \in [Orders -> [Products -> Nat]]
    /\ DOMAIN tx = Pods
    /\ \A pod \in Pods : tx[pod] = NoTx \/ tx[pod] \in Transactions
    /\ waiting \in Seq(Pods)
    /\ failures \in 0..MaxFailures

Init ==
    /\ available = InitialStock
    /\ reserved = [p \in StockRows |-> 0]
    /\ processed = [o \in Orders |-> "NONE"]
    /\ reservations = [o \in Orders |-> NoLines]
    /\ tx = [pod \in Pods |-> NoTx]
    /\ waiting = <<>>
    /\ failures = 0

-----------------------------------------------------------------------------
(* Locks *)

\* A mutant of RowLock: a plain SELECT.
NoLock(p) == {}

\* SELECT ... FOR UPDATE locks the row it reads, if there is one.
RowLock(p) == {p} \cap StockRows

\* A mutant of Needs: no row of stock is locked, as if the handler computed the
\* new row itself.
OnlyOrders(t) == IF t.at \in {"InsertProcessedOrder", "MarkOrderReleased"}
                 THEN {t.order} ELSE {}

\* What the next statement of a transaction has to lock.
Needs(t) ==
    CASE t.at = "GetStockForUpdate" -> RowLock(Head(t.todo))
      [] t.at \in {"ReserveStock", "ReleaseStock"} -> {Head(t.todo)}
      [] t.at \in {"InsertProcessedOrder", "MarkOrderReleased"} -> {t.order}
      [] OTHER -> {}

\* a is in the queue, and before b if b is in it, too.
Before(a, b) ==
    \E i \in DOMAIN waiting :
        /\ waiting[i] = a
        /\ \A j \in 1..i : waiting[j] # b

\* The locks a pod has yet to get for its next statement.
Wants(a) == Needs(tx[a]) \ tx[a].holds

\* a must wait for b, which has the lock, or which asked for it before a.
HeldBy(a, b) == a # b /\ Wants(a) \cap tx[b].holds # {}

WaitsFor(a, b) ==
    \/ HeldBy(a, b)
    \/ a # b /\ Before(b, a) /\ Wants(a) \cap Wants(b) # {}

Granted(pod) == \A other \in Pods : ~WaitsFor(pod, other)

\* The pods that wait for each other in a circle.
Deadlocked ==
    LET blocked == [pq \in Pods \X Pods |->
                       pq[1] \in Range(waiting) /\ HeldBy(pq[1], pq[2])]
        reach   == TransitiveClosure(blocked, Pods)
    IN  { pod \in Range(waiting) : reach[pod, pod] }

\* The statement of a pod has to wait.
Wait(pod) ==
    /\ pod \notin Range(waiting)
    /\ ~Granted(pod)
    /\ waiting' = Append(waiting, pod)
    /\ UNCHANGED <<database, tx, failures>>

\* A pod's transaction is rolled back; its handler returns an error, and the
\* record comes again, in the same process or in the next.
Rollback(pod) ==
    /\ tx' = [tx EXCEPT ![pod] = NoTx]
    /\ waiting' = RemoveFirst(waiting, pod)

\* The pod goes on with its transaction as t, having what it needed.
Continue(pod, t) ==
    /\ tx' = [tx EXCEPT ![pod] = [t EXCEPT !.holds = @ \cup Needs(tx[pod])]]
    /\ waiting' = RemoveFirst(waiting, pod)

-----------------------------------------------------------------------------
(* reserve *)

\* handleOrderPlaced finds no result and begins the transaction of reserve.
BeginReserve(pod, o) ==
    /\ tx[pod] = NoTx
    /\ processed[o] = "NONE"
    /\ tx' = [tx EXCEPT ![pod] = Begun("GetStockForUpdate", o, Listing[o])]
    /\ UNCHANGED <<database, waiting, failures>>

\* A mutant of Enough: one unit more than there is.
AlmostEnough(o, p) == p \in StockRows /\ available[p] + 1 >= Demand[o][p]

Enough(o, p) == p \in StockRows /\ available[p] >= Demand[o][p]

\* The first line without enough stock decides, the rest is not looked at.
GetStockForUpdate(pod) ==
    LET t == tx[pod]
    IN  /\ t.at = "GetStockForUpdate"
        /\ Granted(pod)
        /\ \/ /\ ~Enough(t.order, Head(t.todo))
              /\ Continue(pod, [t EXCEPT !.at = "InsertProcessedOrder",
                                         !.todo = <<>>, !.result = "REJECTED"])
           \/ /\ Enough(t.order, Head(t.todo))
              /\ Len(t.todo) > 1
              /\ Continue(pod, [t EXCEPT !.todo = Tail(@)])
           \/ /\ Enough(t.order, Head(t.todo))
              /\ Len(t.todo) = 1
              /\ Continue(pod, [t EXCEPT !.at = "ReserveStock",
                                         !.todo = Listing[t.order]])
        /\ UNCHANGED <<database, failures>>

\* ReserveStock and InsertReservation for one line.  The CHECK of stock refuses a
\* negative available, and the primary key of reservations a second line for the
\* same order and product.
ReserveStock(pod) ==
    LET t == tx[pod]
        p == Head(t.todo)
    IN  /\ t.at = "ReserveStock"
        /\ Granted(pod)
        /\ \/ /\ Demand[t.order][p] > available[p] \/ reservations[t.order][p] > 0
              /\ Rollback(pod)
           \/ /\ Demand[t.order][p] <= available[p] /\ reservations[t.order][p] = 0
              /\ Continue(pod,
                    [t EXCEPT !.todo = Tail(@),
                              !.moved[p] = Demand[t.order][p],
                              !.at = IF Len(t.todo) = 1 THEN "InsertProcessedOrder" ELSE @,
                              !.result = IF Len(t.todo) = 1 THEN "RESERVED" ELSE @])
        /\ UNCHANGED <<database, failures>>

\* The primary key of processed_orders: one result per order.
InsertProcessedOrder(pod) ==
    LET t == tx[pod]
    IN  /\ t.at = "InsertProcessedOrder"
        /\ Granted(pod)
        /\ \/ processed[t.order] # "NONE" /\ Rollback(pod)
           \/ /\ processed[t.order] = "NONE"
              /\ Continue(pod, [t EXCEPT !.at = "Commit"])
        /\ UNCHANGED <<database, failures>>

-----------------------------------------------------------------------------
(* handlePaymentFailed *)

\* PaymentFailed is announced only for an order whose stock was reserved.
BeginRelease(pod, o) ==
    /\ tx[pod] = NoTx
    /\ o \in Unpaid
    /\ processed[o] = "RESERVED"
    /\ tx' = [tx EXCEPT ![pod] = Begun("MarkOrderReleased", o, <<>>)]
    /\ UNCHANGED <<database, waiting, failures>>

\* PaymentFailed comes again after the release.
BeginReleaseAgain(pod, o) ==
    /\ tx[pod] = NoTx
    /\ processed[o] = "RELEASED"
    /\ failures < MaxFailures
    /\ failures' = failures + 1
    /\ tx' = [tx EXCEPT ![pod] = Begun("MarkOrderReleased", o, <<>>)]
    /\ UNCHANGED <<database, waiting>>

\* A mutant of Releasable: the wrong result in the WHERE clause.
OnlyRejected(o) == processed[o] = "REJECTED"

Releasable(o) == processed[o] = "RESERVED"

\* The lines of the reservation of an order; the query gives them in any order.
ListReservations(o) == SetToSeqs({ p \in Products : reservations[o][p] > 0 })

\* No row affected: nothing to do.
MarkOrderReleased(pod) ==
    LET t == tx[pod]
    IN  /\ t.at = "MarkOrderReleased"
        /\ Granted(pod)
        /\ \/ ~Releasable(t.order) /\ Rollback(pod)
           \/ /\ Releasable(t.order)
              /\ \E lines \in ListReservations(t.order) :
                    Continue(pod, [t EXCEPT !.at = "ReleaseStock", !.todo = lines,
                                            !.result = "RELEASED"])
        /\ UNCHANGED <<database, failures>>

\* ReleaseStock for one line; the CHECK of stock refuses a negative reserved.
ReleaseStock(pod) ==
    LET t == tx[pod]
        p == Head(t.todo)
    IN  /\ t.at = "ReleaseStock"
        /\ Granted(pod)
        /\ reservations[t.order][p] <= reserved[p]
        /\ Continue(pod, [t EXCEPT !.todo = Tail(@),
                                   !.moved[p] = reservations[t.order][p],
                                   !.at = IF Len(t.todo) = 1 THEN "Commit" ELSE @])
        /\ UNCHANGED <<database, failures>>

-----------------------------------------------------------------------------
(* The end of a transaction *)

\* Whether the answer reaches the pod makes no difference to the database: a
\* handler that gets none starts again and finds the result.
Commit(pod) ==
    LET t    == tx[pod]
        sign == IF t.result = "RELEASED" THEN -1 ELSE 1
    IN  /\ t.at = "Commit"
        /\ available' = [p \in StockRows |-> available[p] - sign * t.moved[p]]
        /\ reserved' = [p \in StockRows |-> reserved[p] + sign * t.moved[p]]
        /\ processed' = [processed EXCEPT ![t.order] = t.result]
        /\ reservations' = IF t.result = "RESERVED"
                           THEN [reservations EXCEPT ![t.order] = t.moved]
                           ELSE reservations
        /\ Rollback(pod)
        /\ UNCHANGED failures

\* The deadlock detector picks a victim.
DeadlockVictim(pod) ==
    /\ pod \in Deadlocked
    /\ Rollback(pod)
    /\ UNCHANGED <<database, failures>>

\* A lost connection, or the end of the pod.
Fail(pod) ==
    /\ tx[pod] # NoTx
    /\ failures < MaxFailures
    /\ failures' = failures + 1
    /\ Rollback(pod)
    /\ UNCHANGED database

\* Every record has been handled.
Rest ==
    /\ \A pod \in Pods : tx[pod] = NoTx
    /\ \A o \in Orders : /\ processed[o] # "NONE"
                         /\ o \in Unpaid => processed[o] # "RESERVED"
    /\ UNCHANGED vars

Statement(pod) ==
    \/ Wait(pod)
    \/ GetStockForUpdate(pod)
    \/ ReserveStock(pod)
    \/ InsertProcessedOrder(pod)
    \/ MarkOrderReleased(pod)
    \/ ReleaseStock(pod)
    \/ Commit(pod)

Begin(o) == \E pod \in Pods : BeginReserve(pod, o) \/ BeginRelease(pod, o)

Next ==
    \/ \E o \in Orders : Begin(o)
    \/ \E pod \in Pods, o \in Orders : BeginReleaseAgain(pod, o)
    \/ \E pod \in Pods : Statement(pod) \/ DeadlockVictim(pod) \/ Fail(pod)
    \/ Rest

Spec == Init /\ [][Next]_vars

\* A statement that need not wait is executed, a deadlock is found, and a
\* record that has not been handled is handled again.
Fairness ==
    /\ \A pod \in Pods : WF_vars(Statement(pod))
    /\ WF_vars(\E pod \in Pods : DeadlockVictim(pod))
    /\ \A o \in Orders : WF_vars(Begin(o))

FairSpec == Spec /\ Fairness

-----------------------------------------------------------------------------
(* Properties *)

Service == INSTANCE InventoryService
    WITH Carts <- { Demand[o] : o \in Orders }, MaxFaults <- 0,
         InventoryPods <- Pods, log <- <<>>, faults <- 0,
         emitting <- [pod \in Pods |-> [offset |-> 0]], inventoryHandled <- <<>>

\* Whatever statements interleave, every change of the database is one complete
\* transaction as InventoryService states it: an order without a result is
\* reserved or rejected by what is available at that very moment, or a reserved
\* order is released, once.
AtomicTransactions ==
    [][\E o \in Orders :
          \/ /\ ~Service!AlreadyProcessed(o)
             /\ Service!Reserve(o, Demand[o]) \/ Service!Reject(o, Demand[o])
          \/ /\ Service!Releasable(o)
             /\ Service!Release(o)
             /\ UNCHANGED reservations]_database

(***************************************************************************)
(* The inductive invariant.  No two transactions hold the same lock, and    *)
(* what a transaction goes by is true of rows it holds: so it is still true *)
(* when the transaction commits.                                            *)
(***************************************************************************)
Exclusive == \A a, b \in Pods : a # b => tx[a].holds \cap tx[b].holds = {}

\* The row of p covers what the order asks for, or does not.
Covered(t, p) == p \in StockRows \cap t.holds /\ Demand[t.order][p] <= available[p]
Short(t, p)   == p \in StockRows => p \in t.holds /\ available[p] < Demand[t.order][p]

\* What the reservation says, and the row of p has, goes back.
Returned(t, p) ==
    /\ t.moved[p] = reservations[t.order][p]
    /\ t.moved[p] > 0 => p \in StockRows \cap t.holds /\ t.moved[p] <= reserved[p]

\* The result a transaction has come to so far.
Results(t) ==
    CASE t.at \in {"GetStockForUpdate", "ReserveStock", "MarkOrderReleased"} -> {"NONE"}
      [] t.at = "InsertProcessedOrder" -> {"RESERVED", "REJECTED"}
      [] t.at = "ReleaseStock" -> {"RELEASED"}
      [] t.at = "Commit" -> {"RESERVED", "REJECTED", "RELEASED"}

Grounded(t) ==
    /\ t.result \in Results(t)
    /\ t.at \in {"GetStockForUpdate", "MarkOrderReleased"} \/ t.result = "REJECTED" =>
          t.moved = NoLines
    /\ t.at = "GetStockForUpdate" =>
          \A p \in Range(Listing[t.order]) \ Range(t.todo) : Covered(t, p)
    /\ t.at = "ReserveStock" \/ t.result = "RESERVED" =>
          /\ \A p \in Range(Listing[t.order]) : Covered(t, p)
          /\ \A p \in Products \ Range(t.todo) : t.moved[p] = Demand[t.order][p]
    /\ t.result = "REJECTED" => \E p \in Range(Listing[t.order]) : Short(t, p)
    /\ t.result = "RELEASED" =>
          /\ t.order \in t.holds /\ processed[t.order] = "RESERVED"
          /\ \A p \in Products \ Range(t.todo) : Returned(t, p)
    /\ t.at = "Commit" /\ t.result # "RELEASED" => processed[t.order] = "NONE"

\* A reservation is the order's demand, only rows of stock are reserved, and no unit
\* is lost.
Counted ==
    /\ \A o \in Orders :
          processed[o] \in {"RESERVED", "RELEASED"} => reservations[o] = Demand[o]
    /\ \A o \in Orders, p \in Products : reservations[o][p] > 0 => p \in StockRows
    /\ \A p \in StockRows : available[p] + reserved[p] = InitialStock[p]

TxInv ==
    /\ TypeOK
    /\ Exclusive
    /\ \A pod \in Pods : tx[pod] # NoTx => Grounded(tx[pod])
    /\ Counted

\* Every order gets a result, although its transaction may be the victim of a
\* deadlock or lose a race against another pod.
OrdersProcessed == \A o \in Orders : <>(processed[o] # "NONE")

\* A reserved order whose payment is declined is released.
DeclinedReleased ==
    \A o \in Unpaid : processed[o] = "RESERVED" ~> processed[o] = "RELEASED"
=============================================================================
