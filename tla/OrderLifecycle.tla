--------------------------- MODULE OrderLifecycle ---------------------------
(***************************************************************************)
(* What the services promise together, without topics, offsets or faults:  *)
(* the life of an order and the stock it holds.  An order that has been    *)
(* placed is given all of its stock or refused; held stock is paid for, or *)
(* the payment is declined and all of it goes back.  The customer is shown *)
(* the outcome once, later, and never another one.                         *)
(***************************************************************************)
EXTENDS Integers

CONSTANTS Orders, Products, Carts, InitialStock

VARIABLES phase,    \* where an order is in its life
          demand,   \* the cart it was placed with
          stock,    \* what is left of every product
          shown     \* the status the customer is shown

lifecycleVars == <<phase, demand, stock, shown>>

Init ==
    /\ phase = [o \in Orders |-> "none"]
    /\ demand = [o \in Orders |-> [p \in Products |-> 0]]
    /\ stock = InitialStock
    /\ shown = [o \in Orders |-> "NONE"]

Covers(cart) ==
    \A p \in Products : cart[p] > 0 => p \in DOMAIN InitialStock /\ cart[p] <= stock[p]

Move(o, from, to) ==
    /\ phase[o] = from
    /\ phase' = [phase EXCEPT ![o] = to]

Place(o, cart) ==
    /\ Move(o, "none", "placed")
    /\ demand' = [demand EXCEPT ![o] = cart]
    /\ shown' = [shown EXCEPT ![o] = "PENDING"]
    /\ UNCHANGED stock

Hold(o) ==
    /\ Move(o, "placed", "held")
    /\ Covers(demand[o])
    /\ stock' = [p \in DOMAIN InitialStock |-> stock[p] - demand[o][p]]
    /\ UNCHANGED <<demand, shown>>

Refuse(o) ==
    /\ Move(o, "placed", "refused")
    /\ ~Covers(demand[o])
    /\ UNCHANGED <<demand, stock, shown>>

Settle(o) ==
    /\ Move(o, "held", "paid") \/ Move(o, "held", "declined")
    /\ UNCHANGED <<demand, stock, shown>>

Return(o) ==
    /\ Move(o, "declined", "returned")
    /\ stock' = [p \in DOMAIN InitialStock |-> stock[p] + demand[o][p]]
    /\ UNCHANGED <<demand, shown>>

\* The phases with an outcome, and the status that tells the customer.
Outcome == [ paid |-> "PAID", refused |-> "REJECTED",
             declined |-> "PAYMENT_FAILED", returned |-> "PAYMENT_FAILED" ]

Show(o) ==
    /\ shown[o] = "PENDING"
    /\ phase[o] \in DOMAIN Outcome
    /\ shown' = [shown EXCEPT ![o] = Outcome[phase[o]]]
    /\ UNCHANGED <<phase, demand, stock>>

Next ==
    \E o \in Orders :
        \/ \E cart \in Carts : Place(o, cart)
        \/ Hold(o) \/ Refuse(o) \/ Settle(o) \/ Return(o) \/ Show(o)

SafeSpec == Init /\ [][Next]_lifecycleVars

\* A held order is settled, a declined one gives its stock back, an outcome is
\* shown.  Nothing says that a placed order is ever held or refused: its event
\* may be lost with the pod that should have published it.
Fairness ==
    \A o \in Orders : /\ WF_lifecycleVars(Settle(o))
                      /\ WF_lifecycleVars(Return(o))
                      /\ WF_lifecycleVars(Show(o))

LiveSpec == SafeSpec /\ Fairness
=============================================================================
