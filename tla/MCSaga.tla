------------------------------- MODULE MCSaga -------------------------------
(***************************************************************************)
(* Values for Saga.  One unit of p1 and of p2: the second order for p1 is  *)
(* rejected unless the first one was declined and its stock came back.     *)
(* The small cart is within the limit, the big one over it, the third has  *)
(* a product in the catalogue that has no row in stock, and the fourth one *)
(* that is not in the catalogue.                                           *)
(***************************************************************************)
EXTENDS Saga, TLC

CONSTANTS p1, p2, p3, p4

Cart(lines) == [p \in {p1, p2, p3, p4} |-> IF p \in lines THEN 1 ELSE 0]

MCProducts == {p1, p2, p3, p4}
MCPrices   == p1 :> 1 @@ p2 :> 2 @@ p3 :> 1
MCStock    == p1 :> 1 @@ p2 :> 1
MCLimits   == {2}

SmallCart   == Cart({p1})
BigCart     == Cart({p1, p2})
MissingCart == Cart({p1, p3})
UnknownCart == Cart({p4})

AllCarts == {SmallCart, BigCart, MissingCart, UnknownCart}
TwoCarts == {SmallCart, BigCart}

\* Orders and pods are interchangeable.
Symmetry == Permutations(Orders) \cup Permutations(InventoryPods)
=============================================================================
