---------------------------- MODULE MCOrderPage ----------------------------
(***************************************************************************)
(* Values for OrderPage: a cart within the limit, one over it, and one that *)
(* has no row in stock, so that the page of the one order shows every      *)
(* status and every story.                                                 *)
(***************************************************************************)
EXTENDS OrderPage, TLC

CONSTANTS p1, p2, p3

MCProducts == {p1, p2, p3}
MCPrices   == p1 :> 1 @@ p2 :> 3 @@ p3 :> 1
MCStock    == p1 :> 1 @@ p2 :> 1
MCLimits   == {2}
MCCarts    == { [p \in MCProducts |-> IF p = q THEN 1 ELSE 0] : q \in MCProducts }
=============================================================================
