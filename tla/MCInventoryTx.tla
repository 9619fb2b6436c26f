---------------------------- MODULE MCInventoryTx ----------------------------
(***************************************************************************)
(* Values for StockCheck: two units of p1 and of p2.  The first two carts  *)
(* have both products, listed in opposite orders, and ask for more than    *)
(* there is; the third has a product without a row of stock after one with *)
(* a row.  CheckStock is asked for quantities that are there at times, for *)
(* the product without a row, and with a text that is no UUID.             *)
(***************************************************************************)
EXTENDS StockCheck, TLC

CONSTANTS o1, o2, o3, p1, p2, p3

MCOrders   == {o1, o2, o3}
MCProducts == {p1, p2, p3}
MCStock    == p1 :> 2 @@ p2 :> 2

Cart(a, b, c) == p1 :> a @@ p2 :> b @@ p3 :> c

MCDemand  == o1 :> Cart(1, 1, 0) @@ o2 :> Cart(2, 1, 0) @@ o3 :> Cart(0, 1, 1)
MCListing == o1 :> <<p1, p2>> @@ o2 :> <<p2, p1>> @@ o3 :> <<p2, p3>>
MCUnpaid  == {o1}

Ask(p, quantity) == [product |-> p, quantity |-> quantity]

MCChecks == { <<Ask(p1, 1), Ask(p2, 1)>>, <<Ask(p2, 2), Ask(p3, 1), Ask(NoUUID, 1)>> }
=============================================================================
