--------------------------- MODULE MCOrderRequest ---------------------------
(***************************************************************************)
(* Values for OrderRequest: two products on sale, one of them with two     *)
(* spellings, one product that is not on sale, and a text that is no UUID; *)
(* quantities of three bits, -4 to 3, so that three items overflow.        *)
(***************************************************************************)
EXTENDS OrderRequest, TLC

CONSTANTS p1, p2, p3, p1Text, p1Upper, p2Text, p3Text, noText

Item(text, quantity) == [product_id |-> text, quantity |-> quantity]

MCProducts == {p1, p2, p3}
MCTexts    == {p1Text, p1Upper, p2Text, p3Text, noText}
MCValue    == p1Text :> p1 @@ p1Upper :> p1 @@ p2Text :> p2 @@ p3Text :> p3
              @@ noText :> NoUUID
MCPrices   == p1 :> 1 @@ p2 :> 2

MCRequests ==
    { <<>>,
      <<Item(p1Text, 2), Item(p2Text, 0)>>,
      <<Item(p2Text, 1), Item(noText, 1)>>,
      <<Item(p1Upper, 1), Item(p3Text, 1)>>,
      <<Item(p1Text, 1), Item(p2Text, 2), Item(p1Text, 1)>>,
      <<Item(p2Text, 1), Item(p1Text, 1), Item(p1Upper, 1)>>,
      \* total negative; a line negative and the total not; a smaller order
      <<Item(p1Text, 3), Item(p1Text, 3)>>,
      <<Item(p1Text, 3), Item(p1Text, 2), Item(p2Text, 3)>>,
      <<Item(p1Text, 3), Item(p1Text, 3), Item(p1Text, 3)>> }
=============================================================================
