----------------------------- MODULE MCGateway -----------------------------
(***************************************************************************)
(* Values for Gateway: the requests of the storefront; the routes it does  *)
(* not use; a preflight, a body that does not decode, an unknown path and  *)
(* a known one with another verb.  One client sends an id.                 *)
(***************************************************************************)
EXTENDS Gateway

MCSent ==
    { listProducts, placeOrder, getOrder("id"), getNotifications("id"),
      [placeOrder EXCEPT !.header = Id("client", "id")],
      [placeOrder EXCEPT !.body = "broken"],
      [placeOrder EXCEPT !.verb = "OPTIONS"],
      Http("GET", <<"v1", "products", "id">>, "none", RPC("product", "GetProduct")),
      Http("GET", <<"v1", "stock", "id">>, "none", RPC("inventory", "GetStock")),
      Http("POST", <<"inventory.v1.InventoryService", "CheckStock">>, "none",
           RPC("inventory", "CheckStock")),
      Http("GET", <<"v1", "carts">>, "none", NoRPC),
      Http("POST", <<"v1", "products">>, "none", NoRPC) }
=============================================================================
