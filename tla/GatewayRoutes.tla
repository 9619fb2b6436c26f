--------------------------- MODULE GatewayRoutes ---------------------------
(***************************************************************************)
(* What the gateway (services/bff) and the generated code do with one      *)
(* request, without any state: the middleware, the routes of the four      *)
(* services, how a route fills the request of its RPC, the RPC that its    *)
(* stub calls, the handler the server gives it to, and the HTTP status.    *)
(*                                                                         *)
(* A path is a sequence of segments.  A body is "none", "sound" or         *)
(* "broken": one that does not decode.                                     *)
(***************************************************************************)
EXTENDS Naturals, Sequences

\* An id, and who made it for what; there is none in a header that is not sent.
Id(by, for) == [by |-> by, for |-> for]
NoId        == Id("nobody", "nothing")

\* A request as it comes in; wants is the RPC that its sender has in mind.
Http(verb, path, body, wants) ==
    [verb |-> verb, path |-> path, body |-> body, wants |-> wants, header |-> NoId]

RPC(service, method) == [service |-> service, method |-> method]

NoRPC == RPC("", "")

Services == {"product", "order", "inventory", "notification"}

-----------------------------------------------------------------------------
(* The requests of the storefront, lib/api.ts *)

listProducts == Http("GET", <<"v1", "products">>, "none", RPC("product", "ListProducts"))

placeOrder == Http("POST", <<"v1", "orders">>, "sound", RPC("order", "PlaceOrder"))

getOrder(id) == Http("GET", <<"v1", "orders", id>>, "none", RPC("order", "GetOrder"))

getNotifications(id) ==
    Http("GET", <<"v1", "orders", id, "notifications">>, "none",
         RPC("notification", "ListNotifications"))

-----------------------------------------------------------------------------
(* The stubs of the clients and the methods of the servers *)

ProductServiceClient(method)      == RPC("product", method)
OrderServiceClient(method)        == RPC("order", method)
InventoryServiceClient(method)    == RPC("inventory", method)
NotificationServiceClient(method) == RPC("notification", method)

ProductService_ServiceDesc      == {"ListProducts", "GetProduct"}
OrderService_ServiceDesc        == {"PlaceOrder", "GetOrder"}
InventoryService_ServiceDesc    == {"CheckStock", "GetStock"}
NotificationService_ServiceDesc == {"ListNotifications"}

\* What a server has a handler for; anything else is answered Unimplemented.
Methods ==
    { RPC("product", m) : m \in ProductService_ServiceDesc }
    \cup { RPC("order", m) : m \in OrderService_ServiceDesc }
    \cup { RPC("inventory", m) : m \in InventoryService_ServiceDesc }
    \cup { RPC("notification", m) : m \in NotificationService_ServiceDesc }

Implemented(rpc) == rpc \in Methods

-----------------------------------------------------------------------------
(* The routes *)

\* A segment of a pattern that takes any segment of the path.
Any == "{}"

Route(verb, pattern, rpc) == [verb |-> verb, pattern |-> pattern, rpc |-> rpc]

ProductRoutes ==
    { Route("GET", <<"v1", "products">>,      ProductServiceClient("ListProducts")),
      Route("GET", <<"v1", "products", Any>>, ProductServiceClient("GetProduct")) }

OrderRoutes ==
    { Route("POST", <<"v1", "orders">>,     OrderServiceClient("PlaceOrder")),
      Route("GET", <<"v1", "orders", Any>>, OrderServiceClient("GetOrder")) }

\* CheckStock has no route in its proto: it gets the path of the RPC.
InventoryRoutes ==
    { Route("POST", <<"inventory.v1.InventoryService", "CheckStock">>,
            InventoryServiceClient("CheckStock")),
      Route("GET", <<"v1", "stock", Any>>, InventoryServiceClient("GetStock")) }

NotificationRoutes ==
    { Route("GET", <<"v1", "orders", Any, "notifications">>,
            NotificationServiceClient("ListNotifications")) }

Routes == ProductRoutes \cup OrderRoutes \cup InventoryRoutes \cup NotificationRoutes

Matches(pattern, path) ==
    /\ Len(pattern) = Len(path)
    /\ \A i \in DOMAIN path : pattern[i] \in {Any, path[i]}

\* The routes a request may take, and those its path fits with another verb.
RoutesFor(http) ==
    { r \in Routes : r.verb = http.verb /\ Matches(r.pattern, http.path) }

WrongVerb(http) ==
    RoutesFor(http) = {} /\ \E r \in Routes : Matches(r.pattern, http.path)

\* How a route fills the request of its RPC: OK, or the code of the answer.  An
\* empty body is an empty message.
FromBody(http)      == IF http.body = "broken" THEN "InvalidArgument" ELSE "OK"
FromPath(http, i)   == IF i \in DOMAIN http.path THEN "OK" ELSE "InvalidArgument"

request_ProductService_ListProducts(http)           == "OK"
request_ProductService_GetProduct(http)             == FromPath(http, 3)
request_OrderService_PlaceOrder(http)               == FromBody(http)
request_OrderService_GetOrder(http)                 == FromPath(http, 3)
request_InventoryService_CheckStock(http)           == FromBody(http)
request_InventoryService_GetStock(http)             == FromPath(http, 3)
request_NotificationService_ListNotifications(http) == FromPath(http, 3)

Filled(rpc, http) ==
    CASE rpc.method = "ListProducts"      -> request_ProductService_ListProducts(http)
      [] rpc.method = "GetProduct"        -> request_ProductService_GetProduct(http)
      [] rpc.method = "PlaceOrder"        -> request_OrderService_PlaceOrder(http)
      [] rpc.method = "GetOrder"          -> request_OrderService_GetOrder(http)
      [] rpc.method = "CheckStock"        -> request_InventoryService_CheckStock(http)
      [] rpc.method = "GetStock"          -> request_InventoryService_GetStock(http)
      [] rpc.method = "ListNotifications" -> request_NotificationService_ListNotifications(http)

-----------------------------------------------------------------------------
(* The answer *)

\* runtime.HTTPStatusFromCode on the codes the services use.
HTTPStatus(code) ==
    CASE code = "OK"              -> 200
      [] code = "InvalidArgument" -> 400
      [] code = "NotFound"        -> 404
      [] code = "Internal"        -> 500
      [] code = "Unimplemented"   -> 501
      [] code = "Unavailable"     -> 503

\* withCORS answers a preflight, which goes no further.
Preflight(http) == http.verb = "OPTIONS"

\* The gateway's own answers: to a preflight, a path without a route, a route with
\* another verb, a request that does not fit its RPC.
OwnAnswers(http) ==
    IF Preflight(http) THEN {204}
    ELSE IF WrongVerb(http) THEN {HTTPStatus("Unimplemented")}
    ELSE IF RoutesFor(http) = {} THEN {HTTPStatus("NotFound")}
    ELSE { HTTPStatus(code) : code \in { Filled(r.rpc, http) : r \in RoutesFor(http) } \ {"OK"} }

\* The RPCs a request may become.
Calls(http) ==
    IF Preflight(http) THEN {}
    ELSE { r.rpc : r \in { r \in RoutesFor(http) : Filled(r.rpc, http) = "OK" } }

-----------------------------------------------------------------------------
(* What the protos promise: the RPC that a verb and a path stand for *)

ProductApi(verb, path, method) ==
    /\ verb = "GET" /\ path[1] = "v1" /\ path[2] = "products"
    /\ \/ Len(path) = 2 /\ method = "ListProducts"
       \/ Len(path) = 3 /\ method = "GetProduct"

OrderApi(verb, path, method) ==
    /\ path[1] = "v1" /\ path[2] = "orders"
    /\ \/ Len(path) = 2 /\ verb = "POST" /\ method = "PlaceOrder"
       \/ Len(path) = 3 /\ verb = "GET" /\ method = "GetOrder"

InventoryApi(verb, path, method) ==
    \/ /\ verb = "POST" /\ Len(path) = 2 /\ method = "CheckStock"
       /\ path[1] = "inventory.v1.InventoryService" /\ path[2] = "CheckStock"
    \/ /\ verb = "GET" /\ Len(path) = 3 /\ method = "GetStock"
       /\ path[1] = "v1" /\ path[2] = "stock"

NotificationApi(verb, path, method) ==
    /\ verb = "GET" /\ Len(path) = 4 /\ method = "ListNotifications"
    /\ path[1] = "v1" /\ path[2] = "orders" /\ path[4] = "notifications"

Promised(http, rpc) ==
    /\ Len(http.path) >= 2
    /\ \/ rpc.service = "product"      /\ ProductApi(http.verb, http.path, rpc.method)
       \/ rpc.service = "order"        /\ OrderApi(http.verb, http.path, rpc.method)
       \/ rpc.service = "inventory"    /\ InventoryApi(http.verb, http.path, rpc.method)
       \/ rpc.service = "notification" /\ NotificationApi(http.verb, http.path, rpc.method)

\* Its sender has read the protos: it means what they promise for it.
Understood(http) ==
    \A rpc \in Methods : Promised(http, rpc) => http.wants = rpc

-----------------------------------------------------------------------------
(* Request ids, pkg/grpcmw *)

\* uuid.NewString, where it is called for a request.
Generated(where, request) == Id(where, request)

\* The id of a request in the gateway: its header, or a new one.
WithRequestID(header, request) ==
    IF header = NoId THEN Generated("gateway", request) ELSE header

\* A mutant of Outgoing: the interceptor is not installed.
NotSent(id) == NoId

\* The client interceptor: the id of the context is sent along.
Outgoing(id) == id

\* The server interceptor: what was sent along, or a new one.
FromIncoming(sent, where, request) ==
    IF sent = NoId THEN Generated(where, request) ELSE sent
=============================================================================
