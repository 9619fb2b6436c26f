--------------------------- MODULE GatewayProofs ---------------------------
(***************************************************************************)
(* What a browser is told is so, and every log line can be traced to its   *)
(* request, for any number of requests of any kind that their senders      *)
(* understand, any services that may die and any number of faults.         *)
(***************************************************************************)
EXTENDS Gateway, TLAPS

-----------------------------------------------------------------------------
(* Routes *)

\* A path that a pattern of two, three or four segments takes.
LEMMA MatchesTwo ==
    ASSUME NEW path \in Seq(STRING), NEW a, NEW b, a # Any, b # Any,
           Matches(<<a, b>>, path)
    PROVE  Len(path) = 2 /\ path[1] = a /\ path[2] = b
<1>1. Len(path) = 2 /\ DOMAIN path = 1..2
  BY DEF Matches
<1>2. 1 \in DOMAIN path /\ 2 \in DOMAIN path
  BY <1>1
<1>3. <<a, b>>[1] \in {Any, path[1]} /\ <<a, b>>[2] \in {Any, path[2]}
  BY <1>2 DEF Matches
<1> QED
  BY <1>1, <1>3

LEMMA MatchesThree ==
    ASSUME NEW path \in Seq(STRING), NEW a, NEW b, a # Any, b # Any,
           Matches(<<a, b, Any>>, path)
    PROVE  Len(path) = 3 /\ path[1] = a /\ path[2] = b
<1>1. Len(path) = 3 /\ DOMAIN path = 1..3
  BY DEF Matches
<1>2. 1 \in DOMAIN path /\ 2 \in DOMAIN path
  BY <1>1
<1>3. <<a, b, Any>>[1] \in {Any, path[1]} /\ <<a, b, Any>>[2] \in {Any, path[2]}
  BY <1>2 DEF Matches
<1> QED
  BY <1>1, <1>3

LEMMA MatchesFour ==
    ASSUME NEW path \in Seq(STRING), NEW a, NEW b, NEW d, a # Any, b # Any, d # Any,
           Matches(<<a, b, Any, d>>, path)
    PROVE  Len(path) = 4 /\ path[1] = a /\ path[2] = b /\ path[4] = d
<1>1. Len(path) = 4 /\ DOMAIN path = 1..4
  BY DEF Matches
<1>2. 1 \in DOMAIN path /\ 2 \in DOMAIN path /\ 4 \in DOMAIN path
  BY <1>1
<1>3. /\ <<a, b, Any, d>>[1] \in {Any, path[1]} /\ <<a, b, Any, d>>[2] \in {Any, path[2]}
      /\ <<a, b, Any, d>>[4] \in {Any, path[4]}
  BY <1>2 DEF Matches
<1> QED
  BY <1>1, <1>3

\* The generated routes keep what the protos promise, whatever ids a path has.
LEMMA RoutesKeepPromises ==
    ASSUME NEW http, http.path \in Seq(STRING), NEW r \in RoutesFor(http)
    PROVE  r.rpc \in Methods /\ Promised(http, r.rpc)
<1>1. r \in Routes /\ r.verb = http.verb /\ Matches(r.pattern, http.path)
  BY DEF RoutesFor
<1>2. CASE r = Route("GET", <<"v1", "products">>, RPC("product", "ListProducts"))
  <2>1. Len(http.path) = 2 /\ http.path[1] = "v1" /\ http.path[2] = "products"
    BY <1>1, <1>2, MatchesTwo DEF Route, Any
  <2>2. r.rpc = RPC("product", "ListProducts") /\ http.verb = "GET"
    BY <1>1, <1>2 DEF Route
  <2>3. r.rpc \in Methods
    BY <2>2 DEF Methods, ProductService_ServiceDesc
  <2>4. r.rpc.service = "product" /\ r.rpc.method = "ListProducts"
    BY <2>2 DEF RPC
  <2>5. Promised(http, r.rpc)
    BY <2>1, <2>2, <2>4 DEF Promised, ProductApi
  <2> QED
    BY <2>3, <2>5
<1>3. CASE r = Route("GET", <<"v1", "products", Any>>, RPC("product", "GetProduct"))
  <2>1. Len(http.path) = 3 /\ http.path[1] = "v1" /\ http.path[2] = "products"
    BY <1>1, <1>3, MatchesThree DEF Route, Any
  <2>2. r.rpc = RPC("product", "GetProduct") /\ http.verb = "GET"
    BY <1>1, <1>3 DEF Route
  <2>3. r.rpc \in Methods
    BY <2>2 DEF Methods, ProductService_ServiceDesc
  <2>4. r.rpc.service = "product" /\ r.rpc.method = "GetProduct"
    BY <2>2 DEF RPC
  <2>5. Promised(http, r.rpc)
    BY <2>1, <2>2, <2>4 DEF Promised, ProductApi
  <2> QED
    BY <2>3, <2>5
<1>4. CASE r = Route("POST", <<"v1", "orders">>, RPC("order", "PlaceOrder"))
  <2>1. Len(http.path) = 2 /\ http.path[1] = "v1" /\ http.path[2] = "orders"
    BY <1>1, <1>4, MatchesTwo DEF Route, Any
  <2>2. r.rpc = RPC("order", "PlaceOrder") /\ http.verb = "POST"
    BY <1>1, <1>4 DEF Route
  <2>3. r.rpc \in Methods
    BY <2>2 DEF Methods, OrderService_ServiceDesc
  <2>4. r.rpc.service = "order" /\ r.rpc.method = "PlaceOrder"
    BY <2>2 DEF RPC
  <2>5. Promised(http, r.rpc)
    BY <2>1, <2>2, <2>4 DEF Promised, OrderApi
  <2> QED
    BY <2>3, <2>5
<1>5. CASE r = Route("GET", <<"v1", "orders", Any>>, RPC("order", "GetOrder"))
  <2>1. Len(http.path) = 3 /\ http.path[1] = "v1" /\ http.path[2] = "orders"
    BY <1>1, <1>5, MatchesThree DEF Route, Any
  <2>2. r.rpc = RPC("order", "GetOrder") /\ http.verb = "GET"
    BY <1>1, <1>5 DEF Route
  <2>3. r.rpc \in Methods
    BY <2>2 DEF Methods, OrderService_ServiceDesc
  <2>4. r.rpc.service = "order" /\ r.rpc.method = "GetOrder"
    BY <2>2 DEF RPC
  <2>5. Promised(http, r.rpc)
    BY <2>1, <2>2, <2>4 DEF Promised, OrderApi
  <2> QED
    BY <2>3, <2>5
<1>6. CASE r = Route("POST", <<"inventory.v1.InventoryService", "CheckStock">>,
                     RPC("inventory", "CheckStock"))
  <2>1. /\ Len(http.path) = 2 /\ http.path[1] = "inventory.v1.InventoryService"
        /\ http.path[2] = "CheckStock"
    BY <1>1, <1>6, MatchesTwo DEF Route, Any
  <2>2. r.rpc = RPC("inventory", "CheckStock") /\ http.verb = "POST"
    BY <1>1, <1>6 DEF Route
  <2>3. r.rpc \in Methods
    BY <2>2 DEF Methods, InventoryService_ServiceDesc
  <2>4. r.rpc.service = "inventory" /\ r.rpc.method = "CheckStock"
    BY <2>2 DEF RPC
  <2>5. Promised(http, r.rpc)
    BY <2>1, <2>2, <2>4 DEF Promised, InventoryApi
  <2> QED
    BY <2>3, <2>5
<1>7. CASE r = Route("GET", <<"v1", "stock", Any>>, RPC("inventory", "GetStock"))
  <2>1. Len(http.path) = 3 /\ http.path[1] = "v1" /\ http.path[2] = "stock"
    BY <1>1, <1>7, MatchesThree DEF Route, Any
  <2>2. r.rpc = RPC("inventory", "GetStock") /\ http.verb = "GET"
    BY <1>1, <1>7 DEF Route
  <2>3. r.rpc \in Methods
    BY <2>2 DEF Methods, InventoryService_ServiceDesc
  <2>4. r.rpc.service = "inventory" /\ r.rpc.method = "GetStock"
    BY <2>2 DEF RPC
  <2>5. Promised(http, r.rpc)
    BY <2>1, <2>2, <2>4 DEF Promised, InventoryApi
  <2> QED
    BY <2>3, <2>5
<1>8. CASE r = Route("GET", <<"v1", "orders", Any, "notifications">>,
                     RPC("notification", "ListNotifications"))
  <2>1. Len(http.path) = 4 /\ http.path[1] = "v1" /\ http.path[2] = "orders" /\ http.path[4] = "notifications"
    BY <1>1, <1>8, MatchesFour DEF Route, Any
  <2>2. r.rpc = RPC("notification", "ListNotifications") /\ http.verb = "GET"
    BY <1>1, <1>8 DEF Route
  <2>3. r.rpc \in Methods
    BY <2>2 DEF Methods, NotificationService_ServiceDesc
  <2>4. r.rpc.service = "notification" /\ r.rpc.method = "ListNotifications"
    BY <2>2 DEF RPC
  <2>5. Promised(http, r.rpc)
    BY <2>1, <2>2, <2>4 DEF Promised, NotificationApi
  <2> QED
    BY <2>3, <2>5
<1> QED
  BY <1>1, <1>2, <1>3, <1>4, <1>5, <1>6, <1>7, <1>8
  DEF Routes, ProductRoutes, OrderRoutes, InventoryRoutes, NotificationRoutes,
      ProductServiceClient, OrderServiceClient, InventoryServiceClient,
      NotificationServiceClient

\* A request that its sender understands becomes the RPC that it means.
LEMMA CallsAreMeant ==
    ASSUME NEW http \in Sent, NEW rpc \in Calls(http)
    PROVE  rpc \in Methods /\ rpc = http.wants
<1>1. PICK r \in RoutesFor(http) : rpc = r.rpc
  BY DEF Calls
<1>2. http.path \in Seq(STRING) /\ Understood(http)
  BY SentAssumption
<1>3. rpc \in Methods /\ Promised(http, rpc)
  BY <1>1, <1>2, RoutesKeepPromises
<1> QED
  BY <1>2, <1>3 DEF Understood

LEMMA MethodFacts ==
    ASSUME NEW rpc \in Methods
    PROVE  /\ rpc.service \in Services /\ rpc # NoRPC
           /\ rpc.method \in {"ListProducts", "GetProduct", "PlaceOrder", "GetOrder",
                              "CheckStock", "GetStock", "ListNotifications"}
<1>1. PICK s \in Services, m \in {"ListProducts", "GetProduct", "PlaceOrder", "GetOrder",
                                  "CheckStock", "GetStock", "ListNotifications"} :
         rpc = RPC(s, m)
  BY DEF Methods, Services, ProductService_ServiceDesc, OrderService_ServiceDesc,
         InventoryService_ServiceDesc, NotificationService_ServiceDesc
<1>2. rpc.service = s /\ rpc.method = m
  BY <1>1 DEF RPC
<1>3. NoRPC.service = ""
  BY DEF NoRPC, RPC
<1>4. "" \notin Services
  BY DEF Services
<1> QED
  BY <1>2, <1>3, <1>4

LEMMA StatusFacts ==
    /\ HTTPStatus("OK") = 200 /\ HTTPStatus("InvalidArgument") = 400
    /\ HTTPStatus("NotFound") = 404 /\ HTTPStatus("Internal") = 500
    /\ HTTPStatus("Unimplemented") = 501 /\ HTTPStatus("Unavailable") = 503
  BY DEF HTTPStatus

\* The gateway's own answers promise nothing that was done.
LEMMA OwnAnswersFacts ==
    ASSUME NEW http \in Sent, NEW status \in OwnAnswers(http)
    PROVE  status \in {204, 400, 404, 501}
<1>1. ASSUME NEW r \in RoutesFor(http), NEW code, code = Filled(r.rpc, http)
      PROVE  code \in {"OK", "InvalidArgument"}
  <2>1. r.rpc \in Methods
    BY RoutesKeepPromises, SentAssumption
  <2>2. /\ FromBody(http) \in {"OK", "InvalidArgument"}
        /\ \A i : FromPath(http, i) \in {"OK", "InvalidArgument"}
    BY DEF FromBody, FromPath
  <2> QED
    BY <1>1, <2>1, <2>2, MethodFacts
    DEF Filled, request_ProductService_ListProducts, request_ProductService_GetProduct,
        request_OrderService_PlaceOrder, request_OrderService_GetOrder,
        request_InventoryService_CheckStock, request_InventoryService_GetStock,
        request_NotificationService_ListNotifications
<1>2. ASSUME NEW code \in { Filled(r.rpc, http) : r \in RoutesFor(http) } \ {"OK"}
      PROVE  HTTPStatus(code) = 400
  BY <1>1, StatusFacts
<1> QED
  BY <1>2, StatusFacts DEF OwnAnswers

-----------------------------------------------------------------------------
(* One request *)

\* What GatewayInv says of a request r that is t, with some services alive and the
\* gateway in a phase; done: the requests whose order is committed.
Consistent(r, t, alive, phase, done) ==
    IF t = Unsent THEN r \notin done
    ELSE /\ t \in Handled(r)
         /\ t.at # "answered" => t.rpc.service \in Services
         /\ t.at \in InHandler => t.rpc.service \in alive
         /\ t.at = "pricing" => "product" \in alive
         /\ phase = "ended" => t.at = "answered"
         /\ t.id = WithRequestID(t.http.header, r)
         /\ t.rpc # NoRPC => t.rpc = t.http.wants /\ Implemented(t.rpc)
         /\ t.at # "answered" \/ t.status = 200 => t.rpc # NoRPC
         /\ t.at \in {"price", "pricing", "priced", "publish"} => t.rpc.method = "PlaceOrder"
         /\ r \in done => /\ t.rpc.method = "PlaceOrder"
                          /\ t.at = "answered" => t.status \notin NotDone
                          /\ t.at \in {"publish", "answered"}
         /\ t.at = "publish" => r \in done
         /\ (t.at = "answered" /\ t.status = 200 /\ t.rpc.method = "PlaceOrder") => r \in done

LEMMA RequestOf ==
    ASSUME GatewayInv, NEW r \in Requests
    PROVE  Consistent(r, request[r], up, pod, committed)
  BY DEF GatewayInv, TypeOK, Routed, Ordered, Under, Consistent

\* A step keeps the invariant if it keeps the parts of the gateway, leaves every
\* request consistent and known by its id, and logs lines with the ids of requests.
LEMMA Preserved ==
    ASSUME GatewayInv,
           pod' \in {"serving", "draining", "ended"},
           inService' \in BOOLEAN, inService' => pod' = "serving",
           up' \subseteq Services,
           channel' \in [Channels -> {"IDLE", "CONNECTING", "READY", "TRANSIENT_FAILURE"}],
           \A c \in Channels : channel'[c] = "READY" => Target(c) \in up',
           DOMAIN request' = Requests,
           committed' \subseteq Requests,
           faults' \in 0..MaxFaults,
           \A r \in Requests : Consistent(r, request'[r], up', pod', committed'),
           \A r \in Requests : request[r] # Unsent =>
              request'[r] # Unsent /\ request'[r].id = request[r].id,
           \A e \in entries' : e \in entries \/
              /\ e.request \in Requests /\ e.service \in Services
              /\ request'[e.request] # Unsent /\ e.id = request'[e.request].id
    PROVE  GatewayInv'
<1>1. \A e \in entries : e.request \in Requests /\ e.service \in Services
                         /\ request[e.request] # Unsent /\ e.id = request[e.request].id
  BY DEF GatewayInv, TypeOK, Logged
<1>2. \A e \in entries' : e.request \in Requests /\ e.service \in Services
                          /\ request'[e.request] # Unsent /\ e.id = request'[e.request].id
  BY <1>1
<1>3. ASSUME NEW r \in Requests, request'[r] # Unsent
      PROVE  /\ request'[r] \in Handled(r)
             /\ request'[r].at # "answered" => request'[r].rpc.service \in Services
             /\ request'[r].at \in InHandler => request'[r].rpc.service \in up'
             /\ request'[r].at = "pricing" => "product" \in up'
             /\ pod' = "ended" => request'[r].at = "answered"
  BY <1>3 DEF Consistent
<1>4. TypeOK'
  BY <1>2, <1>3 DEF TypeOK
<1>5. Routed'
  BY DEF Routed, Consistent
<1>6. Ordered'
  BY DEF Ordered, Consistent, Under
<1>7. Logged'
  BY <1>2 DEF Logged
<1> QED
  BY <1>4, <1>5, <1>6, <1>7 DEF GatewayInv

\* A request that goes on to a stage, and one that is answered.
LEMMA MoveFields ==
    ASSUME NEW r, NEW t \in Handled(r), NEW at \in Stages, NEW u, u = [t EXCEPT !.at = at]
    PROVE  /\ u \in Handled(r) /\ u.at = at /\ u.http = t.http /\ u.rpc = t.rpc
           /\ u.status = t.status /\ u.id = t.id
  BY DEF Handled

LEMMA AnswerFields ==
    ASSUME NEW r, NEW t \in Handled(r), NEW status \in Statuses,
           NEW u, u = Answered(t, status)
    PROVE  /\ u \in Handled(r) /\ u.at = "answered" /\ u.http = t.http /\ u.rpc = t.rpc
           /\ u.status = status /\ u.id = t.id
<1>1. DOMAIN t = {"at", "http", "rpc", "status", "id"}
  BY DEF Handled
<1>2. u = [f \in DOMAIN u |-> u[f]] /\ DOMAIN u = DOMAIN t
  BY DEF Answered
<1>3. /\ u.at = "answered" /\ u.http = t.http /\ u.rpc = t.rpc
      /\ u.status = status /\ u.id = t.id
  BY <1>1 DEF Answered
<1>p. PICK v : v = u
  OBVIOUS
<1>4. v = [at |-> "answered", http |-> t.http, rpc |-> t.rpc, status |-> status, id |-> t.id]
  BY <1>1, <1>2, <1>3, <1>p, Zenon
<1>5. "answered" \in Stages
  BY DEF Stages
<1>6. v \in Handled(r)
  BY <1>4, <1>5 DEF Handled
<1> QED
  BY <1>3, <1>6, <1>p

LEMMA HandledIsSent == ASSUME NEW r, NEW t \in Handled(r) PROVE t # Unsent
<1>1. DOMAIN t = {"at", "http", "rpc", "status", "id"}
  BY DEF Handled
<1>2. DOMAIN Unsent = {"at"}
  BY DEF Unsent
<1> QED
  BY <1>1, <1>2

\* Answering keeps a request consistent, wherever services and gateway are, if the
\* status does not belie what happened to the order.
LEMMA AnswerIsConsistent ==
    ASSUME NEW r, NEW t, t # Unsent, NEW alive, NEW phase, NEW done,
           Consistent(r, t, alive, phase, done), t.at # "answered",
           NEW more, r \in more => t.rpc.method = "PlaceOrder",
           NEW status \in Statuses,
           r \in more => status \notin NotDone,
           status = 200 /\ t.rpc.method = "PlaceOrder" => r \in more,
           NEW u, u = Answered(t, status)
    PROVE  /\ \A aliveThen, phaseThen : Consistent(r, u, aliveThen, phaseThen, more)
           /\ u # Unsent /\ u.id = t.id
<1>1. t \in Handled(r)
  BY DEF Consistent
<1>2. /\ u \in Handled(r) /\ u.at = "answered" /\ u.http = t.http /\ u.rpc = t.rpc
      /\ u.status = status /\ u.id = t.id
  BY <1>1, AnswerFields
<1>3. u # Unsent
  BY <1>2, HandledIsSent
<1>4. "answered" \notin InHandler
  BY DEF InHandler
<1> QED
  BY <1>2, <1>3, <1>4 DEF Consistent

\* A request that goes on, in the same services and the same gateway.
LEMMA MoveIsConsistent ==
    ASSUME NEW r, NEW t, t # Unsent, NEW alive, NEW phase, NEW done,
           Consistent(r, t, alive, phase, done), t.at \notin {"answered", "publish"},
           NEW at \in InHandler,
           t.rpc.service \in alive, at = "pricing" => "product" \in alive,
           at # "handler" => t.rpc.method = "PlaceOrder",
           NEW more, r \in done => r \in more, r \in more <=> at = "publish",
           NEW u, u = [t EXCEPT !.at = at]
    PROVE  /\ Consistent(r, u, alive, phase, more)
           /\ u # Unsent /\ u.id = t.id
<1>1. t \in Handled(r)
  BY DEF Consistent
<1>2. at \in Stages /\ at # "answered"
  BY DEF Stages, InHandler
<1>3. /\ u \in Handled(r) /\ u.at = at /\ u.http = t.http /\ u.rpc = t.rpc
      /\ u.status = t.status /\ u.id = t.id
  BY <1>1, <1>2, MoveFields
<1>4. u # Unsent
  BY <1>3, HandledIsSent
<1>5. at \in {"price", "pricing", "priced", "publish"} => at # "handler"
  OBVIOUS
<1> QED
  BY <1>2, <1>3, <1>4, <1>5 DEF Consistent

\* The lines of a request bear its id: the gateway's id is never missing, so no
\* interceptor makes another one.
LEMMA LineFacts ==
    ASSUME GatewayInv, NEW r \in Requests, request[r] # Unsent, NEW e \in Lines(r)
    PROVE  e.request = r /\ e.service \in Services /\ e.id = request[r].id
<1>1. Consistent(r, request[r], up, pod, committed)
  BY RequestOf
<1>2. request[r].id # NoId
  BY <1>1 DEF Consistent, WithRequestID, Generated, Id, NoId
<1>3. IdAt(r) = request[r].id /\ PricingId(r) = request[r].id
  BY <1>2 DEF IdAt, PricingId, FromIncoming, Outgoing
<1>4. \/ request[r].at \in InHandler /\ e = Entry(r, request[r].rpc.service, IdAt(r))
      \/ e = Entry(r, "product", PricingId(r))
  BY DEF Lines
<1>5. request[r].at \in InHandler => request[r].rpc.service \in Services
  BY <1>1 DEF Consistent, InHandler
<1>6. "product" \in Services
  BY DEF Services
<1> QED
  BY <1>3, <1>4, <1>5, <1>6 DEF Entry

-----------------------------------------------------------------------------
(* Steps of one request *)

\* A step that makes u of request r, which may commit its order and log its lines.
LEMMA OneRequest ==
    ASSUME GatewayInv, NEW r \in Requests, NEW u, request' = [request EXCEPT ![r] = u],
           UNCHANGED <<pod, inService, up, channel>>, faults' \in 0..MaxFaults,
           committed' \in {committed, committed \cup {r}},
           Consistent(r, u, up, pod, committed'),
           u # Unsent, request[r] # Unsent => u.id = request[r].id,
           \A e \in entries' : e \in entries \/ (request[r] # Unsent /\ e \in Lines(r))
    PROVE  GatewayInv'
<1>1. DOMAIN request = Requests
  BY DEF GatewayInv, TypeOK
<1>2. /\ DOMAIN request' = Requests /\ request'[r] = u
      /\ \A q \in Requests \ {r} : request'[q] = request[q]
  BY <1>1
<1>3. ASSUME NEW q \in Requests
      PROVE  Consistent(q, request'[q], up', pod', committed')
  <2>1. CASE q = r
    BY <1>2, <2>1
  <2>2. CASE q # r
    <3>1. q \in committed' <=> q \in committed
      BY <2>2
    <3>2. Consistent(q, request[q], up, pod, committed)
      BY RequestOf
    <3> QED
      BY <1>2, <2>2, <3>1, <3>2 DEF Consistent
  <2> QED
    BY <2>1, <2>2
<1>4. ASSUME NEW e \in entries', e \notin entries
      PROVE  /\ e.request \in Requests /\ e.service \in Services
             /\ request'[e.request] # Unsent /\ e.id = request'[e.request].id
  <2>1. request[r] # Unsent /\ e \in Lines(r)
    BY <1>4
  <2>2. e.request = r /\ e.service \in Services /\ e.id = request[r].id
    BY <2>1, LineFacts
  <2> QED
    BY <1>2, <2>1, <2>2
<1>5. ASSUME NEW q \in Requests, request[q] # Unsent
      PROVE  request'[q] # Unsent /\ request'[q].id = request[q].id
  BY <1>2, <1>5
<1>6. /\ pod' \in {"serving", "draining", "ended"}
      /\ inService' \in BOOLEAN /\ (inService' => pod' = "serving")
      /\ up' \subseteq Services
  BY DEF GatewayInv, TypeOK
<1>7. /\ channel' \in [Channels -> {"IDLE", "CONNECTING", "READY", "TRANSIENT_FAILURE"}]
      /\ \A c \in Channels : channel'[c] = "READY" => Target(c) \in up'
  BY DEF GatewayInv, TypeOK
<1>8. committed' \subseteq Requests
  BY DEF GatewayInv, TypeOK
<1> QED
  BY <1>2, <1>3, <1>4, <1>5, <1>6, <1>7, <1>8, Preserved

\* Answer, with what is committed and logged at the same time.
LEMMA AnswerStep ==
    ASSUME GatewayInv, NEW r \in Requests, request[r] # Unsent, request[r].at # "answered",
           NEW status \in Statuses, Answer(r, status),
           UNCHANGED <<pod, inService, up, channel>>, faults' \in 0..MaxFaults,
           committed' \in {committed, committed \cup {r}},
           r \in committed' =>
              request[r].rpc.method = "PlaceOrder" /\ status \notin NotDone,
           status = 200 /\ request[r].rpc.method = "PlaceOrder" => r \in committed',
           \A e \in entries' : e \in entries \/ e \in Lines(r)
    PROVE  GatewayInv'
<1>1. request' = [request EXCEPT ![r] = Answered(request[r], status)]
  BY DEF Answer
<1>p. PICK u : u = Answered(request[r], status)
  OBVIOUS
<1>2. Consistent(r, request[r], up, pod, committed)
  BY RequestOf
<1>t. PICK t, more : t = request[r] /\ more = committed'
  OBVIOUS
<1>3. /\ t # Unsent /\ t.at # "answered" /\ u = Answered(t, status)
      /\ Consistent(r, t, up, pod, committed)
      /\ r \in more => t.rpc.method = "PlaceOrder"
      /\ r \in more => status \notin NotDone
      /\ status = 200 /\ t.rpc.method = "PlaceOrder" => r \in more
  BY <1>2, <1>p, <1>t
<1>4. (\A alive, phase : Consistent(r, u, alive, phase, more)) /\ u # Unsent /\ u.id = t.id
  BY <1>3, AnswerIsConsistent
<1>5. request' = [request EXCEPT ![r] = u]
  BY <1>1, <1>p
<1> QED
  BY <1>4, <1>5, <1>t, OneRequest

\* Move, to a stage in a service.
LEMMA MoveStep ==
    ASSUME GatewayInv, NEW r \in Requests, request[r] # Unsent,
           request[r].at \notin {"answered", "publish"},
           NEW at \in InHandler, Move(r, at),
           UNCHANGED <<pod, inService, up, channel, faults>>,
           request[r].rpc.service \in up, at = "pricing" => "product" \in up,
           at # "handler" => request[r].rpc.method = "PlaceOrder",
           committed' \in {committed, committed \cup {r}},
           r \in committed' <=> at = "publish",
           \A e \in entries' : e \in entries \/ e \in Lines(r)
    PROVE  GatewayInv'
<1>1. request' = [request EXCEPT ![r] = [request[r] EXCEPT !.at = at]]
  BY DEF Move
<1>p. PICK u : u = [request[r] EXCEPT !.at = at]
  OBVIOUS
<1>2. Consistent(r, request[r], up, pod, committed)
  BY RequestOf
<1>3. r \in committed => r \in committed'
  OBVIOUS
<1>t. PICK t, more : t = request[r] /\ more = committed'
  OBVIOUS
<1>4. Consistent(r, u, up, pod, more) /\ u # Unsent /\ u.id = t.id
  BY <1>2, <1>3, <1>p, <1>t, MoveIsConsistent
<1>5. request' = [request EXCEPT ![r] = u]
  BY <1>1, <1>p
<1>6. faults' \in 0..MaxFaults
  BY DEF GatewayInv, TypeOK
<1> QED
  BY <1>4, <1>5, <1>6, <1>t, OneRequest

\* What a request that is under way has.
LEMMA UnderFacts ==
    ASSUME GatewayInv, NEW r \in Requests, NEW at, Under(r, at), at # "answered"
    PROVE  /\ request[r] # Unsent /\ request[r].at = at
           /\ request[r].rpc \in Methods /\ request[r].rpc.service \in Services
           /\ at \in InHandler => request[r].rpc.service \in up
           /\ at = "pricing" => "product" \in up
           /\ at \in {"price", "pricing", "priced", "publish"} =>
                 request[r].rpc.method = "PlaceOrder"
           /\ r \in committed <=> at = "publish"
<1>1. Consistent(r, request[r], up, pod, committed)
  BY RequestOf
<1> QED
  BY <1>1 DEF Under, Consistent, Implemented

LEMMA InitInv == Init => GatewayInv
<1> SUFFICES ASSUME Init
             PROVE  GatewayInv
  OBVIOUS
<1>1. TypeOK
  <2>1. channel \in [Channels -> {"IDLE", "CONNECTING", "READY", "TRANSIENT_FAILURE"}]
        /\ \A c \in Channels : channel[c] = "READY" => Target(c) \in up
    BY DEF Init
  <2>2. faults \in 0..MaxFaults
    BY GatewayAssumption DEF Init
  <2> QED
    BY <2>1, <2>2 DEF Init, TypeOK
<1>2. Routed /\ Ordered /\ Logged
  BY DEF Init, Routed, Ordered, Logged, Under
<1> QED
  BY <1>1, <1>2 DEF GatewayInv

LEMMA FaultBound ==
    ASSUME GatewayInv, Fault \/ UNCHANGED faults
    PROVE  faults' \in 0..MaxFaults
  BY GatewayAssumption DEF GatewayInv, TypeOK, Fault

-----------------------------------------------------------------------------
(* The actions *)

\* A request that comes in has an id of its own, and is known by it.
LEMMA CameFields ==
    ASSUME NEW r, NEW http \in Sent, NEW at \in Stages, NEW rpc \in Methods \cup {NoRPC},
           NEW status \in Statuses, NEW u, u = Came(r, http, at, rpc, status)
    PROVE  /\ u \in Handled(r) /\ u # Unsent /\ u.at = at /\ u.http = http /\ u.rpc = rpc
           /\ u.status = status /\ u.id = WithRequestID(http.header, r)
<1>p. PICK id : id = WithRequestID(http.header, r)
  OBVIOUS
<1>1. u = [at |-> at, http |-> http, rpc |-> rpc, status |-> status, id |-> id]
  BY <1>p DEF Came
<1>2. id \in { WithRequestID(sent.header, r) : sent \in Sent }
  BY <1>p
<1>3. u \in Handled(r)
  BY <1>1, <1>2 DEF Handled
<1> QED
  BY <1>1, <1>3, <1>p, HandledIsSent

LEMMA ComesStep ==
    ASSUME GatewayInv, NEW r \in Requests, request[r] = Unsent,
           NEW u, u # Unsent, Comes(r, u),
           Consistent(r, u, up, pod, committed),
           UNCHANGED <<pod, inService, up, channel, committed, entries, faults>>
    PROVE  GatewayInv'
<1>1. faults' \in 0..MaxFaults
  BY FaultBound
<1>2. request' = [request EXCEPT ![r] = u]
  BY DEF Comes
<1>3. entries' = entries /\ committed' = committed
  OBVIOUS
<1> QED
  BY <1>1, <1>2, <1>3, OneRequest

\* What the gateway answers itself: nothing was done.
OwnStatuses == {Refused, 204, 400, 404, 501}

\* It is consistent with no order.
LEMMA OwnAnswer ==
    ASSUME NEW r, NEW http \in Sent, NEW at, at = "answered", NEW rpc, rpc = NoRPC,
           NEW status \in OwnStatuses,
           NEW u, u = Came(r, http, at, rpc, status), NEW done, r \notin done
    PROVE  u # Unsent /\ \A alive, phase : Consistent(r, u, alive, phase, done)
<1>1. status \in Statuses /\ status # 200
  BY DEF OwnStatuses, Statuses, Refused
<1>2. at \in Stages /\ at \notin InHandler /\ rpc \in Methods \cup {NoRPC}
  BY DEF Stages, InHandler
<1>3. /\ u \in Handled(r) /\ u # Unsent /\ u.at = at /\ u.http = http
      /\ u.rpc = rpc /\ u.status = status /\ u.id = WithRequestID(http.header, r)
  BY <1>1, <1>2, CameFields
<1> QED
  BY <1>1, <1>2, <1>3 DEF Consistent

\* A request that comes in is answered by the gateway itself, or becomes the RPC it
\* means.
LEMMA ServeHTTPStep ==
    ASSUME GatewayInv, NEW r \in Requests, NEW http \in Sent, ServeHTTP(r, http)
    PROVE  GatewayInv'
<1>1. /\ request[r] = Unsent
      /\ UNCHANGED <<pod, inService, up, channel, committed, entries, faults>>
  BY DEF ServeHTTP
<1>2. r \notin committed
  BY <1>1, RequestOf DEF Consistent
<1>3. "answered" \in Stages /\ "invoke" \in Stages /\ {"answered", "invoke"} \cap InHandler = {}
  BY DEF Stages, InHandler
<1>5. ASSUME NEW rpc \in Calls(http), inService,
             NEW u, u = Came(r, http, "invoke", rpc, Lost)
      PROVE  u # Unsent /\ Consistent(r, u, up, pod, committed)
  <2>1. rpc \in Methods /\ rpc = http.wants /\ rpc.service \in Services /\ rpc # NoRPC
    BY CallsAreMeant, MethodFacts
  <2>2. Lost \in Statuses
    BY DEF Statuses
  <2>3. /\ u \in Handled(r) /\ u # Unsent /\ u.at = "invoke" /\ u.http = http
        /\ u.rpc = rpc /\ u.id = WithRequestID(http.header, r)
    BY <1>3, <1>5, <2>1, <2>2, CameFields
  <2>4. pod # "ended"
    BY <1>5 DEF GatewayInv, TypeOK
  <2> QED
    BY <1>2, <1>3, <2>1, <2>3, <2>4 DEF Consistent, Implemented
<1>6. CASE ~inService
  <2>1. Comes(r, Came(r, http, "answered", NoRPC, Refused))
    BY <1>6 DEF ServeHTTP
  <2>2. PICK u : u = Came(r, http, "answered", NoRPC, Refused)
    OBVIOUS
  <2>3. Refused \in OwnStatuses
    BY DEF OwnStatuses
  <2>4. u # Unsent /\ Consistent(r, u, up, pod, committed)
    BY <1>2, <2>2, <2>3, OwnAnswer
  <2> QED
    BY <1>1, <2>1, <2>2, <2>4, ComesStep
<1>7. CASE inService
  <2>1. \/ \E status \in OwnAnswers(http) :
              Comes(r, Came(r, http, "answered", NoRPC, status))
        \/ \E rpc \in Calls(http) : Comes(r, Came(r, http, "invoke", rpc, Lost))
    BY <1>7 DEF ServeHTTP
  <2>2. ASSUME NEW status \in OwnAnswers(http),
               Comes(r, Came(r, http, "answered", NoRPC, status))
        PROVE  GatewayInv'
    <3>1. PICK u : u = Came(r, http, "answered", NoRPC, status)
      OBVIOUS
    <3>2. status \in OwnStatuses
      BY OwnAnswersFacts DEF OwnStatuses
    <3>3. u # Unsent /\ Consistent(r, u, up, pod, committed)
      BY <1>2, <3>1, <3>2, OwnAnswer
    <3> QED
      BY <1>1, <2>2, <3>1, <3>3, ComesStep
  <2>3. ASSUME NEW rpc \in Calls(http), Comes(r, Came(r, http, "invoke", rpc, Lost))
        PROVE  GatewayInv'
    <3>1. PICK u : u = Came(r, http, "invoke", rpc, Lost)
      OBVIOUS
    <3> QED
      BY <1>1, <1>5, <1>7, <2>3, <3>1, ComesStep
  <2> QED
    BY <2>1, <2>2, <2>3
<1> QED
  BY <1>6, <1>7

LEMMA ServiceIsTarget ==
    ASSUME NEW s \in Services
    PROVE  s # Pricing /\ s \in Channels /\ Target(s) = s
  BY DEF Services, Pricing, Channels, Target

\* The steps of a channel.
LEMMA ChannelStep ==
    ASSUME GatewayInv, NEW c \in Channels,
           NEW state \in {"IDLE", "CONNECTING", "READY", "TRANSIENT_FAILURE"},
           state = "READY" => Target(c) \in up, Set(c, state),
           UNCHANGED <<pod, inService, up, request, committed, entries, faults>>
    PROVE  GatewayInv'
<1>1. channel' \in [Channels -> {"IDLE", "CONNECTING", "READY", "TRANSIENT_FAILURE"}]
  BY DEF GatewayInv, TypeOK, Set
<1>2. ASSUME NEW d \in Channels, channel'[d] = "READY" PROVE Target(d) \in up'
  BY <1>2 DEF GatewayInv, TypeOK, Set
<1>3. \A r \in Requests : Consistent(r, request'[r], up', pod', committed')
  BY RequestOf
<1>4. /\ pod' \in {"serving", "draining", "ended"}
      /\ inService' \in BOOLEAN /\ (inService' => pod' = "serving")
      /\ up' \subseteq Services /\ DOMAIN request' = Requests
      /\ committed' \subseteq Requests /\ faults' \in 0..MaxFaults
  BY DEF GatewayInv, TypeOK
<1> QED
  BY <1>1, <1>2, <1>3, <1>4, Preserved

LEMMA InvokeStep ==
    ASSUME GatewayInv, NEW r \in Requests, NEW c \in Channels, Invoke(r, c)
    PROVE  GatewayInv'
<1>1. /\ channel[c] = "READY" /\ Move(r, IF c = Pricing THEN "pricing" ELSE "handler")
      /\ UNCHANGED <<pod, inService, up, channel, committed, entries, faults>>
  BY DEF Invoke
<1>2. Target(c) \in up
  BY <1>1 DEF GatewayInv, TypeOK
<1>3. CASE Under(r, "invoke") /\ c = request[r].rpc.service
  <2>1. /\ request[r] # Unsent /\ request[r].at = "invoke" /\ r \notin committed
        /\ request[r].rpc.service \in Services
    BY <1>3, UnderFacts
  <2>2. c # Pricing /\ Target(c) = c
    BY <1>3, <2>1, ServiceIsTarget
  <2>3. Move(r, "handler") /\ request[r].rpc.service \in up
    BY <1>1, <1>2, <1>3, <2>2
  <2>4. "handler" \in InHandler
    BY DEF InHandler
  <2> QED
    BY <1>1, <2>1, <2>3, <2>4, MoveStep
<1>4. CASE Under(r, "price") /\ c = Pricing
  <2>1. "price" \in InHandler /\ "pricing" \in InHandler
    BY DEF InHandler
  <2>2. /\ request[r] # Unsent /\ request[r].at = "price" /\ r \notin committed
        /\ request[r].rpc.service \in up /\ request[r].rpc.method = "PlaceOrder"
    BY <1>4, <2>1, UnderFacts
  <2>3. Move(r, "pricing") /\ "product" \in up
    BY <1>1, <1>2, <1>4 DEF Target
  <2> QED
    BY <1>1, <2>1, <2>2, <2>3, MoveStep
<1> QED
  BY <1>3, <1>4 DEF Invoke, Uses

LEMMA StatusesAre ==
    /\ Refused \in Statuses /\ Lost \in Statuses
    /\ \A n \in {200, 204, 400, 404, 500, 501, 503} : n \in Statuses
    /\ \A n \in {Lost, 200, 500, 503} : n \notin NotDone
    /\ Lost # 200
  BY DEF Statuses, NotDone, Refused, Lost

LEMMA FailFastStep ==
    ASSUME GatewayInv, NEW r \in Requests, NEW c \in Channels, FailFast(r, c)
    PROVE  GatewayInv'
<1>1. UNCHANGED <<pod, inService, up, channel, committed, faults>>
  BY DEF FailFast
<1>2. faults' \in 0..MaxFaults
  BY <1>1, FaultBound
<1>3. PICK at \in {"invoke", "price"} : Under(r, at)
  BY DEF FailFast, Uses
<1>4. /\ request[r] # Unsent /\ request[r].at # "answered" /\ r \notin committed
  BY <1>3, UnderFacts
<1>5. PICK status \in {500, 503} : Answer(r, status)
  BY StatusFacts DEF FailFast
<1>6. \A e \in entries' : e \in entries \/ e \in Lines(r)
  BY DEF FailFast, Log
<1>7. status \in Statuses /\ status # 200
  BY <1>5, StatusesAre
<1> QED
  BY <1>1, <1>2, <1>4, <1>5, <1>6, <1>7, AnswerStep

\* A handler that changes nothing returns.
LEMMA HandlerReturnsStep ==
    ASSUME GatewayInv, NEW r \in Requests,
           NEW code \in {"OK", "InvalidArgument", "NotFound", "Internal"},
           HandlerReturns(r, code)
    PROVE  GatewayInv'
<1>1. /\ Under(r, "handler") /\ Answer(r, HTTPStatus(code))
      /\ request[r].rpc.method = "PlaceOrder" => code = "InvalidArgument"
      /\ UNCHANGED <<pod, inService, up, channel, committed, faults>>
      /\ entries' = entries \cup Lines(r)
  BY DEF HandlerReturns, Returns, Log
<1>2. faults' \in 0..MaxFaults
  BY <1>1, FaultBound
<1>3. request[r] # Unsent /\ request[r].at # "answered" /\ r \notin committed
  BY <1>1, UnderFacts
<1>p. PICK status : status = HTTPStatus(code)
  OBVIOUS
<1>4. status \in Statuses /\ (status = 200 => request[r].rpc.method # "PlaceOrder")
  BY <1>1, <1>p, StatusFacts, StatusesAre
<1>5. Answer(r, status)
  BY <1>1, <1>p
<1> QED
  BY <1>1, <1>2, <1>3, <1>4, <1>5, AnswerStep

LEMMA AskPriceStep ==
    ASSUME GatewayInv, NEW r \in Requests, AskPrice(r)
    PROVE  GatewayInv'
<1>1. /\ Under(r, "handler") /\ request[r].rpc.method = "PlaceOrder" /\ Move(r, "price")
      /\ UNCHANGED <<pod, inService, up, channel, committed, entries, faults>>
  BY DEF AskPrice
<1>2. "handler" \in InHandler /\ "price" \in InHandler
  BY DEF InHandler
<1>3. /\ request[r] # Unsent /\ request[r].at = "handler" /\ r \notin committed
      /\ request[r].rpc.service \in up
  BY <1>1, <1>2, UnderFacts
<1> QED
  BY <1>1, <1>2, <1>3, MoveStep

LEMMA GetProductReturnsStep ==
    ASSUME GatewayInv, NEW r \in Requests, GetProductReturns(r)
    PROVE  GatewayInv'
<1>1. /\ Under(r, "pricing") /\ Move(r, "priced")
      /\ UNCHANGED <<pod, inService, up, channel, committed, faults>>
      /\ entries' = entries \cup {Entry(r, "product", PricingId(r))}
  BY DEF GetProductReturns, Log
<1>2. "pricing" \in InHandler /\ "priced" \in InHandler
  BY DEF InHandler
<1>3. /\ request[r] # Unsent /\ request[r].at = "pricing" /\ r \notin committed
      /\ request[r].rpc.service \in up /\ request[r].rpc.method = "PlaceOrder"
  BY <1>1, <1>2, UnderFacts
<1>4. \A e \in entries' : e \in entries \/ e \in Lines(r)
  BY <1>1, <1>3 DEF Lines
<1> QED
  BY <1>1, <1>2, <1>3, <1>4, MoveStep

LEMMA ProductUnknownStep ==
    ASSUME GatewayInv, NEW r \in Requests, ProductUnknown(r)
    PROVE  GatewayInv'
<1>1. /\ Under(r, "priced") /\ Answer(r, 400)
      /\ UNCHANGED <<pod, inService, up, channel, committed, faults>>
      /\ entries' = entries \cup Lines(r)
  BY StatusFacts DEF ProductUnknown, Returns, Log
<1>2. faults' \in 0..MaxFaults
  BY <1>1, FaultBound
<1>3. request[r] # Unsent /\ request[r].at # "answered" /\ r \notin committed
  BY <1>1, UnderFacts
<1>4. 400 \in Statuses /\ 400 # 200
  BY StatusesAre
<1> QED
  BY <1>1, <1>2, <1>3, <1>4, AnswerStep

LEMMA CommitOrderStep ==
    ASSUME GatewayInv, NEW r \in Requests, CommitOrder(r)
    PROVE  GatewayInv'
<1>1. /\ Under(r, "priced") /\ Move(r, "publish") /\ committed' = committed \cup {r}
      /\ UNCHANGED <<pod, inService, up, channel, entries, faults>>
  BY DEF CommitOrder
<1>2. "priced" \in InHandler /\ "publish" \in InHandler
  BY DEF InHandler
<1>3. /\ request[r] # Unsent /\ request[r].at = "priced"
      /\ request[r].rpc.service \in up /\ request[r].rpc.method = "PlaceOrder"
  BY <1>1, <1>2, UnderFacts
<1> QED
  BY <1>1, <1>2, <1>3, MoveStep

LEMMA CommitFailsStep ==
    ASSUME GatewayInv, NEW r \in Requests, CommitFails(r)
    PROVE  GatewayInv'
<1>1. /\ Under(r, "priced") /\ Answer(r, 500)
      /\ UNCHANGED <<pod, inService, up, channel, faults>>
      /\ entries' = entries \cup Lines(r)
      /\ \E sent \in SUBSET {r} : committed' = committed \cup sent
  BY StatusFacts DEF CommitFails, Log
<1>2. faults' \in 0..MaxFaults
  BY <1>1, FaultBound
<1>3. /\ request[r] # Unsent /\ request[r].at # "answered"
      /\ request[r].rpc.method = "PlaceOrder"
  BY <1>1, UnderFacts
<1>4. committed' \in {committed, committed \cup {r}}
  BY <1>1
<1>5. 500 \in Statuses /\ 500 # 200 /\ 500 \notin NotDone
  BY StatusesAre
<1> QED
  BY <1>1, <1>2, <1>3, <1>4, <1>5, AnswerStep

LEMMA OrderReturnsStep ==
    ASSUME GatewayInv, NEW r \in Requests, OrderReturns(r)
    PROVE  GatewayInv'
<1>1. /\ Under(r, "publish") /\ Answer(r, 200)
      /\ UNCHANGED <<pod, inService, up, channel, committed, faults>>
      /\ entries' = entries \cup Lines(r)
  BY StatusFacts DEF OrderReturns, Returns, Log
<1>2. faults' \in 0..MaxFaults
  BY <1>1, FaultBound
<1>3. /\ request[r] # Unsent /\ request[r].at # "answered" /\ r \in committed
      /\ request[r].rpc.method = "PlaceOrder"
  BY <1>1, UnderFacts
<1>4. 200 \in Statuses /\ 200 \notin NotDone
  BY StatusesAre
<1> QED
  BY <1>1, <1>2, <1>3, <1>4, AnswerStep

\* A browser that leaves may leave behind an order that is committed all the same.
LEMMA GoesAwayStep ==
    ASSUME GatewayInv, NEW r \in Requests, GoesAway(r)
    PROVE  GatewayInv'
<1>1. /\ request[r] # Unsent /\ request[r].at # "answered" /\ Answer(r, Lost)
      /\ UNCHANGED <<pod, inService, up, channel>>
      /\ entries' = entries \cup Lines(r)
      /\ \E sent \in Undecided({r}) : committed' = committed \cup sent
  BY DEF GoesAway, Log
<1>2. faults' \in 0..MaxFaults
  BY FaultBound DEF GoesAway
<1>3. /\ committed' \in {committed, committed \cup {r}}
      /\ r \in committed' => r \in committed \/ Under(r, "priced")
  BY <1>1 DEF Undecided
<1>4. r \in committed' => request[r].rpc.method = "PlaceOrder"
  <2>1. CASE r \in committed
    BY <1>1, <2>1, RequestOf DEF Consistent
  <2>2. CASE Under(r, "priced")
    BY <2>2, UnderFacts
  <2> QED
    BY <1>3, <2>1, <2>2
<1>5. Lost \in Statuses /\ Lost # 200 /\ Lost \notin NotDone
  BY StatusesAre
<1> QED
  BY <1>1, <1>2, <1>3, <1>4, <1>5, AnswerStep

-----------------------------------------------------------------------------
(* The steps of channels, of services and of the gateway's process *)

LEMMA DialStep ==
    ASSUME GatewayInv, NEW c \in Channels, Dial(c)
    PROVE  GatewayInv'
<1>1. Set(c, "CONNECTING") /\ UNCHANGED <<pod, inService, up, request, committed, entries, faults>>
  BY DEF Dial
<1> QED
  BY <1>1, ChannelStep

LEMMA ConnectedStep ==
    ASSUME GatewayInv, NEW c \in Channels, Connected(c)
    PROVE  GatewayInv'
<1>1. /\ Target(c) \in up /\ Set(c, "READY")
      /\ UNCHANGED <<pod, inService, up, request, committed, entries, faults>>
  BY DEF Connected
<1> QED
  BY <1>1, ChannelStep

LEMMA ConnectFailsStep ==
    ASSUME GatewayInv, NEW c \in Channels, ConnectFails(c)
    PROVE  GatewayInv'
<1>1. /\ Set(c, "TRANSIENT_FAILURE")
      /\ UNCHANGED <<pod, inService, up, request, committed, entries, faults>>
  BY DEF ConnectFails
<1> QED
  BY <1>1, ChannelStep

\* What says nothing about an order.
SayNothing == {Lost, 500, 503}

\* A request that is cut off, with no answer or one that says nothing.
LEMMA CutOff ==
    ASSUME GatewayInv, NEW r \in Requests, request[r] # Unsent, request[r].at # "answered",
           NEW status \in SayNothing,
           NEW more, r \in more => r \in committed \/ Under(r, "priced"),
           NEW u, u = Answered(request[r], status)
    PROVE  /\ \A alive, phase : Consistent(r, u, alive, phase, more)
           /\ u # Unsent /\ u.id = request[r].id
<1>1. Consistent(r, request[r], up, pod, committed)
  BY RequestOf
<1>2. status \in Statuses
  BY StatusesAre DEF SayNothing
<1>n. status \notin NotDone /\ status # 200
  BY StatusesAre DEF SayNothing
<1>3. r \in more => request[r].rpc.method = "PlaceOrder"
  <2>1. CASE r \in committed
    BY <1>1, <2>1 DEF Consistent
  <2>2. CASE Under(r, "priced")
    BY <2>2, UnderFacts
  <2> QED
    BY <2>1, <2>2
<1>4. PICK t : t = request[r]
  OBVIOUS
<1>f. PICK final \in Statuses : final = status
  BY <1>2
<1>5. /\ t # Unsent /\ t.at # "answered" /\ u = Answered(t, final)
      /\ Consistent(r, t, up, pod, committed)
      /\ r \in more => t.rpc.method = "PlaceOrder"
      /\ r \in more => final \notin NotDone
      /\ final = 200 /\ t.rpc.method = "PlaceOrder" => r \in more
  BY <1>1, <1>3, <1>4, <1>f, <1>n
<1>6. t \in Handled(r)
  BY <1>5 DEF Consistent
<1>7. u \in Handled(r) /\ u.id = t.id /\ u # Unsent
  BY <1>5, <1>6, AnswerFields, HandledIsSent
<1>8. \A alive, phase : Consistent(r, u, alive, phase, more)
  BY <1>5, AnswerIsConsistent
<1> QED
  BY <1>4, <1>7, <1>8

\* A step in which a set of requests that are under way is cut off, and the commit
\* that one of them sent may count: what Dies and Ends do.
LEMMA ManyCutOff ==
    ASSUME GatewayInv, NEW S \in SUBSET Requests,
           \A r \in S : request[r] # Unsent /\ request[r].at # "answered",
           NEW status, \A r \in S : status[r] \in SayNothing,
           DOMAIN request' = Requests,
           \A r \in S : request'[r] = Answered(request[r], status[r]),
           \A r \in Requests \ S : request'[r] = request[r],
           \E sent \in Undecided(S) : committed' = committed \cup sent
    PROVE  /\ \A r \in S : \A alive, phase :
                 Consistent(r, request'[r], alive, phase, committed')
           /\ \A r \in Requests : request[r] # Unsent =>
                 request'[r] # Unsent /\ request'[r].id = request[r].id
           /\ \A r \in Requests \ S : r \in committed' <=> r \in committed
           /\ committed' \subseteq Requests
<1>1. /\ committed' \subseteq Requests
      /\ \A r \in Requests : r \in committed' =>
            r \in committed \/ (r \in S /\ Under(r, "priced"))
      /\ \A r \in committed : r \in committed'
  BY DEF GatewayInv, TypeOK, Undecided
<1>2. ASSUME NEW r \in S
      PROVE  /\ \A alive, phase : Consistent(r, request'[r], alive, phase, committed')
             /\ request'[r] # Unsent /\ request'[r].id = request[r].id
  <2>1. r \in Requests /\ status[r] \in SayNothing
    OBVIOUS
  <2>2. PICK final \in SayNothing : final = status[r]
    BY <2>1
  <2>u. PICK more, u : more = committed' /\ u = Answered(request[r], final)
    OBVIOUS
  <2>3. /\ request[r] # Unsent /\ request[r].at # "answered" /\ request'[r] = u
        /\ r \in more => r \in committed \/ Under(r, "priced")
    BY <1>1, <1>2, <2>1, <2>2, <2>u
  <2>4. u = Answered(request[r], final) /\ r \in Requests /\ final \in SayNothing
    BY <2>1, <2>u
  <2>5. \A alive, phase : Consistent(r, u, alive, phase, more)
    BY <2>3, <2>4, CutOff
  <2>6. u # Unsent /\ u.id = request[r].id
    <3>1. Consistent(r, request[r], up, pod, committed) /\ final \in Statuses
      BY <2>4, RequestOf, StatusesAre DEF SayNothing
    <3>2. request[r] \in Handled(r)
      BY <2>3, <3>1 DEF Consistent
    <3> QED
      BY <2>4, <3>1, <3>2, AnswerFields, HandledIsSent
  <2> QED
    BY <2>3, <2>5, <2>6, <2>u
<1>3. ASSUME NEW r \in Requests \ S
      PROVE  r \in committed' <=> r \in committed
  BY <1>1
<1> QED
  BY <1>1, <1>2, <1>3


\* A request that is under way, and not in a service that died, is not there.
LEMMA NotIn ==
    ASSUME GatewayInv, NEW r \in Requests, NEW s, r \notin In(s), request[r] # Unsent
    PROVE  /\ request[r].at \in InHandler => request[r].rpc.service # s
           /\ request[r].at = "pricing" => "product" # s
  BY DEF In, Under

LEMMA DiesStep ==
    ASSUME GatewayInv, NEW s \in Services, Dies(s)
    PROVE  GatewayInv'
<1>1. /\ s \in up /\ up' = up \ {s} /\ UNCHANGED <<pod, inService>>
      /\ \E sent \in Undecided(In(s)) : committed' = committed \cup sent
      /\ entries' = entries \cup { line \in UNION { Lines(r) : r \in In(s) } : line.service # s }
  BY DEF Dies, Log
<1>2. faults' \in 0..MaxFaults
  BY FaultBound DEF Dies
<1>3. DOMAIN request' = Requests /\ DOMAIN request = Requests
  BY DEF Dies, GatewayInv, TypeOK
<1>4. /\ In(s) \in SUBSET Requests
      /\ \A r \in In(s) : request[r] # Unsent /\ request[r].at # "answered"
  BY DEF In, Under, InHandler
<1>5. PICK status : status = [r \in Requests |->
                       HTTPStatus(IF request[r].rpc.service = s THEN "Unavailable" ELSE "Internal")]
  OBVIOUS
<1>6. \A r \in In(s) : status[r] \in SayNothing
  BY <1>4, <1>5, StatusFacts DEF SayNothing
<1>7. /\ \A r \in In(s) : request'[r] = Answered(request[r], status[r])
      /\ \A r \in Requests \ In(s) : request'[r] = request[r]
  BY <1>4, <1>5 DEF Dies
<1>8. /\ \A r \in In(s) : \A alive, phase : Consistent(r, request'[r], alive, phase, committed')
      /\ \A r \in Requests : request[r] # Unsent =>
            request'[r] # Unsent /\ request'[r].id = request[r].id
      /\ \A r \in Requests \ In(s) : r \in committed' <=> r \in committed
      /\ committed' \subseteq Requests
  BY <1>1, <1>3, <1>4, <1>6, <1>7, ManyCutOff
<1>9. ASSUME NEW r \in Requests PROVE Consistent(r, request'[r], up', pod', committed')
  <2>1. CASE r \in In(s)
    BY <1>8, <2>1
  <2>2. CASE r \notin In(s)
    <3>1. request'[r] = request[r] /\ (r \in committed' <=> r \in committed)
      BY <1>7, <1>8, <2>2
    <3>2. /\ Consistent(r, request[r], up, pod, committed)
          /\ request[r] # Unsent => /\ request[r].at \in InHandler => request[r].rpc.service # s
                                    /\ request[r].at = "pricing" => "product" # s
      BY <2>2, RequestOf, NotIn
    <3> QED
      BY <1>1, <3>1, <3>2 DEF Consistent
  <2> QED
    BY <2>1, <2>2
<1>10. /\ channel' \in [Channels -> {"IDLE", "CONNECTING", "READY", "TRANSIENT_FAILURE"}]
       /\ \A c \in Channels : channel'[c] = "READY" => Target(c) \in up'
  <2>1. channel' = [c \in Channels |->
          IF Target(c) = s /\ channel[c] = "READY" THEN "IDLE"
          ELSE IF s = "order" /\ c = Pricing THEN "IDLE" ELSE channel[c]]
    BY DEF Dies
  <2>2. /\ channel \in [Channels -> {"IDLE", "CONNECTING", "READY", "TRANSIENT_FAILURE"}]
        /\ \A c \in Channels : channel[c] = "READY" => Target(c) \in up
    BY DEF GatewayInv, TypeOK
  <2>3. ASSUME NEW c \in Channels, channel'[c] = "READY"
        PROVE  Target(c) \in up'
    BY <1>1, <2>1, <2>2, <2>3
  <2> QED
    BY <2>1, <2>2, <2>3
<1>11. ASSUME NEW e \in entries', e \notin entries
       PROVE  /\ e.request \in Requests /\ e.service \in Services
              /\ request'[e.request] # Unsent /\ e.id = request'[e.request].id
  <2>1. PICK r \in In(s) : e \in Lines(r)
    BY <1>1, <1>11
  <2>2. r \in Requests /\ request[r] # Unsent
    BY <1>4
  <2>3. e.request = r /\ e.service \in Services /\ e.id = request[r].id
    BY <2>1, <2>2, LineFacts
  <2> QED
    BY <1>8, <2>2, <2>3
<1>12. /\ pod' \in {"serving", "draining", "ended"}
       /\ inService' \in BOOLEAN /\ (inService' => pod' = "serving")
       /\ up' \subseteq Services
  BY <1>1 DEF GatewayInv, TypeOK
<1> QED
  BY <1>2, <1>3, <1>8, <1>9, <1>10, <1>11, <1>12, Preserved

\* Steps that touch neither the requests nor what they have done.
LEMMA RequestsAside ==
    ASSUME GatewayInv, UNCHANGED <<channel, request, committed, entries>>,
           faults' \in 0..MaxFaults, pod' \in {"serving", "draining", "ended"},
           pod' = "ended" => pod = "ended",
           inService' \in BOOLEAN, inService' => pod' = "serving",
           up \subseteq up', up' \subseteq Services
    PROVE  GatewayInv'
<1>1. ASSUME NEW r \in Requests PROVE Consistent(r, request'[r], up', pod', committed')
  <2>1. Consistent(r, request[r], up, pod, committed)
    BY RequestOf
  <2>2. request'[r] = request[r] /\ (r \in committed' <=> r \in committed)
    OBVIOUS
  <2> QED
    BY <2>1, <2>2 DEF Consistent
<1>2. /\ channel' \in [Channels -> {"IDLE", "CONNECTING", "READY", "TRANSIENT_FAILURE"}]
      /\ \A c \in Channels : channel'[c] = "READY" => Target(c) \in up'
  BY DEF GatewayInv, TypeOK
<1>3. DOMAIN request' = Requests /\ committed' \subseteq Requests
  BY DEF GatewayInv, TypeOK
<1> QED
  BY <1>1, <1>2, <1>3, Preserved

LEMMA RestartsStep ==
    ASSUME GatewayInv, NEW s \in Services, Restarts(s)
    PROVE  GatewayInv'
<1>1. up' = up \cup {s} /\ UNCHANGED <<pod, inService, channel, request, committed, entries, faults>>
  BY DEF Restarts
<1>2. /\ pod' \in {"serving", "draining", "ended"} /\ (pod' = "ended" => pod = "ended")
      /\ inService' \in BOOLEAN /\ (inService' => pod' = "serving")
      /\ up \subseteq up' /\ up' \subseteq Services
  BY <1>1 DEF GatewayInv, TypeOK
<1>3. faults' \in 0..MaxFaults
  BY <1>1, FaultBound
<1> QED
  BY <1>1, <1>2, <1>3, RequestsAside

LEMMA ProbeStep == ASSUME GatewayInv, Probe PROVE GatewayInv'
<1>1. /\ pod = "serving" /\ inService' = \A c \in Services : connReady(c)
      /\ UNCHANGED <<pod, up, channel, request, committed, entries, faults>>
  BY DEF Probe
<1>2. inService' \in BOOLEAN
  BY <1>1
<1>3. faults' \in 0..MaxFaults /\ up \subseteq up' /\ up' \subseteq Services
  BY <1>1, FaultBound DEF GatewayInv, TypeOK
<1> QED
  BY <1>1, <1>2, <1>3, RequestsAside

LEMMA SignalStep == ASSUME GatewayInv, Signal PROVE GatewayInv'
<1>1. /\ pod' = "draining" /\ inService' = FALSE
      /\ UNCHANGED <<up, channel, request, committed, entries>>
  BY DEF Signal
<1>2. faults' \in 0..MaxFaults /\ up \subseteq up' /\ up' \subseteq Services
  BY <1>1, FaultBound DEF Signal, GatewayInv, TypeOK
<1> QED
  BY <1>1, <1>2, RequestsAside

LEMMA StartsStep == ASSUME GatewayInv, Starts PROVE GatewayInv'
<1>1. /\ pod = "ended" /\ pod' = "serving"
      /\ UNCHANGED <<inService, up, channel, request, committed, entries, faults>>
  BY DEF Starts
<1>2. faults' \in 0..MaxFaults /\ up \subseteq up' /\ up' \subseteq Services
  BY <1>1, FaultBound DEF GatewayInv, TypeOK
<1>3. inService' \in BOOLEAN /\ (inService' => pod' = "serving")
  BY <1>1 DEF GatewayInv, TypeOK
<1> QED
  BY <1>1, <1>2, <1>3, RequestsAside

\* The process ends while it is draining, so nobody counts on it.
LEMMA EndsStep == ASSUME GatewayInv, pod = "draining", Ends PROVE GatewayInv'
<1>1. /\ pod' = "ended" /\ UNCHANGED <<inService, up, faults>>
      /\ \E sent \in Undecided(Open) : committed' = committed \cup sent
      /\ entries' = entries \cup UNION { Lines(r) : r \in Open }
  BY DEF Ends, Log
<1>2. DOMAIN request' = Requests
  BY DEF Ends
<1>3. /\ Open \in SUBSET Requests
      /\ \A r \in Open : request[r] # Unsent /\ request[r].at # "answered"
  BY DEF Open
<1>4. PICK status : status = [r \in Requests |-> Lost]
  OBVIOUS
<1>5. \A r \in Open : status[r] \in SayNothing
  BY <1>3, <1>4 DEF SayNothing
<1>6. /\ \A r \in Open : request'[r] = Answered(request[r], status[r])
      /\ \A r \in Requests \ Open : request'[r] = request[r]
  BY <1>3, <1>4 DEF Ends
<1>7. /\ \A r \in Open : \A alive, phase : Consistent(r, request'[r], alive, phase, committed')
      /\ \A r \in Requests : request[r] # Unsent =>
            request'[r] # Unsent /\ request'[r].id = request[r].id
      /\ \A r \in Requests \ Open : r \in committed' <=> r \in committed
      /\ committed' \subseteq Requests
  BY <1>1, <1>2, <1>3, <1>5, <1>6, ManyCutOff
<1>8. ASSUME NEW r \in Requests PROVE Consistent(r, request'[r], up', pod', committed')
  <2>1. CASE r \in Open
    BY <1>7, <2>1
  <2>2. CASE r \notin Open
    <3>1. request'[r] = request[r] /\ (r \in committed' <=> r \in committed)
      BY <1>6, <1>7, <2>2
    <3>2. /\ Consistent(r, request[r], up, pod, committed)
          /\ request[r] # Unsent => request[r].at = "answered"
      BY <2>2, RequestOf DEF Open
    <3> QED
      BY <1>1, <3>1, <3>2 DEF Consistent
  <2> QED
    BY <2>1, <2>2
<1>9. /\ channel' \in [Channels -> {"IDLE", "CONNECTING", "READY", "TRANSIENT_FAILURE"}]
      /\ \A c \in Channels : channel'[c] = "READY" => Target(c) \in up'
  <2>1. channel' = [c \in Channels |-> IF c = Pricing THEN channel[c] ELSE "IDLE"]
    BY DEF Ends
  <2>2. /\ channel \in [Channels -> {"IDLE", "CONNECTING", "READY", "TRANSIENT_FAILURE"}]
        /\ \A c \in Channels : channel[c] = "READY" => Target(c) \in up
    BY DEF GatewayInv, TypeOK
  <2>3. ASSUME NEW c \in Channels, channel'[c] = "READY"
        PROVE  Target(c) \in up'
    BY <1>1, <2>1, <2>2, <2>3
  <2> QED
    BY <2>1, <2>2, <2>3
<1>10. ASSUME NEW e \in entries', e \notin entries
       PROVE  /\ e.request \in Requests /\ e.service \in Services
              /\ request'[e.request] # Unsent /\ e.id = request'[e.request].id
  <2>1. PICK r \in Open : e \in Lines(r)
    BY <1>1, <1>10
  <2>2. r \in Requests /\ request[r] # Unsent
    BY <1>3
  <2>3. e.request = r /\ e.service \in Services /\ e.id = request[r].id
    BY <2>1, <2>2, LineFacts
  <2> QED
    BY <1>7, <2>2, <2>3
<1>11. /\ pod' \in {"serving", "draining", "ended"}
       /\ inService' \in BOOLEAN /\ (inService' => pod' = "serving")
       /\ up' \subseteq Services /\ faults' \in 0..MaxFaults
  BY <1>1 DEF GatewayInv, TypeOK
<1> QED
  BY <1>2, <1>7, <1>8, <1>9, <1>10, <1>11, Preserved

-----------------------------------------------------------------------------
(* The theorems *)

LEMMA NextInv == ASSUME GatewayInv, [Next]_vars PROVE GatewayInv'
<1>1. ASSUME NEW r \in Requests, NEW http \in Sent, ServeHTTP(r, http) PROVE GatewayInv'
  BY <1>1, ServeHTTPStep
<1>2. ASSUME NEW r \in Requests, NEW c \in Channels, Invoke(r, c) PROVE GatewayInv'
  BY <1>2, InvokeStep
<1>3. ASSUME NEW r \in Requests, NEW c \in Channels, FailFast(r, c) PROVE GatewayInv'
  BY <1>3, FailFastStep
<1>4. ASSUME NEW r \in Requests,
             NEW code \in {"OK", "InvalidArgument", "NotFound", "Internal"},
             HandlerReturns(r, code)
      PROVE  GatewayInv'
  BY <1>4, HandlerReturnsStep
<1>5. ASSUME NEW r \in Requests, AskPrice(r) PROVE GatewayInv'
  BY <1>5, AskPriceStep
<1>6. ASSUME NEW r \in Requests, GetProductReturns(r) PROVE GatewayInv'
  BY <1>6, GetProductReturnsStep
<1>7. ASSUME NEW r \in Requests, ProductUnknown(r) PROVE GatewayInv'
  BY <1>7, ProductUnknownStep
<1>8. ASSUME NEW r \in Requests, CommitOrder(r) PROVE GatewayInv'
  BY <1>8, CommitOrderStep
<1>9. ASSUME NEW r \in Requests, CommitFails(r) PROVE GatewayInv'
  BY <1>9, CommitFailsStep
<1>10. ASSUME NEW r \in Requests, OrderReturns(r) PROVE GatewayInv'
  BY <1>10, OrderReturnsStep
<1>11. ASSUME NEW r \in Requests, GoesAway(r) PROVE GatewayInv'
  BY <1>11, GoesAwayStep
<1>12. ASSUME NEW c \in Channels, Dial(c) PROVE GatewayInv'
  BY <1>12, DialStep
<1>13. ASSUME NEW c \in Channels, Connected(c) PROVE GatewayInv'
  BY <1>13, ConnectedStep
<1>14. ASSUME NEW c \in Channels, ConnectFails(c) PROVE GatewayInv'
  BY <1>14, ConnectFailsStep
<1>15. ASSUME NEW s \in Services, Dies(s) PROVE GatewayInv'
  BY <1>15, DiesStep
<1>16. ASSUME NEW s \in Services, Restarts(s) PROVE GatewayInv'
  BY <1>16, RestartsStep
<1>17. CASE Probe
  BY <1>17, ProbeStep
<1>18. CASE Signal
  BY <1>18, SignalStep
<1>19. CASE Drained \/ DeadlineExceeded
  <2>1. pod = "draining" /\ Ends
    BY <1>19 DEF Drained, DeadlineExceeded
  <2> QED
    BY <2>1, EndsStep
<1>20. CASE Starts
  BY <1>20, StartsStep
<1>21. CASE UNCHANGED vars
  <2>1. UNCHANGED <<pod, inService, up, channel, request, committed, entries, faults>>
    BY <1>21 DEF vars
  <2>2. /\ faults' \in 0..MaxFaults /\ pod' \in {"serving", "draining", "ended"}
        /\ inService' \in BOOLEAN /\ (inService' => pod' = "serving")
        /\ up \subseteq up' /\ up' \subseteq Services
    BY <2>1 DEF GatewayInv, TypeOK
  <2> QED
    BY <2>1, <2>2, RequestsAside
<1> QED
  BY <1>1, <1>2, <1>3, <1>4, <1>5, <1>6, <1>7, <1>8, <1>9, <1>10, <1>11, <1>12, <1>13,
     <1>14, <1>15, <1>16, <1>17, <1>18, <1>19, <1>20, <1>21 DEF Next

\* GatewayInv is inductive: whatever dies, restarts, drains or goes away, every request
\* belongs to what the gateway made of it, and its order to its stage.
THEOREM GatewayInvariance == Spec => []GatewayInv
<1>1. Init => GatewayInv
  BY InitInv
<1>2. GatewayInv /\ [Next]_vars => GatewayInv'
  BY NextInv
<1> QED
  BY <1>1, <1>2, PTL DEF Spec

\* Every variable of the gateway and of the services keeps its type: a ready channel
\* has a process behind it, a handler runs in a service that is up, and a gateway that
\* has ended has no open request.
THEOREM GatewayTypeCorrect == Spec => []TypeOK
<1>1. GatewayInv => TypeOK
  BY DEF GatewayInv
<1> QED
  BY <1>1, GatewayInvariance, PTL

\* The answer that the gateway gives for PlaceOrder says what was done: 200 that the
\* order is committed, a status of the 400s that it is not.
THEOREM AnswersTellEffect == Spec => []AnswerTellsEffect
<1>1. ASSUME GatewayInv, NEW r \in Requests, request[r] # Unsent, NEW it, it = request[r]
      PROVE  /\ it.rpc # NoRPC => it.rpc = it.http.wants /\ Implemented(it.rpc)
             /\ (it.at = "answered" /\ it.status = 200) => it.rpc = it.http.wants
             /\ r \in committed => it.http.wants.method = "PlaceOrder"
             /\ it.at = "answered" =>
                   /\ (it.status = 200 /\ it.http.wants.method = "PlaceOrder") => r \in committed
                   /\ it.status \in NotDone => r \notin committed
  <2>1. Consistent(r, it, up, pod, committed)
    BY <1>1, RequestOf
  <2>2. NoRPC.method = "" /\ "" # "PlaceOrder"
    BY DEF NoRPC, RPC
  <2> QED
    BY <1>1, <2>1, <2>2 DEF Consistent
<1>2. GatewayInv => AnswerTellsEffect
  BY <1>1 DEF AnswerTellsEffect
<1> QED
  BY <1>2, GatewayInvariance, PTL

\* The lines that the services log for a request bear the id the gateway gave it, and
\* requests without an id of their own are never confused.
THEOREM IdsCorrelate == Spec => []IdCorrelates
<1>1. ASSUME GatewayInv, NEW e \in entries
      PROVE  /\ e.request \in Requests /\ request[e.request] # Unsent
             /\ e.id = request[e.request].id
             /\ e.id = WithRequestID(request[e.request].http.header, e.request)
             /\ request[e.request].http \in Sent
  <2>1. /\ e.request \in Requests /\ request[e.request] # Unsent
        /\ e.id = request[e.request].id
    BY <1>1 DEF GatewayInv, TypeOK, Logged
  <2>2. Consistent(e.request, request[e.request], up, pod, committed)
    BY <1>1, <2>1, RequestOf
  <2> QED
    BY <2>1, <2>2 DEF Consistent, Handled
<1>2. ASSUME GatewayInv, NEW e \in entries, NEW f \in entries, e.id = f.id,
             request[e.request].http.header = NoId
      PROVE  e.request = f.request
  <2>1. e.id = Generated("gateway", e.request)
    BY <1>1, <1>2 DEF WithRequestID
  <2>2. CASE request[f.request].http.header = NoId
    <3>1. f.id = Generated("gateway", f.request)
      BY <1>1, <1>2, <2>2 DEF WithRequestID
    <3>2. \A r : Generated("gateway", r).for = r
      BY DEF Generated, Id
    <3> QED
      BY <1>2, <2>1, <3>1, <3>2
  <2>3. CASE request[f.request].http.header # NoId
    <3>1. f.id = request[f.request].http.header /\ request[f.request].http \in Sent
      BY <1>1, <1>2, <2>3 DEF WithRequestID
    <3>2. request[f.request].http.header # Generated("gateway", e.request)
      BY <1>1, <1>2, <3>1, SentAssumption
    <3> QED
      BY <1>2, <2>1, <3>1, <3>2
  <2> QED
    BY <2>2, <2>3
<1>3. GatewayInv => IdCorrelates
  BY <1>1, <1>2 DEF IdCorrelates
<1> QED
  BY <1>3, GatewayInvariance, PTL
=============================================================================
