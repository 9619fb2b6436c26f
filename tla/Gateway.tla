------------------------------ MODULE Gateway ------------------------------
(***************************************************************************)
(* A request from the browser through the gateway to the services and      *)
(* back, while processes end and connections break.                        *)
(*                                                                         *)
(* The gateway and the order service each hold gRPC channels.  A channel   *)
(* connects when it is first used; an RPC waits while it connects, and     *)
(* fails at once while it is in failure.  A channel that failed keeps      *)
(* trying by itself.  Kubernetes routes requests to the gateway only while *)
(* its last readiness probe passed.  An RPC has no deadline of its own.    *)
(*                                                                         *)
(* The handlers are those of the other modules, reduced to whether an      *)
(* order was committed.                                                    *)
(***************************************************************************)
EXTENDS GatewayRoutes, FiniteSets

CONSTANTS Requests,   \* requests of browsers
          Sent,       \* what they may contain
          Mortal,     \* the services that may die
          MaxFaults   \* deaths, signals and browsers that go away

ASSUME GatewayAssumption ==
    /\ Mortal \subseteq Services
    /\ MaxFaults \in Nat

\* Who sends a request means by it what the protos promise, and does not guess an id
\* that the gateway makes.
ASSUME SentAssumption ==
    \A http \in Sent :
        /\ http.path \in Seq(STRING)
        /\ Understood(http)
        /\ \A r \in Requests : http.header # Generated("gateway", r)

VARIABLES pod,        \* the gateway's process
          inService,  \* Kubernetes sends requests to it
          up,         \* the services whose process runs
          channel,    \* the state of each channel
          request,    \* each request
          committed,  \* the requests whose order is committed
          entries,    \* the log lines grpc_request of the services
          faults

vars == <<pod, inService, up, channel, request, committed, entries, faults>>

\* The channels: one of the gateway to each service, and the order service's.
Pricing  == "order to product"
Channels == Services \cup {Pricing}

Target(c) == IF c = Pricing THEN "product" ELSE c

Unsent == [at |-> "none"]

\* Waiting for a channel, in the handler of a service; PlaceOrder: waiting for the
\* order service's channel, in the handler of GetProduct, priced and not yet
\* committed, committed and not yet answered.
InHandler == {"handler", "price", "pricing", "priced", "publish"}
Stages    == {"invoke", "answered"} \cup InHandler

\* What browsers see instead of a status.
Refused == 0
Lost    == 1

\* The statuses that say that nothing was ordered.
NotDone == 200..499 \ {200}

Statuses == {Refused, Lost} \cup 200..599

\* A request that has come in.
Handled(r) ==
    [at     : Stages,
     http   : Sent,
     rpc    : Methods \cup {NoRPC},
     status : Statuses,
     id     : { WithRequestID(http.header, r) : http \in Sent }]

TypeOK ==
    /\ pod \in {"serving", "draining", "ended"}
    /\ inService \in BOOLEAN
    /\ inService => pod = "serving"
    /\ up \subseteq Services
    /\ channel \in [Channels -> {"IDLE", "CONNECTING", "READY", "TRANSIENT_FAILURE"}]
    /\ \A c \in Channels : channel[c] = "READY" => Target(c) \in up
    /\ DOMAIN request = Requests
    /\ \A r \in Requests : request[r] # Unsent =>
          /\ request[r] \in Handled(r)
          /\ request[r].at # "answered" => request[r].rpc.service \in Services
          /\ request[r].at \in InHandler => request[r].rpc.service \in up
          /\ request[r].at = "pricing" => "product" \in up
          /\ pod = "ended" => request[r].at = "answered"
    /\ committed \subseteq Requests
    /\ \A e \in entries : e.request \in Requests /\ e.service \in Services
    /\ faults \in 0..MaxFaults

Init ==
    /\ pod = "serving"
    /\ inService = FALSE
    /\ up = Services
    /\ channel = [c \in Channels |-> "IDLE"]
    /\ request = [r \in Requests |-> Unsent]
    /\ committed = {} /\ entries = {} /\ faults = 0

Fault == faults < MaxFaults /\ faults' = faults + 1

-----------------------------------------------------------------------------
(* Requests in the gateway *)

Under(r, stage) == request[r] # Unsent /\ request[r].at = stage

\* The request goes on to a stage, or is answered.
Move(r, stage) == request' = [request EXCEPT ![r].at = stage]

Answered(it, status) == [it EXCEPT !.at = "answered", !.status = status]

Answer(r, status) == request' = [request EXCEPT ![r] = Answered(@, status)]

\* A request comes in and is given its id.
Came(r, http, at, rpc, status) ==
    [at |-> at, http |-> http, rpc |-> rpc, status |-> status,
     id |-> WithRequestID(http.header, r)]

Comes(r, it) == request' = [request EXCEPT ![r] = it]

\* withCORS, withRequestID and the mux, up to the call of the stub.
ServeHTTP(r, http) ==
    /\ request[r] = Unsent
    /\ IF ~inService
       THEN Comes(r, Came(r, http, "answered", NoRPC, Refused))
       ELSE \/ \E status \in OwnAnswers(http) :
                  Comes(r, Came(r, http, "answered", NoRPC, status))
            \/ \E rpc \in Calls(http) : Comes(r, Came(r, http, "invoke", rpc, Lost))
    /\ UNCHANGED <<pod, inService, up, channel, committed, entries, faults>>

\* The channel a request needs next.
Uses(r, c) ==
    \/ Under(r, "invoke") /\ c = request[r].rpc.service
    \/ Under(r, "price") /\ c = Pricing

\* The ids the services see: the gateway's, and the order service's own after it.
IdAt(r)      == FromIncoming(Outgoing(request[r].id), "service", r)
PricingId(r) == FromIncoming(Outgoing(IdAt(r)), "product", r)

Entry(r, service, id) == [request |-> r, service |-> service, id |-> id]

\* A server's interceptor logs when the handler returns, whatever the outcome: what
\* the handlers of a request that are under way have still to log.
Lines(r) ==
    (IF request[r].at \in InHandler THEN {Entry(r, request[r].rpc.service, IdAt(r))} ELSE {})
    \cup (IF request[r].at = "pricing" THEN {Entry(r, "product", PricingId(r))} ELSE {})

Log(lines) == entries' = entries \cup lines

-----------------------------------------------------------------------------
(* Channels *)

Set(c, state) == channel' = [channel EXCEPT ![c] = state]

\* The first RPC on an idle channel makes it connect.
Dial(c) ==
    /\ channel[c] = "IDLE"
    /\ \E r \in Requests : Uses(r, c)
    /\ Set(c, "CONNECTING")
    /\ UNCHANGED <<pod, inService, up, request, committed, entries, faults>>

Connected(c) ==
    /\ channel[c] \in {"CONNECTING", "TRANSIENT_FAILURE"}
    /\ Target(c) \in up
    /\ Set(c, "READY")
    /\ UNCHANGED <<pod, inService, up, request, committed, entries, faults>>

ConnectFails(c) ==
    /\ channel[c] = "CONNECTING"
    /\ Target(c) \notin up
    /\ Set(c, "TRANSIENT_FAILURE")
    /\ UNCHANGED <<pod, inService, up, request, committed, entries, faults>>

\* The RPC goes out on a connection, and the server calls its handler.
Invoke(r, c) ==
    /\ Uses(r, c)
    /\ channel[c] = "READY"
    /\ Move(r, IF c = Pricing THEN "pricing" ELSE "handler")
    /\ UNCHANGED <<pod, inService, up, channel, committed, entries, faults>>

\* The RPC does not wait for a channel in failure.  To the browser it is 503, and
\* 500 when it is the order service that cannot reach the products.
FailFast(r, c) ==
    /\ Uses(r, c)
    /\ channel[c] = "TRANSIENT_FAILURE"
    /\ IF c = Pricing
       THEN Answer(r, HTTPStatus("Internal")) /\ Log(Lines(r))
       ELSE Answer(r, HTTPStatus("Unavailable")) /\ UNCHANGED entries
    /\ UNCHANGED <<pod, inService, up, channel, committed, faults>>

-----------------------------------------------------------------------------
(* Handlers *)

\* The handler returns, and the gateway forwards the answer.
Returns(r, code) ==
    /\ Answer(r, HTTPStatus(code))
    /\ Log(Lines(r))
    /\ UNCHANGED <<pod, inService, up, channel, committed, faults>>

\* A handler that changes nothing answers; PlaceOrder refuses its cart.
HandlerReturns(r, code) ==
    /\ Under(r, "handler")
    /\ request[r].rpc.method = "PlaceOrder" => code = "InvalidArgument"
    /\ Returns(r, code)

\* PlaceOrder asks for a price.
AskPrice(r) ==
    /\ Under(r, "handler")
    /\ request[r].rpc.method = "PlaceOrder"
    /\ Move(r, "price")
    /\ UNCHANGED <<pod, inService, up, channel, committed, entries, faults>>

\* GetProduct answers.
GetProductReturns(r) ==
    /\ Under(r, "pricing")
    /\ Move(r, "priced")
    /\ Log({Entry(r, "product", PricingId(r))})
    /\ UNCHANGED <<pod, inService, up, channel, committed, faults>>

\* The product does not exist.
ProductUnknown(r) ==
    /\ Under(r, "priced")
    /\ Returns(r, "InvalidArgument")

\* A mutant of CommitOrder: that the commit failed goes unnoticed.
CommitUnnoticed(r) ==
    /\ Under(r, "priced")
    /\ Move(r, "publish")
    /\ UNCHANGED <<pod, inService, up, channel, committed, entries, faults>>

CommitOrder(r) ==
    /\ Under(r, "priced")
    /\ Move(r, "publish")
    /\ committed' = committed \cup {r}
    /\ UNCHANGED <<pod, inService, up, channel, entries, faults>>

\* The transaction fails, or the answer to its commit is lost.
CommitFails(r) ==
    /\ Under(r, "priced")
    /\ Answer(r, HTTPStatus("Internal"))
    /\ Log(Lines(r))
    /\ \E sent \in SUBSET {r} : committed' = committed \cup sent
    /\ UNCHANGED <<pod, inService, up, channel, faults>>

\* Published or given up, the order is the answer.
OrderReturns(r) ==
    /\ Under(r, "publish")
    /\ Returns(r, "OK")

-----------------------------------------------------------------------------
(* Faults *)

\* The requests that are under way in a service, and those of them whose commit
\* may have been sent: whoever goes away now does not know whether it counts.
In(s) ==
    { r \in Requests :
        \/ \E stage \in InHandler : Under(r, stage) /\ request[r].rpc.service = s
        \/ Under(r, "pricing") /\ s = "product" }

Undecided(rs) == SUBSET { r \in rs : Under(r, "priced") }

\* A service dies: its connections break, the RPCs in it fail.
Dies(s) ==
    /\ s \in up \cap Mortal
    /\ Fault
    /\ up' = up \ {s}
    /\ channel' = [c \in Channels |->
          IF Target(c) = s /\ channel[c] = "READY" THEN "IDLE"
          ELSE IF s = "order" /\ c = Pricing THEN "IDLE" ELSE channel[c]]
    /\ request' = [r \in Requests |->
          IF r \notin In(s) THEN request[r]
          ELSE Answered(request[r], HTTPStatus(IF request[r].rpc.service = s
                                               THEN "Unavailable" ELSE "Internal"))]
    /\ \E sent \in Undecided(In(s)) : committed' = committed \cup sent
    /\ Log({ line \in UNION { Lines(r) : r \in In(s) } : line.service # s })
    /\ UNCHANGED <<pod, inService>>

Restarts(s) ==
    /\ s \notin up
    /\ up' = up \cup {s}
    /\ UNCHANGED <<pod, inService, channel, request, committed, entries, faults>>

\* A browser goes away: the request is cancelled in the gateway and in the services.
GoesAway(r) ==
    /\ request[r] # Unsent
    /\ request[r].at # "answered"
    /\ Fault
    /\ Answer(r, Lost)
    /\ Log(Lines(r))
    /\ \E sent \in Undecided({r}) : committed' = committed \cup sent
    /\ UNCHANGED <<pod, inService, up, channel>>

-----------------------------------------------------------------------------
(* The gateway's process *)

\* A mutant of connReady: a channel has to be connected.
OnlyReady(c) == channel[c] = "READY"

\* The readiness check of a channel.
connReady(c) == channel[c] # "TRANSIENT_FAILURE"

\* Kubernetes asks /readyz.
Probe ==
    /\ pod = "serving"
    /\ inService' = \A c \in Services : connReady(c)
    /\ UNCHANGED <<pod, up, channel, request, committed, entries, faults>>

\* The gateway is told to go, and takes no more requests.
Signal ==
    /\ pod = "serving"
    /\ Fault
    /\ pod' = "draining"
    /\ inService' = FALSE
    /\ UNCHANGED <<up, channel, request, committed, entries>>

Open == { r \in Requests : request[r] # Unsent /\ request[r].at # "answered" }

\* A mutant of Ends: what is open stays open.
EndsOpen ==
    /\ pod' = "ended"
    /\ channel' = [c \in Channels |-> IF c = Pricing THEN channel[c] ELSE "IDLE"]
    /\ UNCHANGED <<inService, up, request, committed, entries, faults>>

\* The process ends; its channels are closed, and what is open is cancelled.
Ends ==
    /\ pod' = "ended"
    /\ channel' = [c \in Channels |-> IF c = Pricing THEN channel[c] ELSE "IDLE"]
    /\ request' = [r \in Requests |->
          IF r \in Open THEN Answered(request[r], Lost) ELSE request[r]]
    /\ \E sent \in Undecided(Open) : committed' = committed \cup sent
    /\ Log(UNION { Lines(r) : r \in Open })
    /\ UNCHANGED <<inService, up, faults>>

\* Shutdown returns when nothing is open, or after ten seconds.
Drained ==
    /\ pod = "draining"
    /\ Open = {}
    /\ Ends

DeadlineExceeded ==
    /\ pod = "draining"
    /\ Open # {}
    /\ Ends

\* Kubernetes starts the pod again, or another one.
Starts ==
    /\ pod = "ended"
    /\ pod' = "serving"
    /\ UNCHANGED <<inService, up, channel, request, committed, entries, faults>>

Next ==
    \/ \E r \in Requests :
          \/ \E http \in Sent : ServeHTTP(r, http)
          \/ \E c \in Channels : Invoke(r, c) \/ FailFast(r, c)
          \/ \E code \in {"OK", "InvalidArgument", "NotFound", "Internal"} : HandlerReturns(r, code)
          \/ AskPrice(r) \/ GetProductReturns(r) \/ ProductUnknown(r)
          \/ CommitOrder(r) \/ CommitFails(r) \/ OrderReturns(r)
          \/ GoesAway(r)
    \/ \E c \in Channels : Dial(c) \/ Connected(c) \/ ConnectFails(c)
    \/ \E s \in Services : Dies(s) \/ Restarts(s)
    \/ Probe \/ Signal \/ Drained \/ DeadlineExceeded \/ Starts

\* Services and the gateway are started again, a channel connects when there is
\* something to connect to, probes go on, and the timer of Shutdown runs.  Nothing
\* is asked of handlers: one that never returns is possible.
Fairness ==
    /\ \A s \in Services : WF_vars(Restarts(s))
    /\ \A c \in Channels : WF_vars(Connected(c))
    /\ WF_vars(Probe)
    /\ WF_vars(Drained \/ DeadlineExceeded)
    /\ WF_vars(Starts)

Spec == Init /\ [][Next]_vars /\ Fairness

-----------------------------------------------------------------------------
(* Properties *)

\* What a browser sees tells what was done.  An RPC that is made is the one the
\* caller has in mind, and its server has it.  200 for an order: it is committed;
\* a status of the 400s: it is not; 500 and 503 say nothing, like no answer.  And
\* only a request that is meant to commits an order.
AnswerTellsEffect ==
    \A r \in Requests : request[r] # Unsent =>
        LET it      == request[r]
            ordered == it.http.wants.method = "PlaceOrder"
        IN  /\ it.rpc # NoRPC => it.rpc = it.http.wants /\ Implemented(it.rpc)
            /\ it.at = "answered" /\ it.status = 200 => it.rpc = it.http.wants
            /\ r \in committed => ordered
            /\ it.at = "answered" =>
                  /\ it.status = 200 /\ ordered => r \in committed
                  /\ it.status \in NotDone => r \notin committed

\* Every line that the services log for a request bears the id that the gateway
\* gave back, across both hops of PlaceOrder, and requests without an id of their
\* own get different ones.
IdCorrelates ==
    /\ \A e \in entries : e.id = request[e.request].id
    /\ \A e, f \in entries :
          e.id = f.id => \/ e.request = f.request
                         \/ request[e.request].http.header # NoId

(***************************************************************************)
(* The inductive invariant behind the two.  Routed: what a request has     *)
(* from the gateway, its RPC and its id, belongs to it.  Ordered: where    *)
(* PlaceOrder may have committed, stage by stage.  Logged: a line has the  *)
(* id of its request.                                                      *)
(***************************************************************************)
Routed ==
    \A r \in Requests : request[r] # Unsent =>
        /\ request[r].id = WithRequestID(request[r].http.header, r)
        /\ request[r].rpc # NoRPC =>
              request[r].rpc = request[r].http.wants /\ Implemented(request[r].rpc)
        /\ request[r].at # "answered" \/ request[r].status = 200 => request[r].rpc # NoRPC
        /\ request[r].at \in {"price", "pricing", "priced", "publish"} =>
              request[r].rpc.method = "PlaceOrder"

Ordered ==
    \A r \in Requests :
        /\ r \in committed =>
              /\ request[r] # Unsent
              /\ request[r].rpc.method = "PlaceOrder"
              /\ request[r].at = "answered" => request[r].status \notin NotDone
              /\ request[r].at \in {"publish", "answered"}
        /\ Under(r, "publish") => r \in committed
        /\ (/\ Under(r, "answered") /\ request[r].status = 200
            /\ request[r].rpc.method = "PlaceOrder") => r \in committed

Logged ==
    \A e \in entries : request[e.request] # Unsent /\ e.id = request[e.request].id

GatewayInv == TypeOK /\ Routed /\ Ordered /\ Logged

\* The gateway is always in service again: a service that died takes it out of
\* service while its channel fails, a handler that never returns does not keep it
\* from ending, and a new process, which has no connection, is ready all the same.
BackInService == []<>inService
=============================================================================
