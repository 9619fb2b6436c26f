# The checkout saga in TLA+

This directory specifies the storefront of this repository: a checkout that runs
as a choreographed saga over Kafka between an order, an inventory, a payment and
a notification service, each with a PostgreSQL schema of its own, behind a
gateway that the browser talks to. The modules are written from the Go and
TypeScript sources; TLC checks them on small instances, and TLAPS proves for every
instance the safety of the saga, of the pages that show it, of the consumer loop, of
the inventory's transactions, of the processes, of the gateway and of the cart.

`PROJECT.json` maps every definition to the lines it models. File names below
are relative to the repository.

## 1. Inventory of the system

| part | state it keeps | operations | interacts with |
|---|---|---|---|
| topics and producer (`pkg/events`, `pkg/kafka`, `proto/events`) | five single-partition topics | `Publish`: synchronous, five attempts, each with a fresh record | every service |
| consumer (`pkg/kafka` `Consumer.Run`) | the client's fetch position; the group's committed offsets in the broker | poll, handle a batch record by record with six attempts, commit, stop on a record that keeps failing | the process that restarts it, the broker's rebalances |
| order service | `orders`, `order_items`; consumer group `order-status`; one gRPC channel | `PlaceOrder` (validate, aggregate, price, one transaction, then publish `OrderPlaced`), `GetOrder`, `StatusHandler.Handle` | product service (gRPC), the topics |
| inventory service | `stock`, `processed_orders`, `reservations`; group `inventory` | `handleOrderPlaced` (look up or reserve, then announce), `handlePaymentFailed` (release once), `GetStock`, `CheckStock` | the topics |
| payment service | nothing; group `payment` | `HandleStockReserved` (compare with a limit, announce) | the topics |
| notification service | `notifications`, unique per order and type; group `notification` | `Handle` (insert unless it is there), `ListNotifications` | all five topics |
| product service | `products`, seeded | `ListProducts`, `GetProduct` | order service, gateway |
| gateway (`services/bff`, `gen/*/v1`) | one gRPC channel per service; the requests that are open | route a request to an RPC, answer with its status, report readiness from the channels, drain for ten seconds | browser, services, Kubernetes |
| request ids (`pkg/grpcmw`) | the id in the context of a request | take it from the header or make it, send it along, log it | gateway, services |
| frontend | the cart in `localStorage`; the polled order and its timeline | add, change, check out; poll every two seconds until the status is final | gateway |
| `pkg/postgres`, service `main.go` | the schema version of each schema; the process | migrate, connect with retries, serve and consume, stop on the first error or on a signal | PostgreSQL, Kubernetes |
| `pkg/retry`, `pkg/health`, `pkg/config`, `pkg/log` | none, or one map under a lock | helpers | all |

The order of a purchase, when nothing goes wrong:

    PlaceOrder --orders.placed--> inventory --inventory.reserved--> payment
                                      |                               |
                            inventory.rejected        payments.completed / .failed
                                      v                               v
                                    order, notification     order, notification
                                                   payments.failed --> inventory (release)

### What is hard here, and what makes each part correct

* **Publishing is not atomic with the database.** `PlaceOrder` commits and then
  publishes (`server.go:109-114`); the inventory commits and then announces
  (`consumer.go:81-87`). A pod may die, be cancelled or run out of attempts in
  between. The inventory recovers (the record is not committed and comes again,
  the stored result is announced again); the order service does not.
  *Correct when*: no stock is reserved twice, every published order gets its
  final status, no status or release appears without its cause.
* **Everything may come twice, and late.** Offsets are committed after a batch,
  each attempt of `Publish` is a new record, a pod that lost its partition works
  on. *Correct when*: the handlers are idempotent *together*: stock is
  conserved, the outcomes announced for one order never contradict each other,
  a final status stays.
* **The services share no database and read several topics with no order
  between them.** *Correct when*: order service, inventory and timeline agree
  on the fate of an order, always where they must, and once the log is drained.
* **The payment is computed anew on every delivery.** *Correct when* the limit is
  the same at each of them.
* **The consumer keeps its place in two positions**, its own and the group's.
  *Correct when* no record is skipped and nothing unhandled is committed, through
  exits, rebalances and failed polls.
* **Transactions of two pods wait for each other's rows.** *Correct when* each
  commit is one whole transaction all the same, and no order is left behind by a
  deadlock, a failed statement or a lost race.
* **A pod is a server, a consumer and a schema migration at once.** It ends on the
  first error or on a signal, with requests and a record in hand, while another
  pod starts. *Correct when* a pod is ready only on a finished schema, a signal
  leaves no order committed and unpublished, every pod that is told to go does,
  and the service gets its consumer back.
* **A request is many statements.** `PlaceOrder` asks for prices, writes an order
  and its items one by one, and publishes; requests interleave, quantities are
  summed in 32 bits, product ids are compared as texts in one place and as values
  in another. *Correct when* what is stored is what was asked for, what callers
  are told is so, and nobody sees half an order.
* **The gateway stands between what was done and who wants to know.** Services die,
  browsers leave and the gateway drains while an order is being committed, and
  readiness is read from channels that only requests bring to life. *Correct when*
  no status denies what was done or promises what was not, a request can be
  followed through the logs, and the gateway always gets back into service.
* **The browser reads what the services say at several moments** and keeps the
  cart in two places, React's state and `localStorage`. *Correct when* a page
  never shows a status next to a fact that contradicts it, what it shows last is
  final, and the cart is what the customer has put into it.

Section "hazards" of `PROJECT.json` lists each hazard at its line, with the
properties that would notice it going wrong, or why none does yet.

## 2. The modules

    EventLog            topics, payloads, publication, delivery to a group
     |-- OrderService         orders schema, PlaceOrder, StatusHandler
     |-- InventoryService     inventory schema, reserve, announce, release
     |-- PaymentService       the decision
     |-- NotificationService  the timeline
    Saga                Order + Inventory + Payment; refines OrderLifecycle
     |-- MCSaga               values for TLC
     |-- SagaProofs           theorems: the saga, its refinement, the stock's
     |                        account, agreement at rest
    OrderLifecycle      abstract: one order's life against one shared stock
    SagaNotified        Saga + NotificationService
    OrderPage           SagaNotified + the polling page
     |-- MCOrderPage
     |-- OrderPageProofs      theorems: the timeline and the page
    OrderRequest        PlaceOrder and GetOrder by statements, with ProductService;
     |-- MCOrderRequest       refines the steps of OrderService
     |-- OrderRequestProofs   theorems: what is stored and told, the refinement
    ProductService      the catalogue
    InventoryTx         the inventory's transactions by statements; refines the
     |                        steps of InventoryService
    StockCheck          InventoryTx + CheckStock and GetStock
     |-- MCInventoryTx
     |-- InventoryTxProofs    theorems: the transactions and the stock checks
    KafkaConsumer       Consumer.Run, broker and group; refines AtLeastOnce
     |-- MCKafkaConsumer
     |-- KafkaConsumerProofs  theorems: the loop and its refinement
    AtLeastOnce         abstract: the delivery rule EventLog uses
    ServiceProcess      main.go of five services: start, migrate, serve, end
     |-- MCServiceProcess
     |-- ServiceProcessProofs theorems
    GatewayRoutes       routes, stubs, status codes and request ids, without state
    Gateway             the gateway's process, its channels and the open requests
     |-- MCGateway
     |-- GatewayProofs        theorems
    Cart                the cart of one tab and its checkout
     |-- MCCart
     |-- CartProofs           theorems

Each model states next to its properties the inductive invariant that implies them
(`IInv` and `RestInv` in `Saga`, `Told` in `SagaNotified`, `PageBacked` and
`FinalStillTrue` in `OrderPage`, `RequestInv` in `OrderRequest`, `TxInv`, `CheckInv`,
`ProcessInv`, `GatewayInv`, `Kept` and `Accounted` in `Cart`; that of `KafkaConsumer`
is in its proof module). They are there for the proofs of section 4. TLC has found each of them to hold on the
instance of its run; the runs themselves check what they imply.

**EventLog.** `log[t]` is the content of topic `t`: topics are created with one
partition (`kafka.EnsureTopics(ctx, brokers, 1, 1, ...)`), so each is one
sequence. For a consumer group, `handled[t]` is the length of the prefix whose
handler has returned nil at least once. A group may be given any offset up to
`handled[t] + 1`: the next one, or again one before it. `KafkaConsumer` shows
that the consumer loop delivers no other way. A redelivery, an attempt to publish
that is repeated and an attempt that is given up each cost one unit of
`MaxFaults`, the only bound of the saga modules.

**OrderService.** A row of `orders` is `status[o]`, `"NONE"` before it exists;
`items[o]` its `order_items`. `PlaceOrder` ends at the commit and puts the order
into `publishing`; `PublishOrderPlaced(o, acked)` is one attempt of the producer
and `DropOrderPlaced` every way the request ends without success.
`HandleStatus(t, k)` is `StatusHandler.Handle`; the update has no condition on
the old status, as in `orders.sql`.

**InventoryService.** `available`, `reserved`, `processed` and `reservations` are
the columns; `emitting[pod]` is what a pod between its commit and its
announcement has in its local variables: the *stored* result it read, which may
be older than the row. Several pods exist because a rolling update and a
rebalance let two of them work on one record. `HandleOrderPlaced` is the lookup
and, if it finds nothing, the whole transaction of `reserve`; that it is one
step rests on the row locks of `SELECT ... FOR UPDATE` and on the primary keys of
`processed_orders` and `reservations` (a second transaction for the same order
fails and is tried again); `InventoryTx` shows that it does. `HandlePaymentFailed` is the transaction that starts
with `MarkOrderReleased`.

**PaymentService.** No state but the group's position. `Limits` is the set of
values of `PAYMENT_LIMIT_CENTS` that pods run with; the deployment has one.

**NotificationService.** `timeline[o]` is the sequence of rows of an order in the
order they were inserted; `Type` names the row of each topic and the insert does
nothing when the row exists. `ListNotifications` reads them.

**ProductService.** `Prices` is the seeded table, `Value` what `uuid.Parse` makes of
a text. Nothing changes it, so it is operators only.

**OrderRequest.** `call[o]` is the goroutine that serves one `PlaceOrder`: the
statement it is `at`, the lines it has left (`todo`), its total, what its
transaction has written (`rows`, which nobody sees before the commit) and its
answer. `reader[q]` serves `GetOrder`, in two statements. Integers that hold a
quantity wrap: they are those from `-Half` to `Half - 1`, in the code `Half` is `2^31`; the CHECKs and the primary key of the schema are
the branches that roll back. A commit whose answer is lost is
`DropOrderPlaced(o, "Internal")`. `StepsOfOrderService` maps the tables and the topic
to `OrderService`, whose `PlaceOrder` is one step with a cart that is aggregated by
value: the saga rests on it.

**Saga.** Every step is a step of one service. `Rest` is the only stuttering that
may last: TLC's deadlock check therefore reports any state in which work is left
and no service can do it.

**OrderLifecycle.** One `phase` per order (placed, held, paid, declined, refused,
returned), one stock, and a status `shown` to the customer that may lag but never
says anything that is not so. `Saga!LifecycleLive` maps the rows and the log of the
three services to it.

**KafkaConsumer.** Members (pods) that poll a batch, handle it record by record,
and commit; a coordinator that moves partitions between members at any time,
while a member that lost a partition goes on with its batch and commits it;
crashes and restarts; polls that fail. `MixedFetch` says whether the client may
return records of one partition together with an error of another.

**InventoryTx.** `tx[pod]` is the transaction that a pod runs: the statement it is
at, the lines it has left, what it has moved so far (its writes, which nobody sees
before the commit) and the rows it `holds`. A statement whose row another
transaction holds joins the queue `waiting`; PostgreSQL fails one transaction of a
circle (`DeadlockVictim`). The CHECK constraints and primary keys of the schema
are the branches that roll back. `AtomicTransactions` says that every change of
the database is one complete `Reserve`, `Reject` or `Release` of
`InventoryService`. Looking up a stored result, announcing and the delivery of
records are left to `InventoryService` and `EventLog`: here an order may be begun
whenever it has no result.

**StockCheck.** One goroutine that serves `CheckStock` next to the transactions: one
statement per line. `check.had` and `check.lacked` are what could and could not be
served at some moment since the call began; the code has no such thing, the
property compares the answer with it. Whether *all* lines could be served at one
moment the answer does not say, and `CheckStockTrue` claims no more than the code
gives.

**ServiceProcess.** The five `main.go` differ in the list of stages of `run` and in
what a request and a record do (`OrderMain`, ...). `pods[p]` says how far a
process is; `todo` the stages it has left, `errCh` what its select would receive.
`schema` is golang-migrate's version, dirty flag and advisory lock, shared by the
pods. A request's `todo` are its effects; after the deferred closes a commit to
the database may still be under way, a publication is not possible any more.

**OrderPage.** `pages[o]` is the page open on an order: what it shows, and the two
answers of the poll under way. The page reads `status` and `timeline` of the saga
and changes nothing there. That the gateway passes its requests to the right
service and tells their outcome is `Gateway`'s part.

**GatewayRoutes.** The requests of `lib/api.ts`, the routes of the four generated
gateways, how each fills the request of its RPC, the RPC each stub calls, the
methods each server has, and what `pkg/grpcmw` does with an id. A path is a
sequence of segments; a body is there and sound, broken, or missing. `Http.wants`
is the RPC the caller has in mind, which the code does not know and the property
compares with. `Promised` is what the `.proto` files say of a verb and a path, written
from them and not from the code generated from them; a request is `Understood` if its
sender means by it what they promise.

**Gateway.** `request[r]` is a request with its route: waiting for a channel
(`invoke`), in the handler of its service, in one of the stages of `PlaceOrder`
(waiting for the order service's channel to the products, in `GetProduct`, priced,
committed), or answered. `channel[c]` is the connectivity state of grpc-go's client,
as the code relies on it: lazy, failing at once while it is in failure, connecting
again by itself. `Probe` is `/readyz`; `inService` says whether Kubernetes sends
requests. `entries` are the lines the interceptors log. A service that dies, a
browser that leaves and a gateway that ends leave it open whether the commit they
meet has been sent. Each order asks for one price: more calls would repeat the same
steps.

**Cart.** The provider's `lines` and `localStorage` as React runs its effects. The
first ones read the storage, ask for what they read (`update`) and save the still
empty lines; `Render` shows what was asked for and `SaveEffect` saves it, each in a
task of its own. `Answer` continues an `await`, so what `clear` asks for goes the same
way: until it is saved (`clearing`) the storage has the ordered cart. Only a click
(`Add`, `SetQuantity`) is rendered and saved at once; lines that are still asked for
come after it, with the click applied to them. A reload (`Reload`) may come between any
two of these steps. `wanted` is what the customer has put into the cart. `page` is
`submitting`: the button stays disabled after an answer, until the page is left.
`requests` are checkouts on their way; an answer may be lost before or after the order
is placed, and a page that was left hears nothing of it.

## 3. The runs

| run | instance | what it shows |
|---|---|---|
| `saga` | two orders, two inventory pods, four carts, stock for one order of the contested product, two faults | `TypeOK`, `OneOutcome`, `StockConserved`, `PaidKeepsStock`, `AgreementAtRest`, `TerminalStatusFinal`; every published order settles; the services implement `OrderLifecycle`, its fairness included: a declined payment gives its stock back, an outcome is shown |
| `consumer` | two pods, two partitions, two records each, one fault, two rebalances | nothing unhandled is committed, nothing is skipped, first deliveries are in order; the loop implements `AtLeastOnce` with its fairness |
| `inventory_tx` | three orders, two pods, carts that list two products in opposite orders, one failure or redelivery, one `CheckStock` at a time | every commit is one transaction of `InventoryService`; every order gets its result and every declined one its release, through deadlocks; `CheckStock` says of each line what was so |
| `service_process` | each of the five services, two pods, one request, one migration, two faults | a ready pod has a complete, clean schema; a signal leaves no request half done; a pod that is told ends; a consumer that is gone comes back, unless a migration died half way |
| `order_page` | one order, one pod, one fault, the notification service and a page | the timeline never repeats or contradicts itself, agrees with the status and becomes complete; what the page shows never contradicts itself, it stops, and it is right when it has stopped |
| `order_request` | two `PlaceOrder`, one `GetOrder` at a time, nine carts (empty, not positive, unknown, two spellings, three ways to overflow), quantities of three bits (`Half = 4`), two faults after and one before a commit | what is stored is what was asked for, the answers are true, `GetOrder` sees whole orders, every change is a step of `OrderService` |
| `gateway` | two requests of twelve kinds, four services that may die, two faults | a status tells what was done, log lines carry the id of their request over both hops, the gateway is always in service again |
| `cart` | two products, quantities up to two, two requests, two faults | a reload keeps the cart; a cart is ordered once, and once more per answer that was lost or not waited for and per clear that was lost |
| `saga_lost_event` | expected violation | an order whose publication is given up is PENDING for ever |
| `consumer_mixed_fetch` | expected violation | records next to an error in one poll are dropped and then committed |
| `order_spellings` | expected violation | two spellings of one product id in one cart become two lines of one key |
| `cart_reload` | expected violation | a reload before the stored cart is rendered and saved loses the cart |

**Why the bounds are enough.** Two orders are the fewest that compete for stock;
nothing in the code looks at more than one order at a time except the stock rows
they share. The carts are chosen so that the two orders together exceed the
stock, one is declined by the limit, and one has a product without a row of
stock; with them every result and every status occurs, a rejection after the
stock was taken and a second reservation after a release included. Two pods are
what a rolling update of one replica runs at once. One fault is a crash, a
redelivery or a duplicate; two let a duplicate be redelivered or a second pod
repeat what the first lost. The proofs below do not depend on any of these
bounds. In the consumer runs two records per partition are the fewest for which
"in order" and "half a batch handled" mean something, and two rebalances the
fewest with which a pod loses a partition and gets it back while it still holds
an old batch of it. In `inventory_tx` two transactions are the fewest that can
wait for each other in a circle; the carts ask for more than there is, and one
fails on its second product, whose first is already locked. In `service_process`
two pods are an old and a new one of a rolling update; one migration suffices, as
each is written down dirty and then clean, and two faults let the first pod die
while it migrates and the second while it consumes. In `order_page` one fault is
enough for a fact that is published twice or told again; two orders would not meet
there, as rows and pages of different orders share nothing. In `order_request` two
calls are the fewest that interleave; three bits overflow with two and with three
items, into a negative total, into a negative line next to a positive total, and
into a smaller order that is accepted. In `gateway` two requests are the fewest
whose ids may be confused and of which one finds the channel as the other has left
it; two faults let a service die that is needed again while the gateway drains. In
`cart` two requests are the
fewest with which a cart is ordered twice, and two faults let one of them be an answer
and the other a clear that is lost. `EarlyReload = FALSE` in `cart` says that a tab
whose cart is not being cleared is reloaded only while its cart is shown and saved;
`cart_reload` drops that. A reload while a clear is not saved yet is always possible
and counts as a fault.

**Fairness.** `Saga!Fairness` asks weak fairness of: the publication of a request
that is not cut off; each group's handling of its *next* record; a pod's
announcement of a result it holds. The code justifies it: a record that fails is
tried six times, then the process exits and Kubernetes restarts it, and since
offsets are committed after the handler the record comes again. It asks nothing
of customers, and nothing of redeliveries, crashes or repeated attempts, which
may happen or not. In `KafkaConsumer` fairness is asked of polling, handling and
committing by a live member, of restarts, and of the coordinator giving a
partition to some member. In `InventoryTx` it is asked of each pod's statements,
of the deadlock detector, and of handling again what has no result yet, which is
the at-least-once delivery of `consumer`. In `ServiceProcess` it is asked of a
process's own steps, of Kubernetes restarting a pod, of PostgreSQL coming up and
of the handlers of requests. `OrderPage` asks that the two requests of a page are
answered or fail, and shown, and of the notification service what the saga asks of
its groups. `Gateway` asks that services and the gateway are started again, that a
channel connects when there is something to connect to (grpc-go tries until it
does), that probes go on, and that the timer of `Shutdown` runs; of handlers it asks
nothing. `OrderRequest` and `Cart` ask nothing.

**Deadlock** is checked in every run. The modules whose work can be finished have
a `Rest` step for exactly the states in which it is, so any other state without a
successor is reported.

## 4. What is proved

All theorems hold for every value of the constants that satisfies the assumptions
of the modules: any sets of orders, products, pods, partitions, requests, any carts,
records and migrations, any number of faults.

| module | theorem | statement |
|---|---|---|
| `SagaProofs` | `Invariance` | `Spec => []IInv` |
| | `TypeCorrect` | `Spec => []TypeOK` |
| | `UnitsConserved` | `Spec => []NoUnitLost` |
| | `ReservationsMatchOrders` | `Spec => [](IInv /\ ReservedAsOrdered)` |
| | `OutcomesAgree` | `OneLimit`: `Spec => []OneOutcome` |
| | `PaidHoldsStock` | `OneLimit`: `Spec => []PaidKeepsStock` |
| | `FinalStatusStays` | `OneLimit`: `Spec => TerminalStatusFinal` |
| | `ImplementsLifecycle` | `OneLimit`: `Spec => Lifecycle!SafeSpec` |
| | `StockIsAccounted` | `Spec => []StockConserved` |
| | `SettledAtRest` | `OneLimit`: `Spec => []AgreementAtRest` |
| `OrderPageProofs` | `WatchInvariance` | `PageSpec => []WatchInv` |
| | `PageTypeCorrect` | `PageSpec => []PageTypeOK` |
| | `TimelineOneStory` | `OneLimit`: `PageSpec => []OneStory` |
| | `TimelineMatchesStatus` | `OneLimit`: `PageSpec => []StoryMatchesStatus` |
| | `PageStopsRightly` | `OneLimit`: `PageSpec => []StoppedIsFinal` |
| | `PageShowsAgreement` | `OneLimit`: `PageSpec => []ShownAgree` |
| `KafkaConsumerProofs` | `Invariance`, `TypeCorrect` | `~MixedFetch`: `Spec => []IInv`, `[]TypeOK` |
| | `CommitsOnlyHandled` | `~MixedFetch`: `Spec => []CommittedHandled` |
| | `SkipsNothing` | `~MixedFetch`: `Spec => []NothingSkipped` |
| | `HandlesInOrder` | `~MixedFetch`: `Spec => []HandledInOrder` |
| | `ImplementsAtLeastOnce` | `~MixedFetch`: `Spec => Delivery!SafeSpec` |
| `InventoryTxProofs` | `TxInvariance` | `Spec => []TxInv` |
| | `TransactionsAreAtomic` | `Spec => AtomicTransactions` |
| | `CheckTypeCorrect` | `CheckedSpec => []CheckTypeOK` |
| | `ChecksAreTrue` | `CheckedSpec => []CheckStockTrue` |
| | `AtomicWhileChecked` | `CheckedSpec => AtomicTransactions` |
| `ServiceProcessProofs` | `ProcessInvariance`, `ProcessTypeCorrect` | `Spec => []ProcessInv`, `[]TypeOK` |
| | `ReadyMeansMigrated` | `Spec => []ReadySchema` |
| | `SignalsFinishRequests` | `Spec => []SignalFinishesRequests` |
| `GatewayProofs` | `GatewayInvariance`, `GatewayTypeCorrect` | `Spec => []GatewayInv`, `[]TypeOK` |
| | `AnswersTellEffect` | `Spec => []AnswerTellsEffect` |
| | `IdsCorrelate` | `Spec => []IdCorrelates` |
| `OrderRequestProofs` | `RequestInvariance`, `RequestTypes` | `Spec => []RequestInv`, `[]TypeOK` |
| | `OrdersStoredAsAsked` | `Spec => []StoredAsAsked` |
| | `AnswersAreTrue` | `Spec => []AnswersTrue` |
| | `OrderServiceAssumptions` | the carts that can be stored are carts of `OrderService`, with natural totals |
| | `RequestsAreOrderServiceSteps` | `Spec => StepsOfOrderService` |
| `CartProofs` | `CartTypeCorrect` | `Spec => []TypeOK` |
| | `RefreshKeepsTheCart` | `~EarlyReload`: `Spec => []RefreshKeepsCart` |
| | `CartIsOrderedOnce` | `Spec => []OrderedOnce` |

### The hypotheses

* `OneLimit`: all payment pods have the same limit. It cannot be dropped: the payment
  service keeps no record of its answers, so a `StockReserved` that is answered
  before and, redelivered, after a change of `PAYMENT_LIMIT_CENTS` gets both
  answers, and `OneOutcome` fails with any two limits that decide a total
  differently. The deployment has one. What does not need it (the account of the
  stock, the types, `IInv`) is proved without.
* `~MixedFetch`: the client never returns records of a partition next to an error in
  one poll. Without it `Run` skips records: `consumer_mixed_fetch` is the run that
  shows it.
* `~EarlyReload`: the tab is reloaded only while its cart is shown and saved, or while
  a clear is not saved. Without it a cart is lost: `cart_reload` shows it.
  `CartIsOrderedOnce` does not need it.
* `SentAssumption` of `Gateway`: callers mean by a verb and a path what the protos
  promise, and nobody sends an id that the gateway is about to generate (a random
  UUID). No code could do without the first, and a client that repeats ids makes its
  own requests indistinguishable.
* The other assumptions are the modules' own and only say what kind of thing a
  constant is, and that the catalogue is finite. That the total of a cart which can
  be priced is a natural number is not assumed: it is the lemma `TotalIsNat` of
  `SagaProofs`. What `OrderService` and the saga assume of their carts is proved of
  those that `PlaceOrder` can store (`OrderServiceAssumptions`).

### The arguments

**The saga.** `OneOutcome` is not inductive: that paid and declined are never both
announced depends on both answers being computed from the same total, that total
travels from `PlaceOrder` through `orders.placed`, through the memory of an
inventory pod and through `inventory.reserved`, and records of all ages are
handled. `IInv` says for each of these places that what is in it is *backed*:

* `OrderFirst`: an order has a row before it has an event or a result;
* `PlacedBacked`: an `OrderPlaced` carries the items and the total of its row;
* `ResultBacked`: a pod holds a result only for an order that has it, or had it
  before a release, and the total of its items;
* `StockEventsBacked`: `StockReserved` exists only for orders whose stock was
  granted (`RESERVED` or `RELEASED`), `StockRejected` only for `REJECTED` ones;
* `PaymentsBacked`: `PaymentCompleted` and `PaymentFailed` exist only for granted
  orders, with some limit under which the order's total was accepted or declined;
* `StatusBacked`: a final status has its event, a release has its `PaymentFailed`.

The backing never goes away: rows of `order_items` are not changed, the log only
grows, granted stays granted and rejected stays rejected. There is one lemma per
action (`PlaceOrderIInv`, ..., `HandleStockReservedIInv`), each with one step per
conjunct. With `OneLimit`, accepted and declined exclude each other, and the
other properties follow.

**The refinement of `OrderLifecycle`.** Each action is mapped to one step of the
abstract life of an order (placing, taking stock, paying, declining, refusing,
returning, showing) or to a stutter: a redelivery, a second announcement of a stored
result and a duplicate in the log change nothing the mapping sees. `IInv` supplies
the guards of the abstract steps.

**Agreement at rest.** When nothing is left to handle, the four services agree.
`RestInv` relates each group's position to the database: everything up to it *is
done*, that is, its result is in the rows and its successor in the log (`HandledDone`).
The delicate part is `EmissionsFollow`: the position of the inventory group moves when a
pod announces, and what the pod announces is what it read when it committed; so the
result it holds has to belong to a record that the group has passed or takes next, and
to say released only of an order that is.

**The account of the stock.** `StockConserved` equates a column with a sum over the
orders. The library's induction over sets takes an operator as a parameter, which the
provers cannot instantiate, so `SagaProofs` argues by a smallest
counterexample: the sum over a finite set of orders is defined with `CHOOSE`, and
of the sets on which two sums differ although their terms agree, one has the least
cardinality. The account itself is an invariant: `reserved[p]` is the sum over the
finitely many orders that hold a reservation.

**Timeline and page.** `Told` ties every row of a timeline to an event in the log and
every handled position to a row. `PageBacked` says that what a page shows, or has in
its two answers, was so when it was read, and `FinalStillTrue` that a final status
among them is still the status: with `FinalStatusStays` this survives every step.
`ShownAgree` combines them: a page reads the status and the timeline at different
moments, and what it shows is true of one moment because the facts only grow and
contradicting ones never occur.

**The consumer loop.** `BatchFollows`: what a pod has in hand starts right after a
handled prefix, even if the partition has been taken from it; `HandledPrefix`: the
handled offsets have no hole. A commit is then below both, and the first delivery of
an offset follows that of the one before. The refinement maps `handled` to the
abstract position; its length is the cardinality of an interval.

**The requests.** `RequestInv` follows a `PlaceOrder` through its statements.
`CallsInOrder`: the lines a call has priced are, in order and in number, the first texts
of its own request, each with the quantity the request sums up for it (`LinesOf`), its
total is their price (`Price`), and what is left to do is the rest of the list; in the
transaction the rows written are those of the first lines, each with a key of its own
(`IsWritten`). `CommittedWhole`: an order that is stored has all the lines, so its rows
are the whole cart and its total is the cart's cost; `ReadersFollow`: a `GetOrder`
between its statements holds a stored order, whose rows do not change. Most of the work
is about what the code computes: the list without repetitions, the sums by text and by
product, the total by lines, which the model writes as folds. A fold is a recursive
function on the sets of indices: such a function exists (`FoldExists`), and it takes the
indices one by one (`FoldRuns`). Facts about it are then shown without an operator as a
parameter, by the set of places up to which they hold, or of the sets for which they do
(`Counting`, `Gathering`, both from a least counterexample). `Wraps` says what wrapping
at `2 * Half` keeps, so a sum that wraps at each addition is the wrapped sum; where a
product is spelled in one way the sums by text are the sums by product (`OneSpelling`),
and an order that meets a row of its key or a quantity that is not positive has two
spellings or overflows (`NotStorable`), which is why `AnswersTrue` may blame the
request. A sum does not depend on the order in which it is taken (`SumsUp`,
`SumsAgree`), which makes the price of the lines the cost of the cart
(`TotalIsCost`). The refinement then has one case per statement: all are stutters but
the commit, which is `PlaceOrder` of `OrderService` with the cart asked for, and the
publication or its loss.

**Transactions.** `TxInv` says of a transaction half way what its statements so far
have established and its row locks keep (`Grounded`: the rows counted are covered, the
rows moved carry exactly the demand, a refusal had a short row it still holds), that no
two transactions hold a row, and that committed reservations are demands. A commit
then is exactly one `Reserve`, `Reject` or `Release` of `InventoryService`, whatever
the statements interleaved with. `CheckInv` adds the reader of `CheckStock`, which takes
no lock: what it can still read agrees with what has been so since it began.

**Processes.** `ProcessInv`: the advisory lock is held by a pod at its migrations
(`LockHeld`), a pod past them left a complete schema that nothing takes away
(`MigratedFirst`), and a pod with a closed listener has drained what it will ever
have (`Drains`), which is why a signal cuts no request in two.

**The gateway.** `GatewayInv`: a request keeps the RPC and the id it was given
(`Routed`), its order is committed only from its own stage on, and it is answered
accordingly (`Ordered`), and a line has the id of its request (`Logged`). That the
routes give a request the RPC it means is `RoutesKeepPromises`, route by route,
for every path and every id in it. Whoever is cut off, by a service that dies, a
browser that leaves or the end of the gateway, is answered nothing, 500 or 503, and
`CutOff` shows that this is consistent with both outcomes of the commit.

**The cart.** `Kept` follows the cart from the storage over the lines asked for to those
rendered and saved, with the effects in the order React runs them. `Accounted` counts:
the page waits for one request at most, and every other one, placed or not, has cost a
fault; an order whose answer has come is allowed for until the empty cart is saved
(`Cleared`), and a reload before that is the fault that pays for it. It needs that the
button stays disabled after the answer, and that a page is left only after what was
asked for has been rendered and saved.

### What is only model-checked

* **Liveness**: `PublishedOrderSettles`, `LifecycleLive` and `DeliversAtLeastOnce` as far
  as they are about fairness, `OrdersProcessed`, `DeclinedReleased`, `EndsWhenTold`,
  `ConsumesAgain`, `EveryEventTold`, `PageSettles`, `BackInService`. ENABLED and fairness
  are out of the prover's reach.
* The expected violations, which are about single behaviours.

## 5. Findings

* `saga_lost_event`: the order is committed and `OrderPlaced` is published
  afterwards; five failed attempts, a cancelled request or the death of the pod
  leave the order PENDING for ever. The code calls this a deliberate
  simplification (`server.go:50-53`), the package comment of `pkg/retry` says no
  work is lost.
* `consumer_mixed_fetch`: `Consumer.Run` drops a whole poll when one partition of
  it has an error. Where the client returns records and an error in one poll,
  the records are passed by the next commit, against `kafka.go:103-105`.
* `order_spellings`: `PlaceOrder` sums quantities by the text of a product id
  (`server.go:66-69`) and stores lines by its value, so one product in two spellings
  breaks the primary key that the comment of `server.go:59` says the sum protects,
  and the order fails as Internal. The storefront sends the ids as it got them and
  never does this; other clients of the API may.
* `cart_reload`: `cart.tsx:46` saves the empty lines of the first rendering over
  the stored cart, and the loaded lines are saved only when they are rendered. A
  reload in between loses the cart that `cart.tsx:3-4` says a refresh does not
  lose. In development it needs no such moment: React's strict mode, which
  Next.js turns on, runs both effects twice, and the second loading reads the
  empty cart that the first saving has written.

Some things that are as the code wants them, and that a reader may not expect.
`clear` (`cart/page.tsx:22`) reaches `localStorage` two tasks after the answer: a reload
or a closed tab in between brings the ordered cart back, which can be ordered again
although no answer was lost. Nothing in the repository promises otherwise, so it is a
fault that `OrderedOnce` counts and not a finding. The page stops at the first final status (`page.tsx:42`), when the timeline it shows
may lack facts and the stock of a declined order may not be back. And `run` does
not wait for its consumer: a signal may cut off a record between its reservation
and its announcement; the record is not committed and comes again. The four services with a schema migrate
before they connect, and `Migrate` tries once (`postgres.go:59`), so the retries of
`Connect` (`postgres.go:25-26`) do not help a service that starts before PostgreSQL:
it exits and Kubernetes starts it again. Quantities of one product that overflow an
int32 are an Internal error when the sum is not positive, and a smaller order when it
is not: `StoredAsAsked` holds modulo the width. One service whose channel fails takes
the whole gateway out of service (`bff/main.go:97-101`), and 500 and 503 after
`POST /v1/orders` say nothing about the order: `AnswerTellsEffect` says which statuses
do. `CheckStock` is reached at the path of its RPC only, as its proto has no route.

## 6. What is not modelled

Delays of `retry.Do` are left out, its attempts are there where they matter
(`Publish`, the handlers). Of golang-migrate only version, dirty flag and lock are
modelled. Payloads that do not parse are logged and skipped by every handler and are
never produced by these services. Names, reasons, time stamps and messages are left
out, and so are the fields of a log line other than the request id. Kafka,
PostgreSQL, Kubernetes, grpc-go, grpc-gateway and the browser appear only as what
the code relies on.

Of the gateway: the deadline a client may ask for in a `Grpc-Timeout` header, an id
sent in a `Grpc-Metadata-X-Request-Id` header (the gateway would put it before its
own), channels that become idle again after half an hour, and the path from `http
serve` failing to the exit of the process, which `ServiceProcess` has for the other
services. The in-process variants (`local_request_...`,
`Register...HandlerServer`, `...FromEndpoint`) are generated and never called, and
`UnimplementedXServer` is embedded and fully overridden. The accessors and
descriptors of protobuf messages (`*.pb.go`, most of the generated lines),
configuration, logging, Terraform, Helm and the page that lists the catalogue have
no protocol to model.

## 7. Plan

1. The delays and the cancellation of `retry.Do`, and the gateway as a sixth process
   of `ServiceProcess`.
2. Two orders with the notification service, if its runs become small enough.
