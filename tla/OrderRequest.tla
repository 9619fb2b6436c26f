---------------------------- MODULE OrderRequest ----------------------------
(***************************************************************************)
(* PlaceOrder and GetOrder of the order service, statement by statement.   *)
(*                                                                         *)
(* OrderService takes PlaceOrder up to its commit as one step, and its     *)
(* carts are already aggregated.  Here a cart is what the customer sends:  *)
(* a list of items, each with the text of a product id and an int32.  It   *)
(* is aggregated by text, priced by calls of the product service, and      *)
(* stored by the value of the id; sums of quantities wrap.                 *)
(*                                                                         *)
(* Every request runs in its own goroutine.  The id that the database      *)
(* gives to an order is new each time, so a call of PlaceOrder is named by *)
(* the id its order gets, if it gets one.                                  *)
(***************************************************************************)
EXTENDS Integers, SequencesExt, FiniteSetsExt, ProductService

CONSTANTS Orders,       \* calls of PlaceOrder, and the ids of their orders
          Products,     \* the values of product ids
          Half,         \* half of the integers that hold a quantity: 2^31 of an int32
          Requests,     \* the lists of items customers send
          Readers,      \* goroutines that serve GetOrder
          MaxFaults,    \* faults between a commit and the answer
          MaxFailures   \* faults before a commit

Quantities == -Half .. Half - 1

ASSUME OrderRequestAssumption ==
    /\ Half \in Nat \ {0}
    /\ Value \in [Texts -> Products \cup {NoUUID}]
    /\ DOMAIN Prices \subseteq Products /\ IsFiniteSet(DOMAIN Prices)
    /\ Prices \in [DOMAIN Prices -> Nat]
    /\ Requests \subseteq Seq([product_id : Texts, quantity : Quantities])
    /\ MaxFaults \in Nat /\ MaxFailures \in Nat

VARIABLES call,       \* the goroutine of each PlaceOrder
          orders,     \* the table orders: the committed total, or none
          order_items,\* the table order_items: order -> product -> quantity
          log,        \* topic orders.placed
          reader,     \* the goroutines of GetOrder
          faults, failures

database == <<orders, order_items>>
vars     == <<call, database, log, reader, faults, failures>>

\* A mutant of Wrap: int64.
Wide(n) == n

\* int32: sums that leave the range come back at its other end.
Wrap(n) == ((n + Half) % (2 * Half)) - Half

NoRow  == -1
NoRows == [p \in Products |-> 0]

\* A line of the request after aggregation, and a goroutine that has not begun.
Line(text, quantity) == [id |-> Value[text], product_id |-> text, quantity |-> quantity]

Unborn == [at |-> "none", request |-> <<>>, todo |-> <<>>, total |-> 0,
           lines |-> <<>>, rows |-> NoRows, answer |-> "none"]

\* The statements before the end of the transaction.
Working == {"GetProduct", "CreateOrder", "AddOrderItem", "Commit"}

Asking == [at |-> "idle"]

Init ==
    /\ call = [o \in Orders |-> Unborn]
    /\ orders = [o \in Orders |-> NoRow]
    /\ order_items = [o \in Orders |-> NoRows]
    /\ log = <<>>
    /\ reader = [q \in Readers |-> Asking]
    /\ faults = 0 /\ failures = 0

-----------------------------------------------------------------------------
(* PlaceOrder *)

Continue(o, c) == call' = [call EXCEPT ![o] = c]

\* The handler returns; what its transaction has written, if it has not been
\* committed, is rolled back.
Return(o, code) ==
    Continue(o, [call[o] EXCEPT !.at = "returned", !.answer = code])

\* A mutant of Valid: the quantities are not looked at.
NotEmpty(request) == request # <<>>

Valid(request) ==
    /\ request # <<>>
    /\ \A i \in DOMAIN request : request[i].quantity > 0

\* The texts of a request, in the order of their first occurrence.
Seen(request) ==
    FoldLeft(LAMBDA seen, it : IF Contains(seen, it.product_id) THEN seen
                               ELSE Append(seen, it.product_id),
             <<>>, request)

\* A mutant of Quantity: the last item with the text counts.
LastQuantity(request, text) ==
    FoldLeft(LAMBDA sum, it : IF it.product_id = text THEN it.quantity ELSE sum,
             0, request)

\* What is ordered of a text.
Quantity(request, text) ==
    FoldLeft(LAMBDA sum, it : IF it.product_id = text THEN Wrap(sum + it.quantity)
                              ELSE sum,
             0, request)

\* The request is validated and aggregated.
Receive(o, request) ==
    /\ call[o].at = "none"
    /\ IF Valid(request)
       THEN Continue(o, [Unborn EXCEPT !.at = "GetProduct", !.request = request,
                                       !.todo = Seen(request)])
       ELSE Continue(o, [Unborn EXCEPT !.at = "returned", !.request = request,
                                       !.answer = "InvalidArgument"])
    /\ UNCHANGED <<database, log, reader, faults, failures>>

\* One line is priced.  An id that is no UUID is not sent to the product service.
PriceLine(o) ==
    LET c       == call[o]
        text    == Head(c.todo)
        found   == GetProduct(text)
        ordered == Quantity(c.request, text)
    IN  /\ c.at = "GetProduct"
        /\ \/ /\ Value[text] = NoUUID \/ found.code = "NotFound"
              /\ Return(o, "InvalidArgument")
           \/ /\ found.code = "OK"
              /\ Continue(o, [c EXCEPT
                    !.total = @ + found.product.price_cents * ordered,
                    !.lines = Append(@, Line(text, ordered)),
                    !.todo = Tail(@),
                    !.at = IF Len(c.todo) = 1 THEN "CreateOrder" ELSE @])
        /\ UNCHANGED <<database, log, reader, faults, failures>>

\* CHECK (total_cents >= 0).
CreateOrder(o) ==
    LET c == call[o]
    IN  /\ c.at = "CreateOrder"
        /\ IF c.total < 0 THEN Return(o, "Internal")
           ELSE Continue(o, [c EXCEPT !.at = "AddOrderItem", !.todo = c.lines])
        /\ UNCHANGED <<database, log, reader, faults, failures>>

\* PRIMARY KEY (order_id, product_id) and CHECK (quantity > 0).
Storable(c, line) == c.rows[line.id] = 0 /\ line.quantity > 0

AddOrderItem(o) ==
    LET c    == call[o]
        line == Head(c.todo)
    IN  /\ c.at = "AddOrderItem"
        /\ IF Storable(c, line)
           THEN Continue(o, [c EXCEPT !.rows[line.id] = line.quantity,
                                      !.todo = Tail(@),
                                      !.at = IF Len(c.todo) = 1 THEN "Commit" ELSE @])
           ELSE Return(o, "Internal")
        /\ UNCHANGED <<database, log, reader, faults, failures>>

\* The order and its items become visible together.
Commit(o) ==
    LET c == call[o]
    IN  /\ c.at = "Commit"
        /\ orders' = [orders EXCEPT ![o] = c.total]
        /\ order_items' = [order_items EXCEPT ![o] = c.rows]
        /\ Continue(o, [c EXCEPT !.at = "Publish"])
        /\ UNCHANGED <<log, reader, faults, failures>>

\* A mutant of OrderPlaced: the items as they were sent.
OrderPlacedAsSent(o) ==
    [order_id |-> o, total_cents |-> call[o].total,
     items |-> [i \in DOMAIN call[o].request |->
                   Line(call[o].request[i].product_id, call[o].request[i].quantity)]]

\* The event carries the lines with their ids as the customer spelled them.
OrderPlaced(o) ==
    [order_id |-> o, total_cents |-> call[o].total, items |-> call[o].lines]

\* One attempt of publishOrderPlaced: acknowledged, or repeated.
PublishOrderPlaced(o, acked) ==
    /\ call[o].at = "Publish"
    /\ log' = Append(log, OrderPlaced(o))
    /\ acked \/ faults < MaxFaults
    /\ faults' = IF acked THEN faults ELSE faults + 1
    /\ IF acked THEN Return(o, "OK") ELSE UNCHANGED call
    /\ UNCHANGED <<database, reader, failures>>

\* The attempts run out, and the order is answered all the same; or the answer
\* to the commit is lost, and the handler reports an error; or the pod dies.
DropOrderPlaced(o, code) ==
    /\ call[o].at = "Publish"
    /\ faults < MaxFaults
    /\ faults' = faults + 1
    /\ Return(o, code)
    /\ UNCHANGED <<database, log, reader, failures>>

\* The product service or the database fails, or the pod dies.
Fails(o, code) ==
    /\ call[o].at \in Working
    /\ failures < MaxFailures
    /\ failures' = failures + 1
    /\ Return(o, code)
    /\ UNCHANGED <<database, log, reader, faults>>

-----------------------------------------------------------------------------
(* GetOrder *)

\* The first statement, for an order or for a text that is no UUID.
GetOrder(q, o) ==
    /\ reader[q].at # "ListOrderItems"
    /\ reader' = [reader EXCEPT ![q] =
          IF o = NoUUID THEN [at |-> "returned", order |-> o, answer |-> "InvalidArgument"]
          ELSE IF orders[o] = NoRow THEN [at |-> "returned", order |-> o, answer |-> "NotFound"]
          ELSE [at |-> "ListOrderItems", order |-> o, total |-> orders[o]]]
    /\ UNCHANGED <<call, database, log, faults, failures>>

\* The second, outside any transaction.
ListOrderItems(q) ==
    LET r == reader[q]
    IN  /\ r.at = "ListOrderItems"
        /\ reader' = [reader EXCEPT ![q] =
              [at |-> "returned", order |-> r.order, answer |-> "OK",
               total |-> r.total, items |-> order_items[r.order]]]
        /\ UNCHANGED <<call, database, log, faults, failures>>

\* A statement fails.
ReadFails(q) ==
    /\ reader[q].at # "returned"
    /\ reader' = [reader EXCEPT ![q] = [at |-> "returned", answer |-> "Internal"]]
    /\ UNCHANGED <<call, database, log, faults, failures>>

Next ==
    \/ \E o \in Orders :
          \/ \E request \in Requests : Receive(o, request)
          \/ PriceLine(o) \/ CreateOrder(o) \/ AddOrderItem(o) \/ Commit(o)
          \/ \E acked \in BOOLEAN : PublishOrderPlaced(o, acked)
          \/ \E code \in {"OK", "Internal", "lost"} : DropOrderPlaced(o, code)
          \/ \E code \in {"Internal", "lost"} : Fails(o, code)
    \/ \E q \in Readers :
          \/ \E o \in Orders \cup {NoUUID} : GetOrder(q, o)
          \/ ListOrderItems(q) \/ ReadFails(q)

Spec == Init /\ [][Next]_vars

-----------------------------------------------------------------------------
(* Properties *)

Lines == [id : Products, product_id : Texts, quantity : Quantities]

Calls == [at : Working \cup {"none", "Publish", "returned"},
          request : Requests \cup {<<>>}, todo : Seq(Texts) \cup Seq(Lines),
          total : Int, lines : Seq(Lines), rows : [Products -> Nat],
          answer : {"none", "OK", "InvalidArgument", "Internal", "lost"}]

TypeOK ==
    /\ call \in [Orders -> Calls]
    /\ \A o \in Orders : LET c == call[o] IN
          /\ c.at = "GetProduct" => c.todo \in Seq(Texts) \ {<<>>}
          /\ c.at = "AddOrderItem" => c.todo \in Seq(Lines) \ {<<>>}
          /\ c.at = "returned" <=> c.answer # "none"
    /\ orders \in [Orders -> Nat \cup {NoRow}]
    /\ order_items \in [Orders -> [Products -> Nat]]
    /\ log \in Seq([order_id : Orders, total_cents : Nat, items : Seq(Lines)])
    /\ DOMAIN reader = Readers
    /\ \A q \in Readers : reader[q].at \in {"idle", "ListOrderItems", "returned"}
    /\ faults \in 0..MaxFaults /\ failures \in 0..MaxFailures

Placed == { o \in Orders : orders[o] # NoRow }

\* What a request asks for of a product, however it is spelled and however much.
Units(request, p) ==
    FoldLeft(LAMBDA sum, it : IF Value[it.product_id] = p THEN sum + it.quantity ELSE sum,
             0, request)

\* The cart a request stands for, aggregated by value.
Asked(request) == [p \in Products |-> Wrap(Units(request, p))]

Overflows(request) ==
    \E p \in Products : Units(request, p) \notin Quantities

\* What a cart costs in the catalogue.
Cost(cart) ==
    MapThenSumSet(LAMBDA shown : cart[shown.id] * shown.price_cents, ListProducts)

\* An order that is stored has what its customer asked for, modulo what an int32
\* holds, exactly if the sums fit; and its total is what the products it has cost in
\* the catalogue the storefront shows.
StoredAsAsked ==
    \A o \in Placed :
        /\ \A p \in Products :
              /\ order_items[o][p] \in Quantities
              /\ (order_items[o][p] - Units(call[o].request, p)) % (2 * Half) = 0
        /\ order_items[o] # NoRows
        /\ orders[o] = Cost(order_items[o])

\* Two texts of a request spell the same product.
SpelledTwice(request) ==
    \E i, j \in DOMAIN request :
        /\ request[i].product_id # request[j].product_id
        /\ Value[request[i].product_id] = Value[request[j].product_id]

\* What callers are told is so.  OK: the order is there.  InvalidArgument: it is
\* not, and the request is to blame.  Internal without anything having failed: it
\* is not, and the sums overflow or a product is spelled twice.  GetOrder answers
\* the whole order, though it reads it in two statements.
AnswersTrue ==
    /\ \A o \in Orders : LET c == call[o] IN
          /\ c.answer = "OK" => o \in Placed
          /\ c.answer = "InvalidArgument" =>
                /\ o \notin Placed
                /\ Valid(c.request) =>
                      \E i \in DOMAIN c.request : GetProduct(c.request[i].product_id).code # "OK"
          /\ c.answer = "Internal" =>
                \/ o \in Placed /\ faults > 0
                \/ o \notin Placed /\ failures > 0
                \/ o \notin Placed /\ (Overflows(c.request) \/ SpelledTwice(c.request))
    /\ \A q \in Readers :
          reader[q].at = "returned" /\ reader[q].answer = "OK" =>
              /\ reader[q].order \in Placed
              /\ reader[q].total = orders[reader[q].order]
              /\ reader[q].items = order_items[reader[q].order]

\* The aggregation leaves no two lines of one product.  It does not hold: it
\* compares texts, and the primary key compares values.
NoKeyConflict ==
    \A o \in Orders :
        call[o].at = "AddOrderItem" => call[o].rows[Head(call[o].todo).id] = 0

\* The cart an event stands for: one line for each product, else it is none.
Cart(lines) ==
    [p \in Products |->
        LET of == { i \in DOMAIN lines : lines[i].id = p }
        IN  IF of = {} THEN 0
            ELSE IF \E i \in of : of = {i} THEN lines[CHOOSE i \in of : TRUE].quantity
            ELSE NoRow]

EventsOf(t) ==
    IF t # "orders.placed" THEN <<>>
    ELSE [i \in DOMAIN log |-> [order |-> log[i].order_id, total |-> log[i].total_cents,
                                items |-> Cart(log[i].items)]]

StatusTopics == {"payments.completed", "payments.failed", "inventory.rejected"}

\* The carts that can be stored.
Carts == { Asked(request) : request \in Requests } \cap ([Products -> Nat] \ {NoRows})

Service == INSTANCE OrderService
    WITH log <- [t \in StatusTopics \cup {"orders.placed", "inventory.reserved"} |-> EventsOf(t)],
         status <- [o \in Orders |-> IF orders[o] = NoRow THEN "NONE" ELSE "PENDING"],
         items <- order_items,
         publishing <- { o \in Orders : call[o].at = "Publish" },
         orderHandled <- [t \in StatusTopics |-> 0]

\* Whatever the statements of several requests interleave with, every change of
\* the database and of the topic is one step of OrderService: a whole order with a
\* cart somebody sent, aggregated by value, or the event of that very order.
StepsOfOrderService ==
    /\ Service!OrderInit /\ Service!LogInit
    /\ [][Service!OrderNext]_<<database, log, faults>>

-----------------------------------------------------------------------------
(* The inductive invariant *)

\* What the first k lines cost.
Price(lines, k) ==
    MapThenSumSet(LAMBDA i : lines[i].quantity * Prices[lines[i].id], 1..k)

\* The first n lines are those of the first texts of the request.
LinesOf(lines, request, n) ==
    LET texts == Seen(request)
    IN  /\ n <= Len(texts)
        /\ \A k \in 1..n : /\ lines[k] = Line(texts[k], Quantity(request, texts[k]))
                           /\ lines[k].id \in DOMAIN Prices

\* The lines that are priced are those of the request, and the total is theirs.
IsPriced(c) ==
    LET texts == Seen(c.request)
        n     == Len(c.lines)
    IN  c.at \in Working \cup {"Publish"} =>
           /\ Valid(c.request) /\ LinesOf(c.lines, c.request, n)
           /\ c.total = Price(c.lines, n)
           /\ IF c.at = "GetProduct"
              THEN n < Len(texts) /\ c.todo = SubSeq(texts, n + 1, Len(texts))
              ELSE n = Len(texts)

\* The rows are those of the first k lines, with a key each.
Holds(rows, lines, k) ==
    /\ \A i \in 1..k : lines[i].quantity > 0 /\ rows[lines[i].id] = lines[i].quantity
    /\ \A i, j \in 1..k : lines[i].id = lines[j].id => i = j
    /\ \A p \in Products : rows[p] # 0 => \E i \in 1..k : lines[i].id = p
    /\ Cost(rows) = Price(lines, k)

IsWritten(c) ==
    LET n == Len(c.lines)
    IN  /\ c.at \in {"GetProduct", "CreateOrder"} => c.rows = NoRows
        /\ c.at \in {"AddOrderItem", "Commit", "Publish"} => c.total >= 0
        /\ c.at = "AddOrderItem" =>
              \E k \in 0..n - 1 : /\ c.todo = SubSeq(c.lines, k + 1, n)
                                  /\ Holds(c.rows, c.lines, k)
        /\ c.at \in {"Commit", "Publish"} => Holds(c.rows, c.lines, n)

CallsInOrder == \A o \in Orders : IsPriced(call[o]) /\ IsWritten(call[o])

\* Orders are committed whole, and only by their calls.
CommittedWhole ==
    \A o \in Orders : LET c == call[o] IN
        /\ c.at = "none" => c = Unborn
        /\ c.at # "none" => c.request \in Requests
        /\ o \notin Placed => order_items[o] = NoRows /\ c.at # "Publish"
        /\ o \in Placed => /\ c.at \in {"Publish", "returned"}
                           /\ order_items[o] = Asked(c.request) /\ order_items[o] # NoRows
                           /\ orders[o] = Cost(order_items[o])
        /\ c.at = "Publish" => orders[o] = c.total /\ order_items[o] = c.rows

\* GetOrder has read a committed order.
ReadersFollow ==
    \A q \in Readers :
        reader[q].at = "ListOrderItems" => /\ reader[q].order \in Placed
                                           /\ reader[q].total = orders[reader[q].order]

RequestInv ==
    TypeOK /\ CallsInOrder /\ CommittedWhole /\ ReadersFollow /\ AnswersTrue
=============================================================================
