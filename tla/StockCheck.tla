----------------------------- MODULE StockCheck -----------------------------
(***************************************************************************)
(* GetStock and CheckStock of the inventory service, next to its           *)
(* transactions.  CheckStock reads one row after another, each in a        *)
(* statement of its own, while transactions commit between them.           *)
(***************************************************************************)
EXTENDS InventoryTx

CONSTANT Checks   \* requests: sequences of a product, or NoUUID, and a quantity

NoUUID == "not a UUID"

ASSUME StockCheckAssumption ==
    Checks \subseteq Seq([product : Products \cup {NoUUID}, quantity : Nat])

VARIABLE check    \* the goroutine that serves CheckStock

checkedVars == <<vars, check>>

Idle == [at |-> "idle"]

\* The lines of a request that can be served from this stock, and the others.
Servable(request, stock) ==
    { i \in DOMAIN request :
        LET line == request[i]
        IN  line.product \in StockRows /\ stock[line.product] >= line.quantity }

Unservable(request, stock) == DOMAIN request \ Servable(request, stock)

\* A call that begins.  had and lacked: the lines that could, or could not, be
\* served at some moment since then; the code keeps no such thing, the property
\* below speaks of it.
Called(request) ==
    [at |-> "GetStock", request |-> request, items |-> <<>>, all |-> TRUE,
     had |-> Servable(request, available), lacked |-> Unservable(request, available)]

\* A transaction may commit while the call is under way.
Meanwhile ==
    check' = IF check = Idle THEN Idle
             ELSE [check EXCEPT !.had = @ \cup Servable(check.request, available'),
                                !.lacked = @ \cup Unservable(check.request, available')]

CheckTypeOK ==
    /\ TypeOK
    /\ check # Idle =>
          /\ check.request \in Checks
          /\ Len(check.items) <= Len(check.request)
          /\ check.all \in BOOLEAN
          /\ check.had \cup check.lacked = DOMAIN check.request

CheckedInit == Init /\ check = Idle

\* The row of a product, or that there is none.
GetStock(p) ==
    IF p = NoUUID THEN [code |-> "InvalidArgument"]
    ELSE IF p \in StockRows
         THEN [code |-> "OK", available |-> available[p], reserved |-> reserved[p]]
    ELSE [code |-> "NotFound", available |-> 0, reserved |-> 0]

\* A mutant of Suffices: the last unit is kept back.
Exceeds(found, line) == found.code = "OK" /\ found.available > line.quantity

Suffices(found, line) == found.code = "OK" /\ found.available >= line.quantity

CheckStock(request) ==
    /\ check = Idle
    /\ check' = Called(request)
    /\ UNCHANGED vars

\* One line.  A product without stock is answered as none, a bad id ends the call.
CheckLine ==
    /\ check # Idle
    /\ Len(check.items) < Len(check.request)
    /\ LET line  == check.request[Len(check.items) + 1]
           found == GetStock(line.product)
       IN  check' = IF found.code = "InvalidArgument" THEN Idle
                    ELSE [check EXCEPT !.items = Append(@, found),
                                       !.all = @ /\ Suffices(found, line)]
    /\ UNCHANGED vars

\* The call returns, with all of its lines or because a statement failed.
CheckReturns ==
    /\ check # Idle
    /\ check' = Idle
    /\ UNCHANGED vars

CheckedNext ==
    \/ \E request \in Checks : CheckStock(request)
    \/ CheckLine \/ CheckReturns
    \/ Next /\ Meanwhile

CheckedSpec == CheckedInit /\ [][CheckedNext]_checkedVars /\ Fairness

-----------------------------------------------------------------------------
\* What CheckStock answers may have been so at no single moment, as transactions
\* commit between its statements; but of each line it says what was so during the
\* call: with an answer that all is available each line was, at some moment of its
\* own; with an answer that it is not, some line was not; and a row is never seen
\* half changed.
CheckStockTrue ==
    check # Idle =>
        LET read == DOMAIN check.items
        IN  /\ IF check.all THEN read \subseteq check.had
               ELSE read \cap check.lacked # {}
            /\ \A i \in read : LET p == check.request[i].product IN
                  p \in StockRows =>
                      check.items[i].available + check.items[i].reserved = InitialStock[p]

\* The inductive invariant: every call that has not returned is one of these, what
\* can or cannot be served now counts as seen since it began, and what it has read
\* agrees with that.
Answers == [code : {"OK", "NotFound"}, available : Nat, reserved : Nat]

Calls ==
    { c \in [at : {"GetStock"}, request : Checks, items : Seq(Answers), all : BOOLEAN,
             had : SUBSET Nat, lacked : SUBSET Nat] :
         /\ Len(c.items) <= Len(c.request)
         /\ c.had \cup c.lacked = DOMAIN c.request }

CheckInv ==
    /\ TxInv
    /\ CheckStockTrue
    /\ check # Idle =>
          /\ check \in Calls
          /\ Servable(check.request, available) \subseteq check.had
          /\ Unservable(check.request, available) \subseteq check.lacked
=============================================================================
