-------------------------------- MODULE Cart --------------------------------
(***************************************************************************)
(* The cart of one browser tab and its checkout: the CartProvider, which   *)
(* keeps the lines in React state and in localStorage, and the cart page.  *)
(*                                                                         *)
(* When the provider has been rendered, its effects run in their order:    *)
(* one reads the storage and asks for its lines, one saves the lines of    *)
(* this render, which are none.  The lines that were read, and the empty   *)
(* cart that clear asks for when the answer to a checkout has come, are    *)
(* rendered in a later task and saved in one still later.  A click alone   *)
(* is rendered and saved at once; lines that were asked for before it and  *)
(* are not rendered yet come after it, and the click is applied to them.   *)
(***************************************************************************)
EXTENDS Integers, Sequences, Functions, FiniteSets

CONSTANTS Products,
          MaxQuantity,    \* bound on the quantity of a line
          MaxRequests,    \* bound on the orders under way
          MaxFaults,      \* answers lost or not waited for, and clears lost by a reload
          EarlyReload     \* may the tab be reloaded before its cart is shown and saved?

ASSUME CartAssumption ==
    /\ MaxQuantity \in Nat /\ MaxRequests \in Nat /\ MaxFaults \in Nat
    /\ EarlyReload \in BOOLEAN

VARIABLES storage,     \* localStorage: no cart, or one
          tab,         \* "closed", "mounted" before the first effects, "live" after them
          lines,       \* React: the lines shown
          update,      \* React: the lines asked for and not rendered yet, if any
          unsaved,     \* React: the lines are rendered, the effect that saves is due
          clearing,    \* clear has been called, and the empty cart is not saved yet
          page,        \* the cart page: "open"; "waiting" for the answer to the last of
                       \* requests, or "answered" and about to be left: submitting
          requests,    \* the orders under way: items, and whether they are placed
          wanted,      \* what the customer has put into the cart
          ordered,     \* orders placed since an empty cart was last saved by a clear
          faults

cartVars == <<storage, tab, lines, update, unsaved, wanted>>
clearVars == <<clearing, ordered>>
pageVars == <<page, requests, faults>>
vars == <<cartVars, clearVars, pageVars>>

\* A cart has a line for each of its products.
Empty == [p \in {} |-> 0]

Init ==
    /\ storage = {}
    /\ tab = "closed"
    /\ lines = Empty
    /\ update = {}
    /\ unsaved = FALSE
    /\ clearing = FALSE
    /\ page = "open"
    /\ requests = <<>>
    /\ wanted = Empty
    /\ ordered = 0
    /\ faults = 0

-----------------------------------------------------------------------------
(* CartProvider *)

Open ==
    /\ tab = "closed"
    /\ tab' = "mounted"
    /\ lines' = Empty
    /\ UNCHANGED <<storage, update, unsaved, wanted, clearVars, pageVars>>

\* The first effects: what is read is only asked for, so the lines of this render
\* are saved over it.
Effects ==
    /\ tab = "mounted"
    /\ tab' = "live"
    /\ update' = storage
    /\ storage' = {lines}
    /\ UNCHANGED <<lines, unsaved, wanted, clearVars, pageVars>>

Render ==
    /\ tab = "live"
    /\ lines' \in update
    /\ update' = {}
    /\ unsaved' = TRUE
    /\ UNCHANGED <<storage, tab, wanted, clearVars, pageVars>>

\* A mutant of Saved: the effect without its dependency on the lines.
SavedFirst(cart) == storage

\* What localStorage holds after the effect that saves.
Saved(cart) == {cart}

\* A clear is over when the lines it asked for are saved.
Save(cart) ==
    /\ storage' = Saved(cart)
    /\ unsaved' = FALSE
    /\ clearing' = (clearing /\ update # {})
    /\ ordered' = IF clearing /\ update = {} THEN 0 ELSE ordered

SaveEffect ==
    /\ unsaved
    /\ Save(lines)
    /\ UNCHANGED <<tab, lines, update, wanted, pageVars>>

Count(cart, p) == IF p \in DOMAIN cart THEN cart[p] ELSE 0

\* The cart with q of product p.
With(cart, p, q) ==
    IF q <= 0 THEN Restrict(cart, DOMAIN cart \ {p})
    ELSE [x \in DOMAIN cart \cup {p} |-> IF x = p THEN q ELSE cart[x]]

\* What a click makes of a cart: one more, or a quantity for a line it has.
Plus(cart, p) == With(cart, p, Count(cart, p) + 1)
Put(cart, p, q) == IF p \in DOMAIN cart THEN With(cart, p, q) ELSE cart

\* add: the button of a product, which is not on the cart page.
Add(p) ==
    /\ tab = "live"
    /\ page = "open"
    /\ \A cart \in {lines, wanted} \cup update : Count(cart, p) < MaxQuantity
    /\ lines' = Plus(lines, p)
    /\ update' = { Plus(cart, p) : cart \in update }
    /\ wanted' = Plus(wanted, p)
    /\ Save(lines')
    /\ UNCHANGED <<tab, pageVars>>

\* setQuantity and remove: the buttons of the line of a product on the cart page.
SetQuantity(p, q) ==
    /\ tab = "live"
    /\ p \in DOMAIN lines
    /\ q \in {0, lines[p] - 1, lines[p] + 1} /\ q <= MaxQuantity
    /\ lines' = Put(lines, p, q)
    /\ update' = { Put(cart, p, q) : cart \in update }
    /\ wanted' = Put(wanted, p, q)
    /\ Save(lines')
    /\ UNCHANGED <<tab, pageVars>>

Settled == tab = "live" /\ update = {} /\ ~unsaved

\* The tab is reloaded or closed, with no request under way: one that is cut off is an
\* answer lost.  A clear that is not saved is lost, and the cart that was ordered is
\* the cart again.
Reload ==
    /\ tab # "closed"
    /\ requests = <<>>
    /\ \/ /\ Settled \/ EarlyReload
          /\ ~clearing
          /\ UNCHANGED <<wanted, faults>>
       \/ /\ clearing
          /\ faults < MaxFaults
          /\ faults' = faults + 1
          /\ wanted' \in storage
    /\ tab' = "closed"
    /\ update' = {}
    /\ unsaved' = FALSE
    /\ lines' = Empty
    /\ clearing' = FALSE
    /\ page' = "open"
    /\ UNCHANGED <<storage, requests, ordered>>

-----------------------------------------------------------------------------
(* CartPage *)

\* A mutant of MaySubmit: a button that is never disabled.
AlwaysEnabled == TRUE

MaySubmit == page = "open"

Checkout ==
    /\ tab = "live"
    /\ lines # Empty
    /\ MaySubmit
    /\ Len(requests) < MaxRequests
    /\ page' = "waiting"
    /\ requests' = Append(requests, [items |-> lines, placed |-> FALSE])
    /\ UNCHANGED <<cartVars, clearVars, faults>>

Without(i) == SubSeq(requests, 1, i - 1) \o SubSeq(requests, i + 1, Len(requests))

\* The request was sent by the page that is open, and not by one that was left.
Awaited(i) == page = "waiting" /\ i = Len(requests)

\* The order service commits the order.
PlaceOrder(i) ==
    /\ ~requests[i].placed
    /\ requests' = [requests EXCEPT ![i].placed = TRUE]
    /\ ordered' = ordered + 1
    /\ UNCHANGED <<cartVars, clearing, page, faults>>

\* The answer: clear asks for an empty cart, and the page is to be left for that of
\* the order.  The button stays disabled.
Answer(i) ==
    /\ requests[i].placed
    /\ requests' = Without(i)
    /\ update' = {Empty}
    /\ clearing' = TRUE
    /\ wanted' = Empty
    /\ page' = IF Awaited(i) THEN "answered" ELSE page
    /\ UNCHANGED <<storage, tab, lines, unsaved, ordered, faults>>

\* An error instead of the answer, whether the order is placed in the end or not.  A
\* page that was left hears nothing of it.
AnswerLost(i) ==
    /\ ordered' \in IF requests[i].placed THEN {ordered} ELSE {ordered, ordered + 1}
    /\ requests' = Without(i)
    /\ IF Awaited(i) THEN faults < MaxFaults /\ faults' = faults + 1 /\ page' = "open"
       ELSE UNCHANGED <<faults, page>>
    /\ UNCHANGED <<cartVars, clearing>>

\* The page is left, by the customer or for that of the order, and opened again as a
\* new one; a request goes on.  What is asked for is rendered and saved before.
ReturnToPage ==
    /\ Settled
    /\ \/ page = "answered" /\ UNCHANGED faults
       \/ page = "waiting" /\ faults < MaxFaults /\ faults' = faults + 1
    /\ page' = "open"
    /\ UNCHANGED <<cartVars, clearVars, requests>>

Next ==
    \/ Open \/ Effects \/ Render \/ SaveEffect \/ Reload
    \/ \E p \in Products : Add(p) \/ \E q \in 0..MaxQuantity : SetQuantity(p, q)
    \/ Checkout
    \/ \E i \in DOMAIN requests : PlaceOrder(i) \/ Answer(i) \/ AnswerLost(i)
    \/ ReturnToPage

Spec == Init /\ [][Next]_vars

-----------------------------------------------------------------------------
\* What the comment of cart.tsx promises: a refresh does not lose the cart.  What
\* is shown is what the customer has put into it since the last order; if the clear
\* after that order was lost, since the order before.
RefreshKeepsCart == tab = "live" /\ update = {} => lines = wanted

\* A cart is ordered once, and once more for every answer that was lost or not waited
\* for, and for every clear that a reload came before: no click is sent twice.
OrderedOnce == ordered <= 1 + faults

(***************************************************************************)
(* The inductive invariants behind the two.                                *)
(***************************************************************************)
Carts == UNION { [some -> 1..MaxQuantity] : some \in SUBSET Products }

TypeOK ==
    /\ storage \subseteq Carts
    /\ tab \in {"closed", "mounted", "live"}
    /\ lines \in Carts /\ wanted \in Carts
    /\ update \subseteq Carts
    /\ unsaved \in BOOLEAN /\ clearing \in BOOLEAN
    /\ page \in {"open", "waiting", "answered"}
    /\ requests \in Seq([items : Carts, placed : BOOLEAN])
    /\ ordered \in Nat
    /\ faults \in 0..MaxFaults

\* Unless the tab can be reloaded early: what the customer wants is in the storage
\* while no cart is shown, and asked for when something else has been saved there.
Kept ==
    IF tab = "live"
    THEN /\ update = {wanted} \/ (update = {} /\ lines = wanted)
         /\ storage = {wanted} \/ (~Settled /\ \E cart \in storage : storage = {cart})
    ELSE /\ update = {} /\ lines = Empty /\ ~unsaved /\ ~clearing /\ requests = <<>>
         /\ storage = {wanted} \/ (storage = {} /\ wanted = Empty)

\* The page waits for at most one request, and for each of the others there has been
\* a fault; so there has for each order but one, until the cart is cleared for it.
Unplaced  == { i \in DOMAIN requests : ~requests[i].placed }
Expected  == IF page = "waiting" THEN 1 ELSE 0
Cleared   == IF page = "answered" /\ clearing THEN 1 ELSE 0
Accounted ==
    /\ page = "waiting" => requests # <<>>
    /\ clearing => update # {} \/ unsaved
    /\ clearing \/ requests # <<>> => tab = "live"
    /\ Len(requests) <= faults + Expected
    /\ ordered + Cardinality(Unplaced) <= faults + Expected + Cleared
=============================================================================
