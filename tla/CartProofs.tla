----------------------------- MODULE CartProofs -----------------------------
(***************************************************************************)
(* A refresh keeps the cart of a tab that is not reloaded before its cart  *)
(* is shown, and no click on the checkout is sent twice.                   *)
(***************************************************************************)
EXTENDS Cart, FiniteSetTheorems, SequenceTheorems, TLAPS

\* A cart with another quantity of a product is a cart.
LEMMA WithIsCart ==
    ASSUME NEW cart \in Carts, NEW p \in Products, NEW q \in Int, q <= MaxQuantity
    PROVE  With(cart, p, q) \in Carts
<1>1. PICK some \in SUBSET Products : cart \in [some -> 1..MaxQuantity]
  BY DEF Carts
<1>2. CASE q <= 0
  <2>1. With(cart, p, q) \in [some \ {p} -> 1..MaxQuantity]
    BY <1>1, <1>2 DEF With, Restrict
  <2> QED
    BY <2>1 DEF Carts
<1>3. CASE q > 0
  <2>1. With(cart, p, q) \in [some \cup {p} -> 1..MaxQuantity]
    BY <1>1, <1>3, CartAssumption DEF With
  <2> QED
    BY <2>1 DEF Carts
<1> QED
  BY <1>2, <1>3

LEMMA EmptyIsCart == Empty \in Carts
<1>1. Empty \in [{} -> 1..MaxQuantity]
  BY DEF Empty
<1> QED
  BY <1>1 DEF Carts

\* The requests under way without the i-th.
LEMMA WithoutFacts ==
    ASSUME NEW S, requests \in Seq(S), NEW i \in DOMAIN requests
    PROVE  /\ Without(i) \in Seq(S)
           /\ Len(Without(i)) = Len(requests) - 1
           /\ \A j \in 1..(Len(requests) - 1) :
                 Without(i)[j] = IF j < i THEN requests[j] ELSE requests[j + 1]
<1>1. /\ Len(requests) \in Nat /\ DOMAIN requests = 1..Len(requests)
      /\ i \in 1..Len(requests)
  OBVIOUS
<1> DEFINE front == SubSeq(requests, 1, i - 1)
           back  == SubSeq(requests, i + 1, Len(requests))
<1>2. /\ front \in Seq(S) /\ Len(front) = i - 1
      /\ \A j \in 1..(i - 1) : front[j] = requests[j]
  BY <1>1
<1>3. /\ back \in Seq(S) /\ Len(back) = Len(requests) - i
      /\ \A j \in 1..(Len(requests) - i) : back[j] = requests[i + j]
  BY <1>1
<1>4. Without(i) = front \o back
  BY DEF Without
<1> HIDE DEF front, back
<1>5. /\ front \o back \in Seq(S) /\ Len(front \o back) = Len(requests) - 1
      /\ \A j \in 1..(Len(requests) - 1) :
            (front \o back)[j] = IF j < i THEN front[j] ELSE back[j - (i - 1)]
  <2>1. /\ front \o back \in Seq(S) /\ Len(front \o back) = Len(front) + Len(back)
        /\ \A j \in 1..(Len(front) + Len(back)) :
              (front \o back)[j] = IF j <= Len(front) THEN front[j] ELSE back[j - Len(front)]
    BY <1>2, <1>3
  <2>2. /\ Len(front) + Len(back) = Len(requests) - 1
        /\ \A j \in 1..(Len(requests) - 1) : (j <= Len(front)) <=> (j < i)
    BY <1>1, <1>2, <1>3
  <2> QED
    BY <1>2, <2>1, <2>2
<1>6. ASSUME NEW j \in 1..(Len(requests) - 1)
      PROVE  Without(i)[j] = IF j < i THEN requests[j] ELSE requests[j + 1]
  <2>1. CASE j < i
    BY <1>1, <1>2, <1>4, <1>5, <2>1
  <2>2. CASE ~(j < i)
    <3>1. j - (i - 1) \in 1..(Len(requests) - i) /\ i + (j - (i - 1)) = j + 1
      BY <1>1, <2>2
    <3>2. back[j - (i - 1)] = requests[j + 1]
      BY <1>3, <3>1
    <3> QED
      BY <1>4, <1>5, <2>2, <3>2
  <2> QED
    BY <2>1, <2>2
<1> QED
  BY <1>4, <1>5, <1>6

LEMMA ElementOf ==
    ASSUME NEW S, NEW s \in Seq(S), NEW i \in DOMAIN s
    PROVE  s[i] \in S
  OBVIOUS

LEMMA UpTo ==
    ASSUME NEW n \in Nat
    PROVE  IsFiniteSet(1..n) /\ Cardinality(1..n) = n
<1>1. n \in Int /\ 1 \in Int
  OBVIOUS
<1>2. IsFiniteSet(1..n) /\ Cardinality(1..n) = IF 1 > n THEN 0 ELSE n - 1 + 1
  BY <1>1, FS_Interval
<1> QED
  BY <1>2

\* The orders that are not placed yet can be counted.
LEMMA CountIn ==
    ASSUME NEW S, NEW s \in Seq(S)
    PROVE  /\ Len(s) \in Nat /\ DOMAIN s = 1..Len(s)
           /\ IsFiniteSet({ i \in DOMAIN s : ~s[i].placed })
           /\ Cardinality({ i \in DOMAIN s : ~s[i].placed }) \in 0..Len(s)
<1> DEFINE U == { i \in DOMAIN s : ~s[i].placed }
<1>1. Len(s) \in Nat /\ DOMAIN s = 1..Len(s)
  OBVIOUS
<1>2. U \subseteq 1..Len(s)
  BY <1>1
<1>3. IsFiniteSet(1..Len(s)) /\ Cardinality(1..Len(s)) = Len(s)
  BY <1>1, UpTo
<1> HIDE DEF U
<1>4. IsFiniteSet(U) /\ Cardinality(U) <= Len(s)
  BY <1>2, <1>3, FS_Subset
<1>5. Cardinality(U) \in 0..Len(s)
  BY <1>1, <1>4, FS_CardinalityType
<1> QED
  BY <1>1, <1>4, <1>5 DEF U

LEMMA UnplacedCount ==
    ASSUME TypeOK
    PROVE  /\ Len(requests) \in Nat /\ DOMAIN requests = 1..Len(requests)
           /\ IsFiniteSet(Unplaced)
           /\ Cardinality(Unplaced) \in Nat /\ Cardinality(Unplaced) <= Len(requests)
<1>1. requests \in Seq([items : Carts, placed : BOOLEAN])
  BY DEF TypeOK
<1> QED
  BY <1>1, CountIn DEF Unplaced

\* An order is sent: there is one more that is not placed.
LEMMA OneMoreUnplaced ==
    ASSUME TypeOK, NEW item, requests' = Append(requests, item), ~item.placed
    PROVE  Cardinality(Unplaced') = Cardinality(Unplaced) + 1
<1>1. /\ Len(requests) \in Nat /\ DOMAIN requests = 1..Len(requests)
      /\ IsFiniteSet(Unplaced)
  BY UnplacedCount
<1>2. /\ DOMAIN requests' = 1..(Len(requests) + 1)
      /\ requests'[Len(requests) + 1] = item
      /\ \A i \in 1..Len(requests) : requests'[i] = requests[i]
  BY <1>1 DEF TypeOK
<1>3. Unplaced' = Unplaced \cup {Len(requests) + 1}
  BY <1>1, <1>2 DEF Unplaced
<1>4. Len(requests) + 1 \notin Unplaced
  BY <1>1 DEF Unplaced
<1> QED
  BY <1>1, <1>3, <1>4, FS_AddElement

\* An order is placed: there is one less.
LEMMA OneLessUnplaced ==
    ASSUME TypeOK, NEW i \in DOMAIN requests, ~requests[i].placed,
           requests' = [requests EXCEPT ![i].placed = TRUE]
    PROVE  Cardinality(Unplaced') = Cardinality(Unplaced) - 1
<1>1. /\ Len(requests) \in Nat /\ DOMAIN requests = 1..Len(requests)
      /\ IsFiniteSet(Unplaced)
  BY UnplacedCount
<1>2. /\ DOMAIN requests' = DOMAIN requests
      /\ requests'[i].placed
      /\ \A j \in DOMAIN requests \ {i} : requests'[j] = requests[j]
  BY <1>1 DEF TypeOK
<1>3. Unplaced' = Unplaced \ {i} /\ i \in Unplaced
  BY <1>2 DEF Unplaced
<1> QED
  BY <1>1, <1>3, FS_RemoveElement

\* A request is over: the others move up, and those that are not placed are as many,
\* or one less if it was one of them.
LEMMA UnplacedWithout ==
    ASSUME TypeOK, NEW i \in DOMAIN requests, requests' = Without(i)
    PROVE  Cardinality(Unplaced') =
              IF requests[i].placed THEN Cardinality(Unplaced)
              ELSE Cardinality(Unplaced) - 1
<1>1. /\ Len(requests) \in Nat /\ DOMAIN requests = 1..Len(requests)
      /\ IsFiniteSet(Unplaced)
  BY UnplacedCount
<1>2. /\ requests' \in Seq([items : Carts, placed : BOOLEAN])
      /\ Len(requests') = Len(requests) - 1
      /\ \A j \in 1..(Len(requests) - 1) :
            requests'[j] = IF j < i THEN requests[j] ELSE requests[j + 1]
  BY WithoutFacts DEF TypeOK
<1>3. DOMAIN requests' = 1..(Len(requests) - 1)
  BY <1>2
<1> DEFINE f == [j \in Unplaced' |-> IF j < i THEN j ELSE j + 1]
           T == Unplaced \ {i}
<1>4. IsFiniteSet(T) /\ Cardinality(T) =
         IF requests[i].placed THEN Cardinality(Unplaced) ELSE Cardinality(Unplaced) - 1
  <2>1. i \in Unplaced <=> ~requests[i].placed
    BY DEF Unplaced
  <2> QED
    BY <1>1, <2>1, FS_RemoveElement
<1>5. \A j \in Unplaced' : j \in 1..(Len(requests) - 1) /\ f[j] \in T
  BY <1>1, <1>2, <1>3 DEF Unplaced
<1>6. \A j, k \in Unplaced' : f[j] = f[k] => j = k
  BY <1>1, <1>5
<1>7. ASSUME NEW t \in T
      PROVE  \E j \in Unplaced' : f[j] = t
  <2>1. t \in 1..Len(requests) /\ t # i /\ ~requests[t].placed
    BY <1>1 DEF Unplaced
  <2>2. CASE t < i
    BY <1>1, <1>2, <1>3, <2>1, <2>2 DEF Unplaced
  <2>3. CASE t > i
    <3>1. /\ t - 1 \in 1..(Len(requests) - 1) /\ ~(t - 1 < i) /\ (t - 1) + 1 = t
      BY <1>1, <2>1, <2>3
    <3>2. t - 1 \in Unplaced'
      BY <1>2, <1>3, <2>1, <3>1 DEF Unplaced
    <3> QED
      BY <3>1, <3>2
  <2> QED
    BY <1>1, <2>1, <2>2, <2>3
<1>8. f \in Bijection(Unplaced', T)
  <2>1. f \in [Unplaced' -> T]
    BY <1>5
  <2> HIDE DEF f, T
  <2> QED
    BY <1>6, <1>7, <2>1 DEF Bijection, Injection, Surjection, IsInjective
<1>9. IsFiniteSet(Unplaced')
  <2>1. IsFiniteSet(1..Len(requests)) /\ Unplaced' \subseteq 1..Len(requests)
    BY <1>1, <1>3, UpTo DEF Unplaced
  <2> QED
    BY <2>1, FS_Subset
<1>10. Cardinality(Unplaced') = Cardinality(T)
  <2> HIDE DEF f, T
  <2>1. ExistsBijection(Unplaced', T)
    BY <1>8 DEF ExistsBijection
  <2> QED
    BY <1>9, <2>1, FS_Bijection
<1> QED
  BY <1>4, <1>10

-----------------------------------------------------------------------------
(* Types *)

\* What a click makes of a cart is a cart.
LEMMA ClickIsCart ==
    ASSUME NEW cart \in Carts, NEW p \in Products
    PROVE  /\ Count(cart, p) < MaxQuantity => Plus(cart, p) \in Carts
           /\ \A q \in 0..MaxQuantity : Put(cart, p, q) \in Carts
<1>1. MaxQuantity \in Nat /\ Count(cart, p) \in Nat
  BY CartAssumption DEF Count, Carts
<1>2. ASSUME Count(cart, p) < MaxQuantity PROVE Plus(cart, p) \in Carts
  <2>1. Count(cart, p) + 1 \in Int /\ Count(cart, p) + 1 <= MaxQuantity
    BY <1>1, <1>2
  <2> QED
    BY <2>1, WithIsCart DEF Plus
<1>3. ASSUME NEW q \in 0..MaxQuantity PROVE Put(cart, p, q) \in Carts
  <2>1. q \in Int /\ q <= MaxQuantity
    BY <1>1
  <2> QED
    BY <2>1, WithIsCart DEF Put
<1> QED
  BY <1>2, <1>3

LEMMA SaveTypes ==
    ASSUME TypeOK, NEW cart \in Carts, Save(cart)
    PROVE  /\ storage' \subseteq Carts /\ unsaved' \in BOOLEAN /\ clearing' \in BOOLEAN
           /\ ordered' \in Nat
<1>1. unsaved' = FALSE /\ clearing' = (clearing /\ update # {})
  BY DEF Save
<1>2. storage' = {cart} /\ ordered' = IF clearing /\ update = {} THEN 0 ELSE ordered
  BY DEF Save, Saved
<1>3. ordered' \in Nat
  BY <1>2 DEF TypeOK
<1> QED
  BY <1>1, <1>2, <1>3

LEMMA TypeStep ==
    ASSUME TypeOK, [Next]_vars
    PROVE  TypeOK'
<1> DEFINE Types == [items : Carts, placed : BOOLEAN]
<1>1. /\ storage \subseteq Carts /\ lines \in Carts /\ wanted \in Carts
      /\ update \subseteq Carts /\ requests \in Seq(Types)
      /\ ordered \in Nat /\ faults \in 0..MaxFaults
      /\ Empty \in Carts /\ MaxFaults \in Nat
  BY EmptyIsCart, CartAssumption DEF TypeOK
<1>2. CASE Open \/ Effects \/ Render
  BY <1>1, <1>2 DEF TypeOK, Open, Effects, Render, clearVars, pageVars
<1>3. CASE SaveEffect
  <2>1. Save(lines) /\ UNCHANGED <<tab, lines, update, wanted, page, requests, faults>>
    BY <1>3 DEF SaveEffect, pageVars
  <2> QED
    BY <1>1, <2>1, SaveTypes DEF TypeOK
<1>4. ASSUME NEW p \in Products, Add(p)
      PROVE  TypeOK'
  <2>1. /\ lines' = Plus(lines, p) /\ wanted' = Plus(wanted, p) /\ Save(lines')
        /\ update' = { Plus(cart, p) : cart \in update }
        /\ \A cart \in {lines, wanted} \cup update : Count(cart, p) < MaxQuantity
        /\ UNCHANGED <<tab, page, requests, faults>>
    BY <1>4 DEF Add, pageVars
  <2>2. lines' \in Carts /\ wanted' \in Carts /\ update' \subseteq Carts
    BY <1>1, <2>1, ClickIsCart
  <2> QED
    BY <2>1, <2>2, SaveTypes DEF TypeOK
<1>5. ASSUME NEW p \in Products, NEW q \in 0..MaxQuantity, SetQuantity(p, q)
      PROVE  TypeOK'
  <2>1. /\ lines' = Put(lines, p, q) /\ wanted' = Put(wanted, p, q) /\ Save(lines')
        /\ update' = { Put(cart, p, q) : cart \in update }
        /\ UNCHANGED <<tab, page, requests, faults>>
    BY <1>5 DEF SetQuantity, pageVars
  <2>2. lines' \in Carts /\ wanted' \in Carts /\ update' \subseteq Carts
    BY <1>1, <2>1, ClickIsCart
  <2> QED
    BY <2>1, <2>2, SaveTypes DEF TypeOK
<1>6. CASE Reload
  <2>1. wanted' \in Carts /\ faults' \in 0..MaxFaults
    BY <1>1, <1>6 DEF Reload
  <2> QED
    BY <1>1, <1>6, <2>1 DEF TypeOK, Reload
<1>7. CASE Checkout
  <2>1. /\ requests' = Append(requests, [items |-> lines, placed |-> FALSE])
        /\ page' = "waiting" /\ UNCHANGED <<cartVars, clearVars, faults>>
    BY <1>7 DEF Checkout
  <2>2. requests' \in Seq(Types)
    BY <1>1, <2>1
  <2> QED
    BY <2>1, <2>2 DEF TypeOK, cartVars, clearVars
<1>8. ASSUME NEW i \in DOMAIN requests, PlaceOrder(i) \/ Answer(i) \/ AnswerLost(i)
      PROVE  TypeOK'
  <2>1. CASE PlaceOrder(i)
    <3>1. requests' \in Seq(Types)
      <4> DEFINE item == [requests[i] EXCEPT !.placed = TRUE]
      <4>1. item \in Types
        <5>1. requests[i] \in Types
          BY <1>1, ElementOf
        <5> QED
          BY <5>1
      <4>2. requests' = [requests EXCEPT ![i] = item]
        BY <2>1 DEF PlaceOrder
      <4> HIDE DEF item
      <4> QED
        BY <1>1, <4>1, <4>2
    <3> QED
      BY <2>1, <3>1 DEF TypeOK, PlaceOrder, cartVars
  <2>2. Without(i) \in Seq(Types)
    BY <1>1, WithoutFacts
  <2>3. CASE Answer(i)
    <3>1. page' \in {"open", "waiting", "answered"}
      BY <2>3 DEF TypeOK, Answer
    <3> QED
      BY <1>1, <2>2, <2>3, <3>1 DEF TypeOK, Answer
  <2>4. CASE AnswerLost(i)
    <3>1. faults' \in 0..MaxFaults /\ page' \in {"open", "waiting", "answered"}
      BY <1>1, <2>4 DEF TypeOK, AnswerLost
    <3>2. ordered' \in Nat
      BY <1>1, <2>4 DEF AnswerLost
    <3> QED
      BY <2>2, <2>4, <3>1, <3>2 DEF TypeOK, AnswerLost, cartVars
  <2> QED
    BY <1>8, <2>1, <2>3, <2>4
<1>9. CASE ReturnToPage
  <2>1. faults' \in 0..MaxFaults
    BY <1>1, <1>9 DEF ReturnToPage
  <2> QED
    BY <1>9, <2>1 DEF TypeOK, ReturnToPage, cartVars, clearVars
<1>10. CASE UNCHANGED vars
  BY <1>10 DEF TypeOK, vars, cartVars, clearVars, pageVars
<1> QED
  BY <1>2, <1>3, <1>4, <1>5, <1>6, <1>7, <1>8, <1>9, <1>10 DEF Next

\* The storage, the shown cart and the requests have their types.
THEOREM CartTypeCorrect == Spec => []TypeOK
<1>1. Init => TypeOK
  <2>1. <<>> \in Seq([items : Carts, placed : BOOLEAN]) /\ 0 \in 0..MaxFaults
    BY CartAssumption
  <2>2. ASSUME Init
        PROVE  /\ storage = {} /\ tab = "closed" /\ lines = Empty /\ update = {}
               /\ unsaved = FALSE /\ clearing = FALSE /\ page = "open"
               /\ requests = <<>> /\ wanted = Empty
               /\ ordered = 0 /\ faults = 0
    BY <2>2 DEF Init
  <2> QED
    BY <2>1, <2>2, EmptyIsCart DEF TypeOK
<1> QED
  BY <1>1, TypeStep, PTL DEF Spec

-----------------------------------------------------------------------------
(* The cart *)

\* A tab that is not reloaded before its cart is shown shows what the customer has
\* put into the cart, after any number of refreshes.
THEOREM RefreshKeepsTheCart ==
    ASSUME ~EarlyReload
    PROVE  Spec => []RefreshKeepsCart
<1>1. Init => Kept
  BY DEF Init, Kept
<1>2. ASSUME Kept, [Next]_vars
      PROVE  Kept'
  <2>1. CASE Open
    BY <1>2, <2>1 DEF Kept, Open, clearVars, pageVars
  <2>2. CASE Effects
    BY <1>2, <2>2 DEF Kept, Effects, Settled, clearVars, pageVars
  <2>3. CASE Render
    BY <1>2, <2>3 DEF Kept, Render, Settled, clearVars, pageVars
  <2>4. CASE SaveEffect
    <3>1. /\ storage' = {lines} /\ unsaved' = FALSE
          /\ UNCHANGED <<tab, lines, update, wanted, requests>>
      BY <2>4, Zenon DEF SaveEffect, Save, Saved, pageVars
    <3>2. tab = "live"
      BY <1>2, <2>4, Zenon DEF Kept, SaveEffect
    <3> QED
      BY <1>2, <3>1, <3>2 DEF Kept, Settled
  <2>5. ASSUME NEW p \in Products, Add(p)
        PROVE  Kept'
    <3>1. /\ tab = "live" /\ tab' = tab /\ lines' = Plus(lines, p)
          /\ update' = { Plus(cart, p) : cart \in update }
          /\ wanted' = Plus(wanted, p) /\ storage' = {lines'} /\ unsaved' = FALSE
      BY <2>5 DEF Add, Save, Saved
    <3> QED
      BY <1>2, <3>1 DEF Kept, Settled
  <2>6. ASSUME NEW p \in Products, NEW q \in 0..MaxQuantity, SetQuantity(p, q)
        PROVE  Kept'
    <3>1. /\ tab = "live" /\ tab' = tab /\ lines' = Put(lines, p, q)
          /\ update' = { Put(cart, p, q) : cart \in update }
          /\ wanted' = Put(wanted, p, q) /\ storage' = {lines'} /\ unsaved' = FALSE
      BY <2>6 DEF SetQuantity, Save, Saved
    <3> QED
      BY <1>2, <3>1 DEF Kept, Settled
  <2>7. CASE Reload
    <3>1. /\ tab' = "closed" /\ update' = {} /\ lines' = Empty /\ unsaved' = FALSE
          /\ clearing' = FALSE /\ requests = <<>> /\ UNCHANGED <<storage, requests>>
      BY <2>7 DEF Reload
    <3>2. CASE clearing
      <4>1. tab = "live" /\ wanted' \in storage
        BY <1>2, <2>7, <3>2 DEF Kept, Reload
      <4> QED
        BY <1>2, <3>1, <4>1 DEF Kept
    <3>3. CASE ~clearing
      <4>1. Settled /\ wanted' = wanted
        BY <2>7, <3>3 DEF Reload
      <4> QED
        BY <1>2, <3>1, <4>1 DEF Kept, Settled
    <3> QED
      BY <3>2, <3>3
  <2>8. CASE Checkout
    BY <1>2, <2>8 DEF Kept, Checkout, Settled, cartVars, clearVars
  <2>9. ASSUME NEW i \in DOMAIN requests, PlaceOrder(i) \/ AnswerLost(i) \/ Answer(i)
        PROVE  Kept'
    <3>1. tab = "live"
      BY <1>2, <2>9 DEF Kept
    <3>2. CASE PlaceOrder(i) \/ AnswerLost(i)
      BY <1>2, <3>1, <3>2 DEF Kept, PlaceOrder, AnswerLost, Settled, cartVars
    <3>3. CASE Answer(i)
      <4>1. UNCHANGED <<storage, tab, unsaved>> /\ update' = {Empty} /\ wanted' = Empty
        BY <3>3 DEF Answer
      <4> QED
        BY <1>2, <3>1, <4>1 DEF Kept, Settled
    <3> QED
      BY <2>9, <3>2, <3>3
  <2>10. CASE ReturnToPage \/ UNCHANGED vars
    BY <1>2, <2>10 DEF Kept, ReturnToPage, Settled, vars, cartVars, clearVars, pageVars
  <2> QED
    BY <1>2, <2>1, <2>2, <2>3, <2>4, <2>5, <2>6, <2>7, <2>8, <2>9, <2>10 DEF Next
<1>3. Kept => RefreshKeepsCart
  BY DEF Kept, RefreshKeepsCart
<1> QED
  BY <1>1, <1>2, <1>3, PTL DEF Spec

-----------------------------------------------------------------------------
(* The orders *)

LEMMA Slack ==
    ASSUME NEW a \in Nat, NEW b \in Nat, NEW c \in {0, 1}, NEW d \in {0, 1}, NEW e \in {0, 1},
           a <= b + c + d, d <= e
    PROVE  a <= b + c + e
  OBVIOUS

\* No click orders a cart twice: there is at most one order more than answers that
\* were lost or not waited for and clears that were lost, with or without early reloads.
THEOREM CartIsOrderedOnce == Spec => []OrderedOnce
<1>1. Init => Accounted
  <2> SUFFICES ASSUME Init PROVE Accounted
    OBVIOUS
  <2>1. /\ ordered = 0 /\ faults = 0 /\ page = "open" /\ requests = <<>>
        /\ clearing = FALSE
    BY DEF Init
  <2>2. Len(requests) = 0 /\ Unplaced = {}
    BY <2>1 DEF Unplaced
  <2>3. Cardinality(Unplaced) = 0
    BY <2>2, FS_EmptySet
  <2> QED
    BY <2>1, <2>2, <2>3 DEF Accounted, Expected, Cleared
<1>2. ASSUME TypeOK, Accounted, [Next]_vars
      PROVE  Accounted'
  <2> DEFINE n == Cardinality(Unplaced)
  <2>1. /\ n \in Nat /\ Len(requests) \in Nat /\ DOMAIN requests = 1..Len(requests)
        /\ n <= Len(requests) /\ ordered \in Nat /\ faults \in Nat
        /\ clearing \in BOOLEAN /\ page \in {"open", "waiting", "answered"}
        /\ (requests = <<>> <=> Len(requests) = 0)
    BY <1>2, UnplacedCount, EmptySeq, CartAssumption DEF TypeOK
  <2>2. /\ page = "waiting" => requests # <<>>
        /\ clearing => update # {} \/ unsaved
        /\ clearing \/ requests # <<>> => tab = "live"
        /\ Len(requests) <= faults + Expected
        /\ ordered + n <= faults + Expected + Cleared
    BY <1>2 DEF Accounted
  <2>3. /\ Expected = IF page = "waiting" THEN 1 ELSE 0
        /\ Cleared = IF page = "answered" /\ clearing THEN 1 ELSE 0
        /\ Expected' = IF page' = "waiting" THEN 1 ELSE 0
        /\ Cleared' = IF page' = "answered" /\ clearing' THEN 1 ELSE 0
    BY DEF Expected, Cleared
  <2>4. ASSUME UNCHANGED <<clearing, ordered, page, requests, faults>>,
               clearing => update' # {} \/ unsaved',
               clearing \/ requests # <<>> => tab' = "live"
        PROVE  Accounted'
    <3>1. Unplaced' = Unplaced
      BY <2>4 DEF Unplaced
    <3> QED
      BY <2>2, <2>3, <2>4, <3>1 DEF Accounted
  <2>5. CASE Open \/ Effects \/ Render \/ UNCHANGED vars
    <3>1. UNCHANGED <<clearing, ordered, page, requests, faults>>
      BY <2>5 DEF Open, Effects, Render, vars, clearVars, pageVars
    <3>2. /\ clearing => update' # {} \/ unsaved'
          /\ clearing \/ requests # <<>> => tab' = "live"
      BY <2>2, <2>5 DEF Open, Effects, Render, vars, cartVars
    <3> QED
      BY <2>4, <3>1, <3>2
  <2>6. ASSUME NEW cart, Save(cart), UNCHANGED <<page, requests, faults>>,
               update = {} <=> update' = {}, tab = "live", tab' = "live"
        PROVE  Accounted'
    <3>1. /\ clearing' = (clearing /\ update # {})
          /\ ordered' = IF clearing /\ update = {} THEN 0 ELSE ordered
      BY <2>6 DEF Save
    <3>2. Cardinality(Unplaced') = n
      BY <2>6 DEF Unplaced
    <3>3. CASE clearing /\ update = {}
      <4>1. ordered' = 0 /\ Expected' = Expected /\ Cleared' \in {0, 1}
        BY <2>3, <2>6, <3>1, <3>3
      <4>2. ordered' + Cardinality(Unplaced') <= faults' + Expected' + Cleared'
        <5>1. Expected \in {0, 1}
          BY <2>3
        <5> HIDE DEF n
        <5>2. n <= faults + Expected + 0 /\ faults' = faults
          BY <2>1, <2>2, <2>6, <5>1
        <5>3. n \in Nat /\ faults \in Nat /\ 0 \in {0, 1} /\ 0 <= Cleared' /\ Cleared' \in {0, 1}
          BY <2>1, <4>1
        <5>4. n <= faults + Expected + Cleared'
          BY <5>1, <5>2, <5>3, Slack
        <5>5. ordered' + Cardinality(Unplaced') = n
          BY <3>2, <4>1, <5>3
        <5> QED
          BY <4>1, <5>2, <5>4, <5>5
      <4> QED
        BY <2>2, <2>6, <3>1, <3>3, <4>1, <4>2 DEF Accounted
    <3>4. CASE ~(clearing /\ update = {})
      <4>1. ordered' = ordered /\ clearing' = clearing
        BY <2>1, <3>1, <3>4
      <4>2. Expected' = Expected /\ Cleared' = Cleared
        BY <2>3, <2>6, <4>1
      <4> QED
        BY <2>2, <2>6, <3>2, <3>4, <4>1, <4>2 DEF Accounted
    <3> QED
      BY <3>3, <3>4
  <2>7. CASE SaveEffect
    <3>1. CASE tab = "live"
      BY <2>6, <2>7, <3>1 DEF SaveEffect, pageVars
    <3>2. CASE tab # "live"
      <4>1. ~clearing
        BY <2>2, <3>2
      <4>2. UNCHANGED <<tab, page, requests, faults>> /\ ~clearing' /\ ordered' = ordered
        BY <2>7, <4>1 DEF SaveEffect, Save, pageVars
      <4>3. clearing' = clearing
        BY <2>1, <4>1, <4>2, <2>7 DEF SaveEffect, Save
      <4> QED
        BY <2>2, <2>4, <4>1, <4>2, <4>3
    <3> QED
      BY <3>1, <3>2
  <2>8. ASSUME NEW p \in Products, Add(p)
        PROVE  Accounted'
    <3>1. /\ Save(lines') /\ UNCHANGED <<tab, page, requests, faults>> /\ tab = "live"
          /\ update' = { Plus(cart, p) : cart \in update }
      BY <2>8 DEF Add, pageVars
    <3>2. update = {} <=> update' = {}
      BY <3>1
    <3> QED
      BY <2>6, <3>1, <3>2
  <2>9. ASSUME NEW p \in Products, NEW q \in 0..MaxQuantity, SetQuantity(p, q)
        PROVE  Accounted'
    <3>1. /\ Save(lines') /\ UNCHANGED <<tab, page, requests, faults>> /\ tab = "live"
          /\ update' = { Put(cart, p, q) : cart \in update }
      BY <2>9 DEF SetQuantity, pageVars
    <3>2. update = {} <=> update' = {}
      BY <3>1
    <3> QED
      BY <2>6, <3>1, <3>2
  <2>10. CASE Reload
    <3>1. /\ requests = <<>> /\ page' = "open" /\ ~clearing'
          /\ UNCHANGED <<requests, ordered>> /\ Unplaced' = Unplaced
      BY <2>10 DEF Reload, Unplaced
    <3>2. faults' = IF clearing THEN faults + 1 ELSE faults
      BY <2>10 DEF Reload
    <3>3. Expected = 0 /\ Expected' = 0 /\ Cleared' = 0 /\ (~clearing => Cleared = 0)
          /\ Cleared \in {0, 1}
      BY <2>2, <2>3, <3>1
    <3>4. ordered' + Cardinality(Unplaced') <= faults' + Expected' + Cleared'
      <4> HIDE DEF n
      <4>1. ordered + n <= faults + Cleared /\ Cardinality(Unplaced') = n
        BY <2>1, <2>2, <3>1, <3>3 DEF n
      <4> QED
        BY <2>1, <3>1, <3>2, <3>3, <4>1
    <3>5. Len(requests') <= faults' + Expected'
      BY <2>1, <3>1, <3>2, <3>3
    <3> QED
      BY <3>1, <3>4, <3>5 DEF Accounted
  <2>11. CASE Checkout
    <3>1. /\ page = "open" /\ page' = "waiting" /\ tab = "live" /\ tab' = tab
          /\ requests' = Append(requests, [items |-> lines, placed |-> FALSE])
          /\ UNCHANGED <<update, unsaved, clearing, ordered, faults>>
      BY <2>11 DEF Checkout, MaySubmit, cartVars, clearVars
    <3>2. Cardinality(Unplaced') = n + 1
      BY <1>2, <3>1, OneMoreUnplaced
    <3>3. Len(requests') = Len(requests) + 1 /\ requests' # <<>>
      BY <1>2, <3>1 DEF TypeOK
    <3>4. Expected = 0 /\ Cleared = 0 /\ Expected' = 1 /\ Cleared' = 0
      BY <2>3, <3>1
    <3> HIDE DEF n
    <3>5. ordered' + Cardinality(Unplaced') <= faults' + Expected' + Cleared'
      BY <2>1, <2>2, <3>1, <3>2, <3>4
    <3>6. Len(requests') <= faults' + Expected'
      BY <2>1, <2>2, <3>1, <3>3, <3>4
    <3> QED
      BY <2>2, <3>1, <3>3, <3>5, <3>6 DEF Accounted
  <2>12. ASSUME NEW i \in DOMAIN requests, PlaceOrder(i)
         PROVE  Accounted'
    <3>1. /\ requests' = [requests EXCEPT ![i].placed = TRUE] /\ ~requests[i].placed
          /\ ordered' = ordered + 1 /\ UNCHANGED <<page, clearing, faults>>
          /\ UNCHANGED <<tab, update, unsaved>>
      BY <2>12 DEF PlaceOrder, cartVars
    <3>2. Cardinality(Unplaced') = n - 1
      BY <1>2, <3>1, OneLessUnplaced
    <3>3. Len(requests') = Len(requests) /\ (requests' = <<>> <=> requests = <<>>)
      BY <1>2, <3>1 DEF TypeOK
    <3>4. Expected' = Expected /\ Cleared' = Cleared /\ Expected \in {0, 1} /\ Cleared \in {0, 1}
      BY <2>3, <3>1
    <3> HIDE DEF n
    <3>5. ordered' + Cardinality(Unplaced') <= faults' + Expected' + Cleared'
      BY <2>1, <2>2, <3>1, <3>2, <3>4
    <3> QED
      BY <2>2, <3>1, <3>3, <3>4, <3>5 DEF Accounted
  <2>13. ASSUME NEW i \in DOMAIN requests, requests' = Without(i)
         PROVE  /\ Len(requests') = Len(requests) - 1 /\ Len(requests) > 0
                /\ (requests' = <<>> <=> Len(requests') = 0)
                /\ Cardinality(Unplaced') = IF requests[i].placed THEN n ELSE n - 1
                /\ Cardinality(Unplaced') \in Nat
                /\ Cardinality(Unplaced') <= Len(requests) - 1
    <3>1. Len(requests') = Len(requests) - 1
      BY <1>2, <2>13, WithoutFacts DEF TypeOK
    <3>2. requests' \in Seq([items : Carts, placed : BOOLEAN])
      BY <1>2, TypeStep DEF TypeOK
    <3>3. Cardinality(Unplaced') \in 0..Len(requests')
      BY <3>2, CountIn DEF Unplaced
    <3>4. Cardinality(Unplaced') = IF requests[i].placed THEN n ELSE n - 1
      BY <1>2, <2>13, UnplacedWithout
    <3>5. requests' = <<>> <=> Len(requests') = 0
      BY <3>2, EmptySeq
    <3> QED
      BY <2>1, <3>1, <3>3, <3>4, <3>5
  <2>14. ASSUME NEW i \in DOMAIN requests, Answer(i)
         PROVE  Accounted'
    <3>1. /\ requests' = Without(i) /\ requests[i].placed /\ clearing' = TRUE
          /\ page' = IF Awaited(i) THEN "answered" ELSE page
          /\ update' # {} /\ UNCHANGED <<tab, ordered, faults>>
      BY <2>14 DEF Answer
    <3>2. /\ Len(requests') = Len(requests) - 1 /\ Len(requests) > 0
          /\ (requests' = <<>> <=> Len(requests') = 0)
          /\ Cardinality(Unplaced') = n
      BY <2>13, <3>1
    <3>3. tab' = "live"
      BY <2>1, <2>2, <3>1, <3>2
    <3>4. CASE Awaited(i)
      <4>1. Expected = 1 /\ Cleared = 0 /\ Expected' = 0 /\ Cleared' = 1 /\ page' = "answered"
        BY <2>3, <3>1, <3>4 DEF Awaited
      <4> HIDE DEF n
      <4>2. ordered' + Cardinality(Unplaced') <= faults' + Expected' + Cleared'
        BY <2>1, <2>2, <3>1, <3>2, <4>1
      <4>3. Len(requests') <= faults' + Expected'
        BY <2>1, <2>2, <3>1, <3>2, <4>1
      <4> QED
        BY <3>1, <3>3, <4>1, <4>2, <4>3 DEF Accounted
    <3>5. CASE ~Awaited(i)
      <4>1. page' = page /\ Expected' = Expected /\ Expected \in {0, 1}
            /\ Cleared \in {0, 1} /\ Cleared' \in {0, 1} /\ Cleared <= Cleared'
        BY <2>3, <3>1, <3>5
      <4>2. page = "waiting" => requests' # <<>>
        BY <2>1, <3>2, <3>5 DEF Awaited
      <4> HIDE DEF n
      <4>3. ordered' + Cardinality(Unplaced') <= faults' + Expected' + Cleared'
        <5>1. ordered + n <= faults + Expected + Cleared /\ n \in Nat
          BY <2>1, <2>2
        <5>2. /\ ordered' = ordered /\ faults' = faults /\ Expected' = Expected
              /\ Cardinality(Unplaced') = n
          BY <3>1, <3>2, <4>1
        <5>3. ordered + n \in Nat
          BY <2>1
        <5>4. ordered + n <= faults + Expected + Cleared'
          BY <2>1, <4>1, <5>1, <5>3, Slack
        <5> QED
          BY <5>2, <5>4
      <4>4. Len(requests') <= faults' + Expected'
        BY <2>1, <2>2, <3>1, <3>2, <4>1
      <4> QED
        BY <3>1, <3>3, <4>1, <4>2, <4>3, <4>4 DEF Accounted
    <3> QED
      BY <3>4, <3>5
  <2>15. ASSUME NEW i \in DOMAIN requests, AnswerLost(i)
         PROVE  Accounted'
    <3>1. /\ requests' = Without(i) /\ UNCHANGED <<tab, update, unsaved, clearing>>
          /\ ordered' \in IF requests[i].placed THEN {ordered} ELSE {ordered, ordered + 1}
      BY <2>15 DEF AnswerLost, cartVars
    <3>2. /\ Len(requests') = Len(requests) - 1 /\ Len(requests) > 0
          /\ (requests' = <<>> <=> Len(requests') = 0)
          /\ Cardinality(Unplaced') = IF requests[i].placed THEN n ELSE n - 1
      BY <2>13, <3>1
    <3>3. tab' = "live"
      BY <2>1, <2>2, <3>1, <3>2
    <3>4. ordered' + Cardinality(Unplaced') <= ordered + n /\ ordered' \in Nat
      <4> HIDE DEF n
      <4>1. CASE requests[i].placed
        BY <2>1, <3>1, <3>2, <4>1
      <4>2. CASE ~requests[i].placed
        <5>1. ordered' \in {ordered, ordered + 1} /\ Cardinality(Unplaced') = n - 1
          BY <3>1, <3>2, <4>2
        <5>2. CASE ordered' = ordered
          BY <2>1, <5>1, <5>2
        <5>3. CASE ordered' = ordered + 1
          BY <2>1, <5>1, <5>3
        <5> QED
          BY <5>1, <5>2, <5>3
      <4> QED
        BY <4>1, <4>2
    <3>5. Cardinality(Unplaced') \in Nat
      BY <2>13, <3>1
    <3>6. CASE Awaited(i)
      <4>1. page = "waiting" /\ page' = "open" /\ faults' = faults + 1
        BY <2>15, <3>6 DEF AnswerLost, Awaited
      <4>2. Expected = 1 /\ Cleared = 0 /\ Expected' = 0 /\ Cleared' = 0
        BY <2>3, <4>1
      <4> HIDE DEF n
      <4>3. ordered' + Cardinality(Unplaced') <= faults' + Expected' + Cleared'
        BY <2>1, <2>2, <3>4, <3>5, <4>1, <4>2
      <4>4. Len(requests') <= faults' + Expected'
        BY <2>1, <2>2, <3>2, <4>1, <4>2
      <4> QED
        BY <2>2, <3>1, <3>3, <4>1, <4>3, <4>4 DEF Accounted
    <3>7. CASE ~Awaited(i)
      <4>1. page' = page /\ faults' = faults
        BY <2>15, <3>7 DEF AnswerLost
      <4>2. Expected' = Expected /\ Cleared' = Cleared /\ Expected \in {0, 1} /\ Cleared \in {0, 1}
        BY <2>3, <3>1, <4>1
      <4>3. page = "waiting" => requests' # <<>>
        BY <2>1, <3>2, <3>7 DEF Awaited
      <4> HIDE DEF n
      <4>4. ordered' + Cardinality(Unplaced') <= faults' + Expected' + Cleared'
        BY <2>1, <2>2, <3>4, <3>5, <4>1, <4>2
      <4>5. Len(requests') <= faults' + Expected'
        BY <2>1, <2>2, <3>2, <4>1, <4>2
      <4> QED
        BY <2>2, <3>1, <3>3, <4>1, <4>3, <4>4, <4>5 DEF Accounted
    <3> QED
      BY <3>6, <3>7
  <2>16. CASE ReturnToPage
    <3>1. /\ Settled /\ page' = "open" /\ Unplaced' = Unplaced
          /\ UNCHANGED <<tab, update, unsaved, requests, clearing, ordered>>
      BY <2>16 DEF ReturnToPage, Unplaced, cartVars, clearVars
    <3>2. ~clearing /\ Cleared = 0 /\ Cleared' = 0 /\ Expected' = 0
      BY <2>2, <2>3, <3>1 DEF Settled
    <3>3. faults' = faults + Expected /\ Expected \in {0, 1}
      <4>1. CASE page = "answered" /\ faults' = faults
        BY <2>1, <2>3, <4>1
      <4>2. CASE page = "waiting" /\ faults' = faults + 1
        BY <2>3, <4>2
      <4> QED
        BY <2>16, <4>1, <4>2 DEF ReturnToPage
    <3> HIDE DEF n
    <3>4. ordered' + Cardinality(Unplaced') <= faults' + Expected' + Cleared'
      BY <2>1, <2>2, <3>1, <3>2, <3>3 DEF n
    <3>5. Len(requests') <= faults' + Expected'
      BY <2>1, <2>2, <3>1, <3>2, <3>3
    <3> QED
      BY <2>2, <3>1, <3>2, <3>4, <3>5 DEF Accounted
  <2> QED
    BY <1>2, <2>5, <2>7, <2>8, <2>9, <2>10, <2>11, <2>12, <2>14, <2>15, <2>16 DEF Next
<1>3. TypeOK /\ Accounted => OrderedOnce
  <2> SUFFICES ASSUME TypeOK, Accounted PROVE OrderedOnce
    OBVIOUS
  <2>1. Cardinality(Unplaced) \in Nat /\ ordered \in Nat /\ faults \in Nat
    BY UnplacedCount, CartAssumption DEF TypeOK
  <2>2. Expected + Cleared <= 1 /\ Expected \in {0, 1} /\ Cleared \in {0, 1}
    BY DEF Expected, Cleared
  <2>3. ordered + Cardinality(Unplaced) <= faults + Expected + Cleared
    BY DEF Accounted
  <2> QED
    BY <2>1, <2>2, <2>3 DEF OrderedOnce
<1> QED
  BY <1>1, <1>2, <1>3, CartTypeCorrect, PTL DEF Spec
=============================================================================
