----------------------------- MODULE SagaProofs -----------------------------
(***************************************************************************)
(* Proofs about the checkout saga, for every set of orders, pods, carts    *)
(* and limits and any number of faults: the inductive invariant IInv of    *)
(* Saga is preserved by each action, and the properties follow from it, as *)
(* does the refinement of OrderLifecycle.  The services agree although     *)
(* they share no database: when nothing is left to handle, every published *)
(* order has one outcome, the same in the order schema, in the inventory   *)
(* schema and in the log; and at any time the units reserved are those of  *)
(* the orders that hold a reservation.                                     *)
(***************************************************************************)
EXTENDS Saga, FiniteSetTheorems, WellFoundedInduction, TLAPS

-----------------------------------------------------------------------------
(* Finite sums.  A sum over a finite set is a recursive function on its      *)
(* subsets; what holds of every such sum is shown on a smallest set of which *)
(* it would not hold.                                                        *)

LEMMA Smallest ==
    ASSUME NEW T, T \subseteq Nat, T # {}
    PROVE  \E n \in T : \A m \in T : n <= m
<1>1. PICK n \in T : \A m \in T : ~(<<m, n>> \in OpToRel(<, Nat))
  BY WFMin, NatLessThanWellFounded
<1>2. \A m \in T : ~(m < n)
  BY <1>1 DEF OpToRel
<1> QED
  BY <1>2

Pick(S) == CHOOSE x \in S : TRUE

\* The units of product p that the reservations r hold for the orders S.
HeldBy(r, p, S) == MapThenSumSet(LAMBDA o : r[o][p], S)

SumsUp(f, r, p, S) ==
    f = [s \in SUBSET S |->
            IF s = {} THEN 0 ELSE r[Pick(s)][p] + f[s \ {Pick(s)}]]

LEMMA HeldByChosen ==
    ASSUME NEW r, NEW p, NEW S
    PROVE  HeldBy(r, p, S) = (CHOOSE f : SumsUp(f, r, p, S))[S]
  BY Zenon DEF HeldBy, MapThenSumSet, MapThenFoldSet, SumsUp, Pick

\* A finite set without the chosen element is smaller.
LEMMA Smaller ==
    ASSUME NEW S, IsFiniteSet(S), S # {}
    PROVE  /\ Pick(S) \in S
           /\ IsFiniteSet(S \ {Pick(S)})
           /\ Cardinality(S) \in Nat /\ Cardinality(S \ {Pick(S)}) \in Nat
           /\ Cardinality(S \ {Pick(S)}) < Cardinality(S)
<1>1. Pick(S) \in S
  BY DEF Pick
<1>2. /\ IsFiniteSet(S \ {Pick(S)})
      /\ Cardinality(S \ {Pick(S)}) = Cardinality(S) - 1
  BY <1>1, FS_RemoveElement
<1>3. Cardinality(S) \in Nat /\ Cardinality(S \ {Pick(S)}) \in Nat
  BY <1>2, FS_CardinalityType
<1> QED
  BY <1>1, <1>2, <1>3

LEMMA SumUnique ==
    ASSUME NEW r, NEW p, NEW S, NEW U, NEW f, NEW g,
           SumsUp(f, r, p, S), SumsUp(g, r, p, U),
           NEW s, s \subseteq S, s \subseteq U, IsFiniteSet(s)
    PROVE  f[s] = g[s]
<1> DEFINE Differ(n) == \E x \in SUBSET s : Cardinality(x) = n /\ f[x] # g[x]
           T == { n \in Nat : Differ(n) }
<1>1. \A x \in SUBSET s : IsFiniteSet(x) /\ Cardinality(x) \in Nat
  BY FS_Subset, FS_CardinalityType
<1> SUFFICES ASSUME f[s] # g[s] PROVE FALSE
  OBVIOUS
<1>2. Cardinality(s) \in T
  BY <1>1
<1>3. PICK n \in T : \A m \in T : n <= m
  <2>1. T \subseteq Nat /\ T # {}
    BY <1>2
  <2> HIDE DEF T
  <2> QED
    BY <2>1, Smallest
<1>4. PICK x \in SUBSET s : Cardinality(x) = n /\ f[x] # g[x]
  BY <1>3
<1>5. /\ f[x] = IF x = {} THEN 0 ELSE r[Pick(x)][p] + f[x \ {Pick(x)}]
      /\ g[x] = IF x = {} THEN 0 ELSE r[Pick(x)][p] + g[x \ {Pick(x)}]
  <2>1. x \in SUBSET S /\ x \in SUBSET U
    BY <1>4
  <2> QED
    BY <2>1 DEF SumsUp
<1>6. x # {} /\ f[x \ {Pick(x)}] # g[x \ {Pick(x)}]
  BY <1>4, <1>5
<1>7. /\ Cardinality(x \ {Pick(x)}) \in Nat
      /\ Cardinality(x \ {Pick(x)}) < n /\ n \in Nat
  BY <1>1, <1>4, <1>6, Smaller
<1>8. x \ {Pick(x)} \in SUBSET s
  BY <1>4
<1>9. Cardinality(x \ {Pick(x)}) \in T
  BY <1>6, <1>7, <1>8
<1> HIDE DEF T
<1> QED
  BY <1>3, <1>7, <1>9

LEMMA SumExists ==
    ASSUME NEW r, NEW p, NEW S, IsFiniteSet(S)
    PROVE  \E f : SumsUp(f, r, p, S)
<1> DEFINE Lacks(n) == \E s : /\ IsFiniteSet(s) /\ Cardinality(s) = n
                              /\ ~\E f : SumsUp(f, r, p, s)
           T == { n \in Nat : Lacks(n) }
<1> SUFFICES ASSUME ~\E f : SumsUp(f, r, p, S) PROVE FALSE
  OBVIOUS
<1>1. Cardinality(S) \in T
  BY FS_CardinalityType
<1>2. PICK n \in T : \A m \in T : n <= m
  <2>1. T \subseteq Nat /\ T # {}
    BY <1>1
  <2> HIDE DEF T
  <2> QED
    BY <2>1, Smallest
<1>3. PICK s : /\ IsFiniteSet(s) /\ Cardinality(s) = n
               /\ ~\E f : SumsUp(f, r, p, s)
  BY <1>2
<1> DEFINE F(x) == CHOOSE f : SumsUp(f, r, p, x)
           V(x) == IF x = {} THEN 0
                   ELSE r[Pick(x)][p] + F(x \ {Pick(x)})[x \ {Pick(x)}]
           h == [x \in SUBSET s |-> V(x)]
<1>4. ASSUME NEW x \in SUBSET s, x # {}
      PROVE  /\ x \ {Pick(x)} \in SUBSET s /\ IsFiniteSet(x \ {Pick(x)})
             /\ SumsUp(F(x \ {Pick(x)}), r, p, x \ {Pick(x)})
  <2>1. IsFiniteSet(x) /\ Cardinality(x) <= n
    BY <1>3, FS_Subset
  <2> DEFINE y == x \ {Pick(x)}
  <2>2. /\ y \in SUBSET s /\ IsFiniteSet(y)
        /\ Cardinality(x) \in Nat /\ Cardinality(y) \in Nat
        /\ Cardinality(y) < Cardinality(x) /\ n \in Nat
    BY <1>2, <1>4, <2>1, Smaller
  <2>3. Cardinality(y) < n
    BY <2>1, <2>2
  <2>4. Cardinality(y) \notin T
    <3> HIDE DEF T, y
    <3> QED
      BY <1>2, <2>2, <2>3
  <2>5. \E f : SumsUp(f, r, p, y)
    BY <2>2, <2>4
  <2>6. SumsUp(F(y), r, p, y)
    <3> HIDE DEF y
    <3> QED
      BY <2>5
  <2> QED
    BY <2>2, <2>6
\* The value of h on a smaller set is the value of the sum of that set.
<1>5. ASSUME NEW x \in SUBSET s, x # {}
      PROVE  h[x \ {Pick(x)}] = F(x \ {Pick(x)})[x \ {Pick(x)}]
  <2>1. PICK y \in SUBSET s : y = x \ {Pick(x)}
    BY <1>4, <1>5
  <2>2. IsFiniteSet(y) /\ SumsUp(F(y), r, p, y)
    BY <1>4, <1>5, <2>1
  <2>3. F(y)[y] = IF y = {} THEN 0 ELSE r[Pick(y)][p] + F(y)[y \ {Pick(y)}]
    <3> HIDE DEF F
    <3> QED
      BY <2>2 DEF SumsUp
  <2>4. y # {} => F(y)[y \ {Pick(y)}] = F(y \ {Pick(y)})[y \ {Pick(y)}]
    <3> SUFFICES ASSUME y # {}
                 PROVE  F(y)[y \ {Pick(y)}] = F(y \ {Pick(y)})[y \ {Pick(y)}]
      OBVIOUS
    <3>1. IsFiniteSet(y \ {Pick(y)})
          /\ SumsUp(F(y \ {Pick(y)}), r, p, y \ {Pick(y)})
      BY <1>4, <2>1
    <3>2. y \ {Pick(y)} \subseteq y
      OBVIOUS
    <3> HIDE DEF F
    <3> QED
      BY <2>2, <3>1, <3>2, SumUnique
  <2>5. h[y] = V(y)
    OBVIOUS
  <2>6. V(y) = F(y)[y]
    <3> HIDE DEF F
    <3> QED
      BY <2>3, <2>4
  <2> QED
    BY <2>1, <2>5, <2>6
<1>6. SumsUp(h, r, p, s)
  <2>1. \A x \in SUBSET s :
           h[x] = IF x = {} THEN 0 ELSE r[Pick(x)][p] + h[x \ {Pick(x)}]
    <3> SUFFICES ASSUME NEW x \in SUBSET s
                 PROVE  h[x] = IF x = {} THEN 0 ELSE r[Pick(x)][p] + h[x \ {Pick(x)}]
      OBVIOUS
    <3>1. h[x] = V(x)
      OBVIOUS
    <3>2. x # {} => h[x \ {Pick(x)}] = F(x \ {Pick(x)})[x \ {Pick(x)}]
      BY <1>5
    <3> HIDE DEF h, F
    <3> QED
      BY <3>1, <3>2
  <2>2. h = [x \in SUBSET s |-> h[x]]
    OBVIOUS
  <2> HIDE DEF h
  <2> QED
    BY <2>1, <2>2 DEF SumsUp
<1> HIDE DEF h
<1> QED
  BY <1>3, <1>6

\* The sum over nothing, and over a set from which one element is taken.
LEMMA SumStep ==
    ASSUME NEW r, NEW p, NEW S, IsFiniteSet(S)
    PROVE  HeldBy(r, p, S) = IF S = {} THEN 0
                             ELSE r[Pick(S)][p] + HeldBy(r, p, S \ {Pick(S)})
<1> DEFINE f == CHOOSE x : SumsUp(x, r, p, S)
           Y == S \ {Pick(S)}
           g == CHOOSE x : SumsUp(x, r, p, Y)
<1>1. SumsUp(f, r, p, S)
  BY SumExists
<1>2. f[S] = IF S = {} THEN 0 ELSE r[Pick(S)][p] + f[S \ {Pick(S)}]
  <2> HIDE DEF f
  <2> QED
    BY <1>1 DEF SumsUp
<1>3. S # {} => f[Y] = g[Y]
  <2> SUFFICES ASSUME S # {} PROVE f[Y] = g[Y]
    OBVIOUS
  <2>1. IsFiniteSet(Y)
    BY Smaller
  <2>2. SumsUp(g, r, p, Y)
    <3> HIDE DEF Y
    <3> QED
      BY <2>1, SumExists
  <2>3. Y \subseteq S
    OBVIOUS
  <2> HIDE DEF f, g, Y
  <2> QED
    BY <1>1, <2>1, <2>2, <2>3, SumUnique
<1>4. HeldBy(r, p, S) = f[S] /\ HeldBy(r, p, Y) = g[Y]
  BY HeldByChosen
<1> HIDE DEF f, g
<1> QED
  BY <1>2, <1>3, <1>4

\* A finite sum of natural numbers is one, and does not depend on the order in
\* which its elements are taken.
LEMMA SumAdd ==
    ASSUME NEW r, NEW p, NEW S, IsFiniteSet(S), NEW x, x \notin S,
           \A o \in S \cup {x} : r[o][p] \in Nat
    PROVE  /\ HeldBy(r, p, S) \in Nat
           /\ HeldBy(r, p, S \cup {x}) = r[x][p] + HeldBy(r, p, S)
<1> DEFINE Sum(s) == HeldBy(r, p, s)
           Adds(s) == /\ Sum(s) \in Nat
                      /\ \A y \in (S \cup {x}) \ s : Sum(s \cup {y}) = r[y][p] + Sum(s)
           T == { n \in Nat : \E s \in SUBSET (S \cup {x}) :
                                 Cardinality(s) = n /\ ~Adds(s) }
<1>1. \A s \in SUBSET (S \cup {x}) : IsFiniteSet(s) /\ Cardinality(s) \in Nat
  BY FS_AddElement, FS_Subset, FS_CardinalityType
<1>2. \A s \in SUBSET (S \cup {x}) :
         Sum(s) = IF s = {} THEN 0 ELSE r[Pick(s)][p] + Sum(s \ {Pick(s)})
  BY <1>1, SumStep
<1>3. T = {}
  <2> SUFFICES ASSUME T # {} PROVE FALSE
    OBVIOUS
  <2>1. PICK n \in T : \A m \in T : n <= m
    <3>1. T \subseteq Nat
      OBVIOUS
    <3> HIDE DEF T
    <3> QED
      BY <3>1, Smallest
  <2>2. PICK s \in SUBSET (S \cup {x}) : Cardinality(s) = n /\ ~Adds(s)
    BY <2>1
  <2> HIDE DEF Sum
\* Every smaller set adds up.
  <2>3. ASSUME NEW y \in SUBSET (S \cup {x}), Cardinality(y) < n
        PROVE  Adds(y)
    <3>1. Cardinality(y) \in Nat /\ n \in Nat
      BY <1>1, <2>1
    <3>2. Cardinality(y) \notin T
      <4> HIDE DEF T
      <4> QED
        BY <2>1, <2>3, <3>1
    <3> QED
      BY <3>1, <3>2
  <2>4. s # {} => /\ Pick(s) \in s /\ s \ {Pick(s)} \in SUBSET (S \cup {x})
                  /\ Adds(s \ {Pick(s)})
    <3> SUFFICES ASSUME s # {}
                 PROVE  /\ Pick(s) \in s /\ s \ {Pick(s)} \in SUBSET (S \cup {x})
                        /\ Adds(s \ {Pick(s)})
      OBVIOUS
    <3>1. IsFiniteSet(s)
      BY <1>1
    <3>2. Pick(s) \in s /\ Cardinality(s \ {Pick(s)}) < n
      BY <2>2, <3>1, Smaller
    <3> HIDE DEF Adds
    <3> QED
      BY <2>3, <3>2
  <2>5. Sum(s) \in Nat
    BY <1>2, <2>4
  <2>6. PICK y \in (S \cup {x}) \ s : Sum(s \cup {y}) # r[y][p] + Sum(s)
    BY <2>2, <2>5
  <2>7. PICK z : z = Pick(s \cup {y})
    OBVIOUS
  <2>8. z \in s \cup {y}
    BY <2>7 DEF Pick
  <2>9. Sum(s \cup {y}) = r[z][p] + Sum((s \cup {y}) \ {z})
    <3>1. s \cup {y} \in SUBSET (S \cup {x}) /\ s \cup {y} # {}
      BY <2>6
    <3> QED
      BY <1>2, <2>7, <3>1
  <2>10. z # y
    <3> SUFFICES ASSUME z = y PROVE FALSE
      OBVIOUS
    <3>1. (s \cup {y}) \ {z} = s
      BY <2>6
    <3> QED
      BY <2>6, <2>9, <3>1
  <2>11. z \in s
    BY <2>8, <2>10
  <2> DEFINE w == s \ {z}
  <2>12. Adds(w)
    <3>1. w \in SUBSET (S \cup {x}) /\ IsFiniteSet(s)
      BY <1>1
    <3>2. Cardinality(w) = Cardinality(s) - 1 /\ Cardinality(s) \in Nat
      BY <1>1, <2>11, <3>1, FS_RemoveElement
    <3> HIDE DEF w, Adds
    <3> QED
      BY <2>2, <2>3, <3>1, <3>2
  <2>13. Sum(s) = r[z][p] + Sum(w)
    <3>1. w \cup {z} = s /\ z \in (S \cup {x}) \ w
      BY <2>11
    <3> QED
      BY <2>12, <3>1
  <2>14. Sum((s \cup {y}) \ {z}) = r[y][p] + Sum(w)
    <3>1. (s \cup {y}) \ {z} = w \cup {y} /\ y \in (S \cup {x}) \ w
      BY <2>6, <2>10
    <3> QED
      BY <2>12, <3>1
  <2>15. r[z][p] \in Nat /\ r[y][p] \in Nat /\ Sum(w) \in Nat
    BY <2>6, <2>11, <2>12
  <2> HIDE DEF w
  <2> QED
    BY <2>6, <2>9, <2>13, <2>14, <2>15
<1>4. Adds(S)
  <2>1. S \in SUBSET (S \cup {x}) /\ Cardinality(S) \in Nat
    BY <1>1
  <2>2. Cardinality(S) \notin T
    BY <1>3
  <2> HIDE DEF Adds
  <2> QED
    BY <2>1, <2>2
<1> QED
  BY <1>4

\* Reservations that agree on the orders of a sum have the same sum.
LEMMA SumSame ==
    ASSUME NEW r, NEW q, NEW p, NEW S, IsFiniteSet(S),
           \A o \in S : r[o] = q[o]
    PROVE  HeldBy(r, p, S) = HeldBy(q, p, S)
<1> DEFINE T == { n \in Nat : \E s \in SUBSET S :
                     Cardinality(s) = n /\ HeldBy(r, p, s) # HeldBy(q, p, s) }
<1>1. \A s \in SUBSET S : IsFiniteSet(s) /\ Cardinality(s) \in Nat
  BY FS_Subset, FS_CardinalityType
<1> SUFFICES ASSUME HeldBy(r, p, S) # HeldBy(q, p, S) PROVE FALSE
  OBVIOUS
<1>2. Cardinality(S) \in T
  BY <1>1
<1>3. PICK n \in T : \A m \in T : n <= m
  <2>1. T \subseteq Nat /\ T # {}
    BY <1>2
  <2> HIDE DEF T
  <2> QED
    BY <2>1, Smallest
<1>4. PICK s \in SUBSET S : Cardinality(s) = n /\ HeldBy(r, p, s) # HeldBy(q, p, s)
  BY <1>3
<1> DEFINE y == s \ {Pick(s)}
<1>5. /\ HeldBy(r, p, s) = IF s = {} THEN 0 ELSE r[Pick(s)][p] + HeldBy(r, p, y)
      /\ HeldBy(q, p, s) = IF s = {} THEN 0 ELSE q[Pick(s)][p] + HeldBy(q, p, y)
  BY <1>1, SumStep
<1>6. /\ s # {} /\ Pick(s) \in s
      /\ Cardinality(y) \in Nat /\ Cardinality(y) < n /\ n \in Nat
  BY <1>1, <1>4, <1>5, Smaller
<1>7. HeldBy(r, p, y) # HeldBy(q, p, y)
  BY <1>4, <1>5, <1>6
<1>8. Cardinality(y) \in T
  BY <1>6, <1>7
<1> HIDE DEF T, y
<1> QED
  BY <1>3, <1>6, <1>8

-----------------------------------------------------------------------------
(* The account of the stock *)

Holding == { o \in Orders : processed[o] = "RESERVED" }

\* Finitely many orders hold a reservation, and what is reserved is theirs.
Accounted ==
    /\ IsFiniteSet(Holding)
    /\ \A p \in StockRows : reserved[p] = HeldBy(reservations, p, Holding)

\* The total of a cart adds up the same way, and the catalogue is finite.
TotalUp(f, cart) ==
    f = [s \in SUBSET Lines(cart) |->
            IF s = {} THEN 0 ELSE cart[Pick(s)] * Prices[Pick(s)] + f[s \ {Pick(s)}]]

LEMMA TotalChosen ==
    ASSUME NEW cart
    PROVE  Total(cart) = (CHOOSE f : TotalUp(f, cart))[Lines(cart)]
  BY Zenon DEF Total, MapThenSumSet, MapThenFoldSet, TotalUp, Pick

LEMMA TotalIsNat ==
    ASSUME NEW cart \in Carts, Priced(cart)
    PROVE  Total(cart) \in Nat
<1> DEFINE L == Lines(cart)
           r == [q \in L |-> [p \in {0} |-> cart[q] * Prices[q]]]
           f == CHOOSE x : TotalUp(x, cart)
<1>1. L \subseteq DOMAIN Prices /\ IsFiniteSet(L)
  BY FS_Subset, PricesAssumption DEF Priced
<1>2. \A q \in L : r[q][0] = cart[q] * Prices[q] /\ r[q][0] \in Nat
  <2>1. ASSUME NEW q \in L PROVE cart[q] \in Nat /\ Prices[q] \in Nat
    BY <1>1, CartsAssumption, PricesAssumption DEF Lines
  <2> QED
    BY <2>1
<1>3. ASSUME NEW x PROVE TotalUp(x, cart) <=> SumsUp(x, r, 0, L)
  <2>1. ASSUME NEW s \in SUBSET L, s # {}
        PROVE  cart[Pick(s)] * Prices[Pick(s)] = r[Pick(s)][0]
    <3>1. Pick(s) \in L
      BY <2>1 DEF Pick
    <3> QED
      BY <1>2, <3>1
  <2> HIDE DEF r
  <2> QED
    BY <2>1 DEF TotalUp, SumsUp
<1> HIDE DEF r
<1>4. PICK g : SumsUp(g, r, 0, L) /\ g[L] = HeldBy(r, 0, L)
  BY <1>1, SumExists, HeldByChosen
<1>5. SumsUp(f, r, 0, L)
  <2>1. TotalUp(g, cart)
    BY <1>3, <1>4
  <2>2. TotalUp(f, cart)
    BY <2>1
  <2> QED
    BY <1>3, <2>2
<1>6. Total(cart) = f[L]
  BY TotalChosen
<1> HIDE DEF f, L
<1>7. f[L] = g[L]
  BY <1>1, <1>4, <1>5, SumUnique
<1>8. HeldBy(r, 0, L) \in Nat
  <2>1. CASE L = {}
    <3>1. HeldBy(r, 0, L) = 0
      BY <1>1, <2>1, SumStep, Zenon
    <3> QED
      BY <3>1
  <2>2. CASE L # {}
    <3>1. PICK x : x \in L
      BY <2>2
    <3> DEFINE R == L \ {x}
    <3>2. R \cup {x} = L /\ x \notin R
      BY <3>1
    <3>3. IsFiniteSet(R)
      BY <1>1, FS_RemoveElement
    <3>4. r[x][0] \in Nat /\ \A y \in R \cup {x} : r[y][0] \in Nat
      BY <1>2, <3>1, <3>2
    <3> HIDE DEF R
    <3>5. HeldBy(r, 0, R) \in Nat
      BY <3>2, <3>3, <3>4, SumAdd, Zenon
    <3>6. HeldBy(r, 0, R \cup {x}) = r[x][0] + HeldBy(r, 0, R)
      BY <3>2, <3>3, <3>4, SumAdd, Zenon
    <3>7. HeldBy(r, 0, L) = r[x][0] + HeldBy(r, 0, R)
      BY <3>2, <3>6, Zenon
    <3> QED
      BY <3>4, <3>5, <3>7
  <2> QED
    BY <2>1, <2>2
<1> QED
  BY <1>4, <1>6, <1>7, <1>8

-----------------------------------------------------------------------------
(* The log *)

\* What is published on a topic after an event is appended.
LEMMA AppendRange ==
    ASSUME NEW S, NEW s \in Seq(S), NEW e
    PROVE  Range(Append(s, e)) = Range(s) \cup {e}
<1> DEFINE a == Append(s, e)
<1>1. /\ DOMAIN s = 1..Len(s) /\ Len(s) \in Nat
      /\ DOMAIN a = 1..(Len(s) + 1)
      /\ \A i \in 1..Len(s) : a[i] = s[i]
      /\ a[Len(s) + 1] = e
  OBVIOUS
<1>2. ASSUME NEW x \in Range(a) PROVE x \in Range(s) \cup {e}
  BY <1>1 DEF Range
<1>3. ASSUME NEW x \in Range(s) PROVE x \in Range(a)
  <2>1. PICK i \in DOMAIN s : x = s[i]
    BY <1>3 DEF Range
  <2>2. i \in DOMAIN a /\ a[i] = x
    BY <2>1, <1>1
  <2> HIDE DEF a
  <2> QED
    BY <2>2 DEF Range
<1>4. e \in Range(a)
  <2>1. Len(s) + 1 \in DOMAIN a
    BY <1>1
  <2> HIDE DEF a
  <2> QED
    BY <1>1, <2>1 DEF Range
<1> HIDE DEF a
<1>5. Range(a) = Range(s) \cup {e}
  BY <1>2, <1>3, <1>4
<1> QED
  BY <1>5 DEF a

\* The topics of the groups are topics.
LEMMA TopicFacts ==
    /\ TopicOrdersPlaced \in Topics
    /\ TopicPaymentsCompleted \in Topics
    /\ TopicPaymentsFailed \in Topics
    /\ TopicInventoryReserved \in Topics
    /\ TopicInventoryRejected \in Topics
    /\ OrderTopics \subseteq Topics
    /\ InventoryTopics \subseteq Topics
    /\ PaymentTopics \subseteq Topics
  BY DEF Topics, OrderTopics, InventoryTopics, PaymentTopics,
         TopicOrdersPlaced, TopicPaymentsCompleted, TopicPaymentsFailed,
         TopicInventoryReserved, TopicInventoryRejected

\* The topics are different from each other.
LEMMA OtherTopics ==
    /\ Topics = { TopicOrdersPlaced, TopicPaymentsCompleted, TopicPaymentsFailed,
                  TopicInventoryReserved, TopicInventoryRejected }
    /\ OrderTopics = { TopicPaymentsCompleted, TopicPaymentsFailed,
                       TopicInventoryRejected }
    /\ TopicOrdersPlaced \notin OrderTopics
    /\ TopicInventoryReserved \notin OrderTopics
    /\ TopicOrdersPlaced # TopicInventoryReserved
    /\ TopicPaymentsCompleted # TopicPaymentsFailed
    /\ TopicPaymentsCompleted # TopicInventoryRejected
    /\ TopicPaymentsFailed # TopicInventoryRejected
  BY DEF Topics, OrderTopics, TopicOrdersPlaced, TopicPaymentsCompleted,
         TopicPaymentsFailed, TopicInventoryReserved, TopicInventoryRejected

\* The payloads of each topic.
LEMMA PayloadFacts ==
    /\ Events(TopicOrdersPlaced) = [order : Orders, items : Carts, total : Nat]
    /\ Events(TopicInventoryReserved) = [order : Orders, total : Nat]
    /\ Events(TopicInventoryRejected) = [order : Orders]
    /\ Events(TopicPaymentsCompleted) = [order : Orders]
    /\ Events(TopicPaymentsFailed) = [order : Orders]
    /\ \A t \in Topics : \A e \in Events(t) : e.order \in Orders
<1>1. /\ Events(TopicOrdersPlaced) = [order : Orders, items : Carts, total : Nat]
      /\ Events(TopicInventoryReserved) = [order : Orders, total : Nat]
      /\ Events(TopicInventoryRejected) = [order : Orders]
      /\ Events(TopicPaymentsCompleted) = [order : Orders]
      /\ Events(TopicPaymentsFailed) = [order : Orders]
  BY DEF Events, TopicOrdersPlaced, TopicPaymentsCompleted, TopicPaymentsFailed,
         TopicInventoryReserved, TopicInventoryRejected
<1>2. ASSUME NEW t \in Topics, NEW e \in Events(t) PROVE e.order \in Orders
  <2>1. CASE t = TopicOrdersPlaced
    <3>1. e \in [order : Orders, items : Carts, total : Nat]
      BY <1>1, <2>1, Zenon
    <3> QED
      BY <3>1
  <2>2. CASE t = TopicInventoryReserved
    <3>1. e \in [order : Orders, total : Nat]
      BY <1>1, <2>2, Zenon
    <3> QED
      BY <3>1
  <2>3. CASE t \in OrderTopics
    <3>1. Events(t) = [order : Orders]
      BY <1>1, <2>3, OtherTopics
    <3> QED
      BY <3>1
  <2> QED
    BY <2>1, <2>2, <2>3, OtherTopics
<1> QED
  BY <1>1, <1>2

\* The record at an offset of the log is a payload of its topic.
LEMMA RecordAt ==
    ASSUME LogTypeOK, NEW t \in Topics, NEW k \in 1..Len(log[t])
    PROVE  /\ log[t][k] \in Events(t)
           /\ log[t][k].order \in Orders
           /\ log[t][k] \in Published(t)
<1>1. log[t] \in Seq(Events(t))
  BY DEF LogTypeOK
<1>2. k \in DOMAIN log[t]
  BY <1>1
<1>3. log[t][k] \in Events(t)
  BY <1>1, <1>2
<1>4. log[t][k] \in Published(t)
  BY <1>2 DEF Published, Range
<1> QED
  BY <1>3, <1>4, PayloadFacts

\* Every published event is a payload of its topic.
LEMMA PublishedTyped ==
    ASSUME LogTypeOK, NEW t \in Topics, NEW e \in Published(t)
    PROVE  e \in Events(t) /\ e.order \in Orders
<1>1. log[t] \in Seq(Events(t))
  BY DEF LogTypeOK
<1>2. PICK k \in DOMAIN log[t] : e = log[t][k]
  BY DEF Published, Range
<1>3. k \in 1..Len(log[t])
  BY <1>1, <1>2
<1> QED
  BY <1>2, <1>3, RecordAt

\* No topic gets shorter.
Grows == \A u \in Topics : /\ Len(log[u]) \in Nat
                           /\ Len(log'[u]) \in Nat
                           /\ Len(log[u]) <= Len(log'[u])

\* Publishing adds one event to one topic, keeps the log typed, and makes no
\* topic shorter.
LEMMA Publishing ==
    ASSUME LogTypeOK, NEW t \in Topics, NEW e \in Events(t), Publish(t, e),
           faults' \in 0..MaxFaults
    PROVE  /\ LogTypeOK'
           /\ Published(t)' = Published(t) \cup {e}
           /\ \A u \in Topics \ {t} : Published(u)' = Published(u)
           /\ Grows
<1>1. log[t] \in Seq(Events(t)) /\ DOMAIN log = Topics
  BY DEF LogTypeOK
<1>2. /\ DOMAIN log' = Topics
      /\ log'[t] = Append(log[t], e)
      /\ \A u \in Topics \ {t} : log'[u] = log[u]
  BY <1>1 DEF Publish
<1>3. /\ Append(log[t], e) \in Seq(Events(t))
      /\ Len(Append(log[t], e)) = Len(log[t]) + 1
      /\ Len(log[t]) \in Nat
  BY <1>1
<1>4. \A u \in Topics : log'[u] \in Seq(Events(u))
  BY <1>2, <1>3 DEF LogTypeOK
<1>5. LogTypeOK'
  BY <1>2, <1>4 DEF LogTypeOK
<1>6. Published(t)' = Published(t) \cup {e}
  BY <1>1, <1>2, AppendRange DEF Published
<1>7. \A u \in Topics \ {t} : Published(u)' = Published(u)
  BY <1>2 DEF Published
<1>8. Grows
  <2> SUFFICES ASSUME NEW u \in Topics
               PROVE  /\ Len(log[u]) \in Nat
                      /\ Len(log'[u]) \in Nat
                      /\ Len(log[u]) <= Len(log'[u])
    BY DEF Grows
  <2>1. log[u] \in Seq(Events(u)) /\ Len(log[u]) \in Nat
    BY DEF LogTypeOK
  <2> QED
    BY <2>1, <1>2, <1>3
<1> QED
  BY <1>5, <1>6, <1>7, <1>8

\* A charge stays within the budget.
LEMMA Charging ==
    ASSUME LogTypeOK, NEW n \in Nat, Charge(n)
    PROVE  faults' \in 0..MaxFaults
  BY MaxFaultsAssumption DEF LogTypeOK, Charge

LEMMA CostNat == \A b : Cost(b) \in Nat
  BY DEF Cost

\* Handling a deliverable record keeps the positions of a group in the log.
LEMMA Handling ==
    ASSUME LogTypeOK, NEW topics, NEW h, PositionsOK(h, topics),
           NEW t \in topics, NEW k \in Deliverable(h, t)
    PROVE  PositionsOK(Handle(h, t, k), topics)
  BY DEF PositionsOK, Handle, Deliverable

\* What the events of the topics of group "order-status" do to the status.
LEMMA StatusFacts ==
    /\ TopicPaymentsCompleted \in OrderTopics
    /\ TopicPaymentsFailed \in OrderTopics
    /\ TopicInventoryRejected \in OrderTopics
    /\ NewStatus(TopicPaymentsCompleted) = "PAID"
    /\ NewStatus(TopicPaymentsFailed) = "PAYMENT_FAILED"
    /\ NewStatus(TopicInventoryRejected) = "REJECTED"
    /\ \A t \in OrderTopics :
          t \in {TopicPaymentsCompleted, TopicPaymentsFailed, TopicInventoryRejected}
  BY DEF OrderTopics, NewStatus,
         TopicPaymentsCompleted, TopicPaymentsFailed, TopicInventoryRejected

-----------------------------------------------------------------------------
(* The initial states *)

LEMMA InitIInv == Init => IInv
<1> SUFFICES ASSUME Init PROVE IInv
  OBVIOUS
<1> USE DEF Init, LogInit, OrderInit, InventoryInit, PaymentInit
<1>1. LogTypeOK
  BY MaxFaultsAssumption DEF LogTypeOK
<1>2. \A t \in Topics : Published(t) = {} /\ Announced(t) = {} /\ Len(log[t]) = 0
  BY DEF Published, Announced, Range
<1>3. \A topics : topics \subseteq Topics => PositionsOK(NothingHandled(topics), topics)
  BY <1>2 DEF PositionsOK, NothingHandled
<1>4. TypeOK
  <2>1. OrderTypeOK
    BY <1>3, TopicFacts DEF OrderTypeOK
  <2>2. InventoryTypeOK
    <3>1. available \in [StockRows -> Nat] /\ reserved \in [StockRows -> Nat]
      BY InitialStockAssumption DEF StockRows
    <3>2. emitting \in [InventoryPods -> {Idle}] /\ Idle.offset = 0
      BY DEF Idle
    <3>3. \A pod \in InventoryPods : emitting[pod].offset <= Len(log[TopicOrdersPlaced])
      BY <3>2, <1>2, TopicFacts
    <3> QED
      BY <3>1, <3>2, <3>3, <1>3, TopicFacts DEF InventoryTypeOK, Results
  <2>3. PaymentTypeOK
    BY <1>3, TopicFacts DEF PaymentTypeOK
  <2> QED
    BY <1>1, <2>1, <2>2, <2>3 DEF TypeOK
<1>5. Backed
  <2>1. OrderFirst
    BY DEF OrderFirst
  <2>2. PlacedBacked /\ StockEventsBacked /\ PaymentsBacked
    BY <1>2, TopicFacts DEF PlacedBacked, StockEventsBacked, PaymentsBacked
  <2>3. ResultBacked
    BY DEF ResultBacked
  <2>4. \A t \in OrderTopics : NewStatus(t) # "NONE"
    BY StatusFacts
  <2>5. StatusBacked
    BY <2>4 DEF StatusBacked
  <2> QED
    BY <2>1, <2>2, <2>3, <2>5 DEF Backed
<1>6. NoUnitLost
  BY InitialStockAssumption DEF NoUnitLost, StockRows
<1> QED
  BY <1>4, <1>5, <1>6 DEF IInv
-----------------------------------------------------------------------------
(* A service that does nothing while the log grows keeps its types. *)

LEMMA OrderTypeKept ==
    ASSUME OrderTypeOK, Grows, UNCHANGED orderVars
    PROVE  OrderTypeOK'
  BY TopicFacts DEF OrderTypeOK, Grows, orderVars, PositionsOK

LEMMA InventoryTypeKept ==
    ASSUME InventoryTypeOK, Grows, UNCHANGED inventoryVars
    PROVE  InventoryTypeOK'
<1>1. /\ available' = available /\ reserved' = reserved /\ processed' = processed
      /\ reservations' = reservations /\ emitting' = emitting
      /\ inventoryHandled' = inventoryHandled
  BY DEF inventoryVars
<1>2. PositionsOK(inventoryHandled, InventoryTopics)'
  <2>1. PositionsOK(inventoryHandled, InventoryTopics)
    BY DEF InventoryTypeOK
  <2>2. \A t \in InventoryTopics : inventoryHandled[t] <= Len(log'[t])
    BY <2>1, TopicFacts DEF PositionsOK, Grows
  <2> QED
    BY <1>1, <2>1, <2>2 DEF PositionsOK
<1>3. \A pod \in InventoryPods : emitting[pod].offset \in Nat
  BY DEF InventoryTypeOK, Emissions, Idle
<1>4. \A pod \in InventoryPods : emitting'[pod].offset <= Len(log'[TopicOrdersPlaced])
  <2>1. \A pod \in InventoryPods : emitting[pod].offset <= Len(log[TopicOrdersPlaced])
    BY DEF InventoryTypeOK
  <2>2. /\ Len(log[TopicOrdersPlaced]) \in Nat /\ Len(log'[TopicOrdersPlaced]) \in Nat
        /\ Len(log[TopicOrdersPlaced]) <= Len(log'[TopicOrdersPlaced])
    BY TopicFacts DEF Grows
  <2> QED
    BY <1>1, <1>3, <2>1, <2>2
<1> QED
  BY <1>1, <1>2, <1>4 DEF InventoryTypeOK

LEMMA PaymentTypeKept ==
    ASSUME PaymentTypeOK, Grows, UNCHANGED paymentVars
    PROVE  PaymentTypeOK'
  BY TopicFacts DEF PaymentTypeOK, Grows, paymentVars, PositionsOK

\* A log that stays the same grows.
LEMMA SameLog ==
    ASSUME LogTypeOK, UNCHANGED log
    PROVE  /\ Grows
           /\ \A t : Published(t)' = Published(t) /\ Announced(t)' = Announced(t)
<1>1. \A u \in Topics : Len(log[u]) \in Nat
  BY DEF LogTypeOK
<1> QED
  BY <1>1 DEF Grows, Published, Announced

-----------------------------------------------------------------------------
(* The steps of the order service *)

LEMMA PlaceOrderIInv ==
    ASSUME IInv, NEW o \in Orders, NEW cart \in Carts,
           OrderStep(PlaceOrder(o, cart))
    PROVE  IInv'
<1> USE DEF OrderStep, PlaceOrder, inventoryVars, paymentVars
<1>1. /\ LogTypeOK /\ OrderTypeOK /\ InventoryTypeOK /\ PaymentTypeOK
      /\ OrderFirst /\ PlacedBacked /\ ResultBacked /\ StockEventsBacked
      /\ PaymentsBacked /\ StatusBacked /\ NoUnitLost
  BY DEF IInv, TypeOK, Backed
<1>2. \A t : Published(t)' = Published(t) /\ Announced(t)' = Announced(t)
  BY DEF Published, Announced
<1>3. TypeOK'
  <2>1. LogTypeOK' /\ InventoryTypeOK' /\ PaymentTypeOK'
    BY <1>1 DEF LogTypeOK, InventoryTypeOK, PaymentTypeOK, PositionsOK
  <2>2. OrderTypeOK'
    BY <1>1 DEF OrderTypeOK, PositionsOK
  <2> QED
    BY <2>1, <2>2 DEF TypeOK
\* Nothing in the log or on its way is about an order that does not exist yet.
<1>4. \A q \in Orders \ {o} : items'[q] = items[q] /\ status'[q] = status[q]
  BY <1>1 DEF OrderTypeOK
<1>5. processed[o] = "NONE" /\ o \notin publishing
  BY <1>1 DEF OrderFirst
<1>6. OrderFirst'
  BY <1>1, <1>4, <1>5 DEF OrderFirst, OrderTypeOK, Priced
<1>7. PlacedBacked'
  <2>1. \A e \in Published(TopicOrdersPlaced) : e.order \in Orders \ {o}
    BY <1>1, PublishedTyped, TopicFacts DEF PlacedBacked
  <2> QED
    BY <1>1, <1>2, <1>4, <2>1 DEF PlacedBacked
<1>8. ResultBacked'
  <2> SUFFICES ASSUME NEW pod \in InventoryPods, emitting[pod] # Idle
               PROVE  Supported(emitting[pod])'
    BY DEF ResultBacked
  <2>1. emitting[pod].order \in Orders \ {o}
    BY <1>1, <1>5 DEF ResultBacked, Supported, InventoryTypeOK, Emissions
  <2> QED
    BY <1>1, <1>4, <2>1 DEF ResultBacked, Supported, Granted
<1>9. StockEventsBacked' /\ PaymentsBacked'
  <2>1. \A t \in Topics : \A e \in Published(t) : e.order \in Orders
    BY <1>1, PublishedTyped
  <2>2. \A q \in Orders : Granted(q) => q # o
    BY <1>5 DEF Granted
  <2> QED
    BY <1>1, <1>2, <1>4, <2>1, <2>2, TopicFacts
    DEF StockEventsBacked, PaymentsBacked, Granted
<1>10. StatusBacked'
  <2>1. \A t \in OrderTopics : NewStatus(t) # "PENDING"
    BY StatusFacts
  <2> QED
    BY <1>1, <1>2, <1>4, <2>1 DEF StatusBacked, OrderTypeOK
<1>11. NoUnitLost'
  BY <1>1 DEF NoUnitLost
<1> QED
  BY <1>3, <1>6, <1>7, <1>8, <1>9, <1>10, <1>11 DEF IInv, Backed
LEMMA PublishOrderPlacedIInv ==
    ASSUME IInv, NEW o \in Orders, NEW acked \in BOOLEAN,
           OrderStep(PublishOrderPlaced(o, acked))
    PROVE  IInv'
<1> DEFINE event == OrderPlaced(o, items[o], Total(items[o]))
<1> USE DEF OrderStep, PublishOrderPlaced, inventoryVars, paymentVars
<1>1. /\ LogTypeOK /\ OrderTypeOK /\ InventoryTypeOK /\ PaymentTypeOK
      /\ OrderFirst /\ PlacedBacked /\ ResultBacked /\ StockEventsBacked
      /\ PaymentsBacked /\ StatusBacked /\ NoUnitLost
  BY DEF IInv, TypeOK, Backed
<1>2. status[o] # "NONE" /\ items[o] \in Carts /\ Total(items[o]) \in Nat
  BY <1>1, TotalIsNat DEF OrderFirst
<1>3. event \in Events(TopicOrdersPlaced) /\ TopicOrdersPlaced \in Topics
  BY <1>2, PayloadFacts, TopicFacts DEF OrderPlaced
<1>4. faults' \in 0..MaxFaults
  BY <1>1, CostNat, Charging
<1>5. /\ LogTypeOK' /\ Grows
      /\ Published(TopicOrdersPlaced)' = Published(TopicOrdersPlaced) \cup {event}
      /\ \A u \in Topics \ {TopicOrdersPlaced} : Published(u)' = Published(u)
  <2> HIDE DEF event
  <2> QED
    BY <1>1, <1>3, <1>4, Publishing DEF event
<1>6. TypeOK'
  <2>1. OrderTypeOK'
    BY <1>1, <1>5, TopicFacts DEF OrderTypeOK, Grows, PositionsOK
  <2> QED
    BY <1>1, <1>5, <2>1, InventoryTypeKept, PaymentTypeKept DEF TypeOK
<1>7. OrderFirst'
  BY <1>1 DEF OrderFirst
<1>8. PlacedBacked'
  BY <1>1, <1>2, <1>5 DEF PlacedBacked, OrderPlaced
<1>9. ResultBacked'
  BY <1>1 DEF ResultBacked, Supported, Granted
<1>10. StockEventsBacked' /\ PaymentsBacked'
  BY <1>1, <1>5, OtherTopics DEF StockEventsBacked, PaymentsBacked, Granted
<1>11. StatusBacked'
  BY <1>1, <1>5, OtherTopics DEF StatusBacked, Announced
<1>12. NoUnitLost'
  BY <1>1 DEF NoUnitLost
<1> QED
  BY <1>6, <1>7, <1>8, <1>9, <1>10, <1>11, <1>12 DEF IInv, Backed

LEMMA DropOrderPlacedIInv ==
    ASSUME IInv, NEW o \in Orders, OrderStep(DropOrderPlaced(o))
    PROVE  IInv'
<1> USE DEF OrderStep, DropOrderPlaced, inventoryVars, paymentVars
<1>1. /\ LogTypeOK /\ OrderTypeOK /\ InventoryTypeOK /\ PaymentTypeOK
      /\ OrderFirst /\ PlacedBacked /\ ResultBacked /\ StockEventsBacked
      /\ PaymentsBacked /\ StatusBacked /\ NoUnitLost
  BY DEF IInv, TypeOK, Backed
<1>2. Grows /\ \A t : Published(t)' = Published(t) /\ Announced(t)' = Announced(t)
  BY <1>1, SameLog
<1>3. LogTypeOK'
  BY <1>1, Charging DEF LogTypeOK
<1>4. TypeOK'
  <2>1. OrderTypeOK'
    BY <1>1, <1>2, TopicFacts DEF OrderTypeOK, PositionsOK
  <2> QED
    BY <1>1, <1>2, <1>3, <2>1, InventoryTypeKept, PaymentTypeKept DEF TypeOK
<1>5. OrderFirst'
  BY <1>1 DEF OrderFirst
<1>6. PlacedBacked' /\ ResultBacked' /\ StockEventsBacked' /\ PaymentsBacked'
  BY <1>1, <1>2
  DEF PlacedBacked, ResultBacked, Supported, StockEventsBacked, PaymentsBacked,
      Granted
<1>7. StatusBacked'
  BY <1>1, <1>2 DEF StatusBacked
<1>8. NoUnitLost'
  BY <1>1 DEF NoUnitLost
<1> QED
  BY <1>4, <1>5, <1>6, <1>7, <1>8 DEF IInv, Backed

LEMMA HandleStatusIInv ==
    ASSUME IInv, NEW t \in OrderTopics, NEW k \in 1..Len(log[t]),
           OrderStep(HandleStatus(t, k))
    PROVE  IInv'
<1> DEFINE o == log[t][k].order
<1> USE DEF OrderStep, HandleStatus, inventoryVars, paymentVars
<1>1. /\ LogTypeOK /\ OrderTypeOK /\ InventoryTypeOK /\ PaymentTypeOK
      /\ OrderFirst /\ PlacedBacked /\ ResultBacked /\ StockEventsBacked
      /\ PaymentsBacked /\ StatusBacked /\ NoUnitLost
  BY DEF IInv, TypeOK, Backed
<1>2. Grows /\ \A u : Published(u)' = Published(u) /\ Announced(u)' = Announced(u)
  BY <1>1, SameLog
<1>3. LogTypeOK'
  BY <1>1, CostNat, Charging DEF LogTypeOK
<1>4. o \in Orders /\ o \in Announced(t)
  BY <1>1, TopicFacts, RecordAt DEF Announced
\* The status of o, if it has a row, becomes the one its event stands for.
<1>5. \A q \in Orders :
         status'[q] = IF q = o /\ status[o] # "NONE" THEN NewStatus(t) ELSE status[q]
  BY <1>1, <1>4 DEF UpdateOrderStatus, OrderTypeOK
<1>6. NewStatus(t) \in {"PAID", "PAYMENT_FAILED", "REJECTED"}
  BY StatusFacts
<1>7. TypeOK'
  <2>1. status' \in [Orders -> {"NONE", "PENDING", "PAID", "PAYMENT_FAILED", "REJECTED"}]
    BY <1>1, <1>4, <1>6 DEF UpdateOrderStatus, OrderTypeOK
  <2>2. PositionsOK(Handle(orderHandled, t, k), OrderTopics)
    BY <1>1, Handling DEF OrderTypeOK
  <2>3. PositionsOK(orderHandled, OrderTopics)'
    BY <2>2 DEF PositionsOK
  <2>4. OrderTypeOK'
    BY <1>1, <2>1, <2>3 DEF OrderTypeOK
  <2> QED
    BY <1>1, <1>2, <1>3, <2>4, InventoryTypeKept, PaymentTypeKept DEF TypeOK
<1>8. \A q \in Orders : status'[q] # "NONE" <=> status[q] # "NONE"
  BY <1>5, <1>6
<1>9. OrderFirst'
  BY <1>1, <1>8 DEF OrderFirst
<1>10. PlacedBacked'
  <2>1. \A e \in Published(TopicOrdersPlaced) : e.order \in Orders
    BY <1>1, TopicFacts, PublishedTyped
  <2> QED
    BY <1>1, <1>2, <1>8, <2>1 DEF PlacedBacked
<1>11. ResultBacked' /\ StockEventsBacked' /\ PaymentsBacked'
  BY <1>1, <1>2
  DEF ResultBacked, Supported, StockEventsBacked, PaymentsBacked, Granted
<1>12. StatusBacked'
  <2>1. \A u \in OrderTopics : NewStatus(t) = NewStatus(u) => t = u
    BY StatusFacts
  <2> QED
    BY <1>1, <1>2, <1>4, <1>5, <2>1 DEF StatusBacked
<1>13. NoUnitLost'
  BY <1>1 DEF NoUnitLost
<1> QED
  BY <1>7, <1>9, <1>10, <1>11, <1>12, <1>13 DEF IInv, Backed
-----------------------------------------------------------------------------
(* The steps of the inventory service *)

\* A cart gives a natural number for every row of stock.
LEMMA CartQuantity ==
    ASSUME NEW cart \in Carts \cup {NoLines}, NEW p \in StockRows
    PROVE  cart[p] \in Nat /\ p \in Products
  BY CartsAssumption, InitialStockAssumption DEF StockRows, NoLines

\* The transaction of reserve moves units from available to reserved, and sets
\* the result of an order that had none.
LEMMA ReserveFacts ==
    ASSUME InventoryTypeOK, NoUnitLost, NEW o \in Orders, NEW cart \in Carts,
           ~AlreadyProcessed(o), Reserve(o, cart) \/ Reject(o, cart)
    PROVE  /\ available' \in [StockRows -> Nat] /\ reserved' \in [StockRows -> Nat]
           /\ reservations' \in [Orders -> Carts \cup {NoLines}]
           /\ processed' \in [Orders -> Results]
           /\ processed'[o] \in {"RESERVED", "REJECTED"}
           /\ \A q \in Orders \ {o} : processed'[q] = processed[q]
           /\ NoUnitLost'
<1>1. /\ available \in [StockRows -> Nat] /\ reserved \in [StockRows -> Nat]
      /\ processed \in [Orders -> Results]
      /\ reservations \in [Orders -> Carts \cup {NoLines}]
      /\ \A p \in StockRows : available[p] + reserved[p] = InitialStock[p]
  BY DEF InventoryTypeOK, NoUnitLost
<1>2. \A p \in StockRows : cart[p] \in Nat /\ p \in Products
  BY CartQuantity
<1>3. CASE Reserve(o, cart)
  <2> USE <1>3 DEF Reserve
  <2>1. \A p \in StockRows : cart[p] <= available[p]
    BY <1>1, <1>2 DEF Sufficient
  <2>2. \A p \in StockRows : /\ available'[p] = available[p] - cart[p]
                             /\ reserved'[p] = reserved[p] + cart[p]
                             /\ available'[p] \in Nat /\ reserved'[p] \in Nat
    BY <1>1, <1>2, <2>1
  <2>3. available' \in [StockRows -> Nat] /\ reserved' \in [StockRows -> Nat]
    BY <2>2
  <2>4. NoUnitLost'
    BY <1>1, <1>2, <2>2 DEF NoUnitLost, StockRows
  <2> QED
    BY <1>1, <2>3, <2>4 DEF Results
<1>4. CASE Reject(o, cart)
  BY <1>1, <1>4 DEF Reject, Results, NoUnitLost
<1> QED
  BY <1>3, <1>4

LEMMA HandleOrderPlacedIInv ==
    ASSUME IInv, NEW pod \in InventoryPods, NEW k \in 1..Len(log[TopicOrdersPlaced]),
           InventoryStep(HandleOrderPlaced(pod, k))
    PROVE  IInv'
<1> DEFINE event == log[TopicOrdersPlaced][k]
           o == event.order
<1>1. /\ LogTypeOK /\ OrderTypeOK /\ InventoryTypeOK /\ PaymentTypeOK
      /\ OrderFirst /\ PlacedBacked /\ ResultBacked /\ StockEventsBacked
      /\ PaymentsBacked /\ StatusBacked /\ NoUnitLost
  BY DEF IInv, TypeOK, Backed
<1>2. /\ UNCHANGED log
      /\ UNCHANGED orderVars /\ UNCHANGED paymentVars
      /\ inventoryHandled' = inventoryHandled
  BY DEF InventoryStep, HandleOrderPlaced
<1>3. Grows /\ \A t : Published(t)' = Published(t) /\ Announced(t)' = Announced(t)
  BY <1>1, <1>2, SameLog
<1>4. LogTypeOK'
  <2>1. faults' \in 0..MaxFaults
    BY <1>1, CostNat, Charging DEF InventoryStep, HandleOrderPlaced
  <2> QED
    BY <1>1, <1>2, <2>1 DEF LogTypeOK
<1>5. /\ event \in Published(TopicOrdersPlaced)
      /\ o \in Orders /\ event.items \in Carts /\ event.total \in Nat
      /\ status[o] # "NONE" /\ event.items = items[o] /\ event.total = Total(items[o])
  <2>1. /\ event \in Events(TopicOrdersPlaced)
        /\ event \in Published(TopicOrdersPlaced)
    BY <1>1, RecordAt, TopicFacts
  <2>2. event \in [order : Orders, items : Carts, total : Nat]
    BY <2>1, PayloadFacts
  <2>3. o \in Orders /\ event.items \in Carts /\ event.total \in Nat
    BY <2>2
  <2>4. /\ status[o] # "NONE" /\ event.items = items[o]
        /\ event.total = Total(items[o])
    BY <1>1, <2>1 DEF PlacedBacked
  <2> QED
    BY <2>1, <2>3, <2>4
\* The order has a result now, and no result is taken back.
<1>6. /\ available' \in [StockRows -> Nat] /\ reserved' \in [StockRows -> Nat]
      /\ reservations' \in [Orders -> Carts \cup {NoLines}]
      /\ processed' \in [Orders -> Results]
      /\ processed'[o] \in Results \ {"NONE"}
      /\ \A q \in Orders : processed[q] # "NONE" \/ q # o => processed'[q] = processed[q]
      /\ processed'[o] = "RELEASED" => processed[o] = "RELEASED"
      /\ NoUnitLost'
  <2>1. CASE AlreadyProcessed(o)
    BY <1>1, <1>5, <2>1
    DEF InventoryStep, HandleOrderPlaced, AlreadyProcessed, InventoryTypeOK, NoUnitLost
  <2>2. CASE ~AlreadyProcessed(o)
    <3>1. Reserve(o, event.items) \/ Reject(o, event.items)
      BY <2>2 DEF InventoryStep, HandleOrderPlaced
    <3> QED
      BY <1>1, <1>5, <2>2, <3>1, ReserveFacts DEF AlreadyProcessed, Results
  <2> QED
    BY <2>1, <2>2
<1>7. emitting' = [emitting EXCEPT ![pod] = Emission(k, event, processed'[o])]
  BY DEF InventoryStep, HandleOrderPlaced
<1>8. Emission(k, event, processed'[o]) \in Emissions
  BY <1>5, <1>6 DEF Emission, Emissions
<1>9. TypeOK'
  <2>1. emitting' \in [InventoryPods -> {Idle} \cup Emissions]
    BY <1>1, <1>7, <1>8 DEF InventoryTypeOK
  <2>2. \A q \in InventoryPods : emitting'[q].offset <= Len(log'[TopicOrdersPlaced])
    BY <1>1, <1>2, <1>7 DEF InventoryTypeOK, Emission
  <2>3. InventoryTypeOK'
    BY <1>1, <1>2, <1>6, <2>1, <2>2 DEF InventoryTypeOK, PositionsOK
  <2> QED
    BY <1>1, <1>2, <1>3, <1>4, <2>3, OrderTypeKept, PaymentTypeKept DEF TypeOK
<1>10. OrderFirst'
  BY <1>1, <1>2, <1>5, <1>6 DEF OrderFirst, orderVars
<1>11. PlacedBacked'
  BY <1>1, <1>2, <1>3 DEF PlacedBacked, orderVars
<1>12. \A q \in Orders : Granted(q) => processed'[q] = processed[q]
  BY <1>6 DEF Granted
<1>13. ResultBacked'
  <2>1. items' = items
    BY <1>2 DEF orderVars
  <2>2. /\ emitting'[pod] = Emission(k, event, processed'[o])
        /\ \A q \in InventoryPods \ {pod} : emitting'[q] = emitting[q]
    BY <1>1, <1>7 DEF InventoryTypeOK
  <2> HIDE DEF event
  <2> SUFFICES ASSUME NEW q \in InventoryPods, NEW e, e = emitting'[q], e # Idle
               PROVE  /\ processed'[e.order] # "NONE"
                      /\ e.total = Total(items'[e.order])
                      /\ e.result = "RESERVED" =>
                            processed'[e.order] \in {"RESERVED", "RELEASED"}
                      /\ e.result = "REJECTED" => processed'[e.order] = "REJECTED"
    BY DEF ResultBacked, Supported, Granted, Idle
  <2>3. CASE q = pod
    <3>1. /\ e.order = event.order /\ e.total = event.total
          /\ e.result = processed'[event.order]
      BY <2>2, <2>3 DEF Emission
    <3> QED
      BY <1>5, <1>6, <2>1, <3>1
  <2>4. CASE q # pod
    <3>1. e = emitting[q] /\ Supported(e)
      BY <1>1, <2>2, <2>4 DEF ResultBacked
    <3>2. e.order \in Orders
      BY <1>1, <3>1 DEF InventoryTypeOK, Emissions
    <3>3. processed'[e.order] = processed[e.order]
      BY <1>6, <3>1, <3>2 DEF Supported
    <3> QED
      BY <2>1, <3>1, <3>3 DEF Supported, Granted
  <2> QED
    BY <2>3, <2>4
<1>14. StockEventsBacked' /\ PaymentsBacked'
  <2>1. \A t \in Topics : \A e \in Published(t) : e.order \in Orders
    BY <1>1, PublishedTyped
  <2>2. \A q \in Orders : Granted(q) => Granted(q)'
    BY <1>12 DEF Granted
  <2>3. \A q \in Orders : processed[q] = "REJECTED" => processed'[q] = "REJECTED"
    BY <1>6
  <2>4. items' = items
    BY <1>2 DEF orderVars
  <2> QED
    BY <1>1, <1>3, <2>1, <2>2, <2>3, <2>4, TopicFacts
    DEF StockEventsBacked, PaymentsBacked
<1>15. StatusBacked'
  BY <1>1, <1>2, <1>3, <1>6 DEF StatusBacked, orderVars
<1> QED
  BY <1>6, <1>9, <1>10, <1>11, <1>13, <1>14, <1>15 DEF IInv, Backed

\* What announcing a result adds to the log.
LEMMA Announcing ==
    ASSUME LogTypeOK, NEW e \in Emissions, Announce(e), faults' \in 0..MaxFaults
    PROVE  /\ LogTypeOK' /\ Grows
           /\ \A x \in Published(TopicInventoryReserved)' :
                 \/ x \in Published(TopicInventoryReserved)
                 \/ e.result = "RESERVED" /\ x = StockReserved(e.order, e.total)
           /\ \A x \in Published(TopicInventoryRejected)' :
                 \/ x \in Published(TopicInventoryRejected)
                 \/ e.result = "REJECTED" /\ x = StockRejected(e.order)
           /\ Published(TopicInventoryRejected) \subseteq Published(TopicInventoryRejected)'
           /\ \A t \in Topics \ {TopicInventoryReserved, TopicInventoryRejected} :
                 Published(t)' = Published(t)
<1>1. e.order \in Orders /\ e.total \in Nat
  BY DEF Emissions
<1>2. TopicInventoryReserved # TopicInventoryRejected
  BY DEF TopicInventoryReserved, TopicInventoryRejected
<1>3. CASE e.result = "RESERVED"
  <2>1. Publish(TopicInventoryReserved, StockReserved(e.order, e.total))
    BY <1>3 DEF Announce
  <2>2. StockReserved(e.order, e.total) \in [order : Orders, total : Nat]
    BY <1>1 DEF StockReserved
  <2>3. StockReserved(e.order, e.total) \in Events(TopicInventoryReserved)
    BY <2>2, PayloadFacts, Zenon
  <2> QED
    BY <2>1, <2>3, <1>2, <1>3, Publishing, TopicFacts
<1>4. CASE e.result = "REJECTED"
  <2>1. Publish(TopicInventoryRejected, StockRejected(e.order))
    BY <1>4 DEF Announce
  <2>2. StockRejected(e.order) \in [order : Orders]
    BY <1>1 DEF StockRejected
  <2>3. StockRejected(e.order) \in Events(TopicInventoryRejected)
    BY <2>2, PayloadFacts, Zenon
  <2> QED
    BY <2>1, <2>3, <1>2, <1>4, Publishing, TopicFacts
<1>5. CASE e.result = "RELEASED"
  <2>1. UNCHANGED log
    BY <1>5 DEF Announce
  <2>2. LogTypeOK'
    BY <2>1 DEF LogTypeOK
  <2> QED
    BY <2>1, <2>2, SameLog, TopicFacts
<1> QED
  BY <1>3, <1>4, <1>5 DEF Announce

LEMMA EmitIInv ==
    ASSUME IInv, NEW pod \in InventoryPods, NEW acked \in BOOLEAN,
           InventoryStep(Emit(pod, acked))
    PROVE  IInv'
<1>1. /\ LogTypeOK /\ OrderTypeOK /\ InventoryTypeOK /\ PaymentTypeOK
      /\ OrderFirst /\ PlacedBacked /\ ResultBacked /\ StockEventsBacked
      /\ PaymentsBacked /\ StatusBacked /\ NoUnitLost
  BY DEF IInv, TypeOK, Backed
<1>2. /\ UNCHANGED orderVars /\ UNCHANGED paymentVars
      /\ UNCHANGED <<available, reserved, processed, reservations>>
      /\ emitting[pod] # Idle /\ Announce(emitting[pod])
  BY DEF InventoryStep, Emit
<1>3. faults' \in 0..MaxFaults
  BY <1>1, CostNat, Charging DEF InventoryStep, Emit
<1>4. PICK e \in Emissions : e = emitting[pod]
  BY <1>1, <1>2 DEF InventoryTypeOK
<1>5. Announce(e) /\ Supported(e)
  BY <1>1, <1>2, <1>4 DEF ResultBacked
<1>6. /\ LogTypeOK' /\ Grows
      /\ \A x \in Published(TopicInventoryReserved)' :
            \/ x \in Published(TopicInventoryReserved)
            \/ e.result = "RESERVED" /\ x = StockReserved(e.order, e.total)
      /\ \A x \in Published(TopicInventoryRejected)' :
            \/ x \in Published(TopicInventoryRejected)
            \/ e.result = "REJECTED" /\ x = StockRejected(e.order)
      /\ Published(TopicInventoryRejected) \subseteq Published(TopicInventoryRejected)'
      /\ \A t \in Topics \ {TopicInventoryReserved, TopicInventoryRejected} :
            Published(t)' = Published(t)
  BY <1>1, <1>3, <1>5, Announcing
<1>7. \A q \in InventoryPods : emitting'[q] \in {emitting[q], Idle}
  BY <1>1 DEF InventoryStep, Emit, InventoryTypeOK
<1>8. TypeOK'
  <2>1. OrderTypeOK' /\ PaymentTypeOK'
    BY <1>1, <1>2, <1>6, OrderTypeKept, PaymentTypeKept
  <2>2. emitting' \in [InventoryPods -> {Idle} \cup Emissions]
    BY <1>1 DEF InventoryStep, Emit, InventoryTypeOK
  <2>3. \A q \in InventoryPods : emitting'[q].offset <= Len(log'[TopicOrdersPlaced])
    <3>1. /\ Len(log[TopicOrdersPlaced]) \in Nat
          /\ Len(log'[TopicOrdersPlaced]) \in Nat
          /\ Len(log[TopicOrdersPlaced]) <= Len(log'[TopicOrdersPlaced])
      BY <1>6, TopicFacts DEF Grows
    <3>2. \A q \in InventoryPods : /\ emitting[q].offset \in Nat
                                   /\ emitting[q].offset <= Len(log[TopicOrdersPlaced])
      BY <1>1 DEF InventoryTypeOK, Emissions, Idle
    <3>3. Idle.offset = 0
      BY DEF Idle
    <3>4. \A q \in InventoryPods : \/ emitting'[q].offset = emitting[q].offset
                                   \/ emitting'[q].offset = 0
      BY <1>7, <3>3
    <3> QED
      BY <3>1, <3>2, <3>4
  <2>4. PositionsOK(inventoryHandled, InventoryTopics)'
    <3>1. /\ e.offset \in Nat
          /\ e.offset <= Len(log[TopicOrdersPlaced])
      BY <1>1, <1>4 DEF InventoryTypeOK, Emissions
    <3>2. /\ inventoryHandled \in [InventoryTopics -> Nat]
          /\ \A t \in InventoryTopics : inventoryHandled[t] <= Len(log[t])
      BY <1>1 DEF InventoryTypeOK, PositionsOK
    <3>3. \/ inventoryHandled' = inventoryHandled
          \/ inventoryHandled' = [inventoryHandled EXCEPT ![TopicOrdersPlaced] =
                                     IF e.offset > @ THEN e.offset ELSE @]
      BY <1>4 DEF InventoryStep, Emit, Handle
    <3>4. inventoryHandled' \in [InventoryTopics -> Nat]
      BY <3>1, <3>2, <3>3
    <3>5. \A t \in InventoryTopics : inventoryHandled'[t] <= Len(log[t])
      BY <3>1, <3>2, <3>3
    <3>6. \A t \in InventoryTopics : inventoryHandled'[t] <= Len(log'[t])
      BY <3>4, <3>5, <1>6, TopicFacts DEF Grows
    <3> QED
      BY <3>4, <3>6 DEF PositionsOK
  <2>5. InventoryTypeOK'
    BY <1>1, <1>2, <2>2, <2>3, <2>4 DEF InventoryTypeOK
  <2> QED
    BY <1>6, <2>1, <2>5 DEF TypeOK
<1>9. OrderFirst'
  BY <1>1, <1>2 DEF OrderFirst, orderVars
<1>10. PlacedBacked'
  <2>1. Published(TopicOrdersPlaced)' = Published(TopicOrdersPlaced)
    BY <1>6, OtherTopics, TopicFacts
    DEF TopicOrdersPlaced, TopicInventoryRejected
  <2> QED
    BY <1>1, <1>2, <2>1 DEF PlacedBacked, orderVars
<1>11. ResultBacked'
  BY <1>1, <1>2, <1>7 DEF ResultBacked, Supported, Granted, orderVars
\* The result is published as the row has it.
<1>12. StockEventsBacked'
  BY <1>1, <1>2, <1>5, <1>6
  DEF StockEventsBacked, Supported, Granted, StockReserved, StockRejected, orderVars
<1>13. /\ Published(TopicPaymentsCompleted)' = Published(TopicPaymentsCompleted)
       /\ Published(TopicPaymentsFailed)' = Published(TopicPaymentsFailed)
  BY <1>6, TopicFacts
  DEF TopicPaymentsCompleted, TopicPaymentsFailed, TopicInventoryReserved,
      TopicInventoryRejected
<1>14. PaymentsBacked'
  BY <1>1, <1>2, <1>13 DEF PaymentsBacked, Granted, orderVars
<1>15. StatusBacked'
  <2>1. \A t \in OrderTopics : Announced(t) \subseteq Announced(t)'
    BY <1>6, <1>13, OtherTopics DEF Announced
  <2> QED
    BY <1>1, <1>2, <2>1, OtherTopics DEF StatusBacked, orderVars
<1>16. NoUnitLost'
  BY <1>1, <1>2 DEF NoUnitLost
<1> QED
  BY <1>8, <1>9, <1>10, <1>11, <1>12, <1>14, <1>15, <1>16 DEF IInv, Backed

LEMMA EmitFailsIInv ==
    ASSUME IInv, NEW pod \in InventoryPods, InventoryStep(EmitFails(pod))
    PROVE  IInv'
<1> USE DEF InventoryStep, EmitFails
<1>1. /\ LogTypeOK /\ OrderTypeOK /\ InventoryTypeOK /\ PaymentTypeOK
      /\ OrderFirst /\ PlacedBacked /\ ResultBacked /\ StockEventsBacked
      /\ PaymentsBacked /\ StatusBacked /\ NoUnitLost
  BY DEF IInv, TypeOK, Backed
<1>2. Grows /\ \A t : Published(t)' = Published(t) /\ Announced(t)' = Announced(t)
  BY <1>1, SameLog
<1>3. LogTypeOK'
  BY <1>1, Charging DEF LogTypeOK
<1>4. \A q \in InventoryPods : emitting'[q] \in {emitting[q], Idle}
  BY <1>1 DEF InventoryTypeOK
<1>5. TypeOK'
  <2>1. emitting' \in [InventoryPods -> {Idle} \cup Emissions]
    BY <1>1 DEF InventoryTypeOK
  <2>2. Len(log[TopicOrdersPlaced]) \in Nat /\ Idle.offset = 0
    BY <1>2, TopicFacts DEF Grows, Idle
  <2>3. \A q \in InventoryPods : emitting'[q].offset <= Len(log[TopicOrdersPlaced])
    BY <1>1, <1>4, <2>2 DEF InventoryTypeOK
  <2>4. InventoryTypeOK'
    BY <1>1, <2>1, <2>3 DEF InventoryTypeOK, PositionsOK
  <2> QED
    BY <1>1, <1>2, <1>3, <2>4, OrderTypeKept, PaymentTypeKept DEF TypeOK
<1>6. OrderFirst' /\ PlacedBacked' /\ StockEventsBacked' /\ PaymentsBacked'
  BY <1>1, <1>2
  DEF OrderFirst, PlacedBacked, StockEventsBacked, PaymentsBacked, Granted, orderVars
<1>7. ResultBacked'
  BY <1>1, <1>4 DEF ResultBacked, Supported, Granted, orderVars
<1>8. StatusBacked'
  BY <1>1, <1>2 DEF StatusBacked, orderVars
<1>9. NoUnitLost'
  BY <1>1 DEF NoUnitLost
<1> QED
  BY <1>5, <1>6, <1>7, <1>8, <1>9 DEF IInv, Backed

\* The transaction of handlePaymentFailed moves the units back and marks the
\* order, and only an order whose stock is reserved.
LEMMA ReleaseFacts ==
    ASSUME InventoryTypeOK, NoUnitLost, NEW o \in Orders, Releasable(o), Release(o)
    PROVE  /\ available' \in [StockRows -> Nat] /\ reserved' \in [StockRows -> Nat]
           /\ processed' = [processed EXCEPT ![o] = "RELEASED"]
           /\ processed' \in [Orders -> Results]
           /\ NoUnitLost'
<1>1. /\ available \in [StockRows -> Nat] /\ reserved \in [StockRows -> Nat]
      /\ processed \in [Orders -> Results]
      /\ reservations[o] \in Carts \cup {NoLines}
      /\ \A p \in StockRows : available[p] + reserved[p] = InitialStock[p]
  BY DEF InventoryTypeOK, NoUnitLost
<1>2. \A p \in StockRows : reservations[o][p] \in Nat
  BY <1>1, CartQuantity
<1>3. \A p \in StockRows : /\ available'[p] = available[p] + reservations[o][p]
                           /\ reserved'[p] = reserved[p] - reservations[o][p]
                           /\ available'[p] \in Nat /\ reserved'[p] \in Nat
  BY <1>1, <1>2 DEF Release
<1>4. available' \in [StockRows -> Nat] /\ reserved' \in [StockRows -> Nat]
  BY <1>3 DEF Release
<1>5. NoUnitLost'
  BY <1>1, <1>2, <1>3 DEF NoUnitLost
<1>6. /\ processed' = [processed EXCEPT ![o] = "RELEASED"]
      /\ processed' \in [Orders -> Results]
  BY <1>1 DEF Release, Results
<1> QED
  BY <1>4, <1>5, <1>6

LEMMA HandlePaymentFailedIInv ==
    ASSUME IInv, NEW k \in 1..Len(log[TopicPaymentsFailed]),
           InventoryStep(HandlePaymentFailed(k))
    PROVE  IInv'
<1> DEFINE o == log[TopicPaymentsFailed][k].order
<1>1. /\ LogTypeOK /\ OrderTypeOK /\ InventoryTypeOK /\ PaymentTypeOK
      /\ OrderFirst /\ PlacedBacked /\ ResultBacked /\ StockEventsBacked
      /\ PaymentsBacked /\ StatusBacked /\ NoUnitLost
  BY DEF IInv, TypeOK, Backed
<1>2. /\ UNCHANGED log /\ UNCHANGED orderVars /\ UNCHANGED paymentVars
      /\ UNCHANGED <<reservations, emitting>>
      /\ k \in Deliverable(inventoryHandled, TopicPaymentsFailed)
      /\ inventoryHandled' = Handle(inventoryHandled, TopicPaymentsFailed, k)
  BY DEF InventoryStep, HandlePaymentFailed
<1>3. Grows /\ \A t : Published(t)' = Published(t) /\ Announced(t)' = Announced(t)
  BY <1>1, <1>2, SameLog
<1>4. LogTypeOK'
  <2>1. faults' \in 0..MaxFaults
    BY <1>1, CostNat, Charging DEF InventoryStep, HandlePaymentFailed
  <2> QED
    BY <1>1, <1>2, <2>1 DEF LogTypeOK
<1>5. o \in Orders /\ o \in Announced(TopicPaymentsFailed)
  BY <1>1, TopicFacts, RecordAt DEF Announced
<1>6. /\ available' \in [StockRows -> Nat] /\ reserved' \in [StockRows -> Nat]
      /\ processed' \in [Orders -> Results]
      /\ \A q \in Orders : \/ processed'[q] = processed[q]
                           \/ /\ q = o /\ processed[q] = "RESERVED"
                              /\ processed'[q] = "RELEASED"
      /\ NoUnitLost'
  <2> HIDE DEF o
  <2>1. CASE Releasable(o)
    <3>1. Release(o)
      BY <2>1 DEF InventoryStep, HandlePaymentFailed, o
    <3>2. processed \in [Orders -> Results] /\ processed[o] = "RESERVED"
      BY <1>1, <2>1 DEF InventoryTypeOK, Releasable
    <3> QED
      BY <1>1, <1>5, <2>1, <3>1, <3>2, ReleaseFacts
  <2>2. CASE ~Releasable(o)
    <3>1. UNCHANGED <<available, reserved, processed>>
      BY <2>2 DEF InventoryStep, HandlePaymentFailed, o
    <3> QED
      BY <1>1, <3>1 DEF InventoryTypeOK, NoUnitLost
  <2> QED
    BY <2>1, <2>2
<1>7. TypeOK'
  <2>1. PositionsOK(Handle(inventoryHandled, TopicPaymentsFailed, k), InventoryTopics)
    BY <1>1, <1>2, Handling DEF InventoryTypeOK, InventoryTopics
  <2>2. PositionsOK(inventoryHandled, InventoryTopics)'
    BY <1>2, <2>1 DEF PositionsOK
  <2>3. InventoryTypeOK'
    BY <1>1, <1>2, <1>6, <2>2 DEF InventoryTypeOK
  <2> QED
    BY <1>1, <1>2, <1>3, <1>4, <2>3, OrderTypeKept, PaymentTypeKept DEF TypeOK
\* A release takes no grant and no rejection away.
<1>8. \A q \in Orders : /\ processed'[q] # "NONE" <=> processed[q] # "NONE"
                        /\ Granted(q) =>
                              processed'[q] \in {"RESERVED", "RELEASED"}
                        /\ processed[q] = "REJECTED" => processed'[q] = "REJECTED"
  BY <1>6 DEF Granted
<1>9. OrderFirst'
  BY <1>1, <1>2, <1>8 DEF OrderFirst, orderVars
<1>10. PlacedBacked'
  BY <1>1, <1>2, <1>3 DEF PlacedBacked, orderVars
<1>11. ResultBacked'
  <2>1. \A pod \in InventoryPods : emitting[pod] # Idle => emitting[pod].order \in Orders
    BY <1>1 DEF InventoryTypeOK, Emissions
  <2> QED
    BY <1>1, <1>2, <1>8, <2>1 DEF ResultBacked, Supported, Granted, orderVars
<1>12. StockEventsBacked' /\ PaymentsBacked'
  <2>1. \A t \in Topics : \A e \in Published(t) : e.order \in Orders
    BY <1>1, PublishedTyped
  <2> QED
    BY <1>1, <1>2, <1>3, <1>8, <2>1, TopicFacts
    DEF StockEventsBacked, PaymentsBacked, Granted, orderVars
<1>13. StatusBacked'
  BY <1>1, <1>2, <1>3, <1>5, <1>6 DEF StatusBacked, orderVars
<1> QED
  BY <1>6, <1>7, <1>9, <1>10, <1>11, <1>12, <1>13 DEF IInv, Backed

-----------------------------------------------------------------------------
(* The step of the payment service *)

LEMMA HandleStockReservedIInv ==
    ASSUME IInv, NEW k \in 1..Len(log[TopicInventoryReserved]), NEW limit \in Limits,
           NEW acked \in BOOLEAN,
           PaymentStep(HandleStockReserved(k, limit, acked))
    PROVE  IInv'
<1>1. /\ LogTypeOK /\ OrderTypeOK /\ InventoryTypeOK /\ PaymentTypeOK
      /\ OrderFirst /\ PlacedBacked /\ ResultBacked /\ StockEventsBacked
      /\ PaymentsBacked /\ StatusBacked /\ NoUnitLost
  BY DEF IInv, TypeOK, Backed
<1>2. /\ UNCHANGED orderVars /\ UNCHANGED inventoryVars
      /\ k \in Deliverable(paymentHandled, TopicInventoryReserved)
      /\ Answer(log[TopicInventoryReserved][k], limit)
  BY DEF PaymentStep, HandleStockReserved
<1>3. faults' \in 0..MaxFaults
  BY <1>1, CostNat, Charging DEF PaymentStep, HandleStockReserved
\* The payment is decided on the total of the order, which has its stock.
<1>4. PICK event : /\ event = log[TopicInventoryReserved][k]
                   /\ event \in Published(TopicInventoryReserved)
                   /\ event.order \in Orders
  BY <1>1, RecordAt, TopicFacts
<1>5. Granted(event.order) /\ event.total = Total(items[event.order])
  BY <1>1, <1>4 DEF StockEventsBacked
<1> DEFINE answer == [order |-> event.order]
           topic  == IF Declined(event.total, limit)
                     THEN TopicPaymentsFailed ELSE TopicPaymentsCompleted
<1>6. Publish(topic, answer) /\ topic \in {TopicPaymentsFailed, TopicPaymentsCompleted}
  BY <1>2, <1>4 DEF Answer, PaymentFailed, PaymentCompleted
<1>7. topic \in Topics /\ answer \in Events(topic)
  <2>1. answer \in [order : Orders]
    BY <1>4
  <2> HIDE DEF answer, topic
  <2> QED
    BY <1>6, <2>1, PayloadFacts, TopicFacts, Zenon
<1>8. /\ LogTypeOK' /\ Grows
      /\ Published(topic)' = Published(topic) \cup {answer}
      /\ \A u \in Topics \ {topic} : Published(u)' = Published(u)
  <2> HIDE DEF answer, topic
  <2>1. \A u : Published(u)' = Range(log'[u])
    BY DEF Published
  <2>2. PICK t \in Topics : t = topic
    BY <1>7
  <2>3. answer \in Events(t) /\ Publish(t, answer)
    BY <1>6, <1>7, <2>2
  <2>4. /\ LogTypeOK' /\ Grows
        /\ Published(t)' = Published(t) \cup {answer}
        /\ \A u \in Topics \ {t} : Published(u)' = Published(u)
    BY <1>1, <1>3, <2>3, Publishing
  <2> QED
    BY <2>2, <2>4
<1>9. TypeOK'
  <2>1. OrderTypeOK' /\ InventoryTypeOK'
    BY <1>1, <1>2, <1>8, OrderTypeKept, InventoryTypeKept
  <2>2. PositionsOK(Handle(paymentHandled, TopicInventoryReserved, k), PaymentTopics)
    BY <1>1, <1>2, Handling DEF PaymentTypeOK, PaymentTopics
  <2>3. PositionsOK(paymentHandled', PaymentTopics)
    BY <1>1, <2>2 DEF PaymentStep, HandleStockReserved, PaymentTypeOK
  <2>4. PaymentTypeOK'
    BY <2>3, <1>8, TopicFacts DEF PaymentTypeOK, PositionsOK, Grows
  <2> QED
    BY <1>8, <2>1, <2>4 DEF TypeOK
<1>10. OrderFirst' /\ ResultBacked' /\ NoUnitLost'
  BY <1>1, <1>2
  DEF OrderFirst, ResultBacked, Supported, Granted, NoUnitLost, orderVars, inventoryVars
<1>11. /\ Published(TopicOrdersPlaced)' = Published(TopicOrdersPlaced)
       /\ Published(TopicInventoryReserved)' = Published(TopicInventoryReserved)
       /\ Published(TopicInventoryRejected)' = Published(TopicInventoryRejected)
  <2> HIDE DEF answer, topic
  <2> QED
    BY <1>6, <1>8, TopicFacts
    DEF TopicPaymentsCompleted, TopicPaymentsFailed, TopicInventoryReserved,
        TopicInventoryRejected, TopicOrdersPlaced
<1>12. PlacedBacked' /\ StockEventsBacked'
  BY <1>1, <1>2, <1>11
  DEF PlacedBacked, StockEventsBacked, Granted, orderVars, inventoryVars
<1>13. /\ \A e \in Published(TopicPaymentsCompleted)' :
             \/ e \in Published(TopicPaymentsCompleted)
             \/ e = answer /\ ~Declined(event.total, limit)
       /\ \A e \in Published(TopicPaymentsFailed)' :
             \/ e \in Published(TopicPaymentsFailed)
             \/ e = answer /\ Declined(event.total, limit)
  <2> HIDE DEF answer
  <2>1. CASE Declined(event.total, limit)
    <3>1. topic = TopicPaymentsFailed
      BY <2>1
    <3> HIDE DEF topic
    <3> QED
      BY <2>1, <3>1, <1>8, OtherTopics, TopicFacts
  <2>2. CASE ~Declined(event.total, limit)
    <3>1. topic = TopicPaymentsCompleted
      BY <2>2
    <3> HIDE DEF topic
    <3> QED
      BY <2>2, <3>1, <1>8, OtherTopics, TopicFacts
  <2> QED
    BY <2>1, <2>2
<1>14. PaymentsBacked'
  <2>1. items' = items /\ processed' = processed
    BY <1>2 DEF orderVars, inventoryVars
  <2>2. answer.order = event.order
    OBVIOUS
  <2> HIDE DEF answer
  <2> QED
    BY <1>1, <1>5, <1>13, <2>1, <2>2 DEF PaymentsBacked, Granted
<1>15. StatusBacked'
  <2>1. \A t \in Topics : Announced(t) \subseteq Announced(t)'
    <3> HIDE DEF topic, answer
    <3> QED
      BY <1>7, <1>8 DEF Announced
  <2> QED
    BY <1>1, <1>2, <2>1, TopicFacts DEF StatusBacked, orderVars, inventoryVars
<1> QED
  BY <1>9, <1>10, <1>12, <1>14, <1>15 DEF IInv, Backed

-----------------------------------------------------------------------------
(* The inductive invariant *)

\* When nothing changes, nothing stops holding.
LEMMA StutterIInv == ASSUME IInv, UNCHANGED vars PROVE IInv'
<1> USE DEF vars, orderVars, inventoryVars, paymentVars
<1>1. /\ LogTypeOK /\ OrderTypeOK /\ InventoryTypeOK /\ PaymentTypeOK
      /\ OrderFirst /\ PlacedBacked /\ ResultBacked /\ StockEventsBacked
      /\ PaymentsBacked /\ StatusBacked /\ NoUnitLost
  BY DEF IInv, TypeOK, Backed
<1>2. Grows /\ \A t : Published(t)' = Published(t) /\ Announced(t)' = Announced(t)
  BY <1>1, SameLog
<1>3. LogTypeOK'
  BY <1>1 DEF LogTypeOK
<1>4. TypeOK'
  BY <1>1, <1>2, <1>3, OrderTypeKept, InventoryTypeKept, PaymentTypeKept DEF TypeOK
<1>5. OrderFirst' /\ PlacedBacked' /\ StockEventsBacked' /\ PaymentsBacked'
  BY <1>1, <1>2
  DEF OrderFirst, PlacedBacked, StockEventsBacked, PaymentsBacked, Granted
<1>6. ResultBacked' /\ NoUnitLost'
  BY <1>1 DEF ResultBacked, Supported, Granted, NoUnitLost
<1>7. StatusBacked'
  BY <1>1, <1>2 DEF StatusBacked
<1> QED
  BY <1>4, <1>5, <1>6, <1>7 DEF IInv, Backed

\* Every step of every service preserves the invariant.
LEMMA NextIInv == IInv /\ [Next]_vars => IInv'
<1> SUFFICES ASSUME IInv, [Next]_vars PROVE IInv'
  OBVIOUS
<1>1. CASE OrderStep(OrderNext)
  <2>1. \/ \E o \in Orders, cart \in Carts : OrderStep(PlaceOrder(o, cart))
        \/ \E o \in Orders, acked \in BOOLEAN : OrderStep(PublishOrderPlaced(o, acked))
        \/ \E o \in Orders : OrderStep(DropOrderPlaced(o))
        \/ \E t \in OrderTopics : \E k \in 1..Len(log[t]) : OrderStep(HandleStatus(t, k))
    BY <1>1 DEF OrderStep, OrderNext
  <2> QED
    BY <2>1, PlaceOrderIInv, PublishOrderPlacedIInv, DropOrderPlacedIInv, HandleStatusIInv
<1>2. CASE InventoryStep(InventoryNext)
  <2>1. \/ \E pod \in InventoryPods :
              \/ \E k \in 1..Len(log[TopicOrdersPlaced]) :
                    InventoryStep(HandleOrderPlaced(pod, k))
              \/ \E acked \in BOOLEAN : InventoryStep(Emit(pod, acked))
              \/ InventoryStep(EmitFails(pod))
        \/ \E k \in 1..Len(log[TopicPaymentsFailed]) :
              InventoryStep(HandlePaymentFailed(k))
    BY <1>2 DEF InventoryStep, InventoryNext
  <2> QED
    BY <2>1, HandleOrderPlacedIInv, EmitIInv, EmitFailsIInv, HandlePaymentFailedIInv
<1>3. CASE PaymentStep(PaymentNext)
  <2>1. \E k \in 1..Len(log[TopicInventoryReserved]), limit \in Limits,
           acked \in BOOLEAN : PaymentStep(HandleStockReserved(k, limit, acked))
    BY <1>3 DEF PaymentStep, PaymentNext
  <2> QED
    BY <2>1, HandleStockReservedIInv
<1>4. CASE Rest \/ UNCHANGED vars
  BY <1>4, StutterIInv DEF Rest
<1> QED
  BY <1>1, <1>2, <1>3, <1>4 DEF Next

\* Every event, result on its way and status is backed by its cause in every
\* behaviour of the services, faults and redeliveries included.
THEOREM Invariance == Spec => []IInv
  BY InitIInv, NextIInv, PTL DEF Spec

-----------------------------------------------------------------------------
(* What follows *)

\* The rows, positions and events of the services always have their types; in
\* particular neither counter of a stock row is ever negative.
THEOREM TypeCorrect == Spec => []TypeOK
<1>1. IInv => TypeOK
  BY DEF IInv
<1> QED
  BY <1>1, Invariance, PTL

\* Reserving and releasing move units, they neither lose nor invent one.
THEOREM UnitsConserved == Spec => []NoUnitLost
<1>1. IInv => NoUnitLost
  BY DEF IInv
<1> QED
  BY <1>1, Invariance, PTL

\* With one limit, the events in the log decide each order's outcome.
LEMMA BackedOneOutcome == ASSUME OneLimit, IInv PROVE OneOutcome
<1>1. LogTypeOK /\ PaymentsBacked /\ StockEventsBacked
  BY DEF IInv, TypeOK, Backed
<1> SUFFICES ASSUME NEW o \in Orders, NEW t \in TerminalTopics, NEW u \in TerminalTopics,
                    o \in Announced(t), o \in Announced(u), t # u
             PROVE  FALSE
  BY DEF OneOutcome
<1>2. o \in Announced(TopicPaymentsCompleted) =>
         /\ Granted(o) /\ \E limit \in Limits : ~Declined(Total(items[o]), limit)
  BY <1>1 DEF Announced, PaymentsBacked
<1>3. o \in Announced(TopicPaymentsFailed) =>
         /\ Granted(o) /\ \E limit \in Limits : Declined(Total(items[o]), limit)
  BY <1>1 DEF Announced, PaymentsBacked
<1>4. o \in Announced(TopicInventoryRejected) => ~Granted(o)
  BY <1>1 DEF Announced, StockEventsBacked, Granted
<1>5. ~(/\ o \in Announced(TopicPaymentsCompleted)
        /\ o \in Announced(TopicPaymentsFailed))
  BY <1>2, <1>3 DEF OneLimit
<1> QED
  BY <1>2, <1>3, <1>4, <1>5, OtherTopics DEF TerminalTopics

\* As long as the payment pods agree on their limit, no order is ever announced
\* with two outcomes, however often records are redelivered or published twice.
THEOREM OutcomesAgree == ASSUME OneLimit PROVE Spec => []OneOutcome
<1>1. IInv => OneOutcome
  BY BackedOneOutcome
<1> QED
  BY <1>1, Invariance, PTL

\* Under the same condition an order shown as paid has its goods reserved, for
\* good, and an order shown as rejected holds none.
THEOREM PaidHoldsStock == ASSUME OneLimit PROVE Spec => []PaidKeepsStock
<1>1. ASSUME IInv PROVE PaidKeepsStock
  <2>1. StatusBacked /\ StockEventsBacked /\ PaymentsBacked /\ OneOutcome
    BY <1>1, BackedOneOutcome DEF IInv, Backed
  <2> SUFFICES ASSUME NEW o \in Orders
               PROVE  /\ status[o] = "PAID" => processed[o] = "RESERVED"
                      /\ status[o] = "REJECTED" => processed[o] = "REJECTED"
                      /\ processed[o] = "RELEASED" => status[o] # "PAID"
    BY DEF PaidKeepsStock
  <2>2. status[o] = "PAID" => o \in Announced(TopicPaymentsCompleted) /\ Granted(o)
    BY <2>1, StatusFacts DEF StatusBacked, PaymentsBacked, Announced
  <2>3. processed[o] = "RELEASED" => o \in Announced(TopicPaymentsFailed)
    BY <2>1 DEF StatusBacked
  <2>4. ~(/\ o \in Announced(TopicPaymentsCompleted)
          /\ o \in Announced(TopicPaymentsFailed))
    BY <2>1, OtherTopics DEF OneOutcome, TerminalTopics
  <2>5. status[o] = "REJECTED" => processed[o] = "REJECTED"
    BY <2>1, StatusFacts DEF StatusBacked, StockEventsBacked, Announced
  <2> QED
    BY <2>2, <2>3, <2>4, <2>5 DEF Granted
<1> QED
  BY <1>1, Invariance, PTL

\* One step does not change a final status.
LEMMA FinalKept ==
    ASSUME OneLimit, IInv, [Next]_vars, NEW o \in Orders, status[o] \in Terminal
    PROVE  status'[o] = status[o]
<1>1. OrderTypeOK /\ StatusBacked /\ LogTypeOK /\ OneOutcome
  BY BackedOneOutcome DEF IInv, TypeOK, Backed
<1>2. status[o] \in {"PAID", "PAYMENT_FAILED", "REJECTED"}
  BY StatusFacts DEF Terminal, TerminalTopics
<1>3. CASE \E q \in Orders, cart \in Carts : PlaceOrder(q, cart)
  BY <1>1, <1>2, <1>3 DEF PlaceOrder, OrderTypeOK
<1>4. CASE \E t \in OrderTopics : \E k \in 1..Len(log[t]) : HandleStatus(t, k)
  <2> PICK t \in OrderTopics : \E k \in 1..Len(log[t]) : HandleStatus(t, k)
    BY <1>4
  <2>1. PICK k \in 1..Len(log[t]) : HandleStatus(t, k)
    OBVIOUS
  <2>2. log[t][k].order \in Announced(t) /\ log[t][k].order \in Orders
    BY <1>1, RecordAt, TopicFacts DEF Announced
  <2>3. log[t][k].order = o => status[o] = NewStatus(t)
    <3>1. PICK u \in OrderTopics : status[o] = NewStatus(u)
      BY DEF Terminal, TerminalTopics
    <3>2. o \in Announced(u)
      BY <1>1, <3>1 DEF StatusBacked
    <3> QED
      BY <1>1, <2>2, <3>1, <3>2 DEF OneOutcome, TerminalTopics
  <2> QED
    BY <1>1, <1>2, <2>1, <2>2, <2>3 DEF HandleStatus, UpdateOrderStatus, OrderTypeOK
<1>5. CASE UNCHANGED status
  BY <1>5
<1> QED
  BY <1>3, <1>4, <1>5
  DEF Next, OrderStep, OrderNext, PublishOrderPlaced, DropOrderPlaced,
      InventoryStep, PaymentStep, Rest, vars, orderVars

\* Under the same condition a status, once final, never changes again.
THEOREM FinalStatusStays == ASSUME OneLimit PROVE Spec => TerminalStatusFinal
<1>1. IInv /\ [Next]_vars =>
         [\A o \in Orders : status[o] \in Terminal => status'[o] = status[o]]_vars
  BY FinalKept
<1> QED
  BY <1>1, Invariance, PTL DEF Spec, TerminalStatusFinal

-----------------------------------------------------------------------------
(***************************************************************************)
(* The saga implements the life of an order: every step of the services,   *)
(* redeliveries and repeated publications included, is a step of           *)
(* OrderLifecycle or changes nothing of what it talks about.  Liveness is  *)
(* left to TLC.                                                            *)
(***************************************************************************)

(* What the refinement reads from the state *)

\* The phase of an order, case by case.
LEMMA PhaseFacts ==
    ASSUME NEW o \in Orders
    PROVE  IInv =>
              /\ (Phase(o) = "none") <=> (status[o] = "NONE")
              /\ (Phase(o) = "placed") <=> (status[o] # "NONE" /\ processed[o] = "NONE")
              /\ (Phase(o) = "refused") <=> (processed[o] = "REJECTED")
              /\ (Phase(o) = "returned") <=> (processed[o] = "RELEASED")
              /\ (Phase(o) = "paid") <=> /\ processed[o] = "RESERVED"
                                         /\ o \in Announced(TopicPaymentsCompleted)
              /\ (Phase(o) = "declined") <=> /\ processed[o] = "RESERVED"
                                             /\ o \notin Announced(TopicPaymentsCompleted)
                                             /\ o \in Announced(TopicPaymentsFailed)
              /\ (Phase(o) = "held") <=> /\ processed[o] = "RESERVED"
                                         /\ o \notin Announced(TopicPaymentsCompleted)
                                         /\ o \notin Announced(TopicPaymentsFailed)
<1> SUFFICES ASSUME IInv
             PROVE  /\ (Phase(o) = "none") <=> (status[o] = "NONE")
                    /\ (Phase(o) = "placed") <=>
                          (status[o] # "NONE" /\ processed[o] = "NONE")
                    /\ (Phase(o) = "refused") <=> (processed[o] = "REJECTED")
                    /\ (Phase(o) = "returned") <=> (processed[o] = "RELEASED")
                    /\ (Phase(o) = "paid") <=>
                          /\ processed[o] = "RESERVED"
                          /\ o \in Announced(TopicPaymentsCompleted)
                    /\ (Phase(o) = "declined") <=>
                          /\ processed[o] = "RESERVED"
                          /\ o \notin Announced(TopicPaymentsCompleted)
                          /\ o \in Announced(TopicPaymentsFailed)
                    /\ (Phase(o) = "held") <=>
                          /\ processed[o] = "RESERVED"
                          /\ o \notin Announced(TopicPaymentsCompleted)
                          /\ o \notin Announced(TopicPaymentsFailed)
  OBVIOUS
<1>1. processed[o] \in {"NONE", "RESERVED", "REJECTED", "RELEASED"}
  BY DEF IInv, TypeOK, InventoryTypeOK, Results
<1>2. processed[o] # "NONE" => status[o] # "NONE"
  BY DEF IInv, Backed, OrderFirst
<1> QED
  BY <1>1, <1>2 DEF Phase

\* The same after a step.
LEMMA PhaseFactsNext ==
    ASSUME NEW o \in Orders, IInv'
    PROVE  /\ status'[o] # "NONE" /\ processed'[o] = "NONE" => Phase(o)' = "placed"
           /\ processed'[o] = "REJECTED" => Phase(o)' = "refused"
           /\ processed'[o] = "RELEASED" => Phase(o)' = "returned"
           /\ /\ processed'[o] = "RESERVED"
              /\ o \in Announced(TopicPaymentsCompleted)'
              => Phase(o)' = "paid"
           /\ /\ processed'[o] = "RESERVED"
              /\ o \notin Announced(TopicPaymentsCompleted)'
              /\ o \in Announced(TopicPaymentsFailed)'
              => Phase(o)' = "declined"
           /\ /\ processed'[o] = "RESERVED"
              /\ o \notin Announced(TopicPaymentsCompleted)'
              /\ o \notin Announced(TopicPaymentsFailed)'
              => Phase(o)' = "held"
<1>1. processed'[o] # "NONE" => status'[o] # "NONE"
  BY DEF IInv, Backed, OrderFirst
<1> QED
  BY <1>1 DEF Phase

\* The phase depends on the order's own rows and on whether it is announced paid
\* or declined, and on nothing else.
SamePhase(o) ==
    /\ (status[o] = "NONE") <=> (status'[o] = "NONE")
    /\ processed'[o] = processed[o]
    /\ (o \in Announced(TopicPaymentsCompleted)) <=>
          (o \in Announced(TopicPaymentsCompleted)')
    /\ (o \in Announced(TopicPaymentsFailed)) <=>
          (o \in Announced(TopicPaymentsFailed)')

LEMMA PhaseKept ==
    ASSUME NEW o \in Orders, SamePhase(o)
    PROVE  Phase(o)' = Phase(o)
  BY DEF Phase, SamePhase

\* When the phase of every order, the orders, the stock and what is shown stay,
\* OrderLifecycle sees nothing.
LEMMA NothingSeen ==
    ASSUME \A o \in Orders : Phase(o)' = Phase(o), UNCHANGED <<items, available, status>>
    PROVE  UNCHANGED Lifecycle!lifecycleVars
<1>1. [o \in Orders |-> Phase(o)]' = [o \in Orders |-> Phase(o)]
  OBVIOUS
<1> QED
  BY <1>1 DEF Lifecycle!lifecycleVars

LEMMA OutcomeDecided == OneLimit /\ IInv => OneOutcome
  BY BackedOneOutcome

\* One order moves on, the others stay.
LEMMA OneMoves ==
    ASSUME NEW o \in Orders, NEW to, Phase(o)' = to,
           \A q \in Orders \ {o} : Phase(q)' = Phase(q)
    PROVE  Lifecycle!Move(o, Phase(o), to)
<1>1. [q \in Orders |-> Phase(q)]' = [[q \in Orders |-> Phase(q)] EXCEPT ![o] = to]
  OBVIOUS
<1> QED
  BY <1>1 DEF Lifecycle!Move

-----------------------------------------------------------------------------
(* What a reservation holds *)

\* An order whose stock was granted has a reservation for exactly its items, and
\* no other order has one: a release keeps the rows, a redelivery adds none.
ReservedAsOrdered ==
    \A o \in Orders :
        reservations[o] = IF Granted(o) THEN items[o] ELSE NoLines

LEMMA InitReservedAsOrdered == Init => ReservedAsOrdered
  BY DEF Init, OrderInit, InventoryInit, ReservedAsOrdered, Granted

\* The transaction that answers an OrderPlaced works on the items of its order.
LEMMA OrderAnswered ==
    ASSUME IInv, NEW pod \in InventoryPods, NEW k \in 1..Len(log[TopicOrdersPlaced]),
           InventoryStep(HandleOrderPlaced(pod, k))
    PROVE  /\ UNCHANGED <<log, orderVars>>
           /\ \E o \in Orders :
                 /\ o = log[TopicOrdersPlaced][k].order
                 /\ status[o] # "NONE" /\ items[o] \in Carts
                 /\ \/ UNCHANGED <<available, reserved, processed, reservations>>
                    \/ processed[o] = "NONE" /\ Reserve(o, items[o])
                    \/ processed[o] = "NONE" /\ Reject(o, items[o])
<1>1. LogTypeOK /\ PlacedBacked
  BY DEF IInv, TypeOK, Backed
<1>2. PICK e : e = log[TopicOrdersPlaced][k]
  OBVIOUS
<1>3. e \in Events(TopicOrdersPlaced) /\ e \in Published(TopicOrdersPlaced)
  BY <1>1, <1>2, RecordAt, TopicFacts
<1>4. e.order \in Orders /\ e.items \in Carts
  BY <1>3, PayloadFacts
<1>5. status[e.order] # "NONE" /\ e.items = items[e.order]
  BY <1>1, <1>3 DEF PlacedBacked
<1>6. \/ UNCHANGED <<available, reserved, processed, reservations>>
      \/ processed[e.order] = "NONE" /\ Reserve(e.order, e.items)
      \/ processed[e.order] = "NONE" /\ Reject(e.order, e.items)
  BY <1>2 DEF InventoryStep, HandleOrderPlaced, AlreadyProcessed
<1> QED
  BY <1>2, <1>4, <1>5, <1>6 DEF InventoryStep, HandleOrderPlaced

\* The transaction that answers a PaymentFailed releases a reserved order that
\* is announced as declined, or does nothing.
LEMMA FailureAnswered ==
    ASSUME IInv, NEW k \in 1..Len(log[TopicPaymentsFailed]),
           InventoryStep(HandlePaymentFailed(k))
    PROVE  /\ UNCHANGED <<log, orderVars, reservations>>
           /\ \E o \in Orders :
                 /\ o = log[TopicPaymentsFailed][k].order
                 /\ o \in Announced(TopicPaymentsFailed)
                 /\ \/ UNCHANGED <<available, reserved, processed>> /\ processed[o] # "RESERVED"
                    \/ processed[o] = "RESERVED" /\ Release(o)
<1>1. LogTypeOK
  BY DEF IInv, TypeOK
<1>2. /\ log[TopicPaymentsFailed][k].order \in Orders
      /\ log[TopicPaymentsFailed][k].order \in Announced(TopicPaymentsFailed)
  BY <1>1, RecordAt, TopicFacts DEF Announced
<1> QED
  BY <1>2 DEF InventoryStep, HandlePaymentFailed, Releasable

LEMMA NextReservedAsOrdered ==
    ASSUME IInv, ReservedAsOrdered, [Next]_vars
    PROVE  ReservedAsOrdered'
<1>1. /\ OrderFirst
      /\ status \in [Orders -> {"NONE", "PENDING", "PAID", "PAYMENT_FAILED", "REJECTED"}]
      /\ items \in [Orders -> Carts \cup {EmptyCart}]
      /\ processed \in [Orders -> Results]
      /\ reservations \in [Orders -> Carts \cup {NoLines}]
  BY DEF IInv, TypeOK, Backed, OrderTypeOK, InventoryTypeOK
<1>2. CASE \E o \in Orders, cart \in Carts : OrderStep(PlaceOrder(o, cart))
  <2> PICK o \in Orders, cart \in Carts : OrderStep(PlaceOrder(o, cart))
    BY <1>2
  <2>1. /\ processed' = processed /\ reservations' = reservations
        /\ \A q \in Orders \ {o} : items'[q] = items[q]
    BY <1>1 DEF OrderStep, PlaceOrder, inventoryVars
  <2>2. processed[o] = "NONE"
    BY <1>1 DEF OrderStep, PlaceOrder, OrderFirst
  <2> QED
    BY <2>1, <2>2 DEF ReservedAsOrdered, Granted
<1>3. CASE \E pod \in InventoryPods : \E k \in 1..Len(log[TopicOrdersPlaced]) :
              InventoryStep(HandleOrderPlaced(pod, k))
  <2>1. PICK o \in Orders :
           /\ items' = items /\ items[o] \in Carts
           /\ \/ UNCHANGED <<available, reserved, processed, reservations>>
              \/ processed[o] = "NONE" /\ Reserve(o, items[o])
              \/ processed[o] = "NONE" /\ Reject(o, items[o])
    BY <1>3, OrderAnswered DEF orderVars
  <2> QED
    BY <1>1, <2>1 DEF ReservedAsOrdered, Granted, Reserve, Reject
<1>4. CASE \E k \in 1..Len(log[TopicPaymentsFailed]) :
              InventoryStep(HandlePaymentFailed(k))
  <2>1. PICK o \in Orders :
           /\ items' = items /\ reservations' = reservations
           /\ \/ UNCHANGED <<available, processed>>
              \/ processed[o] = "RESERVED" /\ Release(o)
    BY <1>4, FailureAnswered DEF orderVars
  <2> QED
    BY <1>1, <2>1 DEF ReservedAsOrdered, Granted, Release
<1>5. CASE UNCHANGED <<items, processed, reservations>>
  BY <1>5 DEF ReservedAsOrdered, Granted
<1> QED
  BY <1>2, <1>3, <1>4, <1>5
  DEF Next, OrderStep, OrderNext, PublishOrderPlaced, DropOrderPlaced, HandleStatus,
      InventoryStep, InventoryNext, Emit, EmitFails, PaymentStep, Rest, vars, orderVars,
      inventoryVars

\* What an order holds is what it was placed with, in every behaviour.
THEOREM ReservationsMatchOrders == Spec => [](IInv /\ ReservedAsOrdered)
<1>1. Init => IInv /\ ReservedAsOrdered
  BY InitIInv, InitReservedAsOrdered
<1>2. IInv /\ ReservedAsOrdered /\ [Next]_vars => (IInv /\ ReservedAsOrdered)'
  BY NextIInv, NextReservedAsOrdered
<1> QED
  BY <1>1, <1>2, PTL DEF Spec

-----------------------------------------------------------------------------
(* The steps, one by one *)

\* The announcements of paid and declined orders after a step of the payment
\* service: one of them gets one order more.
LEMMA PaymentAnswered ==
    ASSUME IInv, NEW k \in 1..Len(log[TopicInventoryReserved]), NEW limit \in Limits,
           NEW acked \in BOOLEAN,
           PaymentStep(HandleStockReserved(k, limit, acked))
    PROVE  /\ UNCHANGED <<orderVars, inventoryVars>>
           /\ \E o \in Orders :
                 /\ o = log[TopicInventoryReserved][k].order
                 /\ o \in Announced(TopicInventoryReserved) /\ Granted(o)
                 /\ \/ /\ Announced(TopicPaymentsCompleted)' =
                             Announced(TopicPaymentsCompleted) \cup {o}
                       /\ Announced(TopicPaymentsFailed)' = Announced(TopicPaymentsFailed)
                    \/ /\ Announced(TopicPaymentsFailed)' =
                             Announced(TopicPaymentsFailed) \cup {o}
                       /\ Announced(TopicPaymentsCompleted)' =
                             Announced(TopicPaymentsCompleted)
<1>1. LogTypeOK /\ StockEventsBacked
  BY DEF IInv, TypeOK, Backed
<1>2. PICK o \in Orders :
         /\ o = log[TopicInventoryReserved][k].order
         /\ o \in Announced(TopicInventoryReserved) /\ Granted(o)
  BY <1>1, RecordAt, TopicFacts DEF StockEventsBacked, Announced
<1> DEFINE answer == [order |-> o]
<1>3. answer.order = o /\ answer \in [order : Orders]
  OBVIOUS
<1>4. faults' \in 0..MaxFaults
  BY <1>1, CostNat, Charging DEF PaymentStep, HandleStockReserved
<1>5. \/ Publish(TopicPaymentsFailed, answer)
      \/ Publish(TopicPaymentsCompleted, answer)
  BY <1>2 DEF PaymentStep, HandleStockReserved, Answer, PaymentFailed, PaymentCompleted
<1> HIDE DEF answer
<1>6. /\ answer \in Events(TopicPaymentsFailed)
      /\ answer \in Events(TopicPaymentsCompleted)
  BY <1>3, PayloadFacts
<1>7. \/ /\ Published(TopicPaymentsCompleted)' =
               Published(TopicPaymentsCompleted) \cup {answer}
         /\ Published(TopicPaymentsFailed)' = Published(TopicPaymentsFailed)
      \/ /\ Published(TopicPaymentsFailed)' = Published(TopicPaymentsFailed) \cup {answer}
         /\ Published(TopicPaymentsCompleted)' = Published(TopicPaymentsCompleted)
  BY <1>1, <1>4, <1>5, <1>6, Publishing, TopicFacts, OtherTopics
<1>8. \/ /\ Announced(TopicPaymentsCompleted)' =
               Announced(TopicPaymentsCompleted) \cup {o}
         /\ Announced(TopicPaymentsFailed)' = Announced(TopicPaymentsFailed)
      \/ /\ Announced(TopicPaymentsFailed)' = Announced(TopicPaymentsFailed) \cup {o}
         /\ Announced(TopicPaymentsCompleted)' = Announced(TopicPaymentsCompleted)
  BY <1>3, <1>7 DEF Announced
<1> QED
  BY <1>2, <1>8 DEF PaymentStep, HandleStockReserved

\* Neither an OrderPlaced nor a result of the inventory service is about payment.
LEMMA PaymentsNotAnnounced ==
    ASSUME IInv,
           \/ \E o \in Orders, acked \in BOOLEAN : OrderStep(PublishOrderPlaced(o, acked))
           \/ \E pod \in InventoryPods, acked \in BOOLEAN : InventoryStep(Emit(pod, acked))
    PROVE  /\ Announced(TopicPaymentsCompleted)' = Announced(TopicPaymentsCompleted)
           /\ Announced(TopicPaymentsFailed)' = Announced(TopicPaymentsFailed)
<1>1. DOMAIN log = Topics
  BY DEF IInv, TypeOK, LogTypeOK
<1>2. \/ UNCHANGED log
      \/ \E t \in {TopicOrdersPlaced, TopicInventoryReserved, TopicInventoryRejected} :
            \E e : Publish(t, e)
  BY DEF OrderStep, PublishOrderPlaced, InventoryStep, Emit, Announce
<1>3. /\ log'[TopicPaymentsCompleted] = log[TopicPaymentsCompleted]
      /\ log'[TopicPaymentsFailed] = log[TopicPaymentsFailed]
  BY <1>1, <1>2, TopicFacts
  DEF Publish, TopicOrdersPlaced, TopicInventoryReserved, TopicInventoryRejected,
      TopicPaymentsCompleted, TopicPaymentsFailed
<1> QED
  BY <1>3 DEF Announced, Published

LEMMA PlaceOrderLife ==
    ASSUME IInv, IInv', NEW o \in Orders, NEW cart \in Carts,
           OrderStep(PlaceOrder(o, cart))
    PROVE  Lifecycle!Place(o, cart)
<1>1. /\ status[o] = "NONE" /\ UNCHANGED <<log, available, processed>>
      /\ status' = [status EXCEPT ![o] = "PENDING"]
      /\ items' = [items EXCEPT ![o] = cart]
  BY DEF OrderStep, PlaceOrder, inventoryVars
<1>2. status \in [Orders -> {"NONE", "PENDING", "PAID", "PAYMENT_FAILED", "REJECTED"}]
  BY DEF IInv, TypeOK, OrderTypeOK
<1>3. processed[o] = "NONE"
  BY <1>1 DEF IInv, Backed, OrderFirst
<1>4. Phase(o) = "none"
  BY <1>1, PhaseFacts
<1>5. Phase(o)' = "placed"
  BY <1>1, <1>2, <1>3, PhaseFactsNext
<1>6. \A q \in Orders \ {o} : Phase(q)' = Phase(q)
  <2>1. \A q \in Orders \ {o} : SamePhase(q)
    BY <1>1, <1>2 DEF SamePhase, Announced, Published
  <2> QED
    BY <2>1, PhaseKept
<1>7. Lifecycle!Move(o, "none", "placed")
  BY <1>4, <1>5, <1>6, OneMoves
<1> QED
  BY <1>1, <1>7 DEF Lifecycle!Place

\* A handler of OrderPlaced that finds no result holds the goods or refuses the
\* order; one that finds a result changes nothing.
LEMMA HandleOrderPlacedLife ==
    ASSUME IInv, IInv', NEW pod \in InventoryPods,
           NEW k \in 1..Len(log[TopicOrdersPlaced]),
           InventoryStep(HandleOrderPlaced(pod, k))
    PROVE  \/ UNCHANGED Lifecycle!lifecycleVars
           \/ \E o \in Orders : Lifecycle!Hold(o) \/ Lifecycle!Refuse(o)
<1>1. PICK o \in Orders :
         /\ status[o] # "NONE"
         /\ \/ UNCHANGED <<available, processed>>
            \/ processed[o] = "NONE" /\ Reserve(o, items[o])
            \/ processed[o] = "NONE" /\ Reject(o, items[o])
  BY OrderAnswered
<1>2. UNCHANGED <<log, status, items>>
  BY OrderAnswered DEF orderVars
<1>3. \A t : Announced(t)' = Announced(t)
  BY <1>2 DEF Announced, Published
<1>4. /\ processed \in [Orders -> Results]
      /\ StockEventsBacked /\ PaymentsBacked
  BY DEF IInv, TypeOK, InventoryTypeOK, Backed
<1>5. CASE UNCHANGED <<available, processed>>
  <2>1. \A q \in Orders : Phase(q)' = Phase(q)
    BY <1>2, <1>3, <1>5, PhaseKept DEF SamePhase
  <2> QED
    BY <2>1, <1>2, <1>5, NothingSeen
<1>6. CASE processed[o] = "NONE" /\ (Reserve(o, items[o]) \/ Reject(o, items[o]))
  <2>1. Phase(o) = "placed"
    BY <1>1, <1>6, PhaseFacts
  <2>2. \A q \in Orders \ {o} : Phase(q)' = Phase(q)
    <3>1. \A q \in Orders \ {o} : processed'[q] = processed[q]
      BY <1>4, <1>6 DEF Reserve, Reject
    <3> QED
      BY <1>2, <1>3, <3>1, PhaseKept DEF SamePhase
\* Nothing was announced about its payment.
  <2>3. /\ o \notin Announced(TopicPaymentsCompleted)'
        /\ o \notin Announced(TopicPaymentsFailed)'
    <3>1. ~Granted(o)
      BY <1>6 DEF Granted
    <3>2. /\ o \notin Announced(TopicPaymentsCompleted)
          /\ o \notin Announced(TopicPaymentsFailed)
      BY <1>4, <3>1 DEF PaymentsBacked, Announced
    <3> QED
      BY <1>3, <3>2
  <2>4. CASE Reserve(o, items[o])
    <3>1. processed'[o] = "RESERVED"
      BY <1>4, <2>4 DEF Reserve
    <3>2. Phase(o)' = "held"
      BY <2>3, <3>1, PhaseFactsNext
    <3>3. Lifecycle!Move(o, "placed", "held")
      BY <2>1, <2>2, <3>2, OneMoves
    <3>4. Lifecycle!Hold(o)
      BY <1>2, <2>4, <3>3
      DEF Lifecycle!Hold, Lifecycle!Covers, Reserve, Sufficient, StockRows
    <3> QED
      BY <3>4
  <2>5. CASE Reject(o, items[o])
    <3>1. processed'[o] = "REJECTED"
      BY <1>4, <2>5 DEF Reject
    <3>2. Phase(o)' = "refused"
      BY <3>1, PhaseFactsNext
    <3>3. Lifecycle!Move(o, "placed", "refused")
      BY <2>1, <2>2, <3>2, OneMoves
    <3>4. Lifecycle!Refuse(o)
      BY <1>2, <2>5, <3>3
      DEF Lifecycle!Refuse, Lifecycle!Covers, Reject, Sufficient, StockRows
    <3> QED
      BY <3>4
  <2> QED
    BY <1>6, <2>4, <2>5
<1> QED
  BY <1>1, <1>5, <1>6

\* A handler of PaymentFailed that finds the order reserved gives back what the
\* order was placed with.
LEMMA HandlePaymentFailedLife ==
    ASSUME OneLimit, IInv, IInv', ReservedAsOrdered,
           NEW k \in 1..Len(log[TopicPaymentsFailed]),
           InventoryStep(HandlePaymentFailed(k))
    PROVE  \/ UNCHANGED Lifecycle!lifecycleVars
           \/ \E o \in Orders : Lifecycle!Return(o)
<1>1. PICK o \in Orders :
         /\ o \in Announced(TopicPaymentsFailed)
         /\ \/ UNCHANGED <<available, processed>>
            \/ processed[o] = "RESERVED" /\ Release(o)
  BY FailureAnswered
<1>2. UNCHANGED <<log, status, items>>
  BY FailureAnswered DEF orderVars
<1>3. \A t : Announced(t)' = Announced(t)
  BY <1>2 DEF Announced, Published
<1>4. CASE UNCHANGED <<available, processed>>
  <2>1. \A q \in Orders : Phase(q)' = Phase(q)
    BY <1>2, <1>3, <1>4, PhaseKept DEF SamePhase
  <2> QED
    BY <2>1, <1>2, <1>4, NothingSeen
<1>5. CASE processed[o] = "RESERVED" /\ Release(o)
  <2>1. processed \in [Orders -> Results]
    BY DEF IInv, TypeOK, InventoryTypeOK
  <2>2. o \notin Announced(TopicPaymentsCompleted)
    BY <1>1, BackedOneOutcome, OtherTopics DEF OneOutcome, TerminalTopics
  <2>3. Phase(o) = "declined"
    BY <1>1, <1>5, <2>2, PhaseFacts
  <2>4. processed' = [processed EXCEPT ![o] = "RELEASED"]
    BY <1>5 DEF Release
  <2>5. Phase(o)' = "returned"
    BY <2>1, <2>4, PhaseFactsNext
  <2>6. \A q \in Orders \ {o} : Phase(q)' = Phase(q)
    BY <1>2, <1>3, <2>1, <2>4, PhaseKept DEF SamePhase
  <2>7. Lifecycle!Move(o, "declined", "returned")
    BY <2>3, <2>5, <2>6, OneMoves
  <2>8. available' = [p \in DOMAIN InitialStock |-> available[p] + items[o][p]]
    BY <1>5 DEF Release, StockRows, ReservedAsOrdered, Granted
  <2>9. Lifecycle!Return(o)
    BY <1>2, <2>7, <2>8 DEF Lifecycle!Return
  <2> QED
    BY <2>9
<1> QED
  BY <1>1, <1>4, <1>5

\* The first answer of the payment service settles the order; it can repeat it,
\* also when the stock has been given back, but not change it.
LEMMA HandleStockReservedLife ==
    ASSUME OneLimit, IInv, IInv',
           NEW k \in 1..Len(log[TopicInventoryReserved]), NEW limit \in Limits,
           NEW acked \in BOOLEAN,
           PaymentStep(HandleStockReserved(k, limit, acked))
    PROVE  \/ UNCHANGED Lifecycle!lifecycleVars
           \/ \E o \in Orders : Lifecycle!Settle(o)
<1> DEFINE C == Announced(TopicPaymentsCompleted)
           F == Announced(TopicPaymentsFailed)
<1>1. PICK o \in Orders :
         /\ Granted(o)
         /\ \/ C' = C \cup {o} /\ F' = F
            \/ F' = F \cup {o} /\ C' = C
  BY PaymentAnswered
<1>2. UNCHANGED <<status, items, available, processed>>
  BY PaymentAnswered DEF orderVars, inventoryVars
<1>3. o \notin C \cap F /\ o \notin C' \cap F'
  <2>1. OneOutcome
    BY BackedOneOutcome
  <2>2. OneOutcome'
    <3>1. (OneLimit /\ IInv => OneOutcome)'
      BY OutcomeDecided, PTL
    <3> QED
      BY <3>1
  <2> QED
    BY <2>1, <2>2, OtherTopics DEF OneOutcome, TerminalTopics
<1>4. \A q \in Orders \ {o} : Phase(q)' = Phase(q)
  BY <1>1, <1>2, PhaseKept DEF SamePhase
<1>5. CASE (C' = C /\ F' = F) \/ processed[o] = "RELEASED"
  <2>1. Phase(o)' = Phase(o)
    BY <1>2, <1>5 DEF Phase
  <2> QED
    BY <1>2, <1>4, <2>1, NothingSeen
<1>6. CASE ~(C' = C /\ F' = F) /\ processed[o] # "RELEASED"
  <2>1. processed[o] = "RESERVED" /\ processed'[o] = "RESERVED"
    BY <1>1, <1>2, <1>6 DEF Granted
  <2>2. o \notin C /\ o \notin F
    BY <1>1, <1>3, <1>6
  <2>3. Phase(o) = "held"
    BY <2>1, <2>2, PhaseFacts
  <2>4. o \in C' \/ (o \in F' /\ o \notin C')
    BY <1>1, <1>6, <2>2
  <2>5. Phase(o)' \in {"paid", "declined"}
    BY <2>1, <2>4, PhaseFactsNext
  <2>6. Lifecycle!Move(o, "held", "paid") \/ Lifecycle!Move(o, "held", "declined")
    BY <1>4, <2>3, <2>5, OneMoves
  <2>7. Lifecycle!Settle(o)
    BY <1>2, <2>6 DEF Lifecycle!Settle
  <2> QED
    BY <2>7
<1> QED
  BY <1>5, <1>6

\* The first terminal event the order service handles is shown to the customer;
\* every later one says the same.
LEMMA HandleStatusLife ==
    ASSUME OneLimit, IInv, NEW t \in OrderTopics, NEW k \in 1..Len(log[t]),
           OrderStep(HandleStatus(t, k))
    PROVE  \/ UNCHANGED Lifecycle!lifecycleVars
           \/ \E o \in Orders : Lifecycle!Show(o)
<1>1. /\ LogTypeOK /\ OrderFirst /\ StatusBacked /\ StockEventsBacked /\ PaymentsBacked
      /\ status \in [Orders -> {"NONE", "PENDING", "PAID", "PAYMENT_FAILED", "REJECTED"}]
      /\ processed \in [Orders -> Results]
  BY DEF IInv, TypeOK, OrderTypeOK, InventoryTypeOK, Backed
<1>2. OneOutcome
  BY BackedOneOutcome
<1>3. PICK o \in Orders : o = log[t][k].order /\ o \in Announced(t)
  BY <1>1, RecordAt, TopicFacts DEF Announced
\* The order of a terminal event exists, and the inventory service has answered.
<1>4. /\ t = TopicInventoryRejected => processed[o] = "REJECTED"
      /\ t # TopicInventoryRejected => Granted(o)
  BY <1>1, <1>3, StatusFacts DEF StockEventsBacked, PaymentsBacked, Announced
<1>5. status[o] # "NONE" /\ processed[o] # "NONE"
  BY <1>1, <1>4 DEF OrderFirst, Granted
<1>6. /\ UNCHANGED <<log, items, available, processed>>
      /\ status' = [status EXCEPT ![o] = NewStatus(t)]
  BY <1>3, <1>5 DEF OrderStep, HandleStatus, UpdateOrderStatus, inventoryVars
<1>7. NewStatus(t) \in {"PAID", "PAYMENT_FAILED", "REJECTED"}
  BY StatusFacts
<1>8. \A q \in Orders : Phase(q)' = Phase(q)
  <2>1. \A q \in Orders : SamePhase(q)
    BY <1>1, <1>5, <1>6, <1>7 DEF SamePhase, Announced, Published
  <2> QED
    BY <2>1, PhaseKept
<1>9. CASE status[o] # "PENDING"
  <2>1. \E u \in OrderTopics : status[o] = NewStatus(u)
    BY <1>1, <1>5, <1>9, StatusFacts
  <2>2. status[o] = NewStatus(t)
    BY <2>1, <1>1, <1>2, <1>3 DEF StatusBacked, OneOutcome, TerminalTopics
  <2>3. status' = status
    BY <1>1, <1>6, <2>2
  <2> QED
    BY <1>6, <1>8, <2>3, NothingSeen
<1>10. CASE status[o] = "PENDING"
  <2>1. /\ Phase(o) \in DOMAIN Lifecycle!Outcome
        /\ Lifecycle!Outcome[Phase(o)] = NewStatus(t)
    <3>1. CASE t = TopicInventoryRejected
      <4>1. Phase(o) = "refused"
        BY <1>4, <3>1, PhaseFacts
      <4> QED
        BY <3>1, <4>1, StatusFacts DEF Lifecycle!Outcome
    <3>2. CASE t = TopicPaymentsCompleted
      <4>1. o \notin Announced(TopicPaymentsFailed)
        BY <1>2, <1>3, <3>2, OtherTopics DEF OneOutcome, TerminalTopics
      <4>2. processed[o] = "RESERVED"
        BY <1>1, <1>4, <3>2, <4>1, OtherTopics DEF Granted, StatusBacked
      <4>3. Phase(o) = "paid"
        BY <1>3, <3>2, <4>2, PhaseFacts
      <4> QED
        BY <3>2, <4>3, StatusFacts DEF Lifecycle!Outcome
    <3>3. CASE t = TopicPaymentsFailed
      <4>1. o \notin Announced(TopicPaymentsCompleted)
        BY <1>2, <1>3, <3>3, OtherTopics DEF OneOutcome, TerminalTopics
      <4>2. processed[o] \in {"RESERVED", "RELEASED"}
        BY <1>4, <3>3, OtherTopics DEF Granted
      <4>3. Phase(o) \in {"declined", "returned"}
        BY <1>3, <3>3, <4>1, <4>2, PhaseFacts
      <4> QED
        BY <3>3, <4>3, StatusFacts DEF Lifecycle!Outcome
    <3> QED
      BY <3>1, <3>2, <3>3, StatusFacts
  <2>2. [q \in Orders |-> Phase(q)]' = [q \in Orders |-> Phase(q)]
    BY <1>8
  <2>3. UNCHANGED <<[q \in Orders |-> Phase(q)], items, available>>
    BY <1>6, <2>2
  <2>4. Lifecycle!Show(o)
    BY <1>6, <1>10, <2>1, <2>3 DEF Lifecycle!Show
  <2> QED
    BY <2>4
<1> QED
  BY <1>9, <1>10

\* Publishing, announcing and giving up on it are not seen.
LEMMA PublishingUnseen ==
    ASSUME IInv,
           \/ \E o \in Orders, acked \in BOOLEAN : OrderStep(PublishOrderPlaced(o, acked))
           \/ \E o \in Orders : OrderStep(DropOrderPlaced(o))
           \/ \E pod \in InventoryPods, acked \in BOOLEAN : InventoryStep(Emit(pod, acked))
           \/ \E pod \in InventoryPods : InventoryStep(EmitFails(pod))
    PROVE  UNCHANGED Lifecycle!lifecycleVars
<1>1. UNCHANGED <<status, items, available, processed>>
  BY DEF OrderStep, PublishOrderPlaced, DropOrderPlaced, InventoryStep, Emit, EmitFails,
         orderVars, inventoryVars
<1>2. /\ Announced(TopicPaymentsCompleted)' = Announced(TopicPaymentsCompleted)
      /\ Announced(TopicPaymentsFailed)' = Announced(TopicPaymentsFailed)
  <2>1. CASE UNCHANGED log
    BY <2>1 DEF Announced, Published
  <2> QED
    BY <2>1, PaymentsNotAnnounced
    DEF OrderStep, DropOrderPlaced, InventoryStep, EmitFails
<1>3. \A q \in Orders : Phase(q)' = Phase(q)
  BY <1>1, <1>2, PhaseKept DEF SamePhase
<1> QED
  BY <1>1, <1>3, NothingSeen

LEMMA InitLife == Init => Lifecycle!Init
<1> SUFFICES ASSUME Init PROVE Lifecycle!Init
  OBVIOUS
<1>1. \A o \in Orders : Phase(o) = "none"
  BY InitIInv, PhaseFacts DEF Init, OrderInit
<1>2. [o \in Orders |-> Phase(o)] = [o \in Orders |-> "none"]
  BY <1>1
<1> QED
  BY <1>2 DEF Init, OrderInit, InventoryInit, EmptyCart, Lifecycle!Init

LEMMA NextLife ==
    OneLimit /\ IInv /\ IInv' /\ ReservedAsOrdered /\ [Next]_vars
       => [Lifecycle!Next]_Lifecycle!lifecycleVars
<1> SUFFICES ASSUME OneLimit, IInv, IInv', ReservedAsOrdered, [Next]_vars
             PROVE  Lifecycle!Next \/ UNCHANGED Lifecycle!lifecycleVars
  OBVIOUS
<1> USE DEF Lifecycle!Next
<1>1. CASE OrderStep(OrderNext)
  <2>1. \/ \E o \in Orders, cart \in Carts : OrderStep(PlaceOrder(o, cart))
        \/ \E o \in Orders, acked \in BOOLEAN : OrderStep(PublishOrderPlaced(o, acked))
        \/ \E o \in Orders : OrderStep(DropOrderPlaced(o))
        \/ \E t \in OrderTopics : \E k \in 1..Len(log[t]) : OrderStep(HandleStatus(t, k))
    BY <1>1 DEF OrderStep, OrderNext
  <2> QED
    BY <2>1, PlaceOrderLife, PublishingUnseen, HandleStatusLife
<1>2. CASE InventoryStep(InventoryNext)
  <2>1. \/ \E pod \in InventoryPods :
              \/ \E k \in 1..Len(log[TopicOrdersPlaced]) :
                    InventoryStep(HandleOrderPlaced(pod, k))
              \/ \E acked \in BOOLEAN : InventoryStep(Emit(pod, acked))
              \/ InventoryStep(EmitFails(pod))
        \/ \E k \in 1..Len(log[TopicPaymentsFailed]) :
              InventoryStep(HandlePaymentFailed(k))
    BY <1>2 DEF InventoryStep, InventoryNext
  <2> QED
    BY <2>1, HandleOrderPlacedLife, PublishingUnseen, HandlePaymentFailedLife
<1>3. CASE PaymentStep(PaymentNext)
  <2>1. \E k \in 1..Len(log[TopicInventoryReserved]), limit \in Limits,
           acked \in BOOLEAN : PaymentStep(HandleStockReserved(k, limit, acked))
    BY <1>3 DEF PaymentStep, PaymentNext
  <2> QED
    BY <2>1, HandleStockReservedLife
<1>4. CASE Rest \/ UNCHANGED vars
  <2>1. UNCHANGED <<log, status, items, available, processed>>
    BY <1>4 DEF Rest, vars, orderVars, inventoryVars
  <2>2. \A q \in Orders : Phase(q)' = Phase(q)
    BY <2>1, PhaseKept DEF SamePhase, Announced, Published
  <2> QED
    BY <2>1, <2>2, NothingSeen
<1> QED
  BY <1>1, <1>2, <1>3, <1>4 DEF Next

\* As long as the payment pods agree on their limit, the three services and the
\* log implement the life of an order: stock is held or refused once, a payment
\* is settled once, what is declined goes back once, and the outcome is shown.
THEOREM ImplementsLifecycle == ASSUME OneLimit PROVE Spec => Lifecycle!SafeSpec
<1>1. IInv /\ IInv' /\ ReservedAsOrdered /\ [Next]_vars
         => [Lifecycle!Next]_Lifecycle!lifecycleVars
  BY NextLife
<1> QED
  BY InitLife, <1>1, ReservationsMatchOrders, PTL DEF Spec, Lifecycle!SafeSpec

-----------------------------------------------------------------------------
(* What no step takes away *)

\* The log only grows: the records stay where they are, and what is announced
\* stays announced.
LEMMA LogKept ==
    ASSUME IInv, IInv', [Next]_vars, NEW t \in Topics
    PROVE  /\ Len(log[t]) \in Nat /\ Len(log'[t]) \in Nat
           /\ Len(log[t]) <= Len(log'[t])
           /\ \A k \in 1..Len(log[t]) : log'[t][k] = log[t][k]
           /\ Announced(t) \subseteq Announced(t)'
<1>1. /\ DOMAIN log = Topics
      /\ log[t] \in Seq(Events(t)) /\ log'[t] \in Seq(Events(t))
  BY DEF IInv, TypeOK, LogTypeOK
<1>2. \/ UNCHANGED log
      \/ \E u \in Topics : \E e : Publish(u, e)
  BY TopicFacts
  DEF Next, OrderStep, OrderNext, PlaceOrder, PublishOrderPlaced, DropOrderPlaced,
      HandleStatus, InventoryStep, InventoryNext, HandleOrderPlaced, Emit, EmitFails,
      Announce, HandlePaymentFailed, PaymentStep, PaymentNext, HandleStockReserved,
      Answer, Rest, vars
<1>3. \/ log'[t] = log[t]
      \/ \E e : log'[t] = Append(log[t], e)
  BY <1>1, <1>2 DEF Publish
<1>4. /\ Len(log[t]) \in Nat /\ Len(log'[t]) \in Nat
      /\ DOMAIN log[t] = 1..Len(log[t]) /\ DOMAIN log'[t] = 1..Len(log'[t])
      /\ Len(log[t]) <= Len(log'[t])
      /\ \A k \in 1..Len(log[t]) : log'[t][k] = log[t][k]
  BY <1>1, <1>3
<1>5. Published(t) \subseteq Published(t)'
  <2>1. \A k \in DOMAIN log[t] : k \in DOMAIN log'[t] /\ log'[t][k] = log[t][k]
    BY <1>4
  <2> QED
    BY <2>1 DEF Published, Range
<1> QED
  BY <1>4, <1>5 DEF Announced

\* A result is never taken back, and a release is the only change it can see.
LEMMA RowsKept ==
    ASSUME IInv, [Next]_vars, NEW o \in Orders
    PROVE  /\ processed[o] # "NONE" => processed'[o] # "NONE"
           /\ processed[o] = "REJECTED" <=> /\ processed[o] # "NONE"
                                            /\ processed'[o] = "REJECTED"
           /\ processed[o] = "RELEASED" => processed'[o] = "RELEASED"
<1>1. processed \in [Orders -> Results]
  BY DEF IInv, TypeOK, InventoryTypeOK
<1>2. CASE \E pod \in InventoryPods : \E k \in 1..Len(log[TopicOrdersPlaced]) :
              InventoryStep(HandleOrderPlaced(pod, k))
  <2>1. \E q \in Orders :
           \/ UNCHANGED processed
           \/ processed[q] = "NONE" /\ processed' = [processed EXCEPT ![q] = "RESERVED"]
           \/ processed[q] = "NONE" /\ processed' = [processed EXCEPT ![q] = "REJECTED"]
    BY <1>2, OrderAnswered DEF Reserve, Reject
  <2> QED
    BY <1>1, <2>1
<1>3. CASE \E k \in 1..Len(log[TopicPaymentsFailed]) :
              InventoryStep(HandlePaymentFailed(k))
  <2>1. \E q \in Orders :
           \/ UNCHANGED processed
           \/ processed[q] = "RESERVED" /\ processed' = [processed EXCEPT ![q] = "RELEASED"]
    BY <1>3, FailureAnswered DEF Release
  <2> QED
    BY <1>1, <2>1
<1>4. CASE UNCHANGED processed
  BY <1>4
<1> QED
  BY <1>2, <1>3, <1>4
  DEF Next, OrderStep, InventoryStep, InventoryNext, Emit, EmitFails, PaymentStep, Rest,
      vars, inventoryVars

-----------------------------------------------------------------------------
(* Sources *)

LEMMA NextSources ==
    ASSUME IInv, IInv', Sources, [Next]_vars
    PROVE  Sources'
<1>1. \A t \in Topics : Announced(t) \subseteq Announced(t)'
  BY LogKept
<1>2. \A o \in Orders : processed'[o] # "NONE" => o \in Announced(TopicOrdersPlaced)'
  <2> SUFFICES ASSUME NEW o \in Orders, processed'[o] # "NONE"
               PROVE  o \in Announced(TopicOrdersPlaced)'
    OBVIOUS
  <2>1. CASE processed[o] # "NONE"
    BY <1>1, <2>1, TopicFacts DEF Sources
  <2>2. CASE processed[o] = "NONE"
    <3>1. \A k \in 1..Len(log[TopicOrdersPlaced]) :
             log[TopicOrdersPlaced][k].order \in Announced(TopicOrdersPlaced)
      BY RecordAt, TopicFacts DEF IInv, TypeOK, Announced
    <3>2. processed \in [Orders -> Results]
      BY DEF IInv, TypeOK, InventoryTypeOK
    <3>3. CASE \E pod \in InventoryPods : \E k \in 1..Len(log[TopicOrdersPlaced]) :
                  InventoryStep(HandleOrderPlaced(pod, k))
      <4> PICK pod \in InventoryPods, k \in 1..Len(log[TopicOrdersPlaced]) :
                  InventoryStep(HandleOrderPlaced(pod, k))
        BY <3>3
      <4>1. processed' = processed \/ processed' =
               [processed EXCEPT ![log[TopicOrdersPlaced][k].order] = "RESERVED"]
            \/ processed' =
               [processed EXCEPT ![log[TopicOrdersPlaced][k].order] = "REJECTED"]
        BY DEF InventoryStep, HandleOrderPlaced, Reserve, Reject
      <4>2. o = log[TopicOrdersPlaced][k].order
        BY <2>2, <3>2, <4>1
      <4> QED
        BY <1>1, <3>1, <4>2, TopicFacts
    <3>4. CASE \E k \in 1..Len(log[TopicPaymentsFailed]) :
                  InventoryStep(HandlePaymentFailed(k))
      <4>1. \E q \in Orders :
               \/ UNCHANGED processed
               \/ /\ processed[q] = "RESERVED"
                  /\ processed' = [processed EXCEPT ![q] = "RELEASED"]
        BY <3>4, FailureAnswered DEF Release
      <4> QED
        BY <2>2, <3>2, <4>1
    <3> QED
      BY <2>2, <3>3, <3>4
      DEF Next, OrderStep, InventoryStep, InventoryNext, Emit, EmitFails, PaymentStep,
          Rest, vars, inventoryVars
  <2> QED
    BY <2>1, <2>2
<1>3. Announced(TopicPaymentsCompleted)' \cup Announced(TopicPaymentsFailed)'
         \subseteq Announced(TopicInventoryReserved)'
  <2>1. CASE PaymentStep(PaymentNext)
    BY <1>1, <2>1, PaymentAnswered, TopicFacts DEF Sources, PaymentStep, PaymentNext
  <2>2. CASE \/ \E o \in Orders, acked \in BOOLEAN : OrderStep(PublishOrderPlaced(o, acked))
             \/ \E pod \in InventoryPods, acked \in BOOLEAN :
                   InventoryStep(Emit(pod, acked))
    BY <1>1, <2>2, PaymentsNotAnnounced, TopicFacts DEF Sources
  <2>3. CASE UNCHANGED log
    BY <2>3 DEF Sources, Announced, Published
  <2> QED
    BY <2>1, <2>2, <2>3
    DEF Next, OrderStep, OrderNext, PlaceOrder, DropOrderPlaced, HandleStatus,
        InventoryStep, InventoryNext, HandleOrderPlaced, EmitFails, HandlePaymentFailed,
        Rest, vars
<1> QED
  BY <1>2, <1>3 DEF Sources

-----------------------------------------------------------------------------
(* Results on their way *)

\* A group that has handled the next record, or one before it, has handled
\* nothing else.
LEMMA OneHandled ==
    ASSUME NEW topics, NEW h \in [topics -> Nat], NEW t \in topics,
           NEW k \in Nat \ {0}, k <= h[t] + 1, NEW u \in topics
    PROVE  /\ Handle(h, t, k)[u] \in Nat /\ h[u] <= Handle(h, t, k)[u]
           /\ \A i \in 1..Handle(h, t, k)[u] : i \in 1..h[u] \/ (u = t /\ i = k)
<1>1. Handle(h, t, k)[u] = IF u = t /\ k > h[t] THEN k ELSE h[u]
  BY DEF Handle
<1> QED
  BY <1>1

LEMMA NextEmissionsFollow ==
    ASSUME IInv, IInv', EmissionsFollow, [Next]_vars
    PROVE  EmissionsFollow'
<1> DEFINE L == log[TopicOrdersPlaced]
           n == inventoryHandled[TopicOrdersPlaced]
<1>1. /\ emitting \in [InventoryPods -> {Idle} \cup Emissions]
      /\ \A pod \in InventoryPods : emitting[pod].offset <= Len(L)
      /\ \A k \in 1..Len(L) : L[k].order \in Orders
      /\ inventoryHandled \in [InventoryTopics -> Nat]
      /\ TopicOrdersPlaced \in InventoryTopics
  BY RecordAt, TopicFacts
  DEF IInv, TypeOK, InventoryTypeOK, PositionsOK, InventoryTopics
<1>2. /\ Len(L) \in Nat /\ \A k \in 1..Len(L) : L'[k] = L[k]
  BY LogKept, TopicFacts
<1> SUFFICES ASSUME NEW pod \in InventoryPods, NEW e, e = emitting'[pod], e # Idle
             PROVE  /\ e.offset <= n' + 1
                    /\ e.order = L'[e.offset].order
                    /\ e.result = "RELEASED" => processed'[e.order] = "RELEASED"
  BY DEF EmissionsFollow, Idle
\* A result that was already on its way.
<1>3. ASSUME e = emitting[pod], n' \in Nat, n <= n'
      PROVE  /\ e.offset <= n' + 1
             /\ e.order = L'[e.offset].order
             /\ e.result = "RELEASED" => processed'[e.order] = "RELEASED"
  <2>1. e \in Emissions /\ e.offset \in 1..Len(L) /\ e.order \in Orders
    BY <1>1, <1>2, <1>3 DEF Emissions
  <2>2. /\ e.offset <= n + 1 /\ e.order = L[e.offset].order
        /\ e.result = "RELEASED" => processed[e.order] = "RELEASED"
    BY <1>3 DEF EmissionsFollow
  <2>3. n \in Nat /\ e.offset \in Nat
    BY <1>1, <2>1
  <2>4. e.order = L'[e.offset].order
    BY <1>2, <2>1, <2>2
  <2>5. e.result = "RELEASED" => processed'[e.order] = "RELEASED"
    BY <2>1, <2>2, RowsKept
  <2>6. e.offset <= n' + 1
    <3> HIDE DEF n
    <3> QED
      BY <1>3, <2>2, <2>3
  <2> QED
    BY <2>4, <2>5, <2>6
<1>4. CASE \E q \in InventoryPods : \E k \in 1..Len(L) :
              InventoryStep(HandleOrderPlaced(q, k))
  <2> PICK q \in InventoryPods, k \in 1..Len(L) : InventoryStep(HandleOrderPlaced(q, k))
    BY <1>4
  <2>1. /\ emitting' = [emitting EXCEPT ![q] = Emission(k, L[k], processed'[L[k].order])]
        /\ UNCHANGED <<log, inventoryHandled>> /\ k <= n + 1
    BY DEF InventoryStep, HandleOrderPlaced, Deliverable
  <2>2. CASE pod = q
    <3>1. e = Emission(k, L[k], processed'[L[k].order])
      BY <1>1, <2>1, <2>2
    <3>2. e.offset = k /\ e.order = L[k].order /\ e.result = processed'[L[k].order]
      BY <3>1 DEF Emission
    <3> QED
      BY <2>1, <3>2
  <2>3. CASE pod # q
    <3>1. e = emitting[pod] /\ n' = n /\ n \in Nat
      BY <1>1, <2>1, <2>3
    <3> HIDE DEF n
    <3>2. n' \in Nat /\ n <= n'
      BY <3>1
    <3> QED
      BY <1>3, <3>1, <3>2
  <2> QED
    BY <2>2, <2>3
<1>5. CASE \E q \in InventoryPods : \E acked \in BOOLEAN : InventoryStep(Emit(q, acked))
  <2> PICK q \in InventoryPods, acked \in BOOLEAN : InventoryStep(Emit(q, acked))
    BY <1>5
  <2>1. e = emitting[pod]
    BY <1>1 DEF InventoryStep, Emit
  <2>2. /\ emitting[q].offset \in Nat \ {0}
        /\ emitting[q].offset <= inventoryHandled[TopicOrdersPlaced] + 1
    BY <1>1 DEF InventoryStep, Emit, EmissionsFollow, Emissions
  <2>3. \/ inventoryHandled' = inventoryHandled
        \/ inventoryHandled' =
              Handle(inventoryHandled, TopicOrdersPlaced, emitting[q].offset)
    BY DEF InventoryStep, Emit
  <2>4. n' \in Nat /\ n <= n'
    BY <1>1, <2>2, <2>3, OneHandled
  <2> QED
    BY <1>3, <2>1, <2>4
<1>6. CASE \E k \in 1..Len(log[TopicPaymentsFailed]) :
              InventoryStep(HandlePaymentFailed(k))
  <2>1. e = emitting[pod]
    BY <1>6 DEF InventoryStep, HandlePaymentFailed
  <2>2. n' = n
    BY <1>1, <1>6
    DEF InventoryStep, HandlePaymentFailed, Handle, TopicPaymentsFailed, TopicOrdersPlaced
  <2>3. n' \in Nat /\ n <= n'
    BY <1>1, <2>2
  <2> QED
    BY <1>3, <2>1, <2>3
<1>7. CASE /\ inventoryHandled' = inventoryHandled
           /\ \A q \in InventoryPods : emitting'[q] \in {emitting[q], Idle}
  <2>1. e = emitting[pod] /\ n' = n
    BY <1>7
  <2>2. n' \in Nat /\ n <= n'
    BY <1>1, <2>1
  <2> QED
    BY <1>3, <2>1, <2>2
<1>8. CASE \E q \in InventoryPods : InventoryStep(EmitFails(q))
  <2>1. /\ inventoryHandled' = inventoryHandled
        /\ \A q \in InventoryPods : emitting'[q] \in {emitting[q], Idle}
    BY <1>1, <1>8 DEF InventoryStep, EmitFails
  <2> QED
    BY <1>7, <2>1
<1>9. CASE UNCHANGED <<inventoryHandled, emitting>>
  BY <1>7, <1>9
<1> QED
  BY <1>4, <1>5, <1>6, <1>8, <1>9
  DEF Next, OrderStep, InventoryStep, InventoryNext, PaymentStep, Rest, vars,
      inventoryVars

-----------------------------------------------------------------------------
(* What has been handled stays done *)

LEMMA AnsweredKept ==
    ASSUME IInv, IInv', [Next]_vars, NEW o \in Orders, Answered(o)
    PROVE  Answered(o)'
<1>1. /\ processed[o] \in Results /\ processed'[o] \in Results
  BY DEF IInv, TypeOK, InventoryTypeOK
<1>2. /\ processed'[o] # "NONE"
      /\ processed[o] = "REJECTED" <=> processed'[o] = "REJECTED"
  BY RowsKept DEF Answered
<1>3. Granted(o)' => Granted(o)
  BY <1>1, <1>2 DEF Granted, Answered, Results
<1>4. /\ Announced(TopicInventoryReserved) \subseteq Announced(TopicInventoryReserved)'
      /\ Announced(TopicInventoryRejected) \subseteq Announced(TopicInventoryRejected)'
  BY LogKept, TopicFacts
<1> QED
  BY <1>2, <1>3, <1>4 DEF Answered

\* The result of a pod that has been told its publication arrived is announced.
LEMMA EmittedAnswered ==
    ASSUME IInv, IInv', Sources, EmissionsFollow, NEW pod \in InventoryPods,
           InventoryStep(Emit(pod, TRUE))
    PROVE  \E o \in Orders : o = emitting[pod].order /\ Answered(o)'
<1>1. PICK e \in Emissions : e = emitting[pod]
  BY DEF IInv, TypeOK, InventoryTypeOK, InventoryStep, Emit
<1>2. /\ e.order \in Orders /\ e.total \in Nat
      /\ Supported(e) /\ Announce(e) /\ processed' = processed
      /\ e.result = "RELEASED" => processed[e.order] = "RELEASED"
  BY <1>1
  DEF IInv, Backed, ResultBacked, InventoryStep, Emit, EmissionsFollow, Emissions
<1> PICK o \in Orders : o = e.order
  BY <1>2
<1>3. LogTypeOK /\ faults' \in 0..MaxFaults
  BY DEF IInv, TypeOK, LogTypeOK
<1>4. \A t \in Topics : Announced(t) \subseteq Announced(t)'
  <2>1. [Next]_vars
    BY DEF Next, InventoryStep, InventoryNext
  <2> QED
    BY <2>1, LogKept
<1>5. CASE e.result = "RESERVED"
  <2>1. StockReserved(e.order, e.total) \in [order : Orders, total : Nat]
    BY <1>2 DEF StockReserved
  <2>2. StockReserved(e.order, e.total) \in Events(TopicInventoryReserved)
    BY <2>1, PayloadFacts, Zenon
  <2>3. StockReserved(e.order, e.total) \in Published(TopicInventoryReserved)'
    BY <1>2, <1>3, <1>5, <2>2, Publishing, TopicFacts DEF Announce
  <2>4. o \in Announced(TopicInventoryReserved)'
    BY <2>3 DEF Announced, StockReserved
  <2> QED
    BY <1>1, <1>2, <1>5, <2>4 DEF Answered, Supported, Granted
<1>6. CASE e.result = "REJECTED"
  <2>1. StockRejected(e.order) \in [order : Orders]
    BY <1>2 DEF StockRejected
  <2>2. StockRejected(e.order) \in Events(TopicInventoryRejected)
    BY <2>1, PayloadFacts, Zenon
  <2>3. StockRejected(e.order) \in Published(TopicInventoryRejected)'
    BY <1>2, <1>3, <1>6, <2>2, Publishing, TopicFacts DEF Announce
  <2>4. o \in Announced(TopicInventoryRejected)'
    BY <2>3 DEF Announced, StockRejected
  <2> QED
    BY <1>1, <1>2, <1>6, <2>4 DEF Answered, Supported, Granted
\* A released order was announced as reserved before its payment could fail.
<1>7. CASE e.result = "RELEASED"
  <2>1. processed[o] = "RELEASED"
    BY <1>2, <1>7
  <2>2. o \in Announced(TopicPaymentsFailed)
    BY <1>2, <2>1 DEF IInv, Backed, StatusBacked
  <2>3. o \in Announced(TopicInventoryReserved)'
    BY <1>4, <2>2, TopicFacts DEF Sources
  <2> QED
    BY <1>1, <1>2, <2>1, <2>3 DEF Answered
<1> QED
  BY <1>2, <1>5, <1>6, <1>7 DEF Announce

\* The group "inventory" moves past an OrderPlaced when its order is answered.
LEMMA StockStaysAnswered ==
    ASSUME IInv, IInv', RestInv, [Next]_vars,
           NEW k \in 1..inventoryHandled'[TopicOrdersPlaced]
    PROVE  \E o \in Orders : o = log'[TopicOrdersPlaced][k].order /\ Answered(o)'
<1> DEFINE L == log[TopicOrdersPlaced]
           n == inventoryHandled[TopicOrdersPlaced]
<1>1. /\ inventoryHandled \in [InventoryTopics -> Nat]
      /\ TopicOrdersPlaced \in InventoryTopics
      /\ n \in Nat /\ n <= Len(L)
      /\ \A i \in 1..Len(L) : L[i].order \in Orders
  BY RecordAt, TopicFacts
  DEF IInv, TypeOK, InventoryTypeOK, PositionsOK, InventoryTopics
<1>2. /\ Len(L) \in Nat /\ \A i \in 1..Len(L) : L'[i] = L[i]
  BY LogKept, TopicFacts
<1>3. ASSUME k \in 1..n
      PROVE  \E o \in Orders : o = L'[k].order /\ Answered(o)'
  <2>1. k \in 1..Len(L)
    BY <1>1, <1>2, <1>3
  <2>2. Answered(L[k].order)
    BY <1>3 DEF RestInv, HandledDone
  <2>3. PICK o \in Orders : o = L[k].order /\ Answered(o)
    BY <1>1, <2>1, <2>2
  <2>4. Answered(o)'
    BY <2>3, AnsweredKept
  <2> QED
    BY <1>2, <2>1, <2>3, <2>4
<1>4. CASE \E q \in InventoryPods : \E acked \in BOOLEAN : InventoryStep(Emit(q, acked))
  <2> PICK q \in InventoryPods, acked \in BOOLEAN : InventoryStep(Emit(q, acked))
    BY <1>4
  <2>1. CASE acked
    <3>1. PICK e \in Emissions :
             /\ e = emitting[q] /\ e.offset \in 1..Len(L)
             /\ e.offset <= n + 1 /\ e.order = L[e.offset].order
      BY <1>1, <1>2
      DEF IInv, TypeOK, InventoryTypeOK, InventoryStep, Emit, RestInv, EmissionsFollow,
          Emissions
    <3>2. e.order \in Orders /\ e.offset \in Nat \ {0}
      BY DEF Emissions
    <3>3. PICK o \in Orders : o = e.order /\ Answered(o)'
      <4>1. InventoryStep(Emit(q, TRUE))
        BY <2>1
      <4> QED
        BY <3>1, <4>1, EmittedAnswered DEF RestInv
    <3>4. inventoryHandled' = Handle(inventoryHandled, TopicOrdersPlaced, e.offset)
      BY <2>1, <3>1 DEF InventoryStep, Emit
    <3>5. k \in 1..n \/ k = e.offset
      BY <1>1, <3>1, <3>2, <3>4, OneHandled
    <3> QED
      BY <1>2, <1>3, <3>1, <3>3, <3>5
  <2>2. CASE ~acked
    BY <1>3, <2>2 DEF InventoryStep, Emit
  <2> QED
    BY <2>1, <2>2
<1>5. CASE n' = n
  BY <1>3, <1>5
<1>6. CASE \E i \in 1..Len(log[TopicPaymentsFailed]) :
              InventoryStep(HandlePaymentFailed(i))
  <2>1. n' = n
    BY <1>1, <1>6
    DEF InventoryStep, HandlePaymentFailed, Handle, TopicPaymentsFailed, TopicOrdersPlaced
  <2> QED
    BY <1>5, <2>1
<1>7. CASE UNCHANGED inventoryHandled
  BY <1>5, <1>7
<1> QED
  BY <1>4, <1>6, <1>7
  DEF Next, OrderStep, InventoryStep, InventoryNext, HandleOrderPlaced, EmitFails,
      PaymentStep, Rest, vars, inventoryVars

\* The group "payment" moves past a StockReserved when an answer is announced.
LEMMA PaymentsStayAnnounced ==
    ASSUME IInv, IInv', RestInv, [Next]_vars,
           NEW k \in 1..paymentHandled'[TopicInventoryReserved]
    PROVE  log'[TopicInventoryReserved][k].order \in
              Announced(TopicPaymentsCompleted)' \cup Announced(TopicPaymentsFailed)'
<1> DEFINE L == log[TopicInventoryReserved]
           n == paymentHandled[TopicInventoryReserved]
<1>1. /\ paymentHandled \in [PaymentTopics -> Nat]
      /\ TopicInventoryReserved \in PaymentTopics
      /\ n \in Nat /\ n <= Len(L)
  BY DEF IInv, TypeOK, PaymentTypeOK, PositionsOK, PaymentTopics
<1>2. /\ Len(L) \in Nat /\ \A i \in 1..Len(L) : L'[i] = L[i]
      /\ Announced(TopicPaymentsCompleted) \subseteq Announced(TopicPaymentsCompleted)'
      /\ Announced(TopicPaymentsFailed) \subseteq Announced(TopicPaymentsFailed)'
  BY LogKept, TopicFacts
<1>3. ASSUME k \in 1..n
      PROVE  L'[k].order \in
                Announced(TopicPaymentsCompleted)' \cup Announced(TopicPaymentsFailed)'
  <2>1. k \in 1..Len(L)
    BY <1>1, <1>2, <1>3
  <2>2. L[k].order \in
           Announced(TopicPaymentsCompleted) \cup Announced(TopicPaymentsFailed)
    BY <1>3 DEF RestInv, HandledDone
  <2>3. L'[k] = L[k]
    BY <1>2, <2>1
  <2> QED
    BY <1>2, <2>2, <2>3
<1>4. CASE PaymentStep(PaymentNext)
  <2>1. PICK i \in 1..Len(L), limit \in Limits, acked \in BOOLEAN :
           PaymentStep(HandleStockReserved(i, limit, acked))
    BY <1>4 DEF PaymentStep, PaymentNext
  <2>2. L[i].order \in
           Announced(TopicPaymentsCompleted)' \cup Announced(TopicPaymentsFailed)'
    BY <2>1, PaymentAnswered
  <2>3. i \in Nat \ {0} /\ i <= n + 1
    BY <1>2, <2>1 DEF PaymentStep, HandleStockReserved, Deliverable
  <2>4. \/ paymentHandled' = paymentHandled
        \/ paymentHandled' = Handle(paymentHandled, TopicInventoryReserved, i)
    BY <2>1 DEF PaymentStep, HandleStockReserved
  <2>5. k \in 1..n \/ k = i
    BY <1>1, <2>3, <2>4, OneHandled
  <2>6. CASE k \in 1..n
    BY <1>3, <2>6
  <2>7. CASE k = i
    <3>1. L'[k] = L[i]
      BY <1>2, <2>7
    <3> QED
      BY <2>2, <3>1
  <2> QED
    BY <2>5, <2>6, <2>7
<1>5. CASE UNCHANGED paymentHandled
  BY <1>3, <1>5
<1> QED
  BY <1>4, <1>5
  DEF Next, OrderStep, InventoryStep, Rest, vars, paymentVars

\* The group "inventory" moves past a PaymentFailed when its order is released.
LEMMA ReleasesStay ==
    ASSUME IInv, IInv', RestInv, [Next]_vars,
           NEW k \in 1..inventoryHandled'[TopicPaymentsFailed]
    PROVE  processed'[log'[TopicPaymentsFailed][k].order] = "RELEASED"
<1> DEFINE L == log[TopicPaymentsFailed]
           n == inventoryHandled[TopicPaymentsFailed]
<1>1. /\ inventoryHandled \in [InventoryTopics -> Nat]
      /\ TopicPaymentsFailed \in InventoryTopics
      /\ n \in Nat /\ n <= Len(L)
      /\ \A i \in 1..Len(L) : L[i].order \in Orders
  BY RecordAt, TopicFacts
  DEF IInv, TypeOK, InventoryTypeOK, PositionsOK, InventoryTopics
<1>2. /\ Len(L) \in Nat /\ \A i \in 1..Len(L) : L'[i] = L[i]
  BY LogKept, TopicFacts
<1>3. ASSUME k \in 1..n PROVE processed'[L'[k].order] = "RELEASED"
  <2>1. k \in 1..Len(L)
    BY <1>1, <1>2, <1>3
  <2>2. processed[L[k].order] = "RELEASED" /\ L[k].order \in Orders
    BY <1>1, <1>3, <2>1 DEF RestInv, HandledDone
  <2>3. processed'[L[k].order] = "RELEASED"
    BY <2>2, RowsKept
  <2>4. L'[k] = L[k]
    BY <1>2, <2>1
  <2> QED
    BY <2>3, <2>4
<1>4. CASE \E i \in 1..Len(L) : InventoryStep(HandlePaymentFailed(i))
  <2>1. PICK i \in 1..Len(L) : InventoryStep(HandlePaymentFailed(i))
    BY <1>4
  <2>2. PICK o \in Orders :
           /\ o = L[i].order /\ o \in Announced(TopicPaymentsFailed)
           /\ \/ processed[o] # "RESERVED" /\ processed' = processed
              \/ processed' = [processed EXCEPT ![o] = "RELEASED"]
    BY <2>1, FailureAnswered DEF Release
  <2>3. processed \in [Orders -> Results] /\ Granted(o)
    BY <2>2 DEF IInv, TypeOK, InventoryTypeOK, Backed, PaymentsBacked, Announced
  <2>4. processed'[o] = "RELEASED"
    BY <2>2, <2>3 DEF Granted
  <2>5. i \in Nat \ {0} /\ i <= n + 1
    BY <1>2, <2>1 DEF InventoryStep, HandlePaymentFailed, Deliverable
  <2>6. inventoryHandled' = Handle(inventoryHandled, TopicPaymentsFailed, i)
    BY <2>1 DEF InventoryStep, HandlePaymentFailed
  <2>7. k \in 1..n \/ k = i
    BY <1>1, <2>5, <2>6, OneHandled
  <2>8. CASE k \in 1..n
    BY <1>3, <2>8
  <2>9. CASE k = i
    <3>1. L'[k].order = o
      BY <1>2, <2>2, <2>9
    <3> QED
      BY <2>4, <3>1
  <2> QED
    BY <2>7, <2>8, <2>9
<1>5. CASE n' = n
  BY <1>3, <1>5
<1>6. CASE \E q \in InventoryPods : \E acked \in BOOLEAN : InventoryStep(Emit(q, acked))
  <2>1. n' = n
    BY <1>1, <1>6
    DEF InventoryStep, Emit, Handle, TopicPaymentsFailed, TopicOrdersPlaced
  <2> QED
    BY <1>5, <2>1
<1>7. CASE UNCHANGED inventoryHandled
  BY <1>5, <1>7
<1> QED
  BY <1>4, <1>6, <1>7
  DEF Next, OrderStep, InventoryStep, InventoryNext, HandleOrderPlaced, EmitFails,
      PaymentStep, Rest, vars, inventoryVars

\* The group "order-status" moves past an event when it is shown, and with one
\* outcome per order nothing else is shown later.
LEMMA StatusesStay ==
    ASSUME OneLimit, IInv, IInv', RestInv, [Next]_vars,
           NEW t \in OrderTopics, NEW k \in 1..orderHandled'[t]
    PROVE  status'[log'[t][k].order] = NewStatus(t)
<1> DEFINE L == log[t]
           n == orderHandled[t]
<1>1. /\ orderHandled \in [OrderTopics -> Nat]
      /\ n \in Nat /\ n <= Len(L) /\ t \in Topics
      /\ status \in [Orders -> {"NONE", "PENDING", "PAID", "PAYMENT_FAILED", "REJECTED"}]
      /\ \A u \in OrderTopics : \A i \in 1..Len(log[u]) :
            log[u][i].order \in Orders /\ log[u][i].order \in Announced(u)
  BY RecordAt, TopicFacts
  DEF IInv, TypeOK, OrderTypeOK, PositionsOK, Announced
<1>2. /\ Len(L) \in Nat /\ \A i \in 1..Len(L) : L'[i] = L[i]
  BY <1>1, LogKept
<1>3. ASSUME k \in 1..n PROVE k \in 1..Len(L) /\ L'[k] = L[k]
  <2>1. k \in 1..Len(L)
    BY <1>1, <1>2, <1>3
  <2> QED
    BY <1>2, <2>1
<1>4. ASSUME k \in 1..n PROVE L[k].order \in Orders /\ status[L[k].order] = NewStatus(t)
  BY <1>1, <1>3, <1>4 DEF RestInv, HandledDone
<1>5. CASE OrderStep(\E u \in OrderTopics : \E i \in 1..Len(log[u]) : HandleStatus(u, i))
  <2> PICK u \in OrderTopics : \E i \in 1..Len(log[u]) : HandleStatus(u, i)
    BY <1>5 DEF OrderStep
  <2>1. PICK i \in 1..Len(log[u]) : HandleStatus(u, i)
    OBVIOUS
  <2>2. PICK o \in Orders : o = log[u][i].order /\ o \in Announced(u)
    BY <1>1
  <2>3. status[o] # "NONE"
    <3>1. u \in {TopicPaymentsCompleted, TopicPaymentsFailed, TopicInventoryRejected}
      BY StatusFacts
    <3>2. processed[o] # "NONE"
      BY <2>2, <3>1
      DEF IInv, Backed, StockEventsBacked, PaymentsBacked, Granted, Announced
    <3> QED
      BY <3>2 DEF IInv, Backed, OrderFirst
  <2>4. status' = [status EXCEPT ![o] = NewStatus(u)]
    BY <2>1, <2>2, <2>3 DEF HandleStatus, UpdateOrderStatus
  <2>5. orderHandled' = Handle(orderHandled, u, i) /\ i \in 1..Len(log[u])
        /\ i <= orderHandled[u] + 1
    BY <2>1 DEF HandleStatus, Deliverable
  <2>6. i \in Nat \ {0}
    BY <2>5, LogKept, TopicFacts
  <2>7. k \in 1..n \/ (t = u /\ k = i)
    BY <1>1, <2>5, <2>6, OneHandled
\* An event of the same order says what is shown already.
  <2>8. CASE k \in 1..n
    <3>1. L[k].order \in Announced(t) /\ L[k].order \in Orders
      BY <1>1, <1>3, <2>8
    <3>2. L[k].order = o => t = u
      BY <2>2, <3>1, BackedOneOutcome DEF OneOutcome, TerminalTopics
    <3> QED
      BY <1>1, <1>3, <1>4, <2>4, <2>8, <3>1, <3>2
  <2>9. CASE t = u /\ k = i
    <3>1. L'[k].order = o
      BY <1>2, <2>2, <2>9
    <3> QED
      BY <1>1, <2>4, <2>9, <3>1
  <2> QED
    BY <2>7, <2>8, <2>9
<1>6. CASE OrderStep(\E o \in Orders, cart \in Carts : PlaceOrder(o, cart))
  <2>1. PICK o \in Orders : /\ status[o] = "NONE" /\ UNCHANGED orderHandled
                            /\ status' = [status EXCEPT ![o] = "PENDING"]
    BY <1>6 DEF OrderStep, PlaceOrder
  <2>2. k \in 1..n
    BY <2>1
  <2>3. NewStatus(t) # "NONE"
    BY StatusFacts
  <2> QED
    BY <1>1, <1>3, <1>4, <2>1, <2>2, <2>3
<1>7. CASE UNCHANGED <<status, orderHandled>>
  BY <1>3, <1>4, <1>7
<1> QED
  BY <1>5, <1>6, <1>7
  DEF Next, OrderStep, OrderNext, PublishOrderPlaced, DropOrderPlaced, InventoryStep,
      PaymentStep, Rest, vars, orderVars

-----------------------------------------------------------------------------
(* The inductive invariant *)

LEMMA InitRestInv == Init => RestInv
<1> SUFFICES ASSUME Init PROVE RestInv
  OBVIOUS
<1> USE DEF Init, LogInit, OrderInit, InventoryInit, PaymentInit
<1>1. \A t \in Topics : Announced(t) = {}
  BY DEF Announced, Published, Range
<1>2. Sources
  BY <1>1, TopicFacts DEF Sources
<1>3. EmissionsFollow
  BY DEF EmissionsFollow
<1>4. HandledDone
  BY TopicFacts
  DEF HandledDone, NothingHandled, InventoryTopics, PaymentTopics, OrderTopics
<1> QED
  BY <1>2, <1>3, <1>4 DEF RestInv

LEMMA NextRestInv ==
    OneLimit /\ IInv /\ IInv' /\ RestInv /\ [Next]_vars => RestInv'
<1> SUFFICES ASSUME OneLimit, IInv, IInv', RestInv, [Next]_vars PROVE RestInv'
  OBVIOUS
<1>1. Sources' /\ EmissionsFollow'
  BY NextSources, NextEmissionsFollow DEF RestInv
<1>2. \A k \in 1..inventoryHandled'[TopicOrdersPlaced] :
         \E o \in Orders : o = log'[TopicOrdersPlaced][k].order /\ Answered(o)'
  BY StockStaysAnswered
<1>3. \A k \in 1..inventoryHandled'[TopicOrdersPlaced] :
         Answered(log[TopicOrdersPlaced][k].order)'
  BY <1>2 DEF Answered, Granted
<1>4. HandledDone'
  BY <1>3, PaymentsStayAnnounced, ReleasesStay, StatusesStay DEF HandledDone
<1> QED
  BY <1>1, <1>4 DEF RestInv

LEMMA RestInvariance == ASSUME OneLimit PROVE Spec => [](IInv /\ RestInv)
<1>1. Init => IInv /\ RestInv
  BY InitIInv, InitRestInv
<1>2. IInv /\ RestInv /\ [Next]_vars => (IInv /\ RestInv)'
  BY NextIInv, NextRestInv
<1> QED
  BY <1>1, <1>2, PTL DEF Spec

\* A record of a topic whose end a group has reached has been handled.
LEMMA ReachedEnd ==
    ASSUME LogTypeOK, NEW t \in Topics, NEW o \in Announced(t)
    PROVE  \E k \in 1..Len(log[t]) : log[t][k].order = o
<1>1. PICK e \in Published(t) : o = e.order
  BY DEF Announced
<1>2. log[t] \in Seq(Events(t))
  BY DEF LogTypeOK
<1> QED
  BY <1>1, <1>2 DEF Published, Range

LEMMA AgreedAtRest == ASSUME OneLimit, IInv, RestInv PROVE AgreementAtRest
<1>1. /\ LogTypeOK /\ StatusBacked /\ OrderFirst /\ OneOutcome
      /\ StockEventsBacked /\ PaymentsBacked /\ Sources /\ HandledDone
      /\ status \in [Orders -> {"NONE", "PENDING", "PAID", "PAYMENT_FAILED", "REJECTED"}]
      /\ processed \in [Orders -> Results]
  BY BackedOneOutcome
  DEF IInv, TypeOK, OrderTypeOK, InventoryTypeOK, Backed, RestInv
<1> SUFFICES ASSUME Quiescent, NEW o \in Orders
             PROVE  IF o \in Announced(TopicOrdersPlaced)
                    THEN \/ status[o] = "PAID" /\ processed[o] = "RESERVED"
                         \/ status[o] = "PAYMENT_FAILED" /\ processed[o] = "RELEASED"
                         \/ status[o] = "REJECTED" /\ processed[o] = "REJECTED"
                    ELSE /\ processed[o] = "NONE"
                         /\ status[o] \in {"NONE", "PENDING"}
  BY DEF AgreementAtRest
<1>2. /\ inventoryHandled[TopicOrdersPlaced] = Len(log[TopicOrdersPlaced])
      /\ inventoryHandled[TopicPaymentsFailed] = Len(log[TopicPaymentsFailed])
      /\ paymentHandled[TopicInventoryReserved] = Len(log[TopicInventoryReserved])
      /\ \A t \in OrderTopics : orderHandled[t] = Len(log[t])
  BY DEF IInv, TypeOK, OrderTypeOK, InventoryTypeOK, PaymentTypeOK, PositionsOK, Quiescent,
      CaughtUp, InventoryTopics, PaymentTopics
<1>3. o \in Announced(TopicOrdersPlaced) => Answered(o)
  BY <1>1, <1>2, ReachedEnd, TopicFacts DEF HandledDone
<1>4. o \in Announced(TopicInventoryReserved) =>
         o \in Announced(TopicPaymentsCompleted) \cup Announced(TopicPaymentsFailed)
  BY <1>1, <1>2, ReachedEnd, TopicFacts DEF HandledDone
<1>5. o \in Announced(TopicPaymentsFailed) => processed[o] = "RELEASED"
  BY <1>1, <1>2, ReachedEnd, TopicFacts DEF HandledDone
<1>6. \A t \in OrderTopics : o \in Announced(t) => status[o] = NewStatus(t)
  BY <1>1, <1>2, ReachedEnd, TopicFacts DEF HandledDone
<1>7. CASE o \in Announced(TopicOrdersPlaced)
  <2>1. CASE processed[o] = "REJECTED"
    BY <1>3, <1>6, <1>7, <2>1, StatusFacts DEF Answered
  <2>2. CASE Granted(o) /\ o \in Announced(TopicPaymentsFailed)
    BY <1>5, <1>6, <1>7, <2>2, StatusFacts
  <2>3. CASE Granted(o) /\ o \notin Announced(TopicPaymentsFailed)
    <3>1. o \in Announced(TopicPaymentsCompleted)
      BY <1>3, <1>4, <1>7, <2>3 DEF Answered
    <3>2. processed[o] = "RESERVED"
      BY <1>1, <2>3 DEF StatusBacked, Granted
    <3> QED
      BY <1>6, <1>7, <3>1, <3>2, StatusFacts
  <2> QED
    BY <1>1, <1>3, <1>7, <2>1, <2>2, <2>3 DEF Granted, Answered, Results
<1>8. CASE o \notin Announced(TopicOrdersPlaced)
  <2>1. processed[o] = "NONE"
    BY <1>1, <1>8 DEF Sources
  <2>2. \A t \in OrderTopics : o \notin Announced(t)
    BY <1>1, <2>1, StatusFacts
    DEF StockEventsBacked, PaymentsBacked, Granted, Announced
  <2>3. status[o] \notin {"PAID", "PAYMENT_FAILED", "REJECTED"}
    BY <1>1, <2>2, StatusFacts DEF StatusBacked
  <2> QED
    BY <1>1, <1>8, <2>1, <2>3
<1> QED
  BY <1>7, <1>8

\* When the log is drained, every published order has exactly one of the three
\* outcomes, its stock is where that outcome says, and every other order holds
\* nothing; provided the payment pods agree on their limit.
THEOREM SettledAtRest == ASSUME OneLimit PROVE Spec => []AgreementAtRest
<1>1. IInv /\ RestInv => AgreementAtRest
  BY AgreedAtRest
<1> QED
  BY <1>1, RestInvariance, PTL

-----------------------------------------------------------------------------
(* The account of the stock *)

LEMMA HeldIsHeldBy == \A p : Held(p) = HeldBy(reservations, p, Holding)
  BY DEF Held, HeldBy, Holding

LEMMA InitAccounted == Init => Accounted
<1> SUFFICES ASSUME Init PROVE Accounted
  OBVIOUS
<1>1. Holding = {}
  BY DEF Init, InventoryInit, Holding
<1>2. IsFiniteSet({}) /\ \A r, p : HeldBy(r, p, {}) = 0
  BY FS_EmptySet, SumStep
<1> QED
  BY <1>1, <1>2 DEF Init, InventoryInit, Accounted, StockRows

LEMMA NextAccounted ==
    ASSUME IInv, Accounted, [Next]_vars
    PROVE  Accounted'
<1>1. /\ processed \in [Orders -> Results]
      /\ reservations \in [Orders -> Carts \cup {NoLines}]
      /\ reserved \in [StockRows -> Nat]
  BY DEF IInv, TypeOK, InventoryTypeOK
<1>2. IsFiniteSet(Holding)
      /\ \A p \in StockRows : reserved[p] = HeldBy(reservations, p, Holding)
  BY DEF Accounted
\* The transaction of reserve adds one order and its lines.
<1>3. ASSUME NEW o \in Orders, items[o] \in Carts, processed[o] = "NONE",
             Reserve(o, items[o])
      PROVE  Accounted'
  <2>1. /\ Holding' = Holding \cup {o} /\ o \notin Holding
        /\ reservations' \in [Orders -> Carts \cup {NoLines}]
        /\ reservations'[o] = items[o]
        /\ \A q \in Holding : reservations'[q] = reservations[q]
    BY <1>1, <1>3 DEF Holding, Reserve
  <2>2. IsFiniteSet(Holding')
    BY <1>2, <2>1, FS_AddElement
  <2>3. ASSUME NEW p \in StockRows
        PROVE  reserved'[p] = HeldBy(reservations', p, Holding')
    <3>1. \A q \in Orders : reservations'[q][p] \in Nat
      BY <2>1, CartQuantity
    <3>2. /\ HeldBy(reservations', p, Holding) \in Nat
          /\ HeldBy(reservations', p, Holding \cup {o}) =
                reservations'[o][p] + HeldBy(reservations', p, Holding)
      <4>1. PICK r, S : r = reservations' /\ S = Holding
        OBVIOUS
      <4>2. \A q \in S \cup {o} : r[q][p] \in Nat
        BY <3>1, <4>1 DEF Holding
      <4>3. IsFiniteSet(S) /\ o \notin S
        BY <1>2, <2>1, <4>1
      <4>4. HeldBy(r, p, S) \in Nat /\ HeldBy(r, p, S \cup {o}) = r[o][p] + HeldBy(r, p, S)
        BY <4>2, <4>3, SumAdd
      <4> QED
        BY <4>1, <4>4
    <3>3. HeldBy(reservations', p, Holding) = HeldBy(reservations, p, Holding)
      BY <1>2, <2>1, SumSame
    <3>4. reserved'[p] = reserved[p] + items[o][p]
      BY <1>3 DEF Reserve
    <3>5. items[o][p] \in Nat
      BY <1>3, CartQuantity
    <3> QED
      BY <1>2, <2>1, <3>2, <3>3, <3>4, <3>5
  <2> QED
    BY <2>2, <2>3 DEF Accounted
\* The transaction of a release takes one order and its lines away.
<1>4. ASSUME NEW o \in Orders, processed[o] = "RESERVED", Release(o),
             reservations' = reservations
      PROVE  Accounted'
  <2>1. o \in Holding /\ Holding' = Holding \ {o}
    BY <1>1, <1>4 DEF Holding, Release
  <2>2. IsFiniteSet(Holding')
    BY <1>2, <2>1, FS_RemoveElement
  <2>3. ASSUME NEW p \in StockRows
        PROVE  reserved'[p] = HeldBy(reservations', p, Holding')
    <3>1. \A q \in Orders : reservations[q][p] \in Nat
      BY <1>1, CartQuantity
    <3>2. \A q \in Holding' \cup {o} : reservations[q][p] \in Nat
      BY <2>1, <3>1 DEF Holding
    <3>3. Holding' \cup {o} = Holding /\ o \notin Holding'
      BY <2>1
    <3>4. /\ HeldBy(reservations, p, Holding') \in Nat
          /\ HeldBy(reservations, p, Holding) =
                reservations[o][p] + HeldBy(reservations, p, Holding')
      BY <2>2, <3>2, <3>3, SumAdd
    <3>5. reserved'[p] = reserved[p] - reservations[o][p]
      BY <1>4 DEF Release
    <3> QED
      BY <1>2, <1>4, <3>1, <3>4, <3>5
  <2> QED
    BY <2>2, <2>3 DEF Accounted
<1>5. CASE UNCHANGED <<processed, reserved, reservations>>
  BY <1>2, <1>5 DEF Accounted, Holding
<1>6. CASE \E pod \in InventoryPods : \E k \in 1..Len(log[TopicOrdersPlaced]) :
              InventoryStep(HandleOrderPlaced(pod, k))
  <2>1. PICK o \in Orders :
           /\ items[o] \in Carts
           /\ \/ UNCHANGED <<processed, reserved, reservations>>
              \/ processed[o] = "NONE" /\ Reserve(o, items[o])
              \/ processed[o] = "NONE" /\ Reject(o, items[o])
    BY <1>6, OrderAnswered
  <2>2. CASE processed[o] = "NONE" /\ Reject(o, items[o])
    <3>1. Holding' = Holding /\ UNCHANGED <<reserved, reservations>>
      BY <1>1, <2>2 DEF Holding, Reject
    <3> QED
      BY <1>2, <3>1 DEF Accounted
  <2> QED
    BY <1>3, <1>5, <2>1, <2>2
<1>7. CASE \E k \in 1..Len(log[TopicPaymentsFailed]) :
              InventoryStep(HandlePaymentFailed(k))
  <2>1. PICK o \in Orders :
           /\ reservations' = reservations
           /\ \/ UNCHANGED <<processed, reserved>>
              \/ processed[o] = "RESERVED" /\ Release(o)
    BY <1>7, FailureAnswered
  <2> QED
    BY <1>4, <1>5, <2>1
<1> QED
  BY <1>5, <1>6, <1>7
  DEF Next, OrderStep, InventoryStep, InventoryNext, Emit, EmitFails, PaymentStep, Rest,
      vars, inventoryVars

\* Every unit that is reserved is held by an order with a reservation in force,
\* and the units of a product are those it was seeded with: no redelivery, no
\* second pod and no repeated release puts the two tables out of step.
THEOREM StockIsAccounted == Spec => []StockConserved
<1>1. Init => IInv /\ Accounted
  BY InitIInv, InitAccounted
<1>2. IInv /\ Accounted /\ [Next]_vars => (IInv /\ Accounted)'
  BY NextIInv, NextAccounted
<1>3. IInv /\ Accounted => StockConserved
  BY HeldIsHeldBy DEF IInv, NoUnitLost, Accounted, StockConserved
<1> QED
  BY <1>1, <1>2, <1>3, PTL DEF Spec
=============================================================================
