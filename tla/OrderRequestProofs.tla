------------------------- MODULE OrderRequestProofs -------------------------
(***************************************************************************)
(* PlaceOrder does what it is asked, for every width of the quantities,    *)
(* every catalogue, any carts and any number of requests and faults: the   *)
(* order it stores is the cart of the request, aggregated by product and   *)
(* wrapped like an int32, at the price of the catalogue; what it answers   *)
(* is so; and each change of the database and the topic is one step of     *)
(* OrderService, however the statements interleave.                        *)
(***************************************************************************)
EXTENDS OrderRequest, FiniteSetTheorems, SequenceTheorems, TLAPS

-----------------------------------------------------------------------------
(* Integers that wrap *)

LEMMA Quotient ==
    ASSUME NEW m \in Nat \ {0}, NEW a \in Int
    PROVE  \E d \in Int, r \in 0..m - 1 : a = m * d + r /\ a % m = r
<1>1. a % m \in 0..m - 1 /\ a \div m \in Int
  OBVIOUS
<1>2. a % m = a - m * (a \div m)
  OBVIOUS
<1>3. PICK d \in Int, r \in 0..m - 1 : d = a \div m /\ r = a % m
  BY <1>1
<1>4. r = a - m * d
  BY <1>2, <1>3
<1>5. PICK x \in Int : x = m * d
  OBVIOUS
<1>6. a = m * d + r
  BY <1>4, <1>5
<1> QED
  BY <1>3, <1>6

LEMMA SmallMultiple ==
    ASSUME NEW m \in Nat \ {0}, NEW d \in Int, m * d < m, m * d > -m
    PROVE  d = 0
<1>1. CASE d >= 1
  <2>1. m * d >= m
    BY <1>1
  <2> QED
    BY <2>1
<1>2. CASE d <= -1
  <2>1. m * d <= -m
    BY <1>2
  <2> QED
    BY <2>1
<1> QED
  BY <1>1, <1>2

LEMMA Remainder ==
    ASSUME NEW m \in Nat \ {0}, NEW q \in Int, NEW r \in 0..m - 1
    PROVE  (m * q + r) % m = r
<1> DEFINE a == m * q + r
<1>1. PICK d \in Int, s \in 0..m - 1 : a = m * d + s /\ a % m = s
  <2>1. a \in Int
    OBVIOUS
  <2> HIDE DEF a
  <2> QED
    BY <2>1, Quotient
<1>2. m * (q - d) = s - r
  <2>1. PICK x \in Int, y \in Int : x = m * q /\ y = m * d
    OBVIOUS
  <2>2. m * (q - d) = x - y
    BY <2>1
  <2>3. x + r = y + s
    BY <1>1, <2>1
  <2> QED
    BY <2>2, <2>3
<1>3. q - d = 0
  <2>1. s - r < m /\ s - r > -m
    OBVIOUS
  <2> QED
    BY <1>2, <2>1, SmallMultiple
<1> QED
  BY <1>1, <1>2, <1>3

\* Multiples of the modulus do not count.
LEMMA Shift ==
    ASSUME NEW m \in Nat \ {0}, NEW a \in Int, NEW k \in Int
    PROVE  (m * k + a) % m = a % m
<1>1. PICK d \in Int, r \in 0..m - 1 : a = m * d + r /\ a % m = r
  BY Quotient
<1>2. m * k + a = m * (k + d) + r
  BY <1>1
<1> QED
  BY <1>1, <1>2, Remainder

\* What wrapping does: it adds a multiple of the modulus that leads back into the
\* range; it changes nothing there; and it may be put off to the end of a sum.
LEMMA Wraps ==
    ASSUME NEW n \in Int
    PROVE  /\ Wrap(n) \in Quantities
           /\ (Wrap(n) - n) % (2 * Half) = 0
           /\ n \in Quantities => Wrap(n) = n
           /\ \A b \in Int : Wrap(Wrap(n) + b) = Wrap(n + b)
<1> DEFINE m == 2 * Half
<1>1. Half \in Nat \ {0} /\ m \in Nat \ {0}
  BY OrderRequestAssumption
<1>2. PICK d \in Int, r \in 0..m - 1 : n + Half = m * d + r /\ (n + Half) % m = r
  <2>1. n + Half \in Int
    BY <1>1
  <2> HIDE DEF m
  <2> QED
    BY <1>1, <2>1, Quotient
<1>3. Wrap(n) = r - Half
  BY <1>2 DEF Wrap
<1>4. Wrap(n) \in Quantities
  BY <1>1, <1>3 DEF Quantities
<1>5. Wrap(n) - n = m * (-d)
  <2>1. PICK x \in Int : x = m * d
    BY <1>1
  <2>2. m * (-d) = -x
    BY <1>1, <2>1
  <2> HIDE DEF m
  <2> QED
    BY <1>1, <1>2, <1>3, <2>1, <2>2
<1>6. (Wrap(n) - n) % m = 0
  <2> HIDE DEF m
  <2> QED
    BY <1>1, <1>5, Remainder
<1>7. ASSUME n \in Quantities PROVE Wrap(n) = n
  <2>1. n + Half \in 0..m - 1
    BY <1>1, <1>7 DEF Quantities
  <2>2. (n + Half) % m = n + Half
    <3> HIDE DEF m
    <3> QED
      BY <1>1, <2>1
  <2> QED
    BY <1>1, <2>2 DEF Wrap
<1>8. ASSUME NEW b \in Int PROVE Wrap(Wrap(n) + b) = Wrap(n + b)
  <2>1. Wrap(n) + b + Half = m * (-d) + (n + b + Half)
    <3> HIDE DEF m
    <3>1. Wrap(n) = m * (-d) + n /\ m * (-d) \in Int
      BY <1>1, <1>3, <1>5
    <3> QED
      BY <1>1, <3>1
  <2>2. (Wrap(n) + b + Half) % m = (n + b + Half) % m
    <3>1. n + b + Half \in Int /\ -d \in Int
      BY <1>1
    <3> HIDE DEF m
    <3> QED
      BY <1>1, <2>1, <3>1, Shift, ZenonT(40)
  <2> QED
    BY <2>2 DEF Wrap
<1> QED
  BY <1>4, <1>6, <1>7, <1>8

-----------------------------------------------------------------------------
(* Induction, over sets of numbers and sets of sets *)

LEMMA Least ==
    ASSUME NEW T, T \subseteq Nat, T # {}
    PROVE  \E n \in T : \A m \in T : n <= m
<1>1. PICK n \in T : \A m \in T : ~(<<m, n>> \in OpToRel(<, Nat))
  BY WFMin, NatLessThanWellFounded
<1>2. \A m \in T : ~(m < n)
  BY <1>1 DEF OpToRel
<1> QED
  BY <1>2

\* Counting up to n.
LEMMA Counting ==
    ASSUME NEW n \in Nat, NEW G, 0 \in G,
           \A k \in 0..n - 1 : k \in G => k + 1 \in G
    PROVE  0..n \subseteq G
<1> DEFINE T == (0..n) \ G
<1> SUFFICES ASSUME T # {} PROVE FALSE
  OBVIOUS
<1>1. PICK k \in T : \A m \in T : k <= m
  <2>1. T \subseteq Nat
    OBVIOUS
  <2> HIDE DEF T
  <2> QED
    BY <2>1, Least
<1>2. k # 0 /\ k - 1 \in 0..n - 1
  BY <1>1
<1>3. k - 1 \in G
  BY <1>1, <1>2
<1> QED
  BY <1>2, <1>3

\* Adding the elements of a finite set one by one.
LEMMA Gathering ==
    ASSUME NEW D, IsFiniteSet(D), NEW G, {} \in G,
           \A s \in SUBSET D : \A x \in D \ s : s \in G => s \cup {x} \in G
    PROVE  SUBSET D \subseteq G
<1> DEFINE T == { Cardinality(s) : s \in (SUBSET D) \ G }
<1> SUFFICES ASSUME T # {} PROVE FALSE
  OBVIOUS
<1>1. \A s \in SUBSET D : IsFiniteSet(s) /\ Cardinality(s) \in Nat
  BY FS_Subset, FS_CardinalityType
<1>2. PICK n \in T : \A m \in T : n <= m
  <2>1. T \subseteq Nat
    BY <1>1
  <2> HIDE DEF T
  <2> QED
    BY <2>1, Least
<1>3. PICK s \in (SUBSET D) \ G : Cardinality(s) = n
  OBVIOUS
<1>4. PICK x \in s : TRUE
  BY <1>3
<1>5. /\ IsFiniteSet(s \ {x}) /\ Cardinality(s \ {x}) = Cardinality(s) - 1
      /\ Cardinality(s) \in Nat
  BY <1>1, <1>3, <1>4, FS_RemoveElement
<1>6. s \ {x} \in G
  <2>1. s \ {x} \in SUBSET D /\ Cardinality(s \ {x}) \notin T
    BY <1>2, <1>3, <1>5
  <2> QED
    BY <2>1
<1>7. s = (s \ {x}) \cup {x} /\ x \in D \ (s \ {x})
  BY <1>3, <1>4
<1> QED
  BY <1>3, <1>6, <1>7

-----------------------------------------------------------------------------
(* Folds over sequences.  FoldLeft is a recursive function on sets of      *)
(* indices that takes away the largest one.  Such a function exists, and   *)
(* on the sets 1..k it is the fold of the first k elements.                *)

LEMMA Largest ==
    ASSUME NEW n \in Nat, NEW s \in SUBSET (1..n), s # {}
    PROVE  /\ Max(s) \in s
           /\ \A m \in s : m <= Max(s)
<1> DEFINE T == { n - m : m \in s }
<1>1. PICK t \in T : \A u \in T : t <= u
  <2>1. \A m \in s : n - m \in Nat
    OBVIOUS
  <2>2. T \subseteq Nat /\ T # {}
    BY <2>1
  <2> HIDE DEF T
  <2> QED
    BY <2>2, Least
<1>2. PICK m \in s : t = n - m
  OBVIOUS
<1>3. \A u \in s : m >= u
  <2> SUFFICES ASSUME NEW u \in s PROVE m >= u
    OBVIOUS
  <2>1. n - u \in T
    OBVIOUS
  <2>2. n - m <= n - u
    BY <1>1, <1>2, <2>1
  <2> QED
    BY <2>2
<1>4. Max(s) \in s /\ \A u \in s : Max(s) >= u
  BY <1>3 DEF Max
<1> QED
  BY <1>4

LEMMA LargestOfAll ==
    ASSUME NEW k \in Nat, NEW s \in SUBSET (1..k + 1), k + 1 \in s
    PROVE  Max(s) = k + 1
<1>1. k + 1 \in Nat /\ s # {}
  OBVIOUS
<1>2. Max(s) \in s /\ k + 1 <= Max(s)
  <2>1. PICK n \in Nat : n = k + 1
    OBVIOUS
  <2> QED
    BY <1>1, <2>1, Largest
<1>3. PICK m \in s : m = Max(s)
  BY <1>2
<1>4. m \in 1..k + 1 /\ k + 1 <= m
  BY <1>2, <1>3
<1> QED
  BY <1>3, <1>4

LEMMA OneMore ==
    ASSUME NEW k \in Nat
    PROVE  /\ 1..k + 1 # {} /\ Max(1..k + 1) = k + 1
           /\ (1..k + 1) \ {Max(1..k + 1)} = 1..k
<1>1. Max(1..k + 1) = k + 1
  BY LargestOfAll
<1> QED
  BY <1>1

IsFold(w, step, base, n) ==
    w = [s \in SUBSET (1..n) |->
            IF s = {} THEN base ELSE step[<<w[s \ {Max(s)}], Max(s)>>]]

LEMMA FoldExists ==
    ASSUME NEW A, NEW base \in A, NEW n \in Nat, NEW step \in [A \X (1..n) -> A]
    PROVE  \E w \in [SUBSET (1..n) -> A] : IsFold(w, step, base, n)
<1> DEFINE G == { k \in 0..n : \E w \in [SUBSET (1..k) -> A] : IsFold(w, step, base, k) }
<1>1. 0 \in G
  <2> DEFINE w == [s \in SUBSET (1..0) |-> base]
  <2>1. w \in [SUBSET (1..0) -> A]
    OBVIOUS
  <2>2. \A s \in SUBSET (1..0) : s = {}
    OBVIOUS
  <2>3. IsFold(w, step, base, 0)
    BY <2>2 DEF IsFold
  <2> QED
    BY <2>1, <2>3
<1>2. ASSUME NEW k \in 0..n - 1, k \in G PROVE k + 1 \in G
  <2>1. PICK w \in [SUBSET (1..k) -> A] : IsFold(w, step, base, k)
    BY <1>2
  <2> DEFINE v == [s \in SUBSET (1..k + 1) |->
                      IF k + 1 \in s THEN step[<<w[s \ {k + 1}], k + 1>>] ELSE w[s]]
  <2>2. \A s \in SUBSET (1..k + 1) :
           /\ s \ {k + 1} \in SUBSET (1..k)
           /\ k + 1 \notin s => s \in SUBSET (1..k)
    OBVIOUS
  <2>3. v \in [SUBSET (1..k + 1) -> A]
    BY <2>2
  <2>4. ASSUME NEW s \in SUBSET (1..k + 1)
        PROVE  v[s] = IF s = {} THEN base ELSE step[<<v[s \ {Max(s)}], Max(s)>>]
    <3>1. CASE k + 1 \in s
      <4>1. Max(s) = k + 1
        BY <3>1, LargestOfAll
      <4>2. s \ {k + 1} \in SUBSET (1..k + 1) /\ k + 1 \notin s \ {k + 1}
        OBVIOUS
      <4>3. v[s \ {k + 1}] = w[s \ {k + 1}]
        BY <4>2
      <4> QED
        BY <3>1, <4>1, <4>3
    <3>2. CASE k + 1 \notin s
      <4>1. s \in SUBSET (1..k) /\ s \ {Max(s)} \in SUBSET (1..k + 1)
        BY <2>2, <3>2
      <4>2. v[s] = w[s] /\ v[s \ {Max(s)}] = w[s \ {Max(s)}]
        BY <3>2, <4>1
      <4>3. w[s] = IF s = {} THEN base ELSE step[<<w[s \ {Max(s)}], Max(s)>>]
        BY <2>1, <4>1 DEF IsFold
      <4> QED
        BY <4>2, <4>3
    <3> QED
      BY <3>1, <3>2
  <2>5. IsFold(v, step, base, k + 1)
    <3>1. v = [s \in SUBSET (1..k + 1) |-> v[s]]
      OBVIOUS
    <3> HIDE DEF v
    <3> QED
      BY <2>4, <3>1 DEF IsFold
  <2> HIDE DEF v
  <2> QED
    BY <2>3, <2>5
<1>3. n \in G
  <2>1. 0..n \subseteq G
    <3> HIDE DEF G
    <3> QED
      BY <1>1, <1>2, Counting
  <2>2. n \in 0..n
    OBVIOUS
  <2> HIDE DEF G
  <2> QED
    BY <2>1, <2>2
<1> QED
  BY <1>3

\* A function that takes the steps of a fold goes through its values.
TakesSteps(w, A, base, n, step) ==
    /\ w[{}] = base
    /\ \A k \in 1..n : w[1..k - 1] \in A => w[1..k] = step[<<w[1..k - 1], k>>]

\* q has the values of a fold, from the base to the last.
IsRun(q, A, base, n, step, last) ==
    /\ q \in [0..n -> A]
    /\ q[0] = base /\ q[n] = last
    /\ \A k \in 1..n : q[k] = step[<<q[k - 1], k>>]

LEMMA FoldRuns ==
    ASSUME NEW A, NEW base \in A, NEW n \in Nat, NEW step \in [A \X (1..n) -> A],
           NEW w, TakesSteps(w, A, base, n, step)
    PROVE  \E q : IsRun(q, A, base, n, step, w[1..n])
<1> USE DEF TakesSteps, IsRun
<1> DEFINE q == [k \in 0..n |-> w[1..k]]
           G == { k \in 0..n : w[1..k] \in A }
<1>1. 0 \in G
  <2>1. 1..0 = {}
    OBVIOUS
  <2> QED
    BY <2>1
<1>2. ASSUME NEW k \in 0..n - 1, k \in G PROVE k + 1 \in G
  <2>1. k + 1 \in 1..n /\ (k + 1) - 1 = k
    OBVIOUS
  <2>2. w[1..k + 1] = step[<<w[1..k], k + 1>>]
    BY <1>2, <2>1
  <2>3. w[1..k + 1] \in A
    BY <1>2, <2>1, <2>2
  <2> QED
    BY <2>1, <2>3
<1>3. 0..n \subseteq G
  <2> HIDE DEF G
  <2> QED
    BY <1>1, <1>2, Counting
<1>4. \A k \in 0..n : w[1..k] \in A
  BY <1>3
<1>5. q \in [0..n -> A]
  BY <1>4
<1>6. q[0] = base /\ q[n] = w[1..n]
  <2>1. 1..0 = {} /\ 0 \in 0..n /\ n \in 0..n
    OBVIOUS
  <2> QED
    BY <2>1
<1>7. ASSUME NEW k \in 1..n PROVE q[k] = step[<<q[k - 1], k>>]
  <2>1. k \in 0..n /\ k - 1 \in 0..n
    OBVIOUS
  <2>2. w[1..k] = step[<<w[1..k - 1], k>>]
    BY <1>4, <2>1
  <2> QED
    BY <2>1, <2>2
<1> HIDE DEF q
<1> QED
  BY <1>5, <1>6, <1>7

-----------------------------------------------------------------------------
(* What the operators on requests compute *)

Items == [product_id : Texts, quantity : Quantities]

LEMMA ItemAt ==
    ASSUME NEW request \in Seq(Items), NEW k \in 1..Len(request)
    PROVE  /\ request[k] \in Items /\ request[k].product_id \in Texts
           /\ request[k].quantity \in Quantities /\ request[k].quantity \in Int
<1>1. request[k] \in Items
  OBVIOUS
<1> QED
  BY <1>1, OrderRequestAssumption DEF Items, Quantities

\* An item counts if it has the text.
AddIfText(request, text, sum, i) ==
    IF request[i].product_id = text THEN Wrap(sum + request[i].quantity) ELSE sum

IsQuantity(w, request, text) ==
    w = [s \in SUBSET DOMAIN request |->
            IF s = {} THEN 0 ELSE AddIfText(request, text, w[s \ {Max(s)}], Max(s))]

LEMMA QuantityChosen ==
    ASSUME NEW request, NEW text
    PROVE  Quantity(request, text)
              = (CHOOSE w : IsQuantity(w, request, text))[DOMAIN request]
  BY Zenon DEF Quantity, FoldLeft, MapThenFoldSet, IsQuantity, AddIfText

\* Quantity adds up the items with the text, and wraps each time.
LEMMA QuantityFold ==
    ASSUME NEW request \in Seq(Items), NEW text
    PROVE  \E q \in [0..Len(request) -> Int] :
              /\ q[0] = 0 /\ q[Len(request)] = Quantity(request, text)
              /\ \A k \in 1..Len(request) : q[k] = AddIfText(request, text, q[k - 1], k)
<1> DEFINE n == Len(request)
           step == [x \in Int \X (1..n) |-> AddIfText(request, text, x[1], x[2])]
           w == CHOOSE v : IsQuantity(v, request, text)
<1>1. n \in Nat /\ DOMAIN request = 1..n /\ 0 \in Int
  OBVIOUS
<1>2. ASSUME NEW sum \in Int, NEW i \in 1..n PROVE AddIfText(request, text, sum, i) \in Int
  <2>1. request[i] \in Items
    OBVIOUS
  <2>2. request[i].quantity \in Int
    BY <2>1, OrderRequestAssumption DEF Items, Quantities
  <2>3. Wrap(sum + request[i].quantity) \in Int
    BY <2>2, Wraps, OrderRequestAssumption DEF Quantities
  <2> QED
    BY <2>3 DEF AddIfText
<1>3. step \in [Int \X (1..n) -> Int]
  BY <1>2
<1>4. IsQuantity(w, request, text)
  <2> HIDE DEF n
  <2>1. PICK v \in [SUBSET (1..n) -> Int] : IsFold(v, step, 0, n)
    <3> HIDE DEF step
    <3> QED
      BY <1>1, <1>3, FoldExists
  <2>2. ASSUME NEW s \in SUBSET (1..n)
        PROVE  v[s] = IF s = {} THEN 0
                      ELSE AddIfText(request, text, v[s \ {Max(s)}], Max(s))
    <3> HIDE DEF step
    <3>1. v[s] = IF s = {} THEN 0 ELSE step[<<v[s \ {Max(s)}], Max(s)>>]
      BY <2>1 DEF IsFold
    <3>2. s # {} => Max(s) \in 1..n /\ v[s \ {Max(s)}] \in Int
      BY <1>1, <2>1, Largest
    <3> QED
      BY <3>1, <3>2 DEF step
  <2>3. v = [s \in SUBSET DOMAIN request |-> v[s]]
    BY <1>1, <2>1
  <2> HIDE DEF step
  <2>4. IsQuantity(v, request, text)
    BY <1>1, <2>2, <2>3 DEF IsQuantity
  <2> QED
    BY <2>4
<1> HIDE DEF w
<1>5. w[{}] = 0
  BY <1>4 DEF IsQuantity
<1>6. ASSUME NEW k \in 1..n, w[1..k - 1] \in Int PROVE w[1..k] = step[<<w[1..k - 1], k>>]
  <2>1. PICK j \in Nat : k = j + 1 /\ j = k - 1
    BY <1>1
  <2>2. 1..k # {} /\ Max(1..k) = k /\ (1..k) \ {k} = 1..j
    BY <2>1, OneMore
  <2>3. PICK s \in SUBSET DOMAIN request : s = 1..k
    BY <1>1
  <2>4. w[s] = AddIfText(request, text, w[s \ {Max(s)}], Max(s))
    BY <1>4, <2>2, <2>3 DEF IsQuantity
  <2>5. w[1..k] = AddIfText(request, text, w[1..j], k)
    BY <2>2, <2>3, <2>4
  <2> QED
    BY <1>6, <2>1, <2>5
<1>7. w[1..n] = Quantity(request, text)
  BY <1>1, QuantityChosen DEF w
<1>8. PICK q : IsRun(q, Int, 0, n, step, w[1..n])
  <2> HIDE DEF step, n
  <2>1. TakesSteps(w, Int, 0, n, step)
    BY <1>5, <1>6 DEF TakesSteps
  <2> QED
    BY <1>1, <1>3, <2>1, FoldRuns
<1>9. ASSUME NEW k \in 1..n PROVE q[k] = AddIfText(request, text, q[k - 1], k)
  <2>1. q[k - 1] \in Int
    BY <1>8 DEF IsRun
  <2> QED
    BY <1>8, <2>1 DEF IsRun
<1> QED
  BY <1>7, <1>8, <1>9 DEF IsRun

\* An item counts if it has the product.
AddIfProduct(request, p, sum, i) ==
    IF Value[request[i].product_id] = p THEN sum + request[i].quantity ELSE sum

IsUnits(w, request, p) ==
    w = [s \in SUBSET DOMAIN request |->
            IF s = {} THEN 0 ELSE AddIfProduct(request, p, w[s \ {Max(s)}], Max(s))]

LEMMA UnitsChosen ==
    ASSUME NEW request, NEW p
    PROVE  Units(request, p)
              = (CHOOSE w : IsUnits(w, request, p))[DOMAIN request]
  BY Zenon DEF Units, FoldLeft, MapThenFoldSet, IsUnits, AddIfProduct

\* Units adds up the items with the product.
LEMMA UnitsFold ==
    ASSUME NEW request \in Seq(Items), NEW p
    PROVE  \E q \in [0..Len(request) -> Int] :
              /\ q[0] = 0 /\ q[Len(request)] = Units(request, p)
              /\ \A k \in 1..Len(request) : q[k] = AddIfProduct(request, p, q[k - 1], k)
<1> DEFINE n == Len(request)
           step == [x \in Int \X (1..n) |-> AddIfProduct(request, p, x[1], x[2])]
           w == CHOOSE v : IsUnits(v, request, p)
<1>1. n \in Nat /\ DOMAIN request = 1..n /\ 0 \in Int
  OBVIOUS
<1>2. ASSUME NEW sum \in Int, NEW i \in 1..n PROVE AddIfProduct(request, p, sum, i) \in Int
  <2>1. request[i] \in Items
    OBVIOUS
  <2>2. request[i].quantity \in Int
    BY <2>1, OrderRequestAssumption DEF Items, Quantities
  <2> QED
    BY <2>2 DEF AddIfProduct
<1>3. step \in [Int \X (1..n) -> Int]
  BY <1>2
<1>4. IsUnits(w, request, p)
  <2> HIDE DEF n
  <2>1. PICK v \in [SUBSET (1..n) -> Int] : IsFold(v, step, 0, n)
    <3> HIDE DEF step
    <3> QED
      BY <1>1, <1>3, FoldExists
  <2>2. ASSUME NEW s \in SUBSET (1..n)
        PROVE  v[s] = IF s = {} THEN 0
                      ELSE AddIfProduct(request, p, v[s \ {Max(s)}], Max(s))
    <3> HIDE DEF step
    <3>1. v[s] = IF s = {} THEN 0 ELSE step[<<v[s \ {Max(s)}], Max(s)>>]
      BY <2>1 DEF IsFold
    <3>2. s # {} => Max(s) \in 1..n /\ v[s \ {Max(s)}] \in Int
      BY <1>1, <2>1, Largest
    <3> QED
      BY <3>1, <3>2 DEF step
  <2>3. v = [s \in SUBSET DOMAIN request |-> v[s]]
    BY <1>1, <2>1
  <2> HIDE DEF step
  <2>4. IsUnits(v, request, p)
    BY <1>1, <2>2, <2>3 DEF IsUnits
  <2> QED
    BY <2>4
<1> HIDE DEF w
<1>5. w[{}] = 0
  BY <1>4 DEF IsUnits
<1>6. ASSUME NEW k \in 1..n, w[1..k - 1] \in Int PROVE w[1..k] = step[<<w[1..k - 1], k>>]
  <2>1. PICK j \in Nat : k = j + 1 /\ j = k - 1
    BY <1>1
  <2>2. 1..k # {} /\ Max(1..k) = k /\ (1..k) \ {k} = 1..j
    BY <2>1, OneMore
  <2>3. PICK s \in SUBSET DOMAIN request : s = 1..k
    BY <1>1
  <2>4. w[s] = AddIfProduct(request, p, w[s \ {Max(s)}], Max(s))
    BY <1>4, <2>2, <2>3 DEF IsUnits
  <2>5. w[1..k] = AddIfProduct(request, p, w[1..j], k)
    BY <2>2, <2>3, <2>4
  <2> QED
    BY <1>6, <2>1, <2>5
<1>7. w[1..n] = Units(request, p)
  BY <1>1, UnitsChosen DEF w
<1>8. PICK q : IsRun(q, Int, 0, n, step, w[1..n])
  <2> HIDE DEF step, n
  <2>1. TakesSteps(w, Int, 0, n, step)
    BY <1>5, <1>6 DEF TakesSteps
  <2> QED
    BY <1>1, <1>3, <2>1, FoldRuns
<1>9. ASSUME NEW k \in 1..n PROVE q[k] = AddIfProduct(request, p, q[k - 1], k)
  <2>1. q[k - 1] \in Int
    BY <1>8 DEF IsRun
  <2> QED
    BY <1>8, <2>1 DEF IsRun
<1> QED
  BY <1>7, <1>8, <1>9 DEF IsRun

\* A text is seen the first time.
See(request, seen, i) ==
    IF Contains(seen, request[i].product_id) THEN seen
    ELSE Append(seen, request[i].product_id)

IsSeen(w, request) ==
    w = [s \in SUBSET DOMAIN request |->
            IF s = {} THEN <<>> ELSE See(request, w[s \ {Max(s)}], Max(s))]

LEMMA SeenChosen ==
    ASSUME NEW request
    PROVE  Seen(request)
              = (CHOOSE w : IsSeen(w, request))[DOMAIN request]
  BY Zenon DEF Seen, FoldLeft, MapThenFoldSet, IsSeen, See

\* Seen lists the texts.
LEMMA SeenFold ==
    ASSUME NEW request \in Seq(Items)
    PROVE  \E q \in [0..Len(request) -> Seq(Texts)] :
              /\ q[0] = <<>> /\ q[Len(request)] = Seen(request)
              /\ \A k \in 1..Len(request) : q[k] = See(request, q[k - 1], k)
<1> DEFINE n == Len(request)
           step == [x \in Seq(Texts) \X (1..n) |-> See(request, x[1], x[2])]
           w == CHOOSE v : IsSeen(v, request)
<1>1. n \in Nat /\ DOMAIN request = 1..n /\ <<>> \in Seq(Texts)
  OBVIOUS
<1>2. ASSUME NEW seen \in Seq(Texts), NEW i \in 1..n PROVE See(request, seen, i) \in Seq(Texts)
  <2>1. request[i] \in Items
    OBVIOUS
  <2>2. request[i].product_id \in Texts
    BY <2>1 DEF Items
  <2> QED
    BY <2>2 DEF See
<1>3. step \in [Seq(Texts) \X (1..n) -> Seq(Texts)]
  BY <1>2
<1>4. IsSeen(w, request)
  <2> HIDE DEF n
  <2>1. PICK v \in [SUBSET (1..n) -> Seq(Texts)] : IsFold(v, step, <<>>, n)
    <3> HIDE DEF step
    <3> QED
      BY <1>1, <1>3, FoldExists
  <2>2. ASSUME NEW s \in SUBSET (1..n)
        PROVE  v[s] = IF s = {} THEN <<>>
                      ELSE See(request, v[s \ {Max(s)}], Max(s))
    <3> HIDE DEF step
    <3>1. v[s] = IF s = {} THEN <<>> ELSE step[<<v[s \ {Max(s)}], Max(s)>>]
      BY <2>1 DEF IsFold
    <3>2. s # {} => Max(s) \in 1..n /\ v[s \ {Max(s)}] \in Seq(Texts)
      BY <1>1, <2>1, Largest
    <3> QED
      BY <3>1, <3>2 DEF step
  <2>3. v = [s \in SUBSET DOMAIN request |-> v[s]]
    BY <1>1, <2>1
  <2> HIDE DEF step
  <2>4. IsSeen(v, request)
    BY <1>1, <2>2, <2>3 DEF IsSeen
  <2> QED
    BY <2>4
<1> HIDE DEF w
<1>5. w[{}] = <<>>
  BY <1>4 DEF IsSeen
<1>6. ASSUME NEW k \in 1..n, w[1..k - 1] \in Seq(Texts) PROVE w[1..k] = step[<<w[1..k - 1], k>>]
  <2>1. PICK j \in Nat : k = j + 1 /\ j = k - 1
    BY <1>1
  <2>2. 1..k # {} /\ Max(1..k) = k /\ (1..k) \ {k} = 1..j
    BY <2>1, OneMore
  <2>3. PICK s \in SUBSET DOMAIN request : s = 1..k
    BY <1>1
  <2>4. w[s] = See(request, w[s \ {Max(s)}], Max(s))
    BY <1>4, <2>2, <2>3 DEF IsSeen
  <2>5. w[1..k] = See(request, w[1..j], k)
    BY <2>2, <2>3, <2>4
  <2> QED
    BY <1>6, <2>1, <2>5
<1>7. w[1..n] = Seen(request)
  BY <1>1, SeenChosen DEF w
<1>8. PICK q : IsRun(q, Seq(Texts), <<>>, n, step, w[1..n])
  <2> HIDE DEF step, n
  <2>1. TakesSteps(w, Seq(Texts), <<>>, n, step)
    BY <1>5, <1>6 DEF TakesSteps
  <2> QED
    BY <1>1, <1>3, <2>1, FoldRuns
<1>9. ASSUME NEW k \in 1..n PROVE q[k] = See(request, q[k - 1], k)
  <2>1. q[k - 1] \in Seq(Texts)
    BY <1>8 DEF IsRun
  <2> QED
    BY <1>8, <2>1 DEF IsRun
<1> QED
  BY <1>7, <1>8, <1>9 DEF IsRun

\* The texts of a request are seen once each, and no others.
Lists(texts, request, n) ==
    /\ \A i, j \in 1..Len(texts) : texts[i] = texts[j] => i = j
    /\ \A i \in 1..Len(texts) : \E k \in 1..n : request[k].product_id = texts[i]
    /\ \A k \in 1..n : \E i \in 1..Len(texts) : texts[i] = request[k].product_id

LEMMA SeenLists ==
    ASSUME NEW request \in Seq(Items)
    PROVE  /\ Seen(request) \in Seq(Texts)
           /\ Lists(Seen(request), request, Len(request))
<1> DEFINE n == Len(request)
<1>1. PICK q \in [0..n -> Seq(Texts)] :
         /\ q[0] = <<>> /\ q[n] = Seen(request)
         /\ \A k \in 1..n : q[k] = See(request, q[k - 1], k)
  BY SeenFold
<1>2. n \in Nat
  OBVIOUS
<1> DEFINE G == { k \in 0..n : Lists(q[k], request, k) }
<1>3. 0 \in G
  BY <1>1, <1>2 DEF Lists
<1>4. ASSUME NEW k \in 0..n - 1, k \in G PROVE k + 1 \in G
  <2> DEFINE j == k + 1
             text == request[j].product_id
  <2>1. /\ q[k] \in Seq(Texts) /\ j \in 1..n /\ j \in 0..n
        /\ Lists(q[k], request, k) /\ q[j] = See(request, q[k], j)
    BY <1>1, <1>2, <1>4
  <2>2. text \in Texts /\ \A b \in 1..j : b \in 1..k \/ b = j
    BY <2>1, ItemAt
  <2>3. CASE Contains(q[k], text)
    <3>1. q[j] = q[k]
      BY <2>1, <2>3 DEF See
    <3>2. PICK a \in 1..Len(q[k]) : q[k][a] = text
      BY <2>3 DEF Contains
    <3>3. /\ \A b \in 1..k : b \in 1..j
          /\ \A b \in 1..j : \E i \in 1..Len(q[k]) : q[k][i] = request[b].product_id
      BY <1>2, <2>1, <2>2, <3>2 DEF Lists
    <3>4. Lists(q[j], request, j)
      BY <2>1, <3>1, <3>3, ZenonT(40) DEF Lists
    <3> QED
      BY <2>1, <3>4
  <2>4. CASE ~Contains(q[k], text)
    <3>1. PICK s \in Seq(Texts) : s = q[k]
      BY <2>1
    <3>2. q[j] = Append(s, text)
      BY <2>1, <2>4, <3>1 DEF See
    <3>3. /\ Len(q[j]) = Len(s) + 1 /\ Len(s) \in Nat
          /\ \A i \in 1..Len(s) : q[j][i] = s[i]
          /\ q[j][Len(s) + 1] = text
      BY <2>2, <3>2
    <3>4. \A i \in 1..Len(s) : s[i] # text
      BY <2>4, <3>1 DEF Contains
    <3>5. \A i \in 1..Len(q[j]) : i \in 1..Len(s) \/ i = Len(s) + 1
      BY <3>3
    <3>6. Lists(s, request, k)
      BY <2>1, <3>1
    <3> HIDE DEF text, j
    <3>7. \A a, b \in 1..Len(q[j]) : q[j][a] = q[j][b] => a = b
      BY <3>3, <3>4, <3>5, <3>6, SMTT(30) DEF Lists
    <3>8. \A a \in 1..Len(q[j]) : \E b \in 1..j : request[b].product_id = q[j][a]
      BY <1>2, <3>3, <3>5, <3>6 DEF Lists, text, j
    <3>9. \A b \in 1..j : \E a \in 1..Len(q[j]) : q[j][a] = request[b].product_id
      <4>1. ASSUME NEW b \in 1..k
            PROVE  \E a \in 1..Len(q[j]) : q[j][a] = request[b].product_id
        <5>1. PICK a \in 1..Len(s) : s[a] = request[b].product_id
          BY <3>6 DEF Lists
        <5> QED
          BY <3>3, <5>1
      <4>2. Len(s) + 1 \in 1..Len(q[j]) /\ q[j][Len(s) + 1] = request[j].product_id
        BY <3>3 DEF text
      <4> QED
        BY <2>2, <4>1, <4>2
    <3> QED
      BY <2>1, <3>7, <3>8, <3>9 DEF Lists, j
  <2> QED
    BY <2>3, <2>4
<1>5. 0..n \subseteq G
  <2> HIDE DEF G, n
  <2> QED
    BY <1>2, <1>3, <1>4, Counting
<1>6. n \in 0..n
  BY <1>2
<1> QED
  BY <1>1, <1>5, <1>6

LEMMA QuantityInRange ==
    ASSUME NEW request \in Seq(Items), NEW text
    PROVE  Quantity(request, text) \in Quantities
<1> DEFINE n == Len(request)
<1>1. PICK q \in [0..n -> Int] :
         /\ q[0] = 0 /\ q[n] = Quantity(request, text)
         /\ \A k \in 1..n : q[k] = AddIfText(request, text, q[k - 1], k)
  BY QuantityFold
<1> DEFINE G == { k \in 0..n : q[k] \in Quantities }
<1>2. n \in Nat /\ n \in 0..n
  OBVIOUS
<1>3. 0 \in G
  BY <1>1, <1>2, OrderRequestAssumption DEF Quantities
<1>4. ASSUME NEW k \in 0..n - 1, k \in G PROVE k + 1 \in G
  <2>1. /\ k + 1 \in 1..n /\ k + 1 \in 0..n /\ q[k] \in Quantities /\ q[k] \in Int
        /\ q[k + 1] = AddIfText(request, text, q[k], k + 1)
    BY <1>1, <1>2, <1>4
  <2>2. q[k] + request[k + 1].quantity \in Int
    BY <2>1, ItemAt
  <2>3. Wrap(q[k] + request[k + 1].quantity) \in Quantities
    BY <2>2, Wraps
  <2> QED
    BY <2>1, <2>3 DEF AddIfText
<1>5. 0..n \subseteq G
  <2> HIDE DEF G, n
  <2> QED
    BY <1>2, <1>3, <1>4, Counting
<1> QED
  BY <1>1, <1>2, <1>5

\* A product nobody asks for has no units; one that is asked for has some.
LEMMA UnitsCount ==
    ASSUME NEW request \in Seq(Items), NEW p
    PROVE  /\ Units(request, p) \in Int
           /\ (\A k \in 1..Len(request) : Value[request[k].product_id] # p)
                 => Units(request, p) = 0
           /\ \A k \in 1..Len(request) :
                 Valid(request) /\ Value[request[k].product_id] = p => Units(request, p) > 0
<1> DEFINE n == Len(request)
           Asks(k) == Value[request[k].product_id] = p
<1>1. PICK q \in [0..n -> Int] :
         /\ q[0] = 0 /\ q[n] = Units(request, p)
         /\ \A k \in 1..n : q[k] = AddIfProduct(request, p, q[k - 1], k)
  BY UnitsFold
<1>2. n \in Nat /\ n \in 0..n /\ DOMAIN request = 1..n
  OBVIOUS
<1>3. ASSUME NEW k \in 0..n - 1
      PROVE  /\ k + 1 \in 1..n /\ k + 1 \in 0..n /\ k \in 0..n /\ q[k] \in Int
             /\ request[k + 1].quantity \in Int
             /\ Valid(request) => request[k + 1].quantity > 0
             /\ q[k + 1] = IF Asks(k + 1) THEN q[k] + request[k + 1].quantity ELSE q[k]
  <2>1. k + 1 \in 1..n /\ k + 1 \in 0..n /\ k \in 0..n /\ (k + 1) - 1 = k
    BY <1>2
  <2>2. q[k + 1] = AddIfProduct(request, p, q[k], k + 1)
    BY <1>1, <2>1
  <2> QED
    BY <1>2, <2>1, <2>2, ItemAt DEF AddIfProduct, Valid
<1>4. ASSUME \A k \in 1..n : ~Asks(k) PROVE q[n] = 0
  <2> DEFINE G == { k \in 0..n : q[k] = 0 }
  <2>1. 0 \in G
    BY <1>1, <1>2
  <2>2. \A k \in 0..n - 1 : k \in G => k + 1 \in G
    BY <1>3, <1>4
  <2>3. 0..n \subseteq G
    <3> HIDE DEF G, n
    <3> QED
      BY <1>2, <2>1, <2>2, Counting
  <2> QED
    BY <1>2, <2>3
<1>5. ASSUME Valid(request), NEW m \in 1..n, Asks(m) PROVE q[n] > 0
  <2> DEFINE G == { k \in 0..n : q[k] >= 0 /\ (m <= k => q[k] > 0) }
  <2>1. 0 \in G
    BY <1>1, <1>2
  <2>2. ASSUME NEW k \in 0..n - 1, k \in G PROVE k + 1 \in G
    <3>1. m <= k + 1 => m <= k \/ m = k + 1
      BY <1>2
    <3> HIDE DEF Asks
    <3> QED
      BY <1>3, <1>5, <2>2, <3>1, SMTT(30)
  <2>3. 0..n \subseteq G
    <3> HIDE DEF G, n
    <3> QED
      BY <1>2, <2>1, <2>2, Counting
  <2> QED
    BY <1>2, <2>3
<1> QED
  BY <1>1, <1>2, <1>4, <1>5

\* Summed by text or by value, it is the same if the product has one spelling.
LEMMA OneSpelling ==
    ASSUME NEW request \in Seq(Items), NEW text,
           \A k \in 1..Len(request) :
              Value[request[k].product_id] = Value[text] => request[k].product_id = text
    PROVE  Quantity(request, text) = Wrap(Units(request, Value[text]))
<1> DEFINE n == Len(request)
           p == Value[text]
<1>1. PICK q \in [0..n -> Int] :
         /\ q[0] = 0 /\ q[n] = Quantity(request, text)
         /\ \A k \in 1..n : q[k] = AddIfText(request, text, q[k - 1], k)
  BY QuantityFold
<1>2. PICK u \in [0..n -> Int] :
         /\ u[0] = 0 /\ u[n] = Units(request, p)
         /\ \A k \in 1..n : u[k] = AddIfProduct(request, p, u[k - 1], k)
  BY UnitsFold
<1>3. n \in Nat /\ n \in 0..n
  OBVIOUS
<1> DEFINE G == { k \in 0..n : q[k] = Wrap(u[k]) }
<1>4. 0 \in G
  <2>1. 0 \in Quantities
    BY OrderRequestAssumption DEF Quantities
  <2> QED
    BY <1>1, <1>2, <1>3, <2>1, Wraps
<1>5. ASSUME NEW k \in 0..n - 1, k \in G PROVE k + 1 \in G
  <2>1. k + 1 \in 1..n /\ k + 1 \in 0..n /\ (k + 1) - 1 = k /\ u[k] \in Int /\ q[k] = Wrap(u[k])
    BY <1>3, <1>5, SMTT(30)
  <2>2. /\ q[k + 1] = AddIfText(request, text, q[k], k + 1)
        /\ u[k + 1] = AddIfProduct(request, p, u[k], k + 1)
    BY <1>1, <1>2, <2>1
  <2>3. CASE request[k + 1].product_id = text
    <3>1. /\ q[k + 1] = Wrap(Wrap(u[k]) + request[k + 1].quantity)
          /\ u[k + 1] = u[k] + request[k + 1].quantity
      BY <2>1, <2>2, <2>3 DEF AddIfText, AddIfProduct
    <3>2. request[k + 1].quantity \in Int
      BY <2>1, ItemAt
    <3>3. Wrap(Wrap(u[k]) + request[k + 1].quantity) = Wrap(u[k] + request[k + 1].quantity)
      BY <2>1, <3>2, Wraps
    <3> QED
      BY <2>1, <3>1, <3>3
  <2>4. CASE request[k + 1].product_id # text
    <3>1. Value[request[k + 1].product_id] # p
      BY <2>1, <2>4
    <3> QED
      BY <2>1, <2>2, <2>4, <3>1 DEF AddIfText, AddIfProduct
  <2> QED
    BY <2>3, <2>4
<1>6. 0..n \subseteq G
  <2> HIDE DEF G, n
  <2> QED
    BY <1>3, <1>4, <1>5, Counting
<1> QED
  BY <1>1, <1>2, <1>3, <1>6

-----------------------------------------------------------------------------
(* Sums over finite sets.  MapThenSumSet is a recursive function on the    *)
(* subsets that takes away a chosen element.  It exists, it is unique, and *)
(* any element may be taken away instead.                                  *)

Pick(s) == CHOOSE x \in s : TRUE

IsSum(w, f, D) ==
    w = [s \in SUBSET D |-> IF s = {} THEN 0 ELSE f[Pick(s)] + w[s \ {Pick(s)}]]

Sums(w, f, D) ==
    /\ w \in [SUBSET D -> Int]
    /\ w[{}] = 0
    /\ \A s \in SUBSET D : \A x \in s : w[s] = f[x] + w[s \ {x}]

LEMMA OneLess ==
    ASSUME NEW D, IsFiniteSet(D), NEW s \in SUBSET D
    PROVE  /\ Cardinality(s) \in 0..Cardinality(D) /\ Cardinality(D) \in Nat
           /\ Cardinality(s) = 0 <=> s = {}
           /\ s # {} => Pick(s) \in s
           /\ \A x \in s : /\ s \ {x} \in SUBSET D
                           /\ Cardinality(s \ {x}) = Cardinality(s) - 1
<1>1. /\ IsFiniteSet(s) /\ Cardinality(s) \in Nat /\ Cardinality(D) \in Nat
      /\ Cardinality(s) <= Cardinality(D)
  BY FS_Subset, FS_CardinalityType
<1>2. Cardinality(s) = 0 <=> s = {}
  BY <1>1, FS_EmptySet
<1>3. \A x \in s : s \ {x} \in SUBSET D /\ Cardinality(s \ {x}) = Cardinality(s) - 1
  BY <1>1, FS_RemoveElement
<1>4. s # {} => Pick(s) \in s
  BY DEF Pick
<1> QED
  BY <1>1, <1>2, <1>3, <1>4

\* A sum as far as the sets of at most k elements.
UpTo(D, k) == { s \in SUBSET D : Cardinality(s) <= k }

PartialSum(w, f, D, k) ==
    /\ w \in [UpTo(D, k) -> Int]
    /\ \A s \in UpTo(D, k) :
          w[s] = IF s = {} THEN 0 ELSE f[Pick(s)] + w[s \ {Pick(s)}]

LEMMA SumExists ==
    ASSUME NEW D, IsFiniteSet(D), NEW f \in [D -> Int]
    PROVE  \E w \in [SUBSET D -> Int] : IsSum(w, f, D)
<1> DEFINE n == Cardinality(D)
           G == { k \in 0..n : \E w : PartialSum(w, f, D, k) }
<1>1. /\ n \in Nat /\ n \in 0..n
      /\ \A s \in SUBSET D : Cardinality(s) \in 0..n
  BY OneLess
<1>2. 0 \in G
  <2> DEFINE w == [s \in UpTo(D, 0) |-> 0]
  <2>1. \A s \in UpTo(D, 0) : s = {}
    BY OneLess DEF UpTo
  <2>2. PartialSum(w, f, D, 0)
    BY <2>1 DEF PartialSum
  <2> HIDE DEF w
  <2> QED
    BY <1>1, <2>2
<1>3. ASSUME NEW k \in 0..n - 1, k \in G PROVE k + 1 \in G
  <2>1. PICK w : PartialSum(w, f, D, k)
    BY <1>3
  <2> DEFINE V(s) == IF Cardinality(s) = k + 1 THEN f[Pick(s)] + w[s \ {Pick(s)}] ELSE w[s]
             v == [s \in UpTo(D, k + 1) |-> V(s)]
  <2>2. ASSUME NEW s \in UpTo(D, k + 1)
        PROVE  /\ Cardinality(s) = k + 1 =>
                     /\ s # {} /\ Pick(s) \in D
                     /\ s \ {Pick(s)} \in UpTo(D, k)
               /\ Cardinality(s) # k + 1 => s \in UpTo(D, k)
               /\ s # {} => s \ {Pick(s)} \in UpTo(D, k)
               /\ s \in SUBSET D /\ Cardinality(s) \in Nat
    BY <1>1, OneLess DEF UpTo
  <2>3. v \in [UpTo(D, k + 1) -> Int]
    <3>1. ASSUME NEW s \in UpTo(D, k + 1) PROVE V(s) \in Int
      <4>1. w \in [UpTo(D, k) -> Int]
        BY <2>1 DEF PartialSum
      <4>2. CASE Cardinality(s) = k + 1
        <5>1. f[Pick(s)] \in Int /\ w[s \ {Pick(s)}] \in Int
          BY <2>2, <4>1, <4>2
        <5> QED
          BY <4>2, <5>1
      <4>3. CASE Cardinality(s) # k + 1
        BY <2>2, <4>1, <4>3
      <4> QED
        BY <4>2, <4>3
    <3> HIDE DEF V
    <3> QED
      BY <3>1
  <2>4. ASSUME NEW s \in UpTo(D, k + 1), s # {}
        PROVE  v[s \ {Pick(s)}] = w[s \ {Pick(s)}]
    <3>1. PICK t \in UpTo(D, k) : t = s \ {Pick(s)}
      BY <2>2, <2>4
    <3>2. t \in UpTo(D, k + 1) /\ Cardinality(t) # k + 1
      BY <1>1, <3>1 DEF UpTo
    <3>3. v[t] = w[t]
      BY <3>2
    <3> QED
      BY <3>1, <3>3
  <2>5. ASSUME NEW s \in UpTo(D, k + 1)
        PROVE  v[s] = IF s = {} THEN 0 ELSE f[Pick(s)] + v[s \ {Pick(s)}]
    <3>1. v[s] = V(s)
      OBVIOUS
    <3> HIDE DEF v
    <3>2. CASE Cardinality(s) = k + 1
      BY <2>2, <2>4, <3>1, <3>2
    <3>3. CASE Cardinality(s) # k + 1
      <4>1. s \in UpTo(D, k) /\ v[s] = w[s]
        BY <2>2, <3>1, <3>3
      <4>2. w[s] = IF s = {} THEN 0 ELSE f[Pick(s)] + w[s \ {Pick(s)}]
        BY <2>1, <4>1 DEF PartialSum
      <4> QED
        BY <2>4, <4>1, <4>2
    <3> QED
      BY <3>2, <3>3
  <2>6. PartialSum(v, f, D, k + 1)
    <3> HIDE DEF v
    <3> QED
      BY <2>3, <2>5 DEF PartialSum
  <2> HIDE DEF v
  <2> QED
    BY <1>1, <2>6
<1>4. 0..n \subseteq G
  <2> HIDE DEF G, n
  <2> QED
    BY <1>1, <1>2, <1>3, Counting
<1>5. PICK w : PartialSum(w, f, D, n)
  BY <1>1, <1>4
<1>6. UpTo(D, n) = SUBSET D
  BY <1>1 DEF UpTo
<1>7. w \in [SUBSET D -> Int] /\ IsSum(w, f, D)
  BY <1>5, <1>6 DEF PartialSum, IsSum
<1> QED
  BY <1>7

LEMMA SumUnique ==
    ASSUME NEW D, IsFiniteSet(D), NEW f, NEW w, NEW v, IsSum(w, f, D), IsSum(v, f, D)
    PROVE  w = v
<1> DEFINE n == Cardinality(D)
           G == { k \in 0..n : \A s \in SUBSET D : Cardinality(s) = k => w[s] = v[s] }
<1>1. /\ n \in Nat
      /\ \A s \in SUBSET D : Cardinality(s) \in 0..n
  BY OneLess
<1>2. ASSUME NEW s \in SUBSET D
      PROVE  /\ w[s] = IF s = {} THEN 0 ELSE f[Pick(s)] + w[s \ {Pick(s)}]
             /\ v[s] = IF s = {} THEN 0 ELSE f[Pick(s)] + v[s \ {Pick(s)}]
  BY DEF IsSum
<1>3. 0 \in G
  <2>1. ASSUME NEW s \in SUBSET D, Cardinality(s) = 0 PROVE w[s] = v[s]
    <3>1. s = {}
      BY <2>1, OneLess
    <3> QED
      BY <1>2, <3>1
  <2> QED
    BY <1>1, <2>1
<1>4. ASSUME NEW k \in 0..n - 1, k \in G PROVE k + 1 \in G
  <2>1. ASSUME NEW s \in SUBSET D, Cardinality(s) = k + 1 PROVE w[s] = v[s]
    <3>1. s # {} /\ s \ {Pick(s)} \in SUBSET D /\ Cardinality(s \ {Pick(s)}) = k
      BY <1>1, <2>1, OneLess
    <3>2. w[s \ {Pick(s)}] = v[s \ {Pick(s)}]
      BY <1>4, <3>1
    <3> QED
      BY <1>2, <3>1, <3>2
  <2> QED
    BY <1>1, <2>1
<1>5. 0..n \subseteq G
  <2> HIDE DEF G, n
  <2> QED
    BY <1>1, <1>3, <1>4, Counting
<1>6. \A s \in SUBSET D : w[s] = v[s]
  BY <1>1, <1>5
<1> QED
  BY <1>6 DEF IsSum

\* Whichever element is taken away, it counts once.
LEMMA SumsUp ==
    ASSUME NEW D, IsFiniteSet(D), NEW f \in [D -> Int], NEW w, IsSum(w, f, D)
    PROVE  Sums(w, f, D)
<1> DEFINE n == Cardinality(D)
           G == { k \in 0..n : \A s \in SUBSET D :
                     Cardinality(s) = k => \A x \in s : w[s] = f[x] + w[s \ {x}] }
<1>1. w \in [SUBSET D -> Int]
  <2>1. PICK v \in [SUBSET D -> Int] : IsSum(v, f, D)
    BY SumExists
  <2> QED
    BY <2>1, SumUnique
<1>2. /\ n \in Nat
      /\ \A s \in SUBSET D : Cardinality(s) \in 0..n
  BY OneLess
<1>3. ASSUME NEW s \in SUBSET D
      PROVE  w[s] = IF s = {} THEN 0 ELSE f[Pick(s)] + w[s \ {Pick(s)}]
  BY DEF IsSum
<1>4. 0 \in G
  BY <1>2, OneLess
<1>5. ASSUME NEW k \in 0..n - 1, k \in G PROVE k + 1 \in G
  <2>1. ASSUME NEW s \in SUBSET D, Cardinality(s) = k + 1, NEW x \in s
        PROVE  w[s] = f[x] + w[s \ {x}]
    <3>1. PICK z \in s : z = Pick(s)
      BY OneLess
    <3>2. w[s] = f[z] + w[s \ {z}]
      BY <1>3, <3>1
    <3>3. CASE x # z
      <4>1. PICK sx \in SUBSET D : sx = s \ {x}
        OBVIOUS
      <4>2. PICK sz \in SUBSET D : sz = s \ {z}
        OBVIOUS
      <4>3. Cardinality(sx) = k /\ Cardinality(sz) = k
        BY <1>2, <2>1, <4>1, <4>2, OneLess
      <4>4. z \in sx /\ x \in sz /\ sx \ {z} = sz \ {x}
        BY <3>3, <4>1, <4>2
      <4>5. \A t \in SUBSET D : Cardinality(t) = k => \A y \in t : w[t] = f[y] + w[t \ {y}]
        BY <1>5
      <4>6. w[sx] = f[z] + w[sx \ {z}] /\ w[sz] = f[x] + w[sx \ {z}]
        BY <4>3, <4>4, <4>5, ZenonT(40)
      <4>7. f[x] \in Int /\ f[z] \in Int /\ w[sx \ {z}] \in Int
        BY <1>1
      <4> QED
        BY <3>2, <4>1, <4>2, <4>6, <4>7
    <3> QED
      BY <3>2, <3>3
  <2> QED
    BY <1>2, <2>1
<1>6. 0..n \subseteq G
  <2> HIDE DEF G, n
  <2> QED
    BY <1>2, <1>4, <1>5, Counting
<1>7. \A s \in SUBSET D : \A x \in s : w[s] = f[x] + w[s \ {x}]
  BY <1>2, <1>6
<1>8. w[{}] = 0
  BY <1>3
<1> QED
  BY <1>1, <1>7, <1>8 DEF Sums

\* Sums of functions that agree on a set agree on it.
LEMMA SumsAgree ==
    ASSUME NEW D, NEW f \in [D -> Int], NEW w, Sums(w, f, D),
           NEW E, NEW g \in [E -> Int], NEW v, Sums(v, g, E),
           NEW s \in SUBSET (D \cap E), IsFiniteSet(s), \A x \in s : f[x] = g[x]
    PROVE  w[s] = v[s]
<1> DEFINE G == { t \in SUBSET s : w[t] = v[t] }
<1>1. {} \in G
  BY DEF Sums
<1>2. ASSUME NEW t \in SUBSET s, NEW x \in s \ t, t \in G PROVE t \cup {x} \in G
  <2>1. PICK u \in SUBSET s : u = t \cup {x}
    BY <1>2
  <2>2. x \in u /\ u \ {x} = t /\ u \in SUBSET D /\ u \in SUBSET E
    BY <1>2, <2>1
  <2>3. w[u] = f[x] + w[t] /\ v[u] = g[x] + v[t]
    BY <2>2 DEF Sums
  <2> QED
    BY <1>2, <2>1, <2>3
<1>3. SUBSET s \subseteq G
  <2> HIDE DEF G
  <2> QED
    BY <1>1, <1>2, Gathering
<1> QED
  BY <1>3

\* What has no value does not count; what is not negative adds up to something that
\* is not.
LEMMA SumsOfZero ==
    ASSUME NEW D, NEW f \in [D -> Int], NEW w, Sums(w, f, D),
           NEW s \in SUBSET D, NEW z \in SUBSET D, IsFiniteSet(z), s \cap z = {},
           \A x \in z : f[x] = 0
    PROVE  w[s \cup z] = w[s]
<1> DEFINE G == { t \in SUBSET z : w[s \cup t] = w[s] }
<1>1. {} \in G
  <2>1. s \cup {} = s
    OBVIOUS
  <2> QED
    BY <2>1
<1>2. ASSUME NEW t \in SUBSET z, NEW x \in z \ t, t \in G PROVE t \cup {x} \in G
  <2>1. PICK u \in SUBSET D : u = s \cup (t \cup {x})
    BY <1>2
  <2>2. x \in u /\ u \ {x} = s \cup t
    BY <1>2, <2>1
  <2>3. w[u] = f[x] + w[s \cup t] /\ f[x] = 0 /\ w[s] \in Int
    BY <2>2 DEF Sums
  <2> QED
    BY <1>2, <2>1, <2>3
<1>3. SUBSET z \subseteq G
  <2>1. \A t \in SUBSET z : \A x \in z \ t : t \in G => t \cup {x} \in G
    BY <1>2
  <2>2. IsFiniteSet(z)
    OBVIOUS
  <2> HIDE DEF G
  <2> QED
    BY ONLY <1>1, <2>1, <2>2, Gathering
<1> QED
  BY <1>3

LEMMA SumsNotNegative ==
    ASSUME NEW D, IsFiniteSet(D), NEW f \in [D -> Int], NEW w, Sums(w, f, D),
           \A x \in D : f[x] >= 0
    PROVE  w[D] >= 0
<1> DEFINE G == { t \in SUBSET D : w[t] >= 0 }
<1>1. {} \in G
  BY DEF Sums
<1>2. ASSUME NEW t \in SUBSET D, NEW x \in D \ t, t \in G PROVE t \cup {x} \in G
  <2>1. PICK u \in SUBSET D : u = t \cup {x}
    BY <1>2
  <2>2. x \in u /\ u \ {x} = t
    BY <1>2, <2>1
  <2>3. w[u] = f[x] + w[t] /\ f[x] >= 0 /\ f[x] \in Int /\ w[t] \in Int
    BY <2>2 DEF Sums
  <2> QED
    BY <1>2, <2>1, <2>3
<1>3. SUBSET D \subseteq G
  <2>1. \A t \in SUBSET D : \A x \in D \ t : t \in G => t \cup {x} \in G
    BY <1>2
  <2> HIDE DEF G
  <2> QED
    BY <1>1, <2>1, Gathering
<1> QED
  BY <1>3

\* t is the sum of f over D.
HasSum(f, D, t) == \E w : Sums(w, f, D) /\ w[D] = t

LEMMA SumsToZero ==
    ASSUME NEW f, NEW t, HasSum(f, {}, t)
    PROVE  t = 0
  BY DEF HasSum, Sums

LEMMA SameSum ==
    ASSUME NEW D, IsFiniteSet(D), NEW f \in [D -> Int], NEW g \in [D -> Int],
           NEW t, NEW u, HasSum(f, D, t), HasSum(g, D, u), \A x \in D : f[x] = g[x]
    PROVE  t = u
<1>1. PICK w : Sums(w, f, D) /\ w[D] = t
  BY DEF HasSum
<1>2. PICK v : Sums(v, g, D) /\ v[D] = u
  BY DEF HasSum
<1>3. D \in SUBSET (D \cap D)
  OBVIOUS
<1> QED
  BY <1>1, <1>2, <1>3, SumsAgree

\* t is u with x added.
Adds(t, u, x) == u \in Int /\ x \in Int /\ t = u + x

\* One more element.
LEMMA SumOfOneMore ==
    ASSUME NEW D, NEW x, x \notin D, IsFiniteSet(D),
           NEW f \in [D \cup {x} -> Int], NEW g \in [D -> Int],
           NEW t, NEW u, HasSum(f, D \cup {x}, t), HasSum(g, D, u),
           \A y \in D : f[y] = g[y]
    PROVE  Adds(t, u, f[x])
<1> DEFINE E == D \cup {x}
<1>1. PICK w : Sums(w, f, E) /\ w[E] = t
  BY DEF HasSum
<1>2. PICK v : Sums(v, g, D) /\ v[D] = u
  BY DEF HasSum
<1>3. D \in SUBSET (E \cap D) /\ E \ {x} = D /\ x \in E /\ E \in SUBSET E
  OBVIOUS
<1>4. w[D] = v[D]
  <2>1. f \in [E -> Int] /\ Sums(w, f, E)
    BY <1>1
  <2> HIDE DEF E
  <2> QED
    BY <1>2, <1>3, <2>1, SumsAgree
<1>5. w[E] = f[x] + w[D]
  <2> HIDE DEF E
  <2> QED
    BY <1>1, <1>3 DEF Sums
<1>6. v[D] \in Int /\ f[x] \in Int
  BY <1>2 DEF Sums
<1> QED
  BY <1>1, <1>2, <1>4, <1>5, <1>6 DEF Adds

\* One element changes.
LEMMA SumOfOneChange ==
    ASSUME NEW D, IsFiniteSet(D), NEW x \in D,
           NEW f \in [D -> Int], NEW g \in [D -> Int],
           NEW t, NEW u, HasSum(f, D, t), HasSum(g, D, u),
           \A y \in D \ {x} : f[y] = g[y]
    PROVE  Adds(t, u, f[x] - g[x])
<1> DEFINE E == D \ {x}
<1>1. PICK w : Sums(w, f, D) /\ w[D] = t
  BY DEF HasSum
<1>2. PICK v : Sums(v, g, D) /\ v[D] = u
  BY DEF HasSum
<1>3. E \in SUBSET (D \cap D) /\ IsFiniteSet(E) /\ D \in SUBSET D
  BY FS_Subset
<1>4. w[E] = v[E]
  <2>1. \A y \in E : f[y] = g[y]
    OBVIOUS
  <2> HIDE DEF E
  <2> QED
    BY <1>1, <1>2, <1>3, <2>1, SumsAgree
<1>5. w[D] = f[x] + w[E] /\ v[D] = g[x] + v[E]
  BY <1>1, <1>2, <1>3 DEF Sums
<1>6. w[E] \in Int /\ w[D] \in Int /\ v[D] \in Int /\ f[x] \in Int /\ g[x] \in Int
  BY <1>1, <1>2, <1>3 DEF Sums
<1> HIDE DEF E
<1> QED
  BY <1>1, <1>2, <1>4, <1>5, <1>6 DEF Adds

LEMMA SumOfNotNegative ==
    ASSUME NEW D, IsFiniteSet(D), NEW f \in [D -> Int], NEW t, HasSum(f, D, t),
           \A x \in D : f[x] >= 0
    PROVE  t \in Nat
<1>1. PICK w : Sums(w, f, D) /\ w[D] = t
  BY DEF HasSum
<1>2. w[D] >= 0
  BY <1>1, SumsNotNegative
<1>3. w[D] \in Int
  BY <1>1 DEF Sums
<1> QED
  BY <1>1, <1>2, <1>3

LEMMA ASumExists ==
    ASSUME NEW D, IsFiniteSet(D), NEW f \in [D -> Int]
    PROVE  \E w : IsSum(w, f, D)
  BY SumExists

\* What the lines cost.
PriceOf(lines, k) == [i \in 1..k |-> lines[i].quantity * Prices[lines[i].id]]

IsPrice(w, lines, k) ==
    w = [s \in SUBSET (1..k) |->
            IF s = {} THEN 0
            ELSE lines[Pick(s)].quantity * Prices[lines[Pick(s)].id] + w[s \ {Pick(s)}]]

LEMMA PriceChosen ==
    ASSUME NEW lines, NEW k
    PROVE  Price(lines, k) = (CHOOSE w : IsPrice(w, lines, k))[1..k]
  BY Zenon DEF Price, MapThenSumSet, MapThenFoldSet, IsPrice, Pick

\* Lines whose products are on sale.
OnSale(lines, k) ==
    \A i \in 1..k : lines[i].quantity \in Int /\ lines[i].id \in DOMAIN Prices

LEMMA PriceSums ==
    ASSUME NEW lines, NEW k \in Nat, OnSale(lines, k)
    PROVE  /\ PriceOf(lines, k) \in [1..k -> Int]
           /\ HasSum(PriceOf(lines, k), 1..k, Price(lines, k))
<1> DEFINE f == PriceOf(lines, k)
           D == 1..k
           w == CHOOSE v : IsPrice(v, lines, k)
<1>1. f \in [D -> Int]
  BY OrderRequestAssumption DEF OnSale, PriceOf
<1>2. IsFiniteSet(D)
  BY FS_Interval
<1>3. ASSUME NEW v PROVE IsPrice(v, lines, k) <=> IsSum(v, f, D)
  <2>1. ASSUME NEW s \in SUBSET D, s # {}
        PROVE  f[Pick(s)] = lines[Pick(s)].quantity * Prices[lines[Pick(s)].id]
    <3>1. Pick(s) \in D
      BY <2>1 DEF Pick
    <3> QED
      BY <3>1 DEF PriceOf
  <2> HIDE DEF f
  <2> QED
    BY <2>1 DEF IsPrice, IsSum
<1>4. IsPrice(w, lines, k)
  <2>1. PICK v : IsSum(v, f, D)
    <3> HIDE DEF f, D
    <3> QED
      BY <1>1, <1>2, ASumExists
  <2>2. IsPrice(v, lines, k)
    BY <1>3, <2>1
  <2> QED
    BY <2>2
<1>5. w[D] = Price(lines, k)
  BY PriceChosen
<1>6. Sums(w, f, D)
  <2> HIDE DEF w, f, D
  <2> QED
    BY <1>1, <1>2, <1>3, <1>4, SumsUp
<1> HIDE DEF w
<1> QED
  BY <1>1, <1>5, <1>6 DEF HasSum

\* What a cart costs, product by product.
CostOf(cart) == [shown \in ListProducts |-> cart[shown.id] * shown.price_cents]

IsCost(w, cart) ==
    w = [s \in SUBSET ListProducts |->
            IF s = {} THEN 0
            ELSE cart[Pick(s).id] * Pick(s).price_cents + w[s \ {Pick(s)}]]

LEMMA CostChosen ==
    ASSUME NEW cart
    PROVE  Cost(cart) = (CHOOSE w : IsCost(w, cart))[ListProducts]
  BY Zenon DEF Cost, MapThenSumSet, MapThenFoldSet, IsCost, Pick

\* The catalogue shows each product on sale once.
LEMMA Shown ==
    /\ IsFiniteSet(ListProducts)
    /\ \A p \in DOMAIN Prices :
          /\ Product(p) \in ListProducts /\ Product(p).id = p
          /\ Product(p).price_cents = Prices[p] /\ Prices[p] \in Nat /\ p \in Products
    /\ \A shown \in ListProducts : shown.id \in DOMAIN Prices /\ shown = Product(shown.id)
<1>1. IsFiniteSet(ListProducts)
  <2>1. IsFiniteSet(DOMAIN Prices)
    BY OrderRequestAssumption
  <2> DEFINE f == [p \in DOMAIN Prices |-> Product(p)]
  <2>2. f \in Surjection(DOMAIN Prices, ListProducts)
    BY DEF Surjection, ListProducts
  <2> HIDE DEF f
  <2> QED
    BY <2>1, <2>2, FS_Surjection
<1>2. \A p \in DOMAIN Prices :
          /\ Product(p) \in ListProducts /\ Product(p).id = p
          /\ Product(p).price_cents = Prices[p] /\ Prices[p] \in Nat /\ p \in Products
  BY OrderRequestAssumption DEF Product, ListProducts
<1>3. \A shown \in ListProducts : shown.id \in DOMAIN Prices /\ shown = Product(shown.id)
  BY DEF Product, ListProducts
<1> QED
  BY <1>1, <1>2, <1>3

LEMMA CostSums ==
    ASSUME NEW cart \in [Products -> Int]
    PROVE  /\ CostOf(cart) \in [ListProducts -> Int]
           /\ HasSum(CostOf(cart), ListProducts, Cost(cart))
<1> DEFINE f == CostOf(cart)
           D == ListProducts
           w == CHOOSE v : IsCost(v, cart)
<1>1. f \in [D -> Int]
  <2>1. ASSUME NEW shown \in D PROVE cart[shown.id] * shown.price_cents \in Int
    <3>1. PICK p \in DOMAIN Prices : p = shown.id /\ shown = Product(p)
      BY Shown
    <3>2. p \in Products /\ shown.price_cents \in Nat
      BY <3>1, Shown
    <3> QED
      BY <3>1, <3>2
  <2> QED
    BY <2>1 DEF CostOf
<1>2. IsFiniteSet(D)
  BY Shown
<1>3. ASSUME NEW v PROVE IsCost(v, cart) <=> IsSum(v, f, D)
  <2>1. ASSUME NEW s \in SUBSET D, s # {}
        PROVE  f[Pick(s)] = cart[Pick(s).id] * Pick(s).price_cents
    <3>1. Pick(s) \in D
      BY <2>1 DEF Pick
    <3> QED
      BY <3>1 DEF CostOf
  <2> HIDE DEF f
  <2> QED
    BY <2>1 DEF IsCost, IsSum
<1>4. IsCost(w, cart)
  <2>1. PICK v : IsSum(v, f, D)
    <3> HIDE DEF f, D
    <3> QED
      BY <1>1, <1>2, ASumExists
  <2>2. IsCost(v, cart)
    BY <1>3, <2>1
  <2> QED
    BY <2>2
<1>5. w[D] = Cost(cart)
  BY CostChosen
<1>6. Sums(w, f, D)
  <2> HIDE DEF w, f, D
  <2> QED
    BY <1>1, <1>2, <1>3, <1>4, SumsUp
<1> HIDE DEF w
<1> QED
  BY <1>1, <1>5, <1>6 DEF HasSum

LEMMA PriceOfNone ==
    ASSUME NEW lines
    PROVE  Price(lines, 0) = 0
<1>1. OnSale(lines, 0) /\ 1..0 = {}
  BY DEF OnSale
<1>2. HasSum(PriceOf(lines, 0), 1..0, Price(lines, 0))
  BY <1>1, PriceSums
<1> QED
  BY <1>1, <1>2, SumsToZero

LEMMA PriceOfOneMore ==
    ASSUME NEW lines, NEW k \in Nat, OnSale(lines, k + 1)
    PROVE  /\ Price(lines, k) \in Int
           /\ Price(lines, k + 1)
                 = Price(lines, k) + lines[k + 1].quantity * Prices[lines[k + 1].id]
<1> DEFINE f == PriceOf(lines, k + 1)
           g == PriceOf(lines, k)
           D == 1..k
           x == k + 1
<1>1. 1..k + 1 = D \cup {x} /\ x \notin D
  OBVIOUS
<1>2. IsFiniteSet(D)
  BY FS_Interval
<1>3. f \in [D \cup {x} -> Int] /\ HasSum(f, D \cup {x}, Price(lines, k + 1))
  <2>1. k + 1 \in Nat
    OBVIOUS
  <2>2. f \in [1..k + 1 -> Int] /\ HasSum(f, 1..k + 1, Price(lines, k + 1))
    BY <2>1, PriceSums
  <2> QED
    BY <1>1, <2>2
<1>4. g \in [D -> Int] /\ HasSum(g, D, Price(lines, k))
  <2>1. OnSale(lines, k)
    BY <1>1 DEF OnSale
  <2> QED
    BY <2>1, PriceSums
<1>5. \A y \in D : f[y] = g[y]
  BY DEF PriceOf
<1>6. f[x] = lines[x].quantity * Prices[lines[x].id]
  BY <1>1 DEF PriceOf
<1>7. Adds(Price(lines, k + 1), Price(lines, k), f[x])
  <2> HIDE DEF f, g, D, x
  <2> QED
    BY <1>1, <1>2, <1>3, <1>4, <1>5, SumOfOneMore
<1> QED
  BY <1>6, <1>7 DEF Adds

LEMMA PriceOfSame ==
    ASSUME NEW lines, NEW more, NEW k \in Nat, OnSale(lines, k),
           \A i \in 1..k : more[i] = lines[i]
    PROVE  Price(more, k) = Price(lines, k)
<1>1. OnSale(more, k)
  BY DEF OnSale
<1>2. IsFiniteSet(1..k)
  BY FS_Interval
<1>3. \A i \in 1..k : PriceOf(more, k)[i] = PriceOf(lines, k)[i]
  BY DEF PriceOf
<1> QED
  BY <1>1, <1>2, <1>3, PriceSums, SameSum

LEMMA CostOfNothing == Cost(NoRows) = 0
<1> DEFINE D == ListProducts
           f == CostOf(NoRows)
<1>1. NoRows \in [Products -> Int]
  BY DEF NoRows
<1>2. f \in [D -> Int] /\ HasSum(f, D, Cost(NoRows)) /\ IsFiniteSet(D)
  BY <1>1, CostSums, Shown
<1>3. \A x \in D : f[x] = 0
  BY Shown DEF CostOf, NoRows
<1>4. PICK w : Sums(w, f, D) /\ w[D] = Cost(NoRows)
  BY <1>2 DEF HasSum
<1>5. w[{} \cup D] = w[{}]
  <2>1. {} \in SUBSET D /\ D \in SUBSET D /\ {} \cap D = {}
    OBVIOUS
  <2> HIDE DEF D, f
  <2> QED
    BY <1>2, <1>3, <1>4, <2>1, SumsOfZero
<1>6. w[{}] = 0 /\ {} \cup D = D
  BY <1>4 DEF Sums
<1> QED
  BY <1>4, <1>5, <1>6

LEMMA CostOfRow ==
    ASSUME NEW rows \in [Products -> Int], NEW p \in DOMAIN Prices, rows[p] = 0, NEW q \in Int
    PROVE  /\ Cost(rows) \in Int
           /\ Cost([rows EXCEPT ![p] = q]) = Cost(rows) + q * Prices[p]
<1> DEFINE D == ListProducts
           x == Product(p)
           more == [rows EXCEPT ![p] = q]
           f == CostOf(more)
           g == CostOf(rows)
<1>1. /\ IsFiniteSet(D) /\ x \in D /\ x.id = p /\ x.price_cents = Prices[p]
      /\ p \in Products /\ Prices[p] \in Nat
  BY Shown
<1>2. more \in [Products -> Int]
  BY <1>1
<1>3. f \in [D -> Int] /\ HasSum(f, D, Cost(more))
  <2> HIDE DEF more
  <2> QED
    BY <1>2, CostSums
<1>4. g \in [D -> Int] /\ HasSum(g, D, Cost(rows))
  BY CostSums
<1>5. ASSUME NEW y \in D \ {x} PROVE f[y] = g[y]
  <2>1. y.id # p
    BY <1>1, <1>5, Shown
  <2>2. more[y.id] = rows[y.id]
    BY <2>1
  <2> HIDE DEF more
  <2> QED
    BY <2>2 DEF CostOf
<1>6. f[x] = q * Prices[p] /\ g[x] = 0
  <2>1. more[p] = q
    BY <1>1
  <2> HIDE DEF more, x
  <2> QED
    BY <1>1, <2>1 DEF CostOf
<1>7. Adds(Cost(more), Cost(rows), f[x] - g[x])
  <2> HIDE DEF D, x, more, f, g
  <2> QED
    BY <1>1, <1>3, <1>4, <1>5, SumOfOneChange
<1> QED
  BY <1>1, <1>6, <1>7 DEF Adds

LEMMA CostIsNat ==
    ASSUME NEW cart \in [Products -> Nat]
    PROVE  Cost(cart) \in Nat
<1> DEFINE D == ListProducts
           f == CostOf(cart)
<1>1. f \in [D -> Int] /\ HasSum(f, D, Cost(cart)) /\ IsFiniteSet(D)
  BY CostSums, Shown
<1>2. ASSUME NEW x \in D PROVE f[x] >= 0
  <2>1. PICK p \in DOMAIN Prices : x = Product(p) /\ x.id = p
    BY Shown
  <2>2. x.price_cents = Prices[p] /\ Prices[p] \in Nat /\ cart[p] \in Nat
    BY <2>1, Shown
  <2>3. f[x] = cart[p] * Prices[p]
    BY <2>1, <2>2 DEF CostOf
  <2> QED
    BY <2>2, <2>3
<1> HIDE DEF D, f
<1> QED
  BY <1>1, <1>2, SumOfNotNegative

\* The total of OrderService adds up the same, over the products of the cart.
TotalOf(cart) == [p \in Service!Lines(cart) |-> cart[p] * Prices[p]]

IsTotal(w, cart) ==
    w = [s \in SUBSET Service!Lines(cart) |->
            IF s = {} THEN 0
            ELSE cart[Pick(s)] * Prices[Pick(s)] + w[s \ {Pick(s)}]]

LEMMA TotalChosen ==
    ASSUME NEW cart
    PROVE  Service!Total(cart) = (CHOOSE w : IsTotal(w, cart))[Service!Lines(cart)]
  BY Zenon DEF Service!Total, Service!MapThenSumSet, Service!MapThenFoldSet, IsTotal, Pick

LEMMA TotalSums ==
    ASSUME NEW cart \in [Products -> Nat], Service!Priced(cart)
    PROVE  /\ TotalOf(cart) \in [Service!Lines(cart) -> Int]
           /\ IsFiniteSet(Service!Lines(cart)) /\ Service!Lines(cart) \subseteq DOMAIN Prices
           /\ HasSum(TotalOf(cart), Service!Lines(cart), Service!Total(cart))
<1> DEFINE D == Service!Lines(cart)
           f == TotalOf(cart)
           w == CHOOSE v : IsTotal(v, cart)
<1>1. D \subseteq DOMAIN Prices /\ D \subseteq Products
  BY DEF Service!Priced, Service!Lines
<1>2. IsFiniteSet(D)
  <2>1. IsFiniteSet(DOMAIN Prices)
    BY OrderRequestAssumption
  <2> HIDE DEF D
  <2> QED
    BY <1>1, <2>1, FS_Subset
<1>3. f \in [D -> Int]
  BY <1>1, OrderRequestAssumption DEF TotalOf
<1>4. ASSUME NEW v PROVE IsTotal(v, cart) <=> IsSum(v, f, D)
  <2>1. ASSUME NEW s \in SUBSET D, s # {}
        PROVE  f[Pick(s)] = cart[Pick(s)] * Prices[Pick(s)]
    <3>1. Pick(s) \in D
      BY <2>1 DEF Pick
    <3> QED
      BY <3>1 DEF TotalOf
  <2> HIDE DEF f
  <2> QED
    BY <2>1 DEF IsTotal, IsSum
<1>5. IsTotal(w, cart)
  <2>1. PICK v : IsSum(v, f, D)
    <3> HIDE DEF f, D
    <3> QED
      BY <1>2, <1>3, ASumExists
  <2>2. IsTotal(v, cart)
    BY <1>4, <2>1
  <2> QED
    BY <2>2
<1>6. w[D] = Service!Total(cart)
  BY TotalChosen
<1>7. Sums(w, f, D)
  <2> HIDE DEF w, f, D
  <2> QED
    BY <1>2, <1>3, <1>4, <1>5, SumsUp
<1> HIDE DEF w
<1> QED
  BY <1>1, <1>2, <1>3, <1>6, <1>7 DEF HasSum

LEMMA TotalIsCost ==
    ASSUME NEW cart \in [Products -> Nat], Service!Priced(cart)
    PROVE  Service!Total(cart) = Cost(cart)
<1> DEFINE D == Service!Lines(cart)
           f == TotalOf(cart)
           E == ListProducts
           g == CostOf(cart)
           Of(t) == { Product(p) : p \in t }
<1>1. /\ f \in [D -> Int] /\ IsFiniteSet(D) /\ D \subseteq DOMAIN Prices
      /\ HasSum(f, D, Service!Total(cart))
  BY TotalSums
<1>2. g \in [E -> Int] /\ HasSum(g, E, Cost(cart)) /\ IsFiniteSet(E)
  BY CostSums, Shown
<1>3. PICK w : Sums(w, f, D) /\ w[D] = Service!Total(cart)
  BY <1>1 DEF HasSum
<1>4. PICK v : Sums(v, g, E) /\ v[E] = Cost(cart)
  BY <1>2 DEF HasSum
<1> DEFINE H == { t \in SUBSET D : w[t] = v[Of(t)] }
<1>5. {} \in H
  <2>1. Of({}) = {}
    OBVIOUS
  <2> QED
    BY <1>3, <1>4, <2>1 DEF Sums
<1>6. ASSUME NEW t \in SUBSET D, NEW p \in D \ t, t \in H PROVE t \cup {p} \in H
  <2>1. /\ \A q \in D : Product(q) \in E /\ Product(q).id = q /\ Product(q).price_cents = Prices[q]
        /\ p \in D
    BY <1>1, Shown
  <2>2. PICK u \in SUBSET D : u = t \cup {p}
    BY <1>6
  <2>3. p \in u /\ u \ {p} = t
    BY <1>6, <2>2
  <2>4. Of(u) \in SUBSET E /\ Product(p) \in Of(u) /\ Of(u) \ {Product(p)} = Of(t)
    <3> HIDE DEF D, E
    <3> QED
      BY <1>6, <2>1, <2>2
  <2>5. w[u] = f[p] + w[t]
    BY <1>3, <2>3 DEF Sums
  <2>6. v[Of(u)] = g[Product(p)] + v[Of(t)]
    <3> HIDE DEF Of
    <3> QED
      BY <1>4, <2>4 DEF Sums
  <2>7. f[p] = g[Product(p)]
    BY <2>1 DEF TotalOf, CostOf
  <2> HIDE DEF f, g, Of
  <2> QED
    BY <1>6, <2>2, <2>5, <2>6, <2>7
<1>7. w[D] = v[Of(D)]
  <2>1. SUBSET D \subseteq H
    <3>1. \A t \in SUBSET D : \A p \in D \ t : t \in H => t \cup {p} \in H
      BY <1>6
    <3>2. IsFiniteSet(D)
      BY <1>1
    <3> HIDE DEF H, D
    <3> QED
      BY ONLY <1>5, <3>1, <3>2, Gathering
  <2> QED
    BY <2>1
<1>8. v[E] = v[Of(D)]
  <2> DEFINE s == Of(D)
             z == E \ Of(D)
  <2>1. s \in SUBSET E /\ z \in SUBSET E /\ s \cap z = {} /\ s \cup z = E
    BY <1>1, Shown
  <2>2. IsFiniteSet(z)
    BY <1>2, <2>1, FS_Subset
  <2>3. ASSUME NEW x \in z PROVE g[x] = 0
    <3>1. x \in E /\ x.id \in DOMAIN Prices /\ x = Product(x.id) /\ x.id \in Products
      BY Shown, OrderRequestAssumption
    <3>2. x.id \notin D
      BY <2>3, <3>1
    <3>3. cart[x.id] = 0
      BY <3>1, <3>2 DEF Service!Lines
    <3>4. x.price_cents \in Nat
      BY <3>1, Shown
    <3> QED
      BY <3>1, <3>3, <3>4 DEF CostOf
  <2>4. v[s \cup z] = v[s]
    <3> HIDE DEF s, z, E, g
    <3> QED
      BY <1>2, <1>4, <2>1, <2>2, <2>3, SumsOfZero
  <2> QED
    BY <2>1, <2>4
<1> QED
  BY <1>3, <1>4, <1>7, <1>8

-----------------------------------------------------------------------------
(* The lines of a request and the rows they leave *)

LEMMA LineOf ==
    ASSUME NEW request \in Seq(Items), NEW k \in 1..Len(Seen(request)),
           NEW l, l = Line(Seen(request)[k], Quantity(request, Seen(request)[k]))
    PROVE  /\ Seen(request)[k] \in Texts
           /\ l.id = Value[Seen(request)[k]] /\ l.product_id = Seen(request)[k]
           /\ l.quantity = Quantity(request, Seen(request)[k])
           /\ l.quantity \in Quantities /\ l.quantity \in Int
<1>1. Seen(request)[k] \in Texts
  BY SeenLists
<1>2. Quantity(request, Seen(request)[k]) \in Quantities
  BY QuantityInRange
<1>3. \A q \in Quantities : q \in Int
  BY OrderRequestAssumption DEF Quantities
<1> QED
  BY <1>1, <1>2, <1>3 DEF Line

LEMMA LinesOnSale ==
    ASSUME NEW request \in Seq(Items), NEW lines, NEW n \in Nat, LinesOf(lines, request, n)
    PROVE  OnSale(lines, n)
<1> SUFFICES ASSUME NEW i \in 1..n
             PROVE  lines[i].quantity \in Int /\ lines[i].id \in DOMAIN Prices
  BY DEF OnSale
<1>1. i \in 1..Len(Seen(request))
  BY SeenLists DEF LinesOf
<1>2. lines[i] = Line(Seen(request)[i], Quantity(request, Seen(request)[i]))
  BY DEF LinesOf
<1> QED
  BY <1>1, <1>2, LineOf DEF LinesOf

\* Two lines of one product: it is spelled twice.
LEMMA TwoLines ==
    ASSUME NEW request \in Seq(Items),
           NEW i \in 1..Len(Seen(request)), NEW j \in 1..Len(Seen(request)), i # j,
           Value[Seen(request)[i]] = Value[Seen(request)[j]]
    PROVE  SpelledTwice(request)
<1>1. Lists(Seen(request), request, Len(request)) /\ DOMAIN request = 1..Len(request)
  BY SeenLists
<1>2. PICK a \in DOMAIN request : request[a].product_id = Seen(request)[i]
  BY <1>1 DEF Lists
<1>3. PICK b \in DOMAIN request : request[b].product_id = Seen(request)[j]
  BY <1>1 DEF Lists
<1>4. Seen(request)[i] # Seen(request)[j]
  BY <1>1 DEF Lists
<1> QED
  BY <1>2, <1>3, <1>4 DEF SpelledTwice

\* The quantity of a line is the sum by value, if no other line has the product.
LEMMA QuantityOfOneLine ==
    ASSUME NEW request \in Seq(Items), NEW i \in 1..Len(Seen(request)),
           \A j \in 1..Len(Seen(request)) :
              Value[Seen(request)[j]] = Value[Seen(request)[i]] => j = i
    PROVE  Quantity(request, Seen(request)[i]) = Wrap(Units(request, Value[Seen(request)[i]]))
<1> DEFINE text == Seen(request)[i]
<1>1. ASSUME NEW k \in 1..Len(request), Value[request[k].product_id] = Value[text]
      PROVE  request[k].product_id = text
  <2>1. PICK j \in 1..Len(Seen(request)) : Seen(request)[j] = request[k].product_id
    BY SeenLists DEF Lists
  <2>2. j = i
    BY <1>1, <2>1
  <2> QED
    BY <2>1, <2>2
<1> HIDE DEF text
<1>2. Quantity(request, text) = Wrap(Units(request, Value[text]))
  BY <1>1, OneSpelling
<1> QED
  BY <1>2 DEF text

\* The rows of all lines are what the request asks for.
LEMMA WholeCart ==
    ASSUME NEW request \in Requests, Valid(request), NEW lines,
           LinesOf(lines, request, Len(Seen(request))),
           NEW rows \in [Products -> Nat], Holds(rows, lines, Len(Seen(request)))
    PROVE  /\ rows = Asked(request) /\ rows # NoRows
           /\ \A p \in Products : rows[p] # 0 => p \in DOMAIN Prices
<1> DEFINE texts == Seen(request)
           n == Len(texts)
<1>0. request \in Seq(Items)
  BY OrderRequestAssumption DEF Items
<1>1. texts \in Seq(Texts) /\ n \in Nat /\ Lists(texts, request, Len(request))
  BY <1>0, SeenLists
<1>2. ASSUME NEW i \in 1..n
      PROVE  /\ lines[i].id = Value[texts[i]] /\ lines[i].quantity = Quantity(request, texts[i])
             /\ lines[i].id \in DOMAIN Prices /\ lines[i].id \in Products
             /\ lines[i].quantity > 0 /\ rows[lines[i].id] = lines[i].quantity
  <2>1. lines[i] = Line(texts[i], Quantity(request, texts[i])) /\ lines[i].id \in DOMAIN Prices
    BY DEF LinesOf
  <2>2. lines[i].quantity > 0 /\ rows[lines[i].id] = lines[i].quantity
    BY DEF Holds
  <2> HIDE DEF texts
  <2> QED
    BY <1>0, <2>1, <2>2, LineOf, OrderRequestAssumption DEF texts
<1>3. \A i, j \in 1..n : lines[i].id = lines[j].id => i = j
  BY DEF Holds
<1>4. ASSUME NEW p \in Products PROVE rows[p] = Wrap(Units(request, p))
  <2>1. CASE \E i \in 1..n : lines[i].id = p
    <3>1. PICK i \in 1..n : lines[i].id = p
      BY <2>1
    <3>2. \A j \in 1..n : Value[texts[j]] = Value[texts[i]] => j = i
      BY <1>2, <1>3
    <3>3. Quantity(request, texts[i]) = Wrap(Units(request, Value[texts[i]]))
      BY <1>0, <3>2, QuantityOfOneLine
    <3> HIDE DEF texts
    <3> QED
      BY <1>2, <3>1, <3>3
  <2>2. CASE ~\E i \in 1..n : lines[i].id = p
    <3>1. rows[p] = 0
      BY <2>2 DEF Holds
    <3>2. ASSUME NEW k \in 1..Len(request) PROVE Value[request[k].product_id] # p
      <4>1. PICK i \in 1..n : texts[i] = request[k].product_id
        BY <1>1 DEF Lists
      <4> QED
        BY <1>2, <2>2, <4>1
    <3>3. Units(request, p) = 0
      BY <1>0, <3>2, UnitsCount
    <3>4. 0 \in Quantities
      BY OrderRequestAssumption DEF Quantities
    <3> QED
      BY <3>1, <3>3, <3>4, Wraps
  <2> QED
    BY <2>1, <2>2
<1>5. rows = Asked(request)
  BY <1>4 DEF Asked
<1>6. rows # NoRows
  <2>1. 1 \in 1..Len(request)
    BY <1>0 DEF Valid
  <2>2. PICK i \in 1..n : texts[i] = request[1].product_id
    BY <1>1, <2>1 DEF Lists
  <2>3. rows[lines[i].id] > 0 /\ lines[i].id \in Products
    BY <1>2
  <2> QED
    BY <2>3 DEF NoRows
<1>7. ASSUME NEW p \in Products, rows[p] # 0 PROVE p \in DOMAIN Prices
  <2>1. PICK i \in 1..n : lines[i].id = p
    BY <1>7 DEF Holds
  <2> QED
    BY <1>2, <2>1
<1> QED
  BY <1>5, <1>6, <1>7

\* If every sum fits and every product has one spelling, each line asks for some.
LEMMA PositiveQuantity ==
    ASSUME NEW request \in Seq(Items), Valid(request),
           ~SpelledTwice(request), ~Overflows(request),
           NEW i \in 1..Len(Seen(request)), Value[Seen(request)[i]] \in Products
    PROVE  Quantity(request, Seen(request)[i]) > 0
<1> DEFINE p == Value[Seen(request)[i]]
<1>1. Quantity(request, Seen(request)[i]) = Wrap(Units(request, p))
  <2>1. \A j \in 1..Len(Seen(request)) : Value[Seen(request)[j]] = p => j = i
    BY TwoLines
  <2> QED
    BY <2>1, QuantityOfOneLine
<1>2. PICK k \in 1..Len(request) : request[k].product_id = Seen(request)[i]
  BY SeenLists DEF Lists
<1>3. Units(request, p) > 0 /\ Units(request, p) \in Int
  BY <1>2, UnitsCount
<1>4. Units(request, p) \in Quantities
  BY DEF Overflows
<1>5. Wrap(Units(request, p)) = Units(request, p)
  BY <1>3, <1>4, Wraps
<1> QED
  BY <1>1, <1>3, <1>5

\* A negative total comes of sums that do not fit.
LEMMA NegativeTotal ==
    ASSUME NEW request \in Seq(Items), Valid(request), NEW lines,
           LinesOf(lines, request, Len(Seen(request))),
           ~(Price(lines, Len(Seen(request))) >= 0)
    PROVE  Overflows(request) \/ SpelledTwice(request)
<1> SUFFICES ASSUME ~Overflows(request), ~SpelledTwice(request)
             PROVE  Price(lines, Len(Seen(request))) \in Nat
  OBVIOUS
<1> DEFINE n == Len(Seen(request))
           f == PriceOf(lines, n)
<1>1. n \in Nat /\ IsFiniteSet(1..n)
  BY SeenLists, FS_Interval
<1>2. f \in [1..n -> Int] /\ HasSum(f, 1..n, Price(lines, n))
  BY <1>1, LinesOnSale, PriceSums
<1>3. ASSUME NEW i \in 1..n PROVE f[i] >= 0
  <2>1. lines[i] = Line(Seen(request)[i], Quantity(request, Seen(request)[i]))
    BY DEF LinesOf
  <2>2. lines[i].id \in DOMAIN Prices
    BY DEF LinesOf
  <2>3. lines[i].id = Value[Seen(request)[i]] /\ lines[i].quantity \in Int
        /\ lines[i].quantity = Quantity(request, Seen(request)[i])
    BY <2>1, LineOf
  <2>4. lines[i].quantity > 0
    BY <2>2, <2>3, PositiveQuantity, OrderRequestAssumption
  <2>5. Prices[lines[i].id] \in Nat
    BY <2>2, OrderRequestAssumption
  <2>6. lines[i].quantity * Prices[lines[i].id] >= 0
    BY <2>3, <2>4, <2>5
  <2> QED
    BY <2>6 DEF PriceOf
<1> HIDE DEF f, n
<1>4. Price(lines, n) \in Nat
  BY <1>1, <1>2, <1>3, SumOfNotNegative
<1> QED
  BY <1>4 DEF n

\* A line that cannot be stored comes of sums that do not fit, or of two spellings.
LEMMA NotStorable ==
    ASSUME NEW request \in Requests, Valid(request), NEW lines,
           LinesOf(lines, request, Len(Seen(request))),
           NEW k \in 0..Len(Seen(request)) - 1,
           NEW rows \in [Products -> Nat], Holds(rows, lines, k),
           ~(rows[lines[k + 1].id] = 0 /\ lines[k + 1].quantity > 0)
    PROVE  Overflows(request) \/ SpelledTwice(request)
<1> DEFINE n == Len(Seen(request))
<1>0. request \in Seq(Items) /\ n \in Nat
  <2>1. request \in Seq(Items)
    BY OrderRequestAssumption DEF Items
  <2>2. Seen(request) \in Seq(Texts)
    BY <2>1, SeenLists
  <2> QED
    BY <2>1, <2>2
<1>1. ASSUME NEW i \in 1..n
      PROVE  /\ lines[i].id = Value[Seen(request)[i]] /\ lines[i].id \in Products
             /\ lines[i].quantity = Quantity(request, Seen(request)[i])
  <2>1. lines[i] = Line(Seen(request)[i], Quantity(request, Seen(request)[i]))
        /\ lines[i].id \in DOMAIN Prices
    BY DEF LinesOf
  <2> QED
    BY <1>0, <2>1, LineOf, OrderRequestAssumption
<1>2. k + 1 \in 1..n
  BY <1>0
<1>3. CASE rows[lines[k + 1].id] # 0
  <2>1. PICK i \in 1..k : lines[i].id = lines[k + 1].id
    BY <1>1, <1>2, <1>3 DEF Holds
  <2>2. i \in 1..n /\ i # k + 1
    BY <1>0
  <2>3. Value[Seen(request)[i]] = Value[Seen(request)[k + 1]]
    BY <1>1, <1>2, <2>1, <2>2
  <2>4. SpelledTwice(request)
    BY <1>0, <1>2, <2>2, <2>3, TwoLines
  <2> QED
    BY <2>4
<1>4. CASE ~(lines[k + 1].quantity > 0)
  BY <1>0, <1>1, <1>2, <1>4, PositiveQuantity
<1> QED
  BY <1>3, <1>4

\* What a row that can be stored leaves.
LEMMA OneMoreRow ==
    ASSUME NEW lines, NEW k \in Nat, OnSale(lines, k + 1),
           NEW rows \in [Products -> Nat], Holds(rows, lines, k),
           NEW l, l = lines[k + 1], rows[l.id] = 0, l.quantity > 0
    PROVE  /\ [rows EXCEPT ![l.id] = l.quantity] \in [Products -> Nat]
           /\ Holds([rows EXCEPT ![l.id] = l.quantity], lines, k + 1)
<1> DEFINE more == [rows EXCEPT ![l.id] = l.quantity]
<1>1. k + 1 \in 1..k + 1 /\ \A i \in 1..k + 1 : i \in 1..k \/ i = k + 1
  OBVIOUS
<1>2. l.id \in DOMAIN Prices /\ l.id \in Products /\ l.quantity \in Nat
  BY <1>1, OrderRequestAssumption DEF OnSale
<1>3. more \in [Products -> Nat] /\ more[l.id] = l.quantity
      /\ \A p \in Products \ {l.id} : more[p] = rows[p]
  BY <1>2
<1>4. \A i \in 1..k : lines[i].id \in Products /\ lines[i].id # l.id
  <2>1. ASSUME NEW i \in 1..k PROVE lines[i].id \in Products
    <3>1. i \in 1..k + 1
      OBVIOUS
    <3> QED
      BY <3>1, OrderRequestAssumption DEF OnSale
  <2>2. \A i \in 1..k : lines[i].quantity > 0 /\ rows[lines[i].id] = lines[i].quantity
    BY DEF Holds
  <2> QED
    BY <2>1, <2>2
<1>5. Cost(more) = Price(lines, k + 1)
  <2>1. rows \in [Products -> Int] /\ l.quantity \in Int
    BY <1>2
  <2>2. Cost(more) = Cost(rows) + l.quantity * Prices[l.id]
    BY <1>2, <2>1, CostOfRow
  <2>3. Price(lines, k + 1) = Price(lines, k) + lines[k + 1].quantity * Prices[lines[k + 1].id]
    BY PriceOfOneMore
  <2>4. Cost(rows) = Price(lines, k)
    BY DEF Holds
  <2> HIDE DEF more
  <2> QED
    BY <2>2, <2>3, <2>4
<1> HIDE DEF more
<1>6. \A i \in 1..k + 1 : lines[i].quantity > 0 /\ more[lines[i].id] = lines[i].quantity
  <2>1. ASSUME NEW i \in 1..k
        PROVE  lines[i].quantity > 0 /\ more[lines[i].id] = lines[i].quantity
    <3>1. lines[i].quantity > 0 /\ rows[lines[i].id] = lines[i].quantity
      BY DEF Holds
    <3> QED
      BY <1>3, <1>4, <3>1
  <2> QED
    BY <1>1, <1>3, <2>1
<1>7. \A i, j \in 1..k + 1 : lines[i].id = lines[j].id => i = j
  <2>1. \A i, j \in 1..k : lines[i].id = lines[j].id => i = j
    BY DEF Holds
  <2> QED
    BY <1>1, <1>4, <2>1
<1>8. \A p \in Products : more[p] # 0 => \E i \in 1..k + 1 : lines[i].id = p
  <2> SUFFICES ASSUME NEW p \in Products, more[p] # 0 PROVE \E i \in 1..k + 1 : lines[i].id = p
    OBVIOUS
  <2>1. CASE p = l.id
    BY <1>1, <2>1
  <2>2. CASE p # l.id
    <3>1. PICK i \in 1..k : lines[i].id = p
      BY <1>3, <2>2 DEF Holds
    <3>2. i \in 1..k + 1
      OBVIOUS
    <3> QED
      BY <3>1, <3>2
  <2> QED
    BY <2>1, <2>2
<1>9. Holds(more, lines, k + 1)
  BY <1>5, <1>6, <1>7, <1>8 DEF Holds
<1> QED
  BY <1>3, <1>9 DEF more

\* The event stands for the rows.
LEMMA CartOfLines ==
    ASSUME NEW lines \in Seq(Lines), NEW rows \in [Products -> Nat],
           Holds(rows, lines, Len(lines))
    PROVE  Cart(lines) = rows
<1> DEFINE Of(p) == { i \in DOMAIN lines : lines[i].id = p }
<1>1. DOMAIN lines = 1..Len(lines)
  OBVIOUS
<1>2. ASSUME NEW p \in Products
      PROVE  rows[p] = IF Of(p) = {} THEN 0
                       ELSE IF \E i \in Of(p) : Of(p) = {i}
                            THEN lines[CHOOSE i \in Of(p) : TRUE].quantity
                       ELSE NoRow
  <2>1. CASE Of(p) = {}
    <3>1. rows[p] = 0
      BY <1>1, <2>1 DEF Holds
    <3> QED
      BY <2>1, <3>1
  <2>2. CASE Of(p) # {}
    <3>1. PICK i \in Of(p) : TRUE
      BY <2>2
    <3>2. i \in 1..Len(lines) /\ lines[i].id = p
      BY <1>1
    <3>3. Of(p) = {i}
      BY <1>1, <3>2 DEF Holds
    <3>4. (CHOOSE j \in Of(p) : TRUE) = i
      BY <3>3
    <3>5. rows[p] = lines[i].quantity
      BY <3>2 DEF Holds
    <3> HIDE DEF Of
    <3> QED
      BY <3>1, <3>3, <3>4, <3>5
  <2> QED
    BY <2>1, <2>2
<1> QED
  BY <1>2 DEF Cart

-----------------------------------------------------------------------------
(* The inductive invariant, call by call *)

CallOK(c) ==
    /\ c \in Calls
    /\ c.at = "GetProduct" => c.todo \in Seq(Texts) \ {<<>>}
    /\ c.at = "AddOrderItem" => c.todo \in Seq(Lines) \ {<<>>}
    /\ c.at = "returned" <=> c.answer # "none"
    /\ c.at = "none" => c = Unborn
    /\ c.at # "none" => c.request \in Requests
    /\ IsPriced(c) /\ IsWritten(c)

\* The call and the rows of its order, when so many faults have happened.
RowOK(c, total, rows, lost, failed) ==
    /\ total \in Nat \cup {NoRow} /\ rows \in [Products -> Nat]
    /\ total = NoRow => rows = NoRows /\ c.at # "Publish"
    /\ total # NoRow => /\ c.at \in {"Publish", "returned"}
                        /\ rows = Asked(c.request) /\ rows # NoRows /\ total = Cost(rows)
    /\ c.at = "Publish" => total = c.total /\ rows = c.rows
    /\ c.answer = "OK" => total # NoRow
    /\ c.answer = "InvalidArgument" =>
          /\ total = NoRow
          /\ Valid(c.request) =>
                \E i \in DOMAIN c.request : GetProduct(c.request[i].product_id).code # "OK"
    /\ c.answer = "Internal" =>
          \/ total # NoRow /\ lost > 0
          \/ total = NoRow /\ failed > 0
          \/ total = NoRow /\ (Overflows(c.request) \/ SpelledTwice(c.request))

\* What a goroutine of GetOrder has read is in these tables.
ReaderOK(r, totals, rows) ==
    /\ r.at \in {"idle", "ListOrderItems", "returned"}
    /\ r.at = "ListOrderItems" => r.order \in Orders /\ totals[r.order] # NoRow
                                  /\ r.total = totals[r.order]
    /\ r.at = "returned" /\ r.answer = "OK" =>
          /\ r.order \in Orders /\ totals[r.order] # NoRow
          /\ r.total = totals[r.order] /\ r.items = rows[r.order]

\* The records of the topic.
Records == [order_id : Orders, total_cents : Nat, items : Seq(Lines)]

TablesOK ==
    /\ DOMAIN call = Orders /\ DOMAIN orders = Orders /\ DOMAIN order_items = Orders
    /\ call = [o \in Orders |-> call[o]]
    /\ orders = [o \in Orders |-> orders[o]]
    /\ order_items = [o \in Orders |-> order_items[o]]
    /\ log \in Seq(Records)
    /\ DOMAIN reader = Readers
    /\ faults \in 0..MaxFaults /\ failures \in 0..MaxFailures

EachOK ==
    /\ TablesOK
    /\ \A o \in Orders : CallOK(call[o])
    /\ \A o \in Orders : RowOK(call[o], orders[o], order_items[o], faults, failures)
    /\ \A q \in Readers : ReaderOK(reader[q], orders, order_items)

LEMMA Each == RequestInv <=> EachOK
<1>1. ASSUME RequestInv PROVE EachOK
  <2>1. TypeOK /\ CallsInOrder /\ CommittedWhole /\ ReadersFollow /\ AnswersTrue
    BY <1>1 DEF RequestInv
  <2>2. TablesOK
    <3>1. call \in [Orders -> Calls]
      BY <2>1 DEF TypeOK
    <3>2. orders \in [Orders -> Nat \cup {NoRow}] /\ order_items \in [Orders -> [Products -> Nat]]
      BY <2>1 DEF TypeOK
    <3>3. /\ DOMAIN call = Orders /\ DOMAIN orders = Orders /\ DOMAIN order_items = Orders
          /\ call = [o \in Orders |-> call[o]]
          /\ orders = [o \in Orders |-> orders[o]]
          /\ order_items = [o \in Orders |-> order_items[o]]
      BY <3>1, <3>2
    <3> QED
      BY <2>1, <3>3 DEF TypeOK, TablesOK, Records
  <2>3. ASSUME NEW o \in Orders PROVE CallOK(call[o])
    BY <2>1 DEF TypeOK, CallsInOrder, CommittedWhole, CallOK
  <2>4. ASSUME NEW o \in Orders PROVE RowOK(call[o], orders[o], order_items[o], faults, failures)
    BY <2>1 DEF TypeOK, CommittedWhole, AnswersTrue, Placed, RowOK
  <2>5. ASSUME NEW q \in Readers PROVE ReaderOK(reader[q], orders, order_items)
    BY <2>1 DEF TypeOK, ReadersFollow, AnswersTrue, Placed, ReaderOK
  <2> QED
    BY <2>2, <2>3, <2>4, <2>5 DEF EachOK
<1>2. ASSUME EachOK PROVE RequestInv
  <2>1. /\ TablesOK
        /\ \A o \in Orders : CallOK(call[o])
        /\ \A o \in Orders : RowOK(call[o], orders[o], order_items[o], faults, failures)
        /\ \A q \in Readers : ReaderOK(reader[q], orders, order_items)
    BY <1>2 DEF EachOK
  <2>2. TypeOK
    <3>1. call \in [Orders -> Calls]
      BY <2>1 DEF TablesOK, CallOK
    <3>2. orders \in [Orders -> Nat \cup {NoRow}] /\ order_items \in [Orders -> [Products -> Nat]]
      BY <2>1 DEF TablesOK, RowOK
    <3>3. \A o \in Orders : LET c == call[o] IN
             /\ c.at = "GetProduct" => c.todo \in Seq(Texts) \ {<<>>}
             /\ c.at = "AddOrderItem" => c.todo \in Seq(Lines) \ {<<>>}
             /\ c.at = "returned" <=> c.answer # "none"
      BY <2>1 DEF CallOK
    <3>4. \A q \in Readers : reader[q].at \in {"idle", "ListOrderItems", "returned"}
      BY <2>1 DEF ReaderOK
    <3> QED
      BY <2>1, <3>1, <3>2, <3>3, <3>4 DEF TypeOK, TablesOK, Records
  <2>3. CallsInOrder
    BY <2>1 DEF CallsInOrder, CallOK
  <2>4. CommittedWhole
    BY <2>1 DEF CommittedWhole, CallOK, RowOK, Placed
  <2>5. ReadersFollow
    BY <2>1 DEF ReadersFollow, ReaderOK, Placed
  <2>6. AnswersTrue
    <3>1. \A o \in Orders : o \in Placed <=> orders[o] # NoRow
      BY DEF Placed
    <3>2. \A o \in Orders : LET c == call[o] IN
          /\ c.answer = "OK" => o \in Placed
          /\ c.answer = "InvalidArgument" =>
                /\ o \notin Placed
                /\ Valid(c.request) =>
                      \E i \in DOMAIN c.request : GetProduct(c.request[i].product_id).code # "OK"
          /\ c.answer = "Internal" =>
                \/ o \in Placed /\ faults > 0
                \/ o \notin Placed /\ failures > 0
                \/ o \notin Placed /\ (Overflows(c.request) \/ SpelledTwice(c.request))
      BY <2>1, <3>1 DEF RowOK
    <3>3. \A q \in Readers :
             reader[q].at = "returned" /\ reader[q].answer = "OK" =>
                 /\ reader[q].order \in Placed
                 /\ reader[q].total = orders[reader[q].order]
                 /\ reader[q].items = order_items[reader[q].order]
      BY <2>1, <3>1 DEF ReaderOK
    <3> QED
      BY <3>2, <3>3 DEF AnswersTrue
  <2> QED
    BY <2>2, <2>3, <2>4, <2>5, <2>6 DEF RequestInv
<1> QED
  BY <1>1, <1>2

-----------------------------------------------------------------------------
(* Every step preserves it *)

LEMMA UnbornCall ==
    /\ NoRows \in [Products -> Nat]
    /\ Unborn \in Calls
<1>1. NoRows \in [Products -> Nat]
  BY DEF NoRows
<1>2. <<>> \in Seq(Texts) \cup Seq(Lines) /\ <<>> \in Seq(Lines)
  OBVIOUS
<1> QED
  BY <1>1, <1>2 DEF Unborn, Calls

\* The outcomes a call may end with.
Codes == {"OK", "InvalidArgument", "Internal", "lost"}

\* A call that returns.
Returned(c, code) == [c EXCEPT !.at = "returned", !.answer = code]

LEMMA ReturnedOK ==
    ASSUME NEW c, CallOK(c), c.at # "none", NEW code \in Codes
    PROVE  /\ CallOK(Returned(c, code)) /\ Returned(c, code).at = "returned"
           /\ Returned(c, code).answer = code /\ Returned(c, code).request = c.request
<1> DEFINE d == Returned(c, code)
<1>1. c \in Calls /\ c.request \in Requests
  BY DEF CallOK
<1>2. d \in Calls /\ d.at = "returned" /\ d.answer = code /\ d.request = c.request
  BY <1>1 DEF Calls, Returned, Codes
<1>3. code # "none"
  BY DEF Codes
<1> HIDE DEF d
<1>4. CallOK(d)
  BY <1>1, <1>2, <1>3 DEF CallOK, IsPriced, IsWritten, Working
<1> QED
  BY <1>2, <1>4 DEF d

\* A step of one call that does not commit.
LEMMA StepOfCall ==
    ASSUME EachOK, NEW o \in Orders, NEW c, CallOK(c),
           call' = [call EXCEPT ![o] = c],
           RowOK(c, orders[o], order_items[o], faults', failures'),
           UNCHANGED <<database, reader>>, log' \in Seq(Records),
           faults' \in 0..MaxFaults, failures' \in 0..MaxFailures,
           faults' >= faults, failures' >= failures
    PROVE  EachOK'
<1>1. TablesOK /\ faults \in Nat /\ failures \in Nat /\ faults' \in Nat /\ failures' \in Nat
  BY OrderRequestAssumption DEF EachOK, TablesOK
<1>2. /\ call'[o] = c /\ \A p \in Orders \ {o} : call'[p] = call[p]
      /\ DOMAIN call' = Orders /\ call' = [p \in Orders |-> call'[p]]
  BY <1>1 DEF TablesOK
<1>3. TablesOK'
  BY <1>1, <1>2 DEF TablesOK, database
<1>4. \A p \in Orders : CallOK(call'[p])
  BY <1>2 DEF EachOK
<1>5. ASSUME NEW p \in Orders
      PROVE  RowOK(call'[p], orders'[p], order_items'[p], faults', failures')
  <2>1. orders' = orders /\ order_items' = order_items
    BY DEF database
  <2>2. CASE p = o
    BY <1>2, <2>1, <2>2
  <2>3. CASE p # o
    <3>1. RowOK(call[p], orders[p], order_items[p], faults, failures) /\ call'[p] = call[p]
      BY <1>2, <2>3 DEF EachOK
    <3>2. RowOK(call[p], orders[p], order_items[p], faults', failures')
      BY <1>1, <3>1 DEF RowOK
    <3> QED
      BY <2>1, <3>1, <3>2
  <2> QED
    BY <2>2, <2>3
<1>6. \A q \in Readers : ReaderOK(reader'[q], orders', order_items')
  BY DEF EachOK, database
<1> QED
  BY <1>3, <1>4, <1>5, <1>6 DEF EachOK

LEMMA StepWithoutFault ==
    ASSUME EachOK, NEW o \in Orders, NEW c, CallOK(c),
           call' = [call EXCEPT ![o] = c],
           RowOK(c, orders[o], order_items[o], faults, failures),
           UNCHANGED <<database, log, reader, faults, failures>>
    PROVE  EachOK'
<1>1. faults \in 0..MaxFaults /\ failures \in 0..MaxFailures
  BY DEF EachOK, TablesOK
<1>2. /\ faults' \in 0..MaxFaults /\ failures' \in 0..MaxFailures
      /\ faults' >= faults /\ failures' >= failures
  BY <1>1, OrderRequestAssumption
<1>3. RowOK(c, orders[o], order_items[o], faults', failures')
  OBVIOUS
<1>4. UNCHANGED <<database, reader>> /\ log' \in Seq(Records)
  BY DEF EachOK, TablesOK
<1> QED
  BY <1>2, <1>3, <1>4, StepOfCall

LEMMA ReceiveStep ==
    ASSUME EachOK, NEW o \in Orders, NEW request \in Requests, Receive(o, request)
    PROVE  EachOK'
<1>0. /\ call[o].at = "none" /\ CallOK(call[o])
      /\ RowOK(call[o], orders[o], order_items[o], faults, failures)
  BY DEF Receive, EachOK
<1>1. call[o] = Unborn
  BY <1>0 DEF CallOK
<1>2. /\ orders[o] = NoRow /\ order_items[o] = NoRows
      /\ orders[o] \in Nat \cup {NoRow} /\ order_items[o] \in [Products -> Nat]
  BY <1>0, <1>1 DEF RowOK, Unborn
<1>3. request \in Seq(Items)
  BY OrderRequestAssumption DEF Items
<1>4. UNCHANGED <<database, log, reader, faults, failures>>
  BY DEF Receive
<1>5. CASE Valid(request)
  <2> DEFINE c == [Unborn EXCEPT !.at = "GetProduct", !.request = request, !.todo = Seen(request)]
  <2>1. call' = [call EXCEPT ![o] = c]
    BY <1>5 DEF Receive, Continue
  <2>2. /\ Seen(request) \in Seq(Texts) /\ Len(Seen(request)) > 0
    <3>1. Seen(request) \in Seq(Texts) /\ Lists(Seen(request), request, Len(request))
      BY <1>3, SeenLists
    <3>2. 1 \in 1..Len(request)
      BY <1>3, <1>5 DEF Valid
    <3>3. PICK i \in 1..Len(Seen(request)) : Seen(request)[i] = request[1].product_id
      BY <3>1, <3>2 DEF Lists
    <3> QED
      BY <3>1, <3>3
  <2>3. /\ c.at = "GetProduct" /\ c.request = request /\ c.todo = Seen(request) /\ c.total = 0
        /\ c.lines = <<>> /\ c.rows = NoRows /\ c.answer = "none" /\ c \in Calls
    BY <2>2, UnbornCall DEF Unborn, Calls, Working
  <2> HIDE DEF c
  <2>4. CallOK(c)
    <3>1. LinesOf(<<>>, request, 0)
      BY <2>2 DEF LinesOf
    <3>2. c.todo = SubSeq(Seen(request), 0 + 1, Len(Seen(request)))
      BY <2>2, <2>3
    <3>3. IsPriced(c)
      BY <1>5, <2>2, <2>3, <3>1, <3>2, PriceOfNone DEF IsPriced
    <3>4. IsWritten(c)
      BY <2>3 DEF IsWritten
    <3>5. Seen(request) \in Seq(Texts) \ {<<>>}
      BY <2>2
    <3> QED
      BY <2>3, <3>3, <3>4, <3>5 DEF CallOK
  <2>5. RowOK(c, orders[o], order_items[o], faults, failures)
    BY <1>2, <2>3 DEF RowOK
  <2> QED
    BY <1>4, <2>1, <2>4, <2>5, StepWithoutFault
<1>6. CASE ~Valid(request)
  <2> DEFINE c == [Unborn EXCEPT !.at = "returned", !.request = request,
                                 !.answer = "InvalidArgument"]
  <2>1. call' = [call EXCEPT ![o] = c]
    BY <1>6 DEF Receive, Continue
  <2>2. /\ c.at = "returned" /\ c.request = request /\ c.answer = "InvalidArgument" /\ c \in Calls
    BY UnbornCall DEF Unborn, Calls
  <2> HIDE DEF c
  <2>3. CallOK(c)
    BY <2>2 DEF CallOK, IsPriced, IsWritten, Working
  <2>4. RowOK(c, orders[o], order_items[o], faults, failures)
    BY <1>2, <1>6, <2>2 DEF RowOK
  <2> QED
    BY <1>4, <2>1, <2>3, <2>4, StepWithoutFault
<1> QED
  BY <1>5, <1>6

\* What is left of a list from one of its places on.
IsEnd(v, S, s, m) ==
    /\ v \in Seq(S) /\ Len(v) = Len(s) - m + 1
    /\ \A i \in 1..Len(s) - m + 1 : v[i] = s[m + i - 1]

LEMMA EndOf ==
    ASSUME NEW S, NEW s \in Seq(S), NEW m \in 1..Len(s) + 1,
           NEW v, v = SubSeq(s, m, Len(s))
    PROVE  IsEnd(v, S, s, m)
<1>1. PICK n : n = Len(s)
  OBVIOUS
<1>2. m \in Int /\ n \in Int /\ m <= n + 1 /\ \A i \in m..n : s[i] \in S
  BY <1>1, ElementOfSeq
<1>3. v = SubSeq(s, m, n)
  BY <1>1
<1>4. v \in Seq(S)
  BY <1>2, <1>3, SubSeqProperties
<1>5. Len(v) = IF m <= n THEN n - m + 1 ELSE 0
  BY <1>2, <1>3, SubSeqProperties
<1>6. \A i \in 1..n - m + 1 : v[i] = s[m + i - 1]
  BY <1>2, <1>3, SubSeqProperties
<1>7. Len(v) = n - m + 1
  BY <1>2, <1>5
<1> QED
  BY <1>1, <1>4, <1>6, <1>7, Zenon DEF IsEnd

LEMMA RestOf ==
    ASSUME NEW S, NEW s \in Seq(S), NEW k \in 0..Len(s) - 1,
           NEW rest, rest = SubSeq(s, k + 1, Len(s))
    PROVE  /\ rest \in Seq(S) /\ Len(rest) = Len(s) - k
           /\ Head(rest) = s[k + 1] /\ Tail(rest) = SubSeq(s, k + 2, Len(s))
           /\ Tail(rest) \in Seq(S) /\ (Len(rest) # 1 => Tail(rest) # <<>>)
<1> DEFINE n == Len(s) - k
           u == SubSeq(s, k + 2, Len(s))
<1>1. Len(s) \in Nat /\ n \in Nat \ {0} /\ k + 1 \in 1..Len(s) + 1 /\ k + 2 \in 1..Len(s) + 1
  OBVIOUS
<1>2. rest \in Seq(S) /\ Len(rest) = n /\ \A i \in 1..n : rest[i] = s[k + i]
  <2>1. PICK m : m = k + 1
    OBVIOUS
  <2>2. m \in 1..Len(s) + 1 /\ rest = SubSeq(s, m, Len(s))
    BY <1>1, <2>1
  <2>3. IsEnd(rest, S, s, m)
    BY <2>2, EndOf, Zenon
  <2>4. Len(s) - m + 1 = n
    BY <1>1, <2>1
  <2>5. ASSUME NEW i \in 1..n PROVE m + i - 1 = k + i
    BY <1>1, <2>1
  <2> HIDE DEF n
  <2> QED
    BY <2>3, <2>4, <2>5 DEF IsEnd
<1>3. u \in Seq(S) /\ Len(u) = n - 1 /\ \A i \in 1..n - 1 : u[i] = s[k + 1 + i]
  <2>1. PICK m : m = k + 2
    OBVIOUS
  <2>2. PICK v : v = u
    OBVIOUS
  <2>3. m \in 1..Len(s) + 1 /\ v = SubSeq(s, m, Len(s))
    BY <1>1, <2>1, <2>2
  <2>4. IsEnd(v, S, s, m)
    BY <2>3, EndOf, Zenon
  <2>5. Len(s) - m + 1 = n - 1
    BY <1>1, <2>1
  <2>6. ASSUME NEW i \in 1..n - 1 PROVE m + i - 1 = k + 1 + i
    BY <1>1, <2>1
  <2> HIDE DEF n, u
  <2> QED
    BY <2>2, <2>4, <2>5, <2>6 DEF IsEnd
<1> HIDE DEF n, u
<1>4. rest # <<>> /\ 1 \in 1..n
  <2>1. Len(<<>>) = 0
    OBVIOUS
  <2>2. rest # <<>>
    BY <1>1, <1>2, <2>1
  <2> QED
    BY <1>1, <2>2
<1>5. Head(rest) = s[k + 1]
  BY <1>2, <1>4
<1>6. Tail(rest) \in Seq(S) /\ Len(Tail(rest)) = n - 1
      /\ \A i \in 1..n - 1 : Tail(rest)[i] = rest[i + 1]
  BY <1>2, <1>4, HeadTailProperties
<1>7. \A i \in 1..n - 1 : Tail(rest)[i] = u[i]
  <2> SUFFICES ASSUME NEW i \in 1..n - 1 PROVE Tail(rest)[i] = u[i]
    OBVIOUS
  <2>1. i + 1 \in 1..n /\ k + (i + 1) = k + 1 + i
    BY <1>1
  <2> QED
    BY <1>2, <1>3, <1>6, <2>1
<1>8. Tail(rest) = u
  BY <1>3, <1>6, <1>7, SeqEqual
<1>9. Len(rest) # 1 => Tail(rest) # <<>>
  <2>1. Len(<<>>) = 0
    OBVIOUS
  <2>2. PICK t : t = Tail(rest)
    OBVIOUS
  <2>3. Len(t) = n - 1
    BY <1>6, <2>2
  <2>4. Len(rest) # 1 => Len(t) # 0
    BY <1>1, <1>2, <2>3
  <2> QED
    BY <2>1, <2>2, <2>4
<1> QED
  BY <1>2, <1>5, <1>6, <1>8, <1>9 DEF n, u

LEMMA PriceLineStep ==
    ASSUME EachOK, NEW o \in Orders, PriceLine(o)
    PROVE  EachOK'
<1> DEFINE c == call[o]
           request == c.request
           texts == Seen(request)
           n == Len(c.lines)
           text == Head(c.todo)
           found == GetProduct(text)
           ordered == Quantity(request, text)
           l == Line(text, ordered)
<1>0. c.at = "GetProduct" /\ UNCHANGED <<database, log, reader, faults, failures>>
  BY DEF PriceLine
<1>1. CallOK(c) /\ RowOK(c, orders[o], order_items[o], faults, failures)
  BY DEF EachOK
<1>2. /\ orders[o] = NoRow /\ order_items[o] = NoRows
      /\ orders[o] \in Nat \cup {NoRow} /\ order_items[o] \in [Products -> Nat]
  BY <1>0, <1>1 DEF RowOK
<1>3. request \in Requests /\ request \in Seq(Items) /\ c \in Calls
  <2>1. request \in Requests /\ c \in Calls
    BY <1>0, <1>1 DEF CallOK
  <2> QED
    BY <2>1, OrderRequestAssumption DEF Items
<1>4. /\ Valid(request) /\ LinesOf(c.lines, request, n) /\ c.total = Price(c.lines, n)
      /\ n < Len(texts) /\ c.todo = SubSeq(texts, n + 1, Len(texts))
  BY <1>0, <1>1 DEF CallOK, IsPriced, Working
<1>5. texts \in Seq(Texts) /\ Lists(texts, request, Len(request))
  BY <1>3, SeenLists
<1>6. c.lines \in Seq(Lines) /\ n \in Nat /\ n \in 0..Len(texts) - 1 /\ n + 1 \in 1..Len(texts)
  <2>1. c.lines \in Seq(Lines)
    BY <1>3 DEF Calls
  <2> QED
    BY <1>4, <1>5, <2>1
<1>7. /\ c.todo \in Seq(Texts) /\ Len(c.todo) = Len(texts) - n /\ text = texts[n + 1]
      /\ Tail(c.todo) = SubSeq(texts, n + 2, Len(texts)) /\ Tail(c.todo) \in Seq(Texts)
      /\ Len(c.todo) # 1 => Tail(c.todo) # <<>>
  <2> HIDE DEF texts
  <2>1. c.todo = SubSeq(texts, n + 1, Len(texts))
    BY <1>4
  <2> HIDE DEF n
  <2> QED
    BY <1>5, <1>6, <2>1, RestOf, ZenonT(60)
<1>8. CASE Value[text] = NoUUID \/ found.code = "NotFound"
  <2>1. ASSUME call' = [call EXCEPT ![o] = Returned(c, "InvalidArgument")] PROVE EachOK'
    <3> DEFINE d == Returned(c, "InvalidArgument")
    <3>1. CallOK(d) /\ d.at = "returned" /\ d.answer = "InvalidArgument" /\ d.request = request
      BY <1>0, <1>1, ReturnedOK DEF Codes
    <3>2. \E i \in DOMAIN request : GetProduct(request[i].product_id).code # "OK"
      <4>1. PICK i \in 1..Len(request) : request[i].product_id = text
        BY <1>5, <1>6, <1>7 DEF Lists
      <4>2. GetProduct(text).code # "OK"
        BY <1>8 DEF GetProduct, Code
      <4>3. i \in DOMAIN request
        BY <1>3
      <4> QED
        BY <4>1, <4>2, <4>3
    <3> HIDE DEF d
    <3>3. RowOK(d, orders[o], order_items[o], faults, failures)
      BY <1>2, <3>1, <3>2 DEF RowOK
    <3>4. call' = [call EXCEPT ![o] = d]
      BY <2>1 DEF d
    <3> QED
      BY <1>0, <3>1, <3>3, <3>4, StepWithoutFault
  <2>2. found.code # "OK"
    BY <1>8 DEF GetProduct, Code
  <2> QED
    BY <2>1, <2>2 DEF PriceLine, Return, Continue, Returned
<1>9. CASE ~(Value[text] = NoUUID \/ found.code = "NotFound")
  <2> DEFINE d == [c EXCEPT !.total = @ + found.product.price_cents * ordered,
                            !.lines = Append(@, l),
                            !.todo = Tail(@),
                            !.at = IF Len(c.todo) = 1 THEN "CreateOrder" ELSE @]
  <2>1. found.code = "OK" /\ call' = [call EXCEPT ![o] = d]
    BY <1>9 DEF PriceLine, Continue
  <2>2. Value[text] \in DOMAIN Prices /\ found.product.price_cents = Prices[Value[text]]
    BY <1>9, <2>1 DEF GetProduct, Code, Product
  <2>3. /\ l.id = Value[text] /\ l.quantity = ordered /\ ordered \in Int
        /\ l \in Lines
    <3>1. /\ text \in Texts /\ l.id = Value[text] /\ l.quantity = ordered
          /\ ordered \in Quantities /\ ordered \in Int
      BY <1>3, <1>6, <1>7, LineOf, SMTT(30)
    <3>2. Value[text] \in Products
      BY <2>2, OrderRequestAssumption
    <3> QED
      BY <3>1, <3>2 DEF Line, Lines
  <2> DEFINE more == Append(c.lines, l)
  <2>4. /\ more \in Seq(Lines) /\ Len(more) = n + 1 /\ more[n + 1] = l
        /\ \A k \in 1..n : more[k] = c.lines[k]
        /\ \A k \in 1..n + 1 : k \in 1..n \/ k = n + 1
    BY <1>6, <2>3
  <2>5. LinesOf(more, request, n + 1)
    <3> HIDE DEF more, n
    <3>1. \A k \in 1..n : /\ more[k] = Line(texts[k], Quantity(request, texts[k]))
                          /\ more[k].id \in DOMAIN Prices
      BY <1>4, <2>4 DEF LinesOf
    <3>2. more[n + 1] = Line(texts[n + 1], Quantity(request, texts[n + 1]))
          /\ more[n + 1].id \in DOMAIN Prices
      BY <1>7, <2>2, <2>3, <2>4
    <3>3. n + 1 <= Len(texts)
      BY <1>6
    <3>4. \A k \in 1..n + 1 : /\ more[k] = Line(texts[k], Quantity(request, texts[k]))
                              /\ more[k].id \in DOMAIN Prices
      BY <2>4, <3>1, <3>2
    <3> HIDE DEF request
    <3> QED
      BY <3>3, <3>4 DEF LinesOf
  <2>6. Price(more, n + 1) = c.total + found.product.price_cents * ordered
    <3>1. OnSale(more, n + 1) /\ OnSale(c.lines, n)
      BY <1>3, <1>4, <1>6, <2>5, LinesOnSale
    <3> HIDE DEF more
    <3>2. Price(more, n + 1) = Price(more, n) + more[n + 1].quantity * Prices[more[n + 1].id]
      BY <1>6, <3>1, PriceOfOneMore
    <3>3. Price(more, n) = Price(c.lines, n)
      BY <1>6, <2>4, <3>1, PriceOfSame
    <3>4. Prices[Value[text]] \in Nat
      BY <2>2, OrderRequestAssumption
    <3>5. ordered * Prices[Value[text]] = Prices[Value[text]] * ordered
      BY <2>3, <3>4
    <3> QED
      BY <1>4, <2>2, <2>3, <2>4, <3>2, <3>3, <3>5
  <2>7. c.total + found.product.price_cents * ordered \in Int
    <3>1. found.product.price_cents \in Int
      BY <2>2, OrderRequestAssumption
    <3>2. c.total \in Int
      BY <1>3 DEF Calls
    <3> QED
      BY <2>3, <3>1, <3>2
  <2>8. /\ d \in Calls /\ d.lines = more /\ d.todo = Tail(c.todo) /\ d.request = request
        /\ d.total = Price(more, n + 1) /\ d.rows = c.rows /\ d.answer = c.answer
        /\ d.at = IF Len(c.todo) = 1 THEN "CreateOrder" ELSE "GetProduct"
    <3>1. /\ d.lines = more /\ d.todo = Tail(c.todo) /\ d.request = request
          /\ d.total = c.total + found.product.price_cents * ordered
          /\ d.rows = c.rows /\ d.answer = c.answer
          /\ d.at = IF Len(c.todo) = 1 THEN "CreateOrder" ELSE "GetProduct"
      BY <1>0, <1>3 DEF Calls
    <3>2. d \in Calls
      <4> HIDE DEF more, found, ordered, l
      <4>1. Append(c.lines, l) \in Seq(Lines)
        BY <2>4 DEF more
      <4> QED
        BY <1>0, <1>3, <1>7, <2>7, <4>1 DEF Calls, Working
    <3> QED
      BY <2>6, <3>1, <3>2
  <2> HIDE DEF d, more
  <2>9. IsPriced(d)
    <3>1. (n + 1) + 1 = n + 2
      BY <1>6
    <3>2. Len(c.todo) = 1 <=> n + 1 = Len(texts)
      BY <1>5, <1>6, <1>7
    <3>3. d.at = "GetProduct" => n + 1 < Len(texts)
                                 /\ d.todo = SubSeq(texts, (n + 1) + 1, Len(texts))
      <4> SUFFICES ASSUME d.at = "GetProduct"
                   PROVE  n + 1 < Len(texts)
                          /\ d.todo = SubSeq(texts, (n + 1) + 1, Len(texts))
        OBVIOUS
      <4>1. Len(c.todo) # 1
        BY <2>8
      <4>2. n + 1 < Len(texts)
        BY <1>5, <1>6, <3>2, <4>1
      <4>3. d.todo = SubSeq(texts, n + 2, Len(texts))
        BY <1>7, <2>8
      <4> HIDE DEF n, texts
      <4> QED
        BY <3>1, <4>2, <4>3
    <3>4. d.at # "GetProduct" => n + 1 = Len(texts)
      BY <2>8, <3>2
    <3>5. Len(d.lines) = n + 1 /\ d.request = request
      BY <2>4, <2>8
    <3> HIDE DEF n
    <3> QED
      BY <1>4, <2>5, <2>8, <3>3, <3>4, <3>5 DEF IsPriced
  <2>10. c.rows = NoRows /\ c.answer = "none"
    BY <1>0, <1>1 DEF CallOK, IsWritten
  <2>11. CallOK(d)
    <3>1. IsWritten(d)
      BY <2>8, <2>10 DEF IsWritten
    <3> QED
      BY <1>3, <1>7, <2>8, <2>9, <2>10, <3>1 DEF CallOK
  <2>12. RowOK(d, orders[o], order_items[o], faults, failures)
    BY <1>2, <2>8, <2>10 DEF RowOK
  <2> QED
    BY <1>0, <2>1, <2>11, <2>12, StepWithoutFault
<1> QED
  BY <1>8, <1>9

\* What a call that writes its order has before it.
LEMMA WritingCall ==
    ASSUME EachOK, NEW o \in Orders, call[o].at \in Working
    PROVE  /\ CallOK(call[o]) /\ call[o] \in Calls
           /\ call[o].request \in Requests /\ call[o].request \in Seq(Items)
           /\ orders[o] = NoRow /\ order_items[o] = NoRows
           /\ orders[o] \in Nat \cup {NoRow} /\ order_items[o] \in [Products -> Nat]
           /\ RowOK(call[o], orders[o], order_items[o], faults, failures)
<1>1. CallOK(call[o]) /\ RowOK(call[o], orders[o], order_items[o], faults, failures)
  BY DEF EachOK
<1>2. call[o].at # "none" /\ call[o].at \notin {"Publish", "returned"}
  BY DEF Working
<1>3. call[o] \in Calls /\ call[o].request \in Requests
  BY <1>1, <1>2 DEF CallOK
<1>4. call[o].request \in Seq(Items)
  BY <1>3, OrderRequestAssumption DEF Items
<1> QED
  BY <1>1, <1>2, <1>3, <1>4 DEF RowOK

\* A call that has all its lines ends for the sake of its request.
LEMMA EndsInternal ==
    ASSUME EachOK, NEW o \in Orders, call[o].at \in Working,
           Overflows(call[o].request) \/ SpelledTwice(call[o].request),
           Return(o, "Internal"), UNCHANGED <<database, log, reader, faults, failures>>
    PROVE  EachOK'
<1> DEFINE d == Returned(call[o], "Internal")
<1>1. CallOK(d) /\ d.answer = "Internal" /\ d.at = "returned" /\ d.request = call[o].request
  BY WritingCall, ReturnedOK DEF Codes, Working
<1>2. call' = [call EXCEPT ![o] = d]
  BY DEF Return, Continue, Returned
<1> HIDE DEF d
<1>3. RowOK(d, orders[o], order_items[o], faults, failures)
  BY <1>1, WritingCall DEF RowOK
<1> QED
  BY <1>1, <1>2, <1>3, StepWithoutFault

LEMMA CreateOrderStep ==
    ASSUME EachOK, NEW o \in Orders, CreateOrder(o)
    PROVE  EachOK'
<1> DEFINE c == call[o]
           n == Len(c.lines)
<1>0. c.at = "CreateOrder" /\ c.at \in Working
      /\ UNCHANGED <<database, log, reader, faults, failures>>
  BY DEF CreateOrder, Working
<1>1. /\ CallOK(c) /\ c \in Calls /\ c.request \in Requests /\ c.request \in Seq(Items)
      /\ orders[o] = NoRow /\ order_items[o] = NoRows
      /\ orders[o] \in Nat \cup {NoRow} /\ order_items[o] \in [Products -> Nat]
  BY <1>0, WritingCall
<1>2. /\ Valid(c.request) /\ LinesOf(c.lines, c.request, n) /\ c.total = Price(c.lines, n)
      /\ n = Len(Seen(c.request))
  BY <1>0, <1>1 DEF CallOK, IsPriced
<1>3. c.rows = NoRows /\ c.answer = "none" /\ c.total \in Int /\ c.lines \in Seq(Lines)
  BY <1>0, <1>1 DEF CallOK, IsWritten, Calls
<1>4. CASE c.total < 0
  <2>1. Overflows(c.request) \/ SpelledTwice(c.request)
    BY <1>1, <1>2, <1>3, <1>4, NegativeTotal
  <2> QED
    BY <1>0, <1>4, <2>1, EndsInternal DEF CreateOrder
<1>5. CASE ~(c.total < 0)
  <2> DEFINE d == [c EXCEPT !.at = "AddOrderItem", !.todo = c.lines]
  <2>1. call' = [call EXCEPT ![o] = d]
    BY <1>5 DEF CreateOrder, Continue
  <2>2. /\ d.at = "AddOrderItem" /\ d.todo = c.lines /\ d.lines = c.lines /\ d.total = c.total
        /\ d.rows = c.rows /\ d.request = c.request /\ d.answer = c.answer /\ d \in Calls
    BY <1>1, <1>3 DEF Calls, Working
  <2> HIDE DEF d
  <2>3. n \in Nat \ {0}
    <3>1. Lists(Seen(c.request), c.request, Len(c.request)) /\ Seen(c.request) \in Seq(Texts)
      BY <1>1, SeenLists
    <3>2. 1 \in 1..Len(c.request)
      BY <1>1, <1>2 DEF Valid
    <3>3. PICK i \in 1..Len(Seen(c.request)) : Seen(c.request)[i] = c.request[1].product_id
      BY <3>1, <3>2 DEF Lists
    <3> QED
      BY <1>2, <3>1, <3>3
  <2>4. IsWritten(d)
    <3>1. c.lines = SubSeq(c.lines, 0 + 1, n)
      BY <1>3
    <3>2. Holds(c.rows, c.lines, 0)
      BY <1>3, CostOfNothing, PriceOfNone DEF Holds, NoRows
    <3>3. 0 \in 0..n - 1
      BY <2>3
    <3>4. \E k \in 0..n - 1 : c.lines = SubSeq(c.lines, k + 1, n) /\ Holds(c.rows, c.lines, k)
      BY <3>1, <3>2, <3>3
    <3> QED
      BY <1>3, <1>5, <2>2, <3>4 DEF IsWritten
  <2>5. CallOK(d)
    <3>1. IsPriced(d)
      BY <1>2, <2>2 DEF IsPriced
    <3>2. c.lines \in Seq(Lines) \ {<<>>}
      BY <1>3, <2>3
    <3> QED
      BY <1>1, <1>3, <2>2, <2>4, <3>1, <3>2 DEF CallOK
  <2>6. RowOK(d, orders[o], order_items[o], faults, failures)
    BY <1>1, <1>3, <2>2 DEF RowOK
  <2> QED
    BY <1>0, <2>1, <2>5, <2>6, StepWithoutFault
<1> QED
  BY <1>4, <1>5

LEMMA AddOrderItemStep ==
    ASSUME EachOK, NEW o \in Orders, AddOrderItem(o)
    PROVE  EachOK'
<1> DEFINE c == call[o]
           n == Len(c.lines)
           line == Head(c.todo)
<1>0. c.at = "AddOrderItem" /\ c.at \in Working
      /\ UNCHANGED <<database, log, reader, faults, failures>>
  BY DEF AddOrderItem, Working
<1>1. /\ CallOK(c) /\ c \in Calls /\ c.request \in Requests /\ c.request \in Seq(Items)
      /\ orders[o] = NoRow /\ order_items[o] = NoRows
      /\ orders[o] \in Nat \cup {NoRow} /\ order_items[o] \in [Products -> Nat]
  BY <1>0, WritingCall
<1>2. /\ Valid(c.request) /\ LinesOf(c.lines, c.request, n) /\ c.total = Price(c.lines, n)
      /\ n = Len(Seen(c.request))
  BY <1>0, <1>1 DEF CallOK, IsPriced
<1>3. c.rows \in [Products -> Nat] /\ c.answer = "none" /\ c.total >= 0
      /\ c.lines \in Seq(Lines) /\ n \in Nat
  <2>1. c.rows \in [Products -> Nat] /\ c.lines \in Seq(Lines)
    BY <1>1 DEF Calls
  <2>2. c.answer = "none" /\ c.total >= 0
    BY <1>0, <1>1 DEF CallOK, IsWritten
  <2> QED
    BY <2>1, <2>2
<1>4. PICK k \in 0..n - 1 : c.todo = SubSeq(c.lines, k + 1, n) /\ Holds(c.rows, c.lines, k)
  BY <1>0, <1>1 DEF CallOK, IsWritten
<1>5. /\ c.todo \in Seq(Lines) /\ Len(c.todo) = n - k /\ line = c.lines[k + 1]
      /\ Tail(c.todo) = SubSeq(c.lines, k + 2, n) /\ Tail(c.todo) \in Seq(Lines)
      /\ Len(c.todo) # 1 => Tail(c.todo) # <<>>
  <2>1. PICK s \in Seq(Lines) : s = c.lines
    BY <1>3
  <2>2. PICK rest : rest = c.todo
    OBVIOUS
  <2>3. k \in 0..Len(s) - 1 /\ rest = SubSeq(s, k + 1, Len(s))
    BY <1>4, <2>1, <2>2
  <2>4. /\ rest \in Seq(Lines) /\ Len(rest) = Len(s) - k
        /\ Head(rest) = s[k + 1] /\ Tail(rest) = SubSeq(s, k + 2, Len(s))
        /\ Tail(rest) \in Seq(Lines) /\ (Len(rest) # 1 => Tail(rest) # <<>>)
    BY ONLY <2>3, RestOf, ZenonT(40)
  <2> QED
    BY <2>1, <2>2, <2>4
<1>6. CASE ~Storable(c, line)
  <2>1. Overflows(c.request) \/ SpelledTwice(c.request)
    BY <1>1, <1>2, <1>3, <1>4, <1>5, <1>6, NotStorable DEF Storable
  <2> QED
    BY <1>0, <1>6, <2>1, EndsInternal DEF AddOrderItem
<1>7. CASE Storable(c, line)
  <2> DEFINE rows == [c.rows EXCEPT ![line.id] = line.quantity]
             d == [c EXCEPT !.rows[line.id] = line.quantity,
                            !.todo = Tail(@),
                            !.at = IF Len(c.todo) = 1 THEN "Commit" ELSE @]
  <2>1. call' = [call EXCEPT ![o] = d]
    BY <1>7 DEF AddOrderItem, Continue
  <2>2. rows \in [Products -> Nat] /\ Holds(rows, c.lines, k + 1)
    <3>1. OnSale(c.lines, n)
      BY <1>1, <1>2, <1>3, LinesOnSale
    <3>2. OnSale(c.lines, k + 1) /\ k \in Nat
      BY <1>3, <1>4, <3>1 DEF OnSale
    <3>3. c.rows[line.id] = 0 /\ line.quantity > 0
      BY <1>7 DEF Storable
    <3> HIDE DEF c, n, line
    <3> QED
      BY <1>3, <1>4, <1>5, <3>2, <3>3, OneMoreRow DEF rows
  <2>3. /\ d.rows = rows /\ d.todo = Tail(c.todo) /\ d.lines = c.lines /\ d.total = c.total
        /\ d.request = c.request /\ d.answer = c.answer
        /\ d.at = IF Len(c.todo) = 1 THEN "Commit" ELSE "AddOrderItem"
    BY <1>0, <1>1 DEF Calls
  <2>4. d \in Calls
    <3>1. c.rows = c.rows /\ d = [c EXCEPT !.rows = rows, !.todo = Tail(c.todo),
                  !.at = IF Len(c.todo) = 1 THEN "Commit" ELSE "AddOrderItem"]
      BY <1>0, <1>1 DEF Calls
    <3> HIDE DEF d, rows
    <3> QED
      BY <1>1, <1>5, <2>2, <3>1 DEF Calls, Working
  <2> HIDE DEF d, rows
  <2>5. /\ d.at = "Commit" => k + 1 = n
        /\ d.at # "Commit" => d.at = "AddOrderItem" /\ k + 1 \in 0..n - 1
                              /\ d.todo = SubSeq(c.lines, (k + 1) + 1, n)
    <3>1. (k + 1) + 1 = k + 2
      BY <1>4
    <3> QED
      BY <1>3, <1>4, <1>5, <2>3, <3>1, SMTT(30)
  <2>6. IsWritten(d)
    <3>1. CASE d.at = "Commit"
      BY <1>3, <2>2, <2>3, <2>5, <3>1 DEF IsWritten
    <3>2. CASE d.at # "Commit"
      <4>1. \E j \in 0..n - 1 : d.todo = SubSeq(c.lines, j + 1, n) /\ Holds(rows, c.lines, j)
        BY <2>2, <2>5, <3>2
      <4> QED
        BY <1>3, <2>3, <2>5, <3>2, <4>1 DEF IsWritten
    <3> QED
      BY <3>1, <3>2
  <2>7. CallOK(d)
    <3>1. IsPriced(d)
      BY <1>2, <2>3, <2>5 DEF IsPriced
    <3>2. d.at = "AddOrderItem" => d.todo \in Seq(Lines) \ {<<>>}
      BY <1>5, <2>3
    <3>3. d.at \in {"Commit", "AddOrderItem"} /\ d.answer = "none" /\ d.request \in Requests
      BY <1>1, <1>3, <2>3
    <3> QED
      BY <2>4, <2>6, <3>1, <3>2, <3>3 DEF CallOK
  <2>8. RowOK(d, orders[o], order_items[o], faults, failures)
    BY <1>1, <1>3, <2>3 DEF RowOK
  <2> QED
    BY <1>0, <2>1, <2>7, <2>8, StepWithoutFault
<1> QED
  BY <1>6, <1>7

LEMMA CommitStep ==
    ASSUME EachOK, NEW o \in Orders, Commit(o)
    PROVE  EachOK'
<1> DEFINE c == call[o]
           n == Len(c.lines)
           d == [c EXCEPT !.at = "Publish"]
<1>0. /\ c.at = "Commit" /\ c.at \in Working
      /\ call' = [call EXCEPT ![o] = d]
      /\ orders' = [orders EXCEPT ![o] = c.total]
      /\ order_items' = [order_items EXCEPT ![o] = c.rows]
      /\ UNCHANGED <<log, reader, faults, failures>>
  BY DEF Commit, Continue, Working
<1>1. /\ CallOK(c) /\ c \in Calls /\ c.request \in Requests /\ c.request \in Seq(Items)
      /\ orders[o] = NoRow
  BY <1>0, WritingCall
<1>2. /\ Valid(c.request) /\ LinesOf(c.lines, c.request, n) /\ c.total = Price(c.lines, n)
      /\ n = Len(Seen(c.request)) /\ c.total >= 0 /\ Holds(c.rows, c.lines, n)
      /\ c.answer = "none"
  BY <1>0, <1>1 DEF CallOK, IsPriced, IsWritten
<1>3. c.rows \in [Products -> Nat] /\ c.total \in Nat
  BY <1>1, <1>2 DEF Calls
<1>4. c.rows = Asked(c.request) /\ c.rows # NoRows
  BY <1>1, <1>2, <1>3, WholeCart
<1>5. c.total = Cost(c.rows) /\ c.total # NoRow
  BY <1>2, <1>3 DEF Holds, NoRow
<1>6. /\ d \in Calls /\ d.at = "Publish" /\ d.lines = c.lines /\ d.total = c.total
      /\ d.rows = c.rows /\ d.request = c.request /\ d.answer = c.answer
  BY <1>1 DEF Calls
<1> HIDE DEF d
<1>7. CallOK(d)
  BY <1>1, <1>2, <1>6 DEF CallOK, IsPriced, IsWritten
<1>8. RowOK(d, c.total, c.rows, faults, failures)
  BY <1>2, <1>3, <1>4, <1>5, <1>6 DEF RowOK
<1>9. /\ call'[o] = d /\ orders'[o] = c.total /\ order_items'[o] = c.rows
      /\ \A p \in Orders \ {o} : /\ call'[p] = call[p] /\ orders'[p] = orders[p]
                                 /\ order_items'[p] = order_items[p]
  BY <1>0 DEF EachOK, TablesOK
<1>10. TablesOK'
  BY <1>0 DEF EachOK, TablesOK
<1>11. \A p \in Orders : CallOK(call'[p])
  BY <1>7, <1>9 DEF EachOK
<1>12. ASSUME NEW p \in Orders
       PROVE  RowOK(call'[p], orders'[p], order_items'[p], faults', failures')
  <2>1. faults' = faults /\ failures' = failures
    BY <1>0
  <2>2. CASE p = o
    BY <1>8, <1>9, <2>1, <2>2
  <2>3. CASE p # o
    <3>1. RowOK(call[p], orders[p], order_items[p], faults, failures)
      BY DEF EachOK
    <3> QED
      BY <1>9, <2>1, <2>3, <3>1
  <2> QED
    BY <2>2, <2>3
<1>13. ASSUME NEW q \in Readers PROVE ReaderOK(reader'[q], orders', order_items')
  <2>1. ReaderOK(reader[q], orders, order_items) /\ reader' = reader
    BY <1>0 DEF EachOK
  <2> QED
    BY <1>1, <1>9, <2>1 DEF ReaderOK
<1> QED
  BY <1>10, <1>11, <1>12, <1>13 DEF EachOK

\* An order whose event is to be published.
LEMMA CommittedCall ==
    ASSUME EachOK, NEW o \in Orders, call[o].at = "Publish"
    PROVE  /\ CallOK(call[o]) /\ call[o] \in Calls /\ call[o].lines \in Seq(Lines)
           /\ orders[o] \in Nat /\ orders[o] # NoRow /\ order_items[o] \in [Products -> Nat]
           /\ orders[o] = call[o].total /\ order_items[o] = call[o].rows
           /\ order_items[o] = Asked(call[o].request) /\ order_items[o] # NoRows
           /\ orders[o] = Cost(order_items[o])
           /\ RowOK(call[o], orders[o], order_items[o], faults, failures)
<1>1. CallOK(call[o]) /\ RowOK(call[o], orders[o], order_items[o], faults, failures)
  BY DEF EachOK
<1>2. call[o] \in Calls /\ call[o].lines \in Seq(Lines)
  BY <1>1 DEF CallOK, Calls
<1> QED
  BY <1>1, <1>2 DEF RowOK

LEMMA PublishStep ==
    ASSUME EachOK, NEW o \in Orders, NEW acked \in BOOLEAN, PublishOrderPlaced(o, acked)
    PROVE  EachOK'
<1> DEFINE c == call[o]
<1>0. c.at = "Publish" /\ UNCHANGED <<database, reader, failures>>
      /\ log' = Append(log, OrderPlaced(o)) /\ (acked \/ faults < MaxFaults)
      /\ faults' = IF acked THEN faults ELSE faults + 1
  BY DEF PublishOrderPlaced
<1>1. /\ CallOK(c) /\ c \in Calls /\ orders[o] # NoRow /\ c.total \in Nat
      /\ c.lines \in Seq(Lines)
      /\ RowOK(c, orders[o], order_items[o], faults, failures)
  BY <1>0, CommittedCall
<1>2. log' \in Seq(Records)
  <2>1. log \in Seq(Records)
    BY DEF EachOK, TablesOK
  <2>2. OrderPlaced(o) \in Records
    BY <1>1 DEF OrderPlaced, Records
  <2> QED
    BY <1>0, <2>1, <2>2
<1>3. /\ faults \in 0..MaxFaults /\ failures \in 0..MaxFailures
      /\ faults' \in 0..MaxFaults /\ failures' \in 0..MaxFailures
      /\ faults' >= faults /\ failures' >= failures
  <2>1. faults \in 0..MaxFaults /\ failures \in 0..MaxFailures
    BY DEF EachOK, TablesOK
  <2> QED
    BY <1>0, <2>1, OrderRequestAssumption
<1>4. UNCHANGED <<database, reader>>
  BY <1>0
<1>5. CASE acked
  <2> DEFINE d == Returned(c, "OK")
  <2>1. CallOK(d) /\ d.at = "returned" /\ d.answer = "OK" /\ d.request = c.request
    BY <1>0, <1>1, ReturnedOK DEF Codes
  <2>2. call' = [call EXCEPT ![o] = d]
    BY <1>5 DEF PublishOrderPlaced, Return, Continue, Returned
  <2> HIDE DEF d
  <2>3. RowOK(d, orders[o], order_items[o], faults', failures')
    BY <1>0, <1>1, <2>1 DEF RowOK
  <2> HIDE DEF c
  <2> QED
    BY <1>2, <1>3, <1>4, <2>1, <2>2, <2>3, StepOfCall
<1>6. CASE ~acked
  <2>1. call' = [call EXCEPT ![o] = c]
    BY <1>6 DEF PublishOrderPlaced, EachOK, TablesOK
  <2>2. c.answer = "none"
    BY <1>0, <1>1 DEF CallOK
  <2>3. RowOK(c, orders[o], order_items[o], faults', failures')
    BY <1>1, <2>2 DEF RowOK
  <2> HIDE DEF c
  <2> QED
    BY <1>1, <1>2, <1>3, <1>4, <2>1, <2>3, StepOfCall
<1> QED
  BY <1>5, <1>6

LEMMA DropStep ==
    ASSUME EachOK, NEW o \in Orders, NEW code \in {"OK", "Internal", "lost"},
           DropOrderPlaced(o, code)
    PROVE  EachOK'
<1> DEFINE c == call[o]
           d == Returned(c, code)
<1>0. c.at = "Publish" /\ UNCHANGED <<database, log, reader, failures>>
      /\ faults < MaxFaults /\ faults' = faults + 1
      /\ call' = [call EXCEPT ![o] = d]
  BY DEF DropOrderPlaced, Return, Continue, Returned
<1>1. /\ CallOK(c) /\ orders[o] # NoRow
      /\ RowOK(c, orders[o], order_items[o], faults, failures)
  BY <1>0, CommittedCall
<1>2. code \in Codes
  BY DEF Codes
<1>3. CallOK(d) /\ d.at = "returned" /\ d.answer = code /\ d.request = c.request
  BY <1>0, <1>1, <1>2, ReturnedOK
<1>4. /\ faults \in 0..MaxFaults /\ failures \in 0..MaxFailures
      /\ faults' \in 0..MaxFaults /\ failures' \in 0..MaxFailures
      /\ faults' >= faults /\ failures' >= failures /\ faults' > 0
      /\ log' \in Seq(Records)
  <2>1. faults \in 0..MaxFaults /\ failures \in 0..MaxFailures /\ log \in Seq(Records)
    BY DEF EachOK, TablesOK
  <2> QED
    BY <1>0, <2>1, OrderRequestAssumption
<1>5. UNCHANGED <<database, reader>>
  BY <1>0
<1> HIDE DEF d
<1>6. RowOK(d, orders[o], order_items[o], faults', failures')
  BY <1>0, <1>1, <1>3, <1>4 DEF RowOK
<1> HIDE DEF c
<1> QED
  BY <1>0, <1>3, <1>4, <1>5, <1>6, StepOfCall

LEMMA FailsStep ==
    ASSUME EachOK, NEW o \in Orders, NEW code \in {"Internal", "lost"}, Fails(o, code)
    PROVE  EachOK'
<1> DEFINE c == call[o]
           d == Returned(c, code)
<1>0. c.at \in Working /\ UNCHANGED <<database, log, reader, faults>>
      /\ failures < MaxFailures /\ failures' = failures + 1
      /\ call' = [call EXCEPT ![o] = d]
  BY DEF Fails, Return, Continue, Returned
<1>1. /\ CallOK(c) /\ orders[o] = NoRow
      /\ RowOK(c, orders[o], order_items[o], faults, failures)
  BY <1>0, WritingCall
<1>2. code \in Codes /\ c.at # "none"
  BY <1>0 DEF Codes, Working
<1>3. CallOK(d) /\ d.at = "returned" /\ d.answer = code /\ d.request = c.request
  BY <1>1, <1>2, ReturnedOK
<1>4. /\ faults \in 0..MaxFaults /\ failures \in 0..MaxFailures
      /\ faults' \in 0..MaxFaults /\ failures' \in 0..MaxFailures
      /\ faults' >= faults /\ failures' >= failures /\ failures' > 0
      /\ log' \in Seq(Records)
  <2>1. faults \in 0..MaxFaults /\ failures \in 0..MaxFailures /\ log \in Seq(Records)
    BY DEF EachOK, TablesOK
  <2> QED
    BY <1>0, <2>1, OrderRequestAssumption
<1>5. UNCHANGED <<database, reader>>
  BY <1>0
<1> HIDE DEF d
<1>6. RowOK(d, orders[o], order_items[o], faults', failures')
  BY <1>0, <1>1, <1>3, <1>4 DEF RowOK
<1> HIDE DEF c
<1> QED
  BY <1>0, <1>3, <1>4, <1>5, <1>6, StepOfCall

\* A step of one reader.
LEMMA StepOfReader ==
    ASSUME EachOK, NEW q \in Readers, NEW r, ReaderOK(r, orders, order_items),
           reader' = [reader EXCEPT ![q] = r],
           UNCHANGED <<call, database, log, faults, failures>>
    PROVE  EachOK'
<1>1. orders' = orders /\ order_items' = order_items
  BY DEF database
<1>2. TablesOK'
  BY <1>1 DEF EachOK, TablesOK
<1>3. \A p \in Readers : ReaderOK(reader'[p], orders', order_items')
  BY <1>1 DEF EachOK, TablesOK
<1>4. /\ \A o \in Orders : CallOK(call'[o])
      /\ \A o \in Orders : RowOK(call'[o], orders'[o], order_items'[o], faults', failures')
  BY <1>1 DEF EachOK
<1> QED
  BY <1>2, <1>3, <1>4 DEF EachOK

LEMMA ReaderStep ==
    ASSUME EachOK, NEW q \in Readers,
           \/ \E o \in Orders \cup {NoUUID} : GetOrder(q, o)
           \/ ListOrderItems(q)
           \/ ReadFails(q)
    PROVE  EachOK'
<1>0. ReaderOK(reader[q], orders, order_items)
  BY DEF EachOK
<1>1. CASE \E o \in Orders \cup {NoUUID} : GetOrder(q, o)
  <2>1. PICK o \in Orders \cup {NoUUID} : GetOrder(q, o)
    BY <1>1
  <2> DEFINE r == IF o = NoUUID
                  THEN [at |-> "returned", order |-> o, answer |-> "InvalidArgument"]
                  ELSE IF orders[o] = NoRow
                       THEN [at |-> "returned", order |-> o, answer |-> "NotFound"]
                  ELSE [at |-> "ListOrderItems", order |-> o, total |-> orders[o]]
  <2>2. reader' = [reader EXCEPT ![q] = r] /\ UNCHANGED <<call, database, log, faults, failures>>
    BY <2>1 DEF GetOrder
  <2>3. ReaderOK(r, orders, order_items)
    BY DEF ReaderOK
  <2> HIDE DEF r
  <2> QED
    BY <2>2, <2>3, StepOfReader
<1>2. CASE ListOrderItems(q)
  <2> DEFINE r == [at |-> "returned", order |-> reader[q].order, answer |-> "OK",
                   total |-> reader[q].total, items |-> order_items[reader[q].order]]
  <2>1. /\ reader[q].at = "ListOrderItems" /\ reader' = [reader EXCEPT ![q] = r]
        /\ UNCHANGED <<call, database, log, faults, failures>>
    BY <1>2 DEF ListOrderItems
  <2>2. ReaderOK(r, orders, order_items)
    BY <1>0, <2>1 DEF ReaderOK
  <2> HIDE DEF r
  <2> QED
    BY <2>1, <2>2, StepOfReader
<1>3. CASE ReadFails(q)
  <2> DEFINE r == [at |-> "returned", answer |-> "Internal"]
  <2>1. /\ reader' = [reader EXCEPT ![q] = r]
        /\ UNCHANGED <<call, database, log, faults, failures>>
    BY <1>3 DEF ReadFails
  <2>2. ReaderOK(r, orders, order_items)
    BY DEF ReaderOK
  <2> HIDE DEF r
  <2> QED
    BY <2>1, <2>2, StepOfReader
<1> QED
  BY <1>1, <1>2, <1>3

-----------------------------------------------------------------------------
(* The theorems *)

LEMMA InitOK == Init => EachOK
<1> SUFFICES ASSUME Init PROVE EachOK
  OBVIOUS
<1>1. ASSUME NEW o \in Orders
      PROVE  call[o] = Unborn /\ orders[o] = NoRow /\ order_items[o] = NoRows
  BY DEF Init
<1>2. TablesOK
  BY OrderRequestAssumption DEF Init, TablesOK
<1>3. CallOK(Unborn)
  BY UnbornCall DEF CallOK, IsPriced, IsWritten, Working, Unborn
<1>4. RowOK(Unborn, NoRow, NoRows, 0, 0)
  BY UnbornCall DEF RowOK, Unborn
<1>5. \A q \in Readers : ReaderOK(reader[q], orders, order_items)
  BY DEF Init, Asking, ReaderOK
<1>6. faults = 0 /\ failures = 0
  BY DEF Init
<1> QED
  BY <1>1, <1>2, <1>3, <1>4, <1>5, <1>6 DEF EachOK

LEMMA NextOK == EachOK /\ [Next]_vars => EachOK'
<1> SUFFICES ASSUME EachOK, [Next]_vars PROVE EachOK'
  OBVIOUS
<1>1. ASSUME NEW o \in Orders, NEW request \in Requests, Receive(o, request) PROVE EachOK'
  BY <1>1, ReceiveStep
<1>2. ASSUME NEW o \in Orders, PriceLine(o) PROVE EachOK'
  BY <1>2, PriceLineStep
<1>3. ASSUME NEW o \in Orders, CreateOrder(o) PROVE EachOK'
  BY <1>3, CreateOrderStep
<1>4. ASSUME NEW o \in Orders, AddOrderItem(o) PROVE EachOK'
  BY <1>4, AddOrderItemStep
<1>5. ASSUME NEW o \in Orders, Commit(o) PROVE EachOK'
  BY <1>5, CommitStep
<1>6. ASSUME NEW o \in Orders, NEW acked \in BOOLEAN, PublishOrderPlaced(o, acked) PROVE EachOK'
  BY <1>6, PublishStep
<1>7. ASSUME NEW o \in Orders, NEW code \in {"OK", "Internal", "lost"}, DropOrderPlaced(o, code)
      PROVE  EachOK'
  BY <1>7, DropStep
<1>8. ASSUME NEW o \in Orders, NEW code \in {"Internal", "lost"}, Fails(o, code) PROVE EachOK'
  BY <1>8, FailsStep
<1>9. ASSUME NEW q \in Readers, \/ \E o \in Orders \cup {NoUUID} : GetOrder(q, o)
                                \/ ListOrderItems(q)
                                \/ ReadFails(q)
      PROVE  EachOK'
  BY <1>9, ReaderStep
<1>10. CASE UNCHANGED vars
  BY <1>10 DEF vars, database, EachOK, TablesOK
<1> QED
  BY <1>1, <1>2, <1>3, <1>4, <1>5, <1>6, <1>7, <1>8, <1>9, <1>10 DEF Next

\* A call that has priced lines has priced those of its request, one by one; the rows
\* a transaction has written are those of its first lines, with a key each; what is
\* committed is the whole cart; and what callers are told is so.
THEOREM RequestInvariance == Spec => []RequestInv
<1>1. Init => RequestInv
  BY InitOK, Each
<1>2. RequestInv /\ [Next]_vars => RequestInv'
  <2>1. EachOK' => RequestInv'
    <3>1. RequestInv <=> EachOK
      BY Each
    <3> QED
      BY <3>1, PTL
  <2> QED
    BY <2>1, NextOK, Each
<1> QED
  BY <1>1, <1>2, PTL DEF Spec

\* The state of PlaceOrder and GetOrder, of the tables and the topic has its type.
THEOREM RequestTypes == Spec => []TypeOK
<1>1. RequestInv => TypeOK
  BY DEF RequestInv
<1> QED
  BY <1>1, RequestInvariance, PTL

\* What PlaceOrder and GetOrder tell their callers is so.
THEOREM AnswersAreTrue == Spec => []AnswersTrue
<1>1. RequestInv => AnswersTrue
  BY DEF RequestInv
<1> QED
  BY <1>1, RequestInvariance, PTL

LEMMA StoredCart == RequestInv => StoredAsAsked
<1> SUFFICES ASSUME RequestInv, NEW o \in Placed
             PROVE  /\ \A p \in Products :
                          /\ order_items[o][p] \in Quantities
                          /\ (order_items[o][p] - Units(call[o].request, p)) % (2 * Half) = 0
                    /\ order_items[o] # NoRows
                    /\ orders[o] = Cost(order_items[o])
  BY DEF StoredAsAsked
<1>1. o \in Orders /\ call[o].at \in {"Publish", "returned"}
      /\ call[o].request \in Requests
      /\ order_items[o] = Asked(call[o].request) /\ order_items[o] # NoRows
      /\ orders[o] = Cost(order_items[o])
  BY DEF RequestInv, CommittedWhole, Placed
<1>2. call[o].request \in Seq(Items)
  BY <1>1, OrderRequestAssumption DEF Items
<1>3. ASSUME NEW p \in Products
      PROVE  /\ order_items[o][p] \in Quantities
             /\ (order_items[o][p] - Units(call[o].request, p)) % (2 * Half) = 0
  <2>1. order_items[o][p] = Wrap(Units(call[o].request, p))
    BY <1>1 DEF Asked
  <2>2. Units(call[o].request, p) \in Int
    BY <1>2, UnitsCount
  <2> QED
    BY <2>1, <2>2, Wraps
<1> QED
  BY <1>1, <1>3

\* A stored order has what its customer asked for, summed by product, modulo what an
\* int32 holds; and its total is what its products cost in the catalogue.
THEOREM OrdersStoredAsAsked == Spec => []StoredAsAsked
  BY StoredCart, RequestInvariance, PTL

-----------------------------------------------------------------------------
(* The steps of OrderService *)

\* What OrderService sees of the state.
ServiceLog == [t \in StatusTopics \cup {"orders.placed", "inventory.reserved"} |-> EventsOf(t)]
ServiceStatus == [o \in Orders |-> IF orders[o] = NoRow THEN "NONE" ELSE "PENDING"]
Publishing == { o \in Orders : call[o].at = "Publish" }

\* OrderService assumes of its carts that they ask for something, and that their
\* totals are natural numbers: so are the carts that can be stored.
THEOREM OrderServiceAssumptions ==
    \A cart \in Carts : /\ cart \in [Products -> Nat]
                        /\ \E p \in Products : cart[p] > 0
                        /\ Service!Priced(cart) => Service!Total(cart) \in Nat
<1> SUFFICES ASSUME NEW cart \in Carts
             PROVE  /\ cart \in [Products -> Nat]
                    /\ \E p \in Products : cart[p] > 0
                    /\ Service!Priced(cart) => Service!Total(cart) \in Nat
  OBVIOUS
<1>1. cart \in [Products -> Nat] /\ cart # NoRows
  BY DEF Carts
<1>2. \E p \in Products : cart[p] > 0
  <2> SUFFICES ASSUME \A p \in Products : ~(cart[p] > 0) PROVE FALSE
    OBVIOUS
  <2>1. \A p \in Products : cart[p] = 0
    BY <1>1
  <2> QED
    BY <1>1, <2>1 DEF NoRows
<1> QED
  BY <1>1, <1>2, TotalIsCost, CostIsNat

LEMMA CommitImplements ==
    ASSUME EachOK, NEW o \in Orders, Commit(o)
    PROVE  Service!OrderNext
<1> DEFINE c == call[o]
           n == Len(c.lines)
<1>0. /\ c.at = "Commit" /\ c.at \in Working
      /\ call' = [call EXCEPT ![o] = [c EXCEPT !.at = "Publish"]]
      /\ orders' = [orders EXCEPT ![o] = c.total]
      /\ order_items' = [order_items EXCEPT ![o] = c.rows]
      /\ UNCHANGED <<log, reader, faults, failures>>
  BY DEF Commit, Continue, Working
<1>1. /\ CallOK(c) /\ c \in Calls /\ c.request \in Requests /\ c.request \in Seq(Items)
      /\ orders[o] = NoRow
  BY <1>0, WritingCall
<1>2. /\ Valid(c.request) /\ LinesOf(c.lines, c.request, n)
      /\ n = Len(Seen(c.request)) /\ c.total >= 0 /\ Holds(c.rows, c.lines, n)
  BY <1>0, <1>1 DEF CallOK, IsPriced, IsWritten
<1>3. c.rows \in [Products -> Nat] /\ c.total \in Nat /\ c.total # NoRow
  BY <1>1, <1>2 DEF Calls, NoRow
<1>4. c.rows = Asked(c.request) /\ c.rows # NoRows
      /\ \A p \in Products : c.rows[p] # 0 => p \in DOMAIN Prices
  BY <1>1, <1>2, <1>3, WholeCart
<1>5. c.rows \in Carts
  BY <1>1, <1>3, <1>4 DEF Carts
<1>6. Service!Priced(c.rows)
  BY <1>3, <1>4 DEF Service!Priced, Service!Lines
<1>7. DOMAIN orders = Orders /\ DOMAIN call = Orders /\ DOMAIN order_items = Orders
  BY DEF EachOK, TablesOK
<1>8. ServiceStatus[o] = "NONE" /\ ServiceStatus' = [ServiceStatus EXCEPT ![o] = "PENDING"]
  BY <1>0, <1>1, <1>3, <1>7 DEF ServiceStatus
<1>9. Publishing' = Publishing \cup {o}
  <2>1. \A p \in Orders : call'[p].at = IF p = o THEN "Publish" ELSE call[p].at
    BY <1>0, <1>1, <1>7 DEF Calls
  <2> QED
    BY <2>1 DEF Publishing
<1>10. ServiceLog' = ServiceLog
  BY <1>0 DEF ServiceLog, EventsOf
<1>11. PICK cart \in Carts : cart = c.rows
  BY <1>5
<1>12. Service!PlaceOrder(o, cart)
  BY <1>0, <1>6, <1>8, <1>9, <1>10, <1>11 DEF Service!PlaceOrder, ServiceStatus, Publishing, ServiceLog
<1> QED
  BY <1>12 DEF Service!OrderNext

LEMMA PublishImplements ==
    ASSUME EachOK, NEW o \in Orders, NEW acked \in BOOLEAN, PublishOrderPlaced(o, acked)
    PROVE  Service!OrderNext
<1> DEFINE c == call[o]
           event == [order |-> o, items |-> order_items[o],
                     total |-> Service!Total(order_items[o])]
<1>0. c.at = "Publish" /\ UNCHANGED <<database, reader, failures>>
      /\ log' = Append(log, OrderPlaced(o)) /\ (acked \/ faults < MaxFaults)
      /\ faults' = IF acked THEN faults ELSE faults + 1
  BY DEF PublishOrderPlaced
<1>a. acked => call' = [call EXCEPT ![o] = Returned(c, "OK")]
  BY DEF PublishOrderPlaced, Return, Continue, Returned
<1>b. ~acked => call' = call
  BY DEF PublishOrderPlaced
<1>1. /\ CallOK(c) /\ c \in Calls /\ c.lines \in Seq(Lines)
      /\ orders[o] = c.total /\ order_items[o] = c.rows /\ order_items[o] \in [Products -> Nat]
      /\ orders[o] = Cost(order_items[o])
  BY <1>0, CommittedCall
<1>2. LinesOf(c.lines, c.request, Len(c.lines)) /\ Holds(c.rows, c.lines, Len(c.lines))
      /\ Valid(c.request) /\ Len(c.lines) = Len(Seen(c.request)) /\ c.request \in Requests
  BY <1>0, <1>1 DEF CallOK, IsPriced, IsWritten
<1>3. Cart(c.lines) = order_items[o]
  BY <1>1, <1>2, CartOfLines
<1>4. Service!Total(order_items[o]) = c.total
  <2>1. \A p \in Products : c.rows[p] # 0 => p \in DOMAIN Prices
    BY <1>1, <1>2, WholeCart
  <2>2. Service!Priced(order_items[o])
    BY <1>1, <2>1 DEF Service!Priced, Service!Lines
  <2> QED
    BY <1>1, <2>2, TotalIsCost
<1>5. /\ log \in Seq(Records) /\ faults \in 0..MaxFaults /\ DOMAIN call = Orders
  BY DEF EachOK, TablesOK
<1>6. ServiceLog' = [ServiceLog EXCEPT !["orders.placed"] = Append(@, event)]
  <2>1. /\ Len(log') = Len(log) + 1 /\ log'[Len(log) + 1] = OrderPlaced(o)
        /\ \A i \in 1..Len(log) : log'[i] = log[i]
        /\ DOMAIN log' = 1..Len(log) + 1 /\ DOMAIN log = 1..Len(log) /\ Len(log) \in Nat
    <3>1. OrderPlaced(o) \in Records
      <4>1. c.total \in Nat
        BY <1>0, CommittedCall
      <4> QED
        BY <1>1, <4>1 DEF OrderPlaced, Records
    <3>2. PICK r \in Records : r = OrderPlaced(o)
      BY <3>1
    <3>3. log' = Append(log, r)
      BY <1>0, <3>2
    <3> QED
      BY <1>5, <3>2, <3>3
  <2> DEFINE Old == [i \in 1..Len(log) |-> [order |-> log[i].order_id,
                        total |-> log[i].total_cents, items |-> Cart(log[i].items)]]
             New == [i \in 1..Len(log) + 1 |-> [order |-> log'[i].order_id,
                        total |-> log'[i].total_cents, items |-> Cart(log'[i].items)]]
  <2>2. ServiceLog["orders.placed"] = Old /\ ServiceLog'["orders.placed"] = New
    BY <2>1 DEF ServiceLog, EventsOf
  <2>3. New = Append(Old, event)
    <3>1. [order |-> log'[Len(log) + 1].order_id, total |-> log'[Len(log) + 1].total_cents,
           items |-> Cart(log'[Len(log) + 1].items)] = event
      BY <1>1, <1>3, <1>4, <2>1 DEF OrderPlaced
    <3>2. PICK m \in Nat : m = Len(log)
      BY <2>1
    <3>3. Old = [i \in 1..m |-> Old[i]] /\ Len(Old) = m
      BY <3>2
    <3>4. New[m + 1] = event /\ \A i \in 1..m : New[i] = Old[i]
      BY <2>1, <3>1, <3>2
    <3>5. New = [i \in 1..m + 1 |-> New[i]]
      BY <3>2
    <3> HIDE DEF New, Old, event
    <3>6. Append(Old, event) = [i \in 1..m + 1 |-> IF i = m + 1 THEN event ELSE Old[i]]
      BY <3>3
    <3>7. \A i \in 1..m + 1 : New[i] = IF i = m + 1 THEN event ELSE Old[i]
      BY <3>2, <3>4
    <3> QED
      BY <3>5, <3>6, <3>7
  <2>4. \A t \in StatusTopics \cup {"inventory.reserved"} :
           t # "orders.placed" /\ ServiceLog[t] = <<>> /\ ServiceLog'[t] = <<>>
    BY DEF ServiceLog, EventsOf, StatusTopics
  <2>5. /\ ServiceLog = [t \in StatusTopics \cup {"orders.placed", "inventory.reserved"}
                            |-> ServiceLog[t]]
        /\ ServiceLog' = [t \in StatusTopics \cup {"orders.placed", "inventory.reserved"}
                            |-> ServiceLog'[t]]
    BY DEF ServiceLog
  <2> HIDE DEF Old, New, event
  <2> QED
    BY <2>2, <2>3, <2>4, <2>5
<1>7. Publishing' = IF acked THEN Publishing \ {o} ELSE Publishing
  <2>1. CASE acked
    <3>1. \A p \in Orders : call'[p].at = IF p = o THEN "returned" ELSE call[p].at
      BY <1>a, <1>1, <1>5, <2>1 DEF Calls, Returned
    <3> QED
      BY <2>1, <3>1 DEF Publishing
  <2>2. CASE ~acked
    BY <1>b, <2>2 DEF Publishing
  <2> QED
    BY <2>1, <2>2
<1>8. Service!Charge(Service!Cost(~acked))
  <2>1. CASE acked
    BY <1>0, <1>5, <2>1, OrderRequestAssumption DEF Service!Charge, Service!Cost
  <2>2. CASE ~acked
    BY <1>0, <1>5, <2>2, OrderRequestAssumption DEF Service!Charge, Service!Cost
  <2> QED
    BY <2>1, <2>2
<1>9. o \in Publishing
  BY <1>0 DEF Publishing
<1>10. ServiceStatus' = ServiceStatus /\ order_items' = order_items
  BY <1>0 DEF database, ServiceStatus
<1>11. Service!Publish(Service!TopicOrdersPlaced,
                       Service!OrderPlaced(o, order_items[o], Service!Total(order_items[o])))
  BY <1>6 DEF Service!Publish, Service!TopicOrdersPlaced, Service!OrderPlaced, ServiceLog
<1>12. Service!PublishOrderPlaced(o, acked)
  BY <1>7, <1>8, <1>9, <1>10, <1>11
     DEF Service!PublishOrderPlaced, ServiceStatus, Publishing
<1> QED
  BY <1>12 DEF Service!OrderNext

LEMMA DropImplements ==
    ASSUME EachOK, NEW o \in Orders, NEW code \in {"OK", "Internal", "lost"},
           DropOrderPlaced(o, code)
    PROVE  Service!OrderNext
<1>0. /\ call[o].at = "Publish" /\ UNCHANGED <<database, log, reader, failures>>
      /\ faults < MaxFaults /\ faults' = faults + 1
      /\ call' = [call EXCEPT ![o] = Returned(call[o], code)]
  BY DEF DropOrderPlaced, Return, Continue, Returned
<1>1. call[o] \in Calls
  BY <1>0, CommittedCall
<1>2. faults \in 0..MaxFaults /\ DOMAIN call = Orders
  BY DEF EachOK, TablesOK
<1>3. Publishing' = Publishing \ {o} /\ o \in Publishing
  <2>1. \A p \in Orders : call'[p].at = IF p = o THEN "returned" ELSE call[p].at
    BY <1>0, <1>1, <1>2 DEF Calls, Returned
  <2> QED
    BY <1>0, <2>1 DEF Publishing
<1>4. Service!Charge(1)
  BY <1>0, <1>2, OrderRequestAssumption DEF Service!Charge
<1>5. ServiceStatus' = ServiceStatus /\ order_items' = order_items /\ ServiceLog' = ServiceLog
  BY <1>0 DEF database, ServiceStatus, ServiceLog, EventsOf
<1>6. Service!DropOrderPlaced(o)
  BY <1>3, <1>4, <1>5 DEF Service!DropOrderPlaced, ServiceStatus, Publishing, ServiceLog
<1> QED
  BY <1>6 DEF Service!OrderNext

\* However the statements of several requests interleave, each change of the database
\* and of the topic is one step of OrderService: a whole order, or its event.
THEOREM RequestsAreOrderServiceSteps == Spec => StepsOfOrderService
<1>1. Init => Service!OrderInit /\ Service!LogInit
  <2> SUFFICES ASSUME Init PROVE Service!OrderInit /\ Service!LogInit
    OBVIOUS
  <2>1. /\ \A o \in Orders : orders[o] = NoRow /\ call[o].at # "Publish"
        /\ order_items = [o \in Orders |-> NoRows] /\ log = <<>> /\ faults = 0
    BY DEF Init, Unborn
  <2>2. Publishing = {} /\ ServiceStatus = [o \in Orders |-> "NONE"]
    BY <2>1 DEF Publishing, ServiceStatus
  <2>3. Service!OrderInit
    BY <2>1, <2>2 DEF Service!OrderInit, Service!EmptyCart, NoRows, Publishing, ServiceStatus,
                      Service!NothingHandled, Service!OrderTopics, StatusTopics,
                      Service!TopicPaymentsCompleted, Service!TopicPaymentsFailed,
                      Service!TopicInventoryRejected
  <2>4. Service!LogInit
    <3>1. \A t : EventsOf(t) = <<>>
      BY <2>1 DEF EventsOf
    <3>2. Service!Topics = StatusTopics \cup {"orders.placed", "inventory.reserved"}
      BY DEF Service!Topics, StatusTopics, Service!TopicOrdersPlaced,
             Service!TopicPaymentsCompleted, Service!TopicPaymentsFailed,
             Service!TopicInventoryReserved, Service!TopicInventoryRejected
    <3> QED
      BY <2>1, <3>1, <3>2 DEF Service!LogInit
  <2> QED
    BY <2>3, <2>4
<1>2. RequestInv /\ [Next]_vars => [Service!OrderNext]_<<database, log, faults>>
  <2> SUFFICES ASSUME RequestInv, [Next]_vars,
                      ~UNCHANGED <<database, log, faults>>
               PROVE  Service!OrderNext
    OBVIOUS
  <2>1. EachOK
    BY Each
  <2>2. ASSUME NEW o \in Orders, Commit(o) PROVE Service!OrderNext
    BY <2>1, <2>2, CommitImplements
  <2>3. ASSUME NEW o \in Orders, NEW acked \in BOOLEAN, PublishOrderPlaced(o, acked)
        PROVE  Service!OrderNext
    BY <2>1, <2>3, PublishImplements
  <2>4. ASSUME NEW o \in Orders, NEW code \in {"OK", "Internal", "lost"}, DropOrderPlaced(o, code)
        PROVE  Service!OrderNext
    BY <2>1, <2>4, DropImplements
  <2>5. ASSUME NEW o \in Orders PROVE ~PriceLine(o) /\ ~CreateOrder(o) /\ ~AddOrderItem(o)
    BY DEF PriceLine, CreateOrder, AddOrderItem
  <2>6. ASSUME NEW o \in Orders PROVE /\ \A request \in Requests : ~Receive(o, request)
                                      /\ \A code \in {"Internal", "lost"} : ~Fails(o, code)
    BY DEF Receive, Fails
  <2>7. ASSUME NEW q \in Readers PROVE /\ \A o \in Orders \cup {NoUUID} : ~GetOrder(q, o)
                                       /\ ~ListOrderItems(q) /\ ~ReadFails(q)
    BY DEF GetOrder, ListOrderItems, ReadFails
  <2>8. ~UNCHANGED vars
    BY DEF vars
  <2> QED
    BY <2>2, <2>3, <2>4, <2>5, <2>6, <2>7, <2>8 DEF Next
<1> QED
  BY <1>1, <1>2, RequestInvariance, PTL DEF Spec, StepsOfOrderService
=============================================================================
