------------------------- MODULE InventoryTxProofs -------------------------
(***************************************************************************)
(* The transactions of the inventory service are atomic, although their    *)
(* statements interleave in READ COMMITTED isolation, and what CheckStock  *)
(* reads between them was so while it read.                                *)
(***************************************************************************)
EXTENDS StockCheck, FiniteSetTheorems, SequenceTheorems, TLAPS

-----------------------------------------------------------------------------
(* Sequences *)

\* What is left of a sequence of lines, and what was its first.
LEMMA TailFacts ==
    ASSUME NEW S, NEW s \in Seq(S), s # <<>>
    PROVE  /\ Len(s) \in Nat \ {0} /\ Head(s) \in S /\ Head(s) \in Range(s)
           /\ Tail(s) \in Seq(S)
           /\ Range(s) = {Head(s)} \cup Range(Tail(s))
           /\ Len(s) = 1 <=> Tail(s) = <<>>
<1>1. /\ Len(s) \in Nat \ {0} /\ DOMAIN s = 1..Len(s) /\ Head(s) = s[1] /\ s[1] \in S
      /\ Tail(s) \in Seq(S) /\ Len(Tail(s)) = Len(s) - 1
      /\ DOMAIN Tail(s) = 1..(Len(s) - 1)
      /\ \A i \in 1..(Len(s) - 1) : Tail(s)[i] = s[i + 1]
  OBVIOUS
<1>2. Len(s) = 1 <=> Tail(s) = <<>>
  <2>1. Tail(s) # <<>> => Len(Tail(s)) \in Nat \ {0}
    BY <1>1, EmptySeq
  <2>2. Tail(s) = <<>> => Len(Tail(s)) = 0
    BY EmptySeq
  <2> QED
    BY <1>1, <2>1, <2>2
<1>3. \A x \in Range(s) : x \in {Head(s)} \cup Range(Tail(s))
  <2> SUFFICES ASSUME NEW i \in 1..Len(s), i # 1 PROVE s[i] \in Range(Tail(s))
    BY <1>1 DEF Range
  <2>1. i - 1 \in 1..(Len(s) - 1) /\ s[i] = Tail(s)[i - 1]
    BY <1>1
  <2> QED
    BY <1>1, <2>1 DEF Range
<1>4. \A x \in Range(Tail(s)) : x \in Range(s)
  <2> SUFFICES ASSUME NEW i \in 1..(Len(s) - 1) PROVE Tail(s)[i] \in Range(s)
    BY <1>1 DEF Range
  <2>1. i + 1 \in 1..Len(s) /\ Tail(s)[i] = s[i + 1]
    BY <1>1
  <2> QED
    BY <1>1, <2>1 DEF Range
<1>5. Head(s) \in Range(s)
  BY <1>1 DEF Range
<1> QED
  BY <1>1, <1>2, <1>3, <1>4, <1>5

\* What is in a sequence.
LEMMA ElementOf ==
    ASSUME NEW S, NEW s \in Seq(S), NEW i \in 1..Len(s)
    PROVE  s[i] \in S
  OBVIOUS

\* The least of some numbers is one of them.
LEMMA LeastOf ==
    ASSUME NEW T, T \subseteq Nat, T # {}
    PROVE  Min(T) \in T
<1>1. PICK n \in T : \A m \in T : ~(<<m, n>> \in OpToRel(<, Nat))
  BY WFMin, NatLessThanWellFounded
<1>2. \A m \in T : ~(m < n)
  BY <1>1 DEF OpToRel
<1>3. \A m \in T : n <= m
  BY <1>2
<1> QED
  BY <1>3 DEF Min

\* A queue that somebody leaves is still a queue.
LEMMA Leaving ==
    ASSUME NEW S, NEW s \in Seq(S), NEW e
    PROVE  RemoveFirst(s, e) \in Seq(S)
<1> DEFINE I == { i \in 1..Len(s) : s[i] = e }
<1>1. CASE \E i \in 1..Len(s) : s[i] = e
  <2>1. I \subseteq Nat /\ I # {} /\ I \subseteq 1..Len(s)
    BY <1>1
  <2>2. Min(I) \in 1..Len(s) /\ I # {}
    <3> HIDE DEF I
    <3> QED
      BY <2>1, LeastOf
  <2>3. SelectInSeq(s, LAMBDA v : v = e) = Min(I)
    BY <2>2 DEF SelectInSeq
  <2> HIDE DEF I
  <2>4. RemoveAt(s, Min(I)) \in Seq(S)
    BY <2>2 DEF RemoveAt
  <2> QED
    BY <1>1, <2>3, <2>4 DEF RemoveFirst
<1>2. CASE ~\E i \in 1..Len(s) : s[i] = e
  BY <1>2 DEF RemoveFirst
<1> QED
  BY <1>1, <1>2

\* A listing of a finite set is a sequence with just its members.
LEMMA Listed ==
    ASSUME NEW S, IsFiniteSet(S), NEW s \in SetToSeqs(S)
    PROVE  s \in Seq(S) /\ Range(s) = S
<1> DEFINE n == Cardinality(S)
<1>1. n \in Nat
  BY FS_CardinalityType
<1>2. /\ s \in [1..n -> S]
      /\ \A i, j \in 1..n : i # j => s[i] # s[j]
  BY DEF SetToSeqs
<1> HIDE DEF n
<1>3. IsFiniteSet(1..n) /\ Cardinality(1..n) = n
  BY <1>1, FS_Interval
<1>4. s \in Injection(1..n, S)
  BY <1>2 DEF Injection, IsInjective
<1>5. s \in Surjection(1..n, S)
  BY <1>3, <1>4, FS_Injection DEF n
<1>6. Range(s) = S
  BY <1>2, <1>5 DEF Surjection, Range
<1> QED
  BY <1>1, <1>2, <1>6

-----------------------------------------------------------------------------
(* Locks *)

\* A transaction that is there, field by field.
LEMMA TxFacts ==
    ASSUME TypeOK, NEW pod \in Pods, tx[pod] # NoTx
    PROVE  /\ tx[pod] \in Transactions
           /\ tx[pod].at \in Statements /\ tx[pod].order \in Orders
           /\ tx[pod].todo \in Seq(Products) /\ tx[pod].moved \in [Products -> Nat]
           /\ tx[pod].result \in {"NONE", "RESERVED", "REJECTED", "RELEASED"}
           /\ tx[pod].holds \subseteq StockRows \cup Orders
           /\ tx[pod].at \in {"GetStockForUpdate", "ReserveStock", "ReleaseStock"}
                 <=> tx[pod].todo # <<>>
           /\ \A p \in Range(tx[pod].todo) : Demand[tx[pod].order][p] > 0
           /\ tx[pod].at \in {"ReleaseStock", "Commit"} <=> tx[pod].order \in tx[pod].holds
<1>1. tx[pod] \in Transactions
  BY DEF TypeOK
<1> QED
  BY <1>1 DEF Transactions

\* A pod with a statement to run has a transaction.
LEMMA Active ==
    ASSUME NEW pod, tx[pod].at \in Statements
    PROVE  tx[pod] # NoTx
  BY DEF NoTx, Statements

\* What a statement locks nobody else has locked.
LEMMA FreeToLock ==
    ASSUME NEW pod \in Pods, Granted(pod), NEW other \in Pods \ {pod}
    PROVE  (Needs(tx[pod]) \ tx[pod].holds) \cap tx[other].holds = {}
  BY DEF Granted, WaitsFor, HeldBy, Wants

\* A transaction that holds more.
LEMMA MoreHeld ==
    ASSUME NEW at, NEW order, NEW todo, NEW moved, NEW result, NEW held, NEW more
    PROVE  [[at |-> at, order |-> order, todo |-> todo, moved |-> moved,
             result |-> result, holds |-> held] EXCEPT !.holds = @ \cup more]
           = [at |-> at, order |-> order, todo |-> todo, moved |-> moved,
              result |-> result, holds |-> held \cup more]
  OBVIOUS

\* A pod goes on with its transaction.
LEMMA Continuing ==
    ASSUME TypeOK, Exclusive, NEW pod \in Pods, Granted(pod),
           NEW at, NEW order, NEW todo, NEW moved, NEW result,
           Continue(pod, [at |-> at, order |-> order, todo |-> todo, moved |-> moved,
                          result |-> result, holds |-> tx[pod].holds])
    PROVE  /\ DOMAIN tx' = Pods
           /\ tx'[pod] = [at |-> at, order |-> order, todo |-> todo, moved |-> moved,
                          result |-> result, holds |-> tx[pod].holds \cup Needs(tx[pod])]
           /\ \A other \in Pods \ {pod} : tx'[other] = tx[other]
           /\ waiting' \in Seq(Pods)
           /\ Exclusive'
<1> DEFINE new == [at |-> at, order |-> order, todo |-> todo, moved |-> moved,
                   result |-> result, holds |-> tx[pod].holds \cup Needs(tx[pod])]
<1>1. DOMAIN tx = Pods /\ waiting \in Seq(Pods)
  BY DEF TypeOK
<1>2. tx' = [tx EXCEPT ![pod] = new] /\ waiting' = RemoveFirst(waiting, pod)
  <2> PICK held, more : held = tx[pod].holds /\ more = Needs(tx[pod])
    OBVIOUS
  <2>1. /\ tx' = [tx EXCEPT ![pod] =
                    [[at |-> at, order |-> order, todo |-> todo, moved |-> moved,
                      result |-> result, holds |-> held] EXCEPT !.holds = @ \cup more]]
        /\ waiting' = RemoveFirst(waiting, pod)
    BY Zenon DEF Continue
  <2>2. [[at |-> at, order |-> order, todo |-> todo, moved |-> moved,
          result |-> result, holds |-> held] EXCEPT !.holds = @ \cup more]
        = [at |-> at, order |-> order, todo |-> todo, moved |-> moved,
           result |-> result, holds |-> held \cup more]
    BY MoreHeld
  <2> QED
    BY <2>1, <2>2
<1>3. new.holds = tx[pod].holds \cup Needs(tx[pod])
  OBVIOUS
<1> HIDE DEF new
<1>4. /\ DOMAIN tx' = Pods /\ tx'[pod] = new
      /\ \A other \in Pods \ {pod} : tx'[other] = tx[other]
  BY <1>1, <1>2
<1>5. Exclusive'
  <2>1. \A other \in Pods \ {pod} :
           (tx[pod].holds \cup Needs(tx[pod])) \cap tx[other].holds = {}
    BY FreeToLock DEF Exclusive
  <2> QED
    BY <1>3, <1>4, <2>1 DEF Exclusive
<1>6. waiting' \in Seq(Pods)
  BY <1>1, <1>2, Leaving
<1> QED
  BY <1>4, <1>5, <1>6 DEF new

\* A pod's transaction is gone.
LEMMA RollingBack ==
    ASSUME TypeOK, Exclusive, NEW pod \in Pods, Rollback(pod)
    PROVE  /\ DOMAIN tx' = Pods
           /\ tx'[pod] = NoTx
           /\ \A other \in Pods \ {pod} : tx'[other] = tx[other]
           /\ waiting' \in Seq(Pods)
           /\ Exclusive'
<1>1. DOMAIN tx = Pods /\ waiting \in Seq(Pods)
  BY DEF TypeOK
<1>2. tx' = [tx EXCEPT ![pod] = NoTx] /\ waiting' = RemoveFirst(waiting, pod)
  BY DEF Rollback
<1>3. /\ DOMAIN tx' = Pods /\ tx'[pod] = NoTx
      /\ \A other \in Pods \ {pod} : tx'[other] = tx[other]
  BY <1>1, <1>2
<1>4. Exclusive'
  <2>1. tx'[pod].holds = {}
    BY <1>3 DEF NoTx
  <2> QED
    BY <1>3, <2>1 DEF Exclusive
<1> QED
  BY <1>1, <1>2, <1>3, <1>4, Leaving

-----------------------------------------------------------------------------
(* Statements *)

\* A statement changes one transaction and no row: it has to leave a transaction
\* that is sound.
Sound(pod) == tx[pod] = NoTx \/ (tx[pod] \in Transactions /\ Grounded(tx[pod]))

LEMMA StatementTxInv ==
    ASSUME TxInv, NEW pod \in Pods, UNCHANGED database, failures' \in 0..MaxFailures,
           DOMAIN tx' = Pods, \A other \in Pods \ {pod} : tx'[other] = tx[other],
           waiting' \in Seq(Pods), Exclusive', Sound(pod)'
    PROVE  TxInv'
<1>1. /\ TypeOK /\ Counted
      /\ \A other \in Pods : tx[other] # NoTx => Grounded(tx[other])
  BY DEF TxInv
<1>2. UNCHANGED <<available, reserved, processed, reservations>>
  BY DEF database
<1>3. TypeOK'
  BY <1>1, <1>2 DEF TypeOK, Sound
<1>4. \A other \in Pods \ {pod} : (tx[other] # NoTx => Grounded(tx[other]))'
  BY <1>1, <1>2 DEF Grounded, Covered, Short, Returned
<1>5. \A other \in Pods : (tx[other] # NoTx => Grounded(tx[other]))'
  BY <1>4 DEF Sound
<1>6. Counted'
  BY <1>1, <1>2 DEF Counted
<1> QED
  BY <1>3, <1>5, <1>6 DEF TxInv

\* A transaction that is given up.
LEMMA GivenUp ==
    ASSUME TxInv, NEW pod \in Pods, Rollback(pod), UNCHANGED database,
           failures' \in 0..MaxFailures
    PROVE  TxInv'
<1>1. TypeOK /\ Exclusive
  BY DEF TxInv
<1> QED
  BY <1>1, RollingBack, StatementTxInv DEF Sound

\* A transaction that begins.
LEMMA Beginning ==
    ASSUME TxInv, NEW pod \in Pods, NEW o \in Orders,
           NEW statement \in {"GetStockForUpdate", "MarkOrderReleased"},
           NEW todo \in Seq(Products),
           statement = "GetStockForUpdate" => todo = Listing[o],
           statement = "MarkOrderReleased" => todo = <<>>,
           tx' = [tx EXCEPT ![pod] = Begun(statement, o, todo)],
           UNCHANGED <<database, waiting>>, failures' \in 0..MaxFailures
    PROVE  TxInv'
<1>1. TypeOK /\ Exclusive /\ DOMAIN tx = Pods /\ waiting \in Seq(Pods)
  BY DEF TxInv, TypeOK
<1> DEFINE new == Begun(statement, o, todo)
<1>2. new = [at |-> statement, order |-> o, todo |-> todo, moved |-> NoLines,
             result |-> "NONE", holds |-> {}]
  BY DEF Begun
<1>3. /\ new.at = statement /\ new.order = o /\ new.todo = todo /\ new.moved = NoLines
      /\ new.result = "NONE" /\ new.holds = {}
  BY <1>2
<1> HIDE DEF new
<1>4. /\ DOMAIN tx' = Pods /\ tx'[pod] = new
      /\ \A other \in Pods \ {pod} : tx'[other] = tx[other]
  BY <1>1 DEF new
<1>5. Exclusive'
  BY <1>1, <1>3, <1>4 DEF Exclusive
<1>6. /\ Listing[o] # <<>>
      /\ Range(Listing[o]) = { p \in Products : Demand[o][p] > 0 }
      /\ NoLines \in [Products -> Nat] /\ Range(<<>>) = {}
  BY InventoryTxAssumption DEF NoLines, Range
<1>7. new \in Transactions
  BY <1>2, <1>3, <1>6 DEF Transactions, Statements
<1>8. Grounded(tx[pod])'
  BY <1>3, <1>4, <1>6 DEF Grounded, Results
<1> QED
  BY <1>1, <1>4, <1>5, <1>7, <1>8, StatementTxInv DEF Sound

\* What the statements make of a transaction.
Decided(t, at, todo, result) ==
    [t EXCEPT !.at = at, !.todo = todo, !.result = result]
Turned(t, at, todo) ==
    [t EXCEPT !.at = at, !.todo = todo]
LastMoved(t, todo, p, n, at, result) ==
    [t EXCEPT !.todo = todo, !.moved[p] = n, !.at = at, !.result = result]
Moved(t, todo, p, n, at) ==
    [t EXCEPT !.todo = todo, !.moved[p] = n, !.at = at]

\* A transaction is the record of its fields.
LEMMA AsRecord ==
    ASSUME NEW t \in Transactions
    PROVE  t = [at |-> t.at, order |-> t.order, todo |-> t.todo, moved |-> t.moved,
                result |-> t.result, holds |-> t.holds]
  BY DEF Transactions

LEMMA NextAt ==
    ASSUME NEW t \in Transactions, NEW at
    PROVE  [t EXCEPT !.at = at] = [at |-> at, order |-> t.order, todo |-> t.todo,
                                   moved |-> t.moved, result |-> t.result,
                                   holds |-> t.holds]
  BY AsRecord

LEMMA NextTodo ==
    ASSUME NEW t \in Transactions, NEW todo
    PROVE  [t EXCEPT !.todo = todo] = [at |-> t.at, order |-> t.order, todo |-> todo,
                                       moved |-> t.moved, result |-> t.result,
                                       holds |-> t.holds]
  BY AsRecord

LEMMA DecidedIs ==
    ASSUME NEW t \in Transactions, NEW at, NEW todo, NEW result
    PROVE  Decided(t, at, todo, result) =
              [at |-> at, order |-> t.order, todo |-> todo,
               moved |-> t.moved,
               result |-> result, holds |-> t.holds]
<1> DEFINE u == Decided(t, at, todo, result)
<1>1. /\ u = [f \in DOMAIN u |-> u[f]]
      /\ DOMAIN u = {"at", "order", "todo", "moved", "result", "holds"}
  BY AsRecord DEF Decided
<1>2. /\ u.at = at /\ u.order = t.order /\ u.todo = todo
      /\ u.moved = t.moved /\ u.result = result /\ u.holds = t.holds
  BY AsRecord DEF Decided
<1> HIDE DEF u
<1>3. u = [at |-> at, order |-> t.order, todo |-> todo,
           moved |-> t.moved,
           result |-> result, holds |-> t.holds]
  BY <1>1, <1>2
<1> QED
  BY <1>3 DEF u

LEMMA TurnedIs ==
    ASSUME NEW t \in Transactions, NEW at, NEW todo
    PROVE  Turned(t, at, todo) =
              [at |-> at, order |-> t.order, todo |-> todo,
               moved |-> t.moved,
               result |-> t.result, holds |-> t.holds]
<1> DEFINE u == Turned(t, at, todo)
<1>1. /\ u = [f \in DOMAIN u |-> u[f]]
      /\ DOMAIN u = {"at", "order", "todo", "moved", "result", "holds"}
  BY AsRecord DEF Turned
<1>2. /\ u.at = at /\ u.order = t.order /\ u.todo = todo
      /\ u.moved = t.moved /\ u.result = t.result /\ u.holds = t.holds
  BY AsRecord DEF Turned
<1> HIDE DEF u
<1>3. u = [at |-> at, order |-> t.order, todo |-> todo,
           moved |-> t.moved,
           result |-> t.result, holds |-> t.holds]
  BY <1>1, <1>2
<1> QED
  BY <1>3 DEF u

LEMMA LastMovedIs ==
    ASSUME NEW t \in Transactions, NEW todo, NEW p, NEW n, NEW at, NEW result
    PROVE  LastMoved(t, todo, p, n, at, result) =
              [at |-> at, order |-> t.order, todo |-> todo,
               moved |-> [t.moved EXCEPT ![p] = n],
               result |-> result, holds |-> t.holds]
<1> DEFINE u == LastMoved(t, todo, p, n, at, result)
<1>1. /\ u = [f \in DOMAIN u |-> u[f]]
      /\ DOMAIN u = {"at", "order", "todo", "moved", "result", "holds"}
  BY AsRecord DEF LastMoved
<1>2. /\ u.at = at /\ u.order = t.order /\ u.todo = todo
      /\ u.moved = [t.moved EXCEPT ![p] = n] /\ u.result = result /\ u.holds = t.holds
  BY AsRecord DEF LastMoved
<1> HIDE DEF u
<1>3. u = [at |-> at, order |-> t.order, todo |-> todo,
           moved |-> [t.moved EXCEPT ![p] = n],
           result |-> result, holds |-> t.holds]
  BY <1>1, <1>2
<1> QED
  BY <1>3 DEF u

LEMMA MovedIs ==
    ASSUME NEW t \in Transactions, NEW todo, NEW p, NEW n, NEW at
    PROVE  Moved(t, todo, p, n, at) =
              [at |-> at, order |-> t.order, todo |-> todo,
               moved |-> [t.moved EXCEPT ![p] = n],
               result |-> t.result, holds |-> t.holds]
<1> DEFINE u == Moved(t, todo, p, n, at)
<1>1. /\ u = [f \in DOMAIN u |-> u[f]]
      /\ DOMAIN u = {"at", "order", "todo", "moved", "result", "holds"}
  BY AsRecord DEF Moved
<1>2. /\ u.at = at /\ u.order = t.order /\ u.todo = todo
      /\ u.moved = [t.moved EXCEPT ![p] = n] /\ u.result = t.result /\ u.holds = t.holds
  BY AsRecord DEF Moved
<1> HIDE DEF u
<1>3. u = [at |-> at, order |-> t.order, todo |-> todo,
           moved |-> [t.moved EXCEPT ![p] = n],
           result |-> t.result, holds |-> t.holds]
  BY <1>1, <1>2
<1> QED
  BY <1>3 DEF u

\* A statement that had its locks and leaves a sound transaction.
LEMMA GoesOn ==
    ASSUME TxInv, NEW pod \in Pods, Granted(pod), UNCHANGED <<database, failures>>,
           NEW at, NEW order, NEW todo, NEW moved, NEW result, NEW new,
           new = [at |-> at, order |-> order, todo |-> todo, moved |-> moved,
                  result |-> result, holds |-> tx[pod].holds \cup Needs(tx[pod])],
           Continue(pod, [at |-> at, order |-> order, todo |-> todo, moved |-> moved,
                          result |-> result, holds |-> tx[pod].holds]),
           new \in Transactions, Grounded(new)
    PROVE  TxInv'
<1>1. TypeOK /\ Exclusive /\ failures \in 0..MaxFailures
  BY DEF TxInv, TypeOK
<1>2. /\ DOMAIN tx' = Pods /\ tx'[pod] = new
      /\ \A other \in Pods \ {pod} : tx'[other] = tx[other]
      /\ waiting' \in Seq(Pods) /\ Exclusive'
  BY <1>1, Continuing
<1>3. Grounded(new)'
  BY DEF Grounded, Covered, Short, Returned, database
<1>4. Sound(pod)'
  BY <1>2, <1>3 DEF Sound
<1> QED
  BY <1>1, <1>2, <1>4, StatementTxInv

\* What the invariant says of a transaction at a statement, and of its order.
LEMMA AtStatement ==
    ASSUME TxInv, NEW pod \in Pods, tx[pod].at \in Statements
    PROVE  /\ tx[pod] \in Transactions /\ tx[pod] # NoTx /\ Grounded(tx[pod])
           /\ available \in [StockRows -> Nat] /\ reserved \in [StockRows -> Nat]
           /\ Demand[tx[pod].order] \in [Products -> Nat]
           /\ Listing[tx[pod].order] \in Seq(Products) /\ Listing[tx[pod].order] # <<>>
           /\ \A p \in Products :
                 p \in Range(Listing[tx[pod].order]) <=> Demand[tx[pod].order][p] > 0
<1>1. TypeOK
  BY DEF TxInv
<1>2. tx[pod] # NoTx
  BY Active
<1>3. tx[pod] \in Transactions /\ tx[pod].order \in Orders
  BY <1>1, <1>2, TxFacts
<1>4. Grounded(tx[pod])
  BY <1>2 DEF TxInv
<1> QED
  BY <1>1, <1>2, <1>3, <1>4, InventoryTxAssumption DEF TypeOK

LEMMA InsertProcessedOrderStep ==
    ASSUME TxInv, NEW pod \in Pods, InsertProcessedOrder(pod)
    PROVE  TxInv'
<1>1. /\ tx[pod].at = "InsertProcessedOrder" /\ Granted(pod)
      /\ UNCHANGED <<database, failures>> /\ failures' \in 0..MaxFailures
      /\ \/ Rollback(pod)
         \/ /\ processed[tx[pod].order] = "NONE"
            /\ Continue(pod, [tx[pod] EXCEPT !.at = "Commit"])
  BY DEF InsertProcessedOrder, TxInv, TypeOK
<1>2. CASE Rollback(pod)
  BY <1>1, <1>2, GivenUp
<1>3. CASE /\ processed[tx[pod].order] = "NONE"
           /\ Continue(pod, [tx[pod] EXCEPT !.at = "Commit"])
  <2>1. tx[pod] \in Transactions /\ Grounded(tx[pod])
    BY <1>1, AtStatement DEF Statements
  <2> PICK t \in Transactions : t = tx[pod]
    BY <2>1
  <2>2. /\ t.at = "InsertProcessedOrder" /\ Grounded(t) /\ processed[t.order] = "NONE"
        /\ Needs(tx[pod]) = {t.order}
    BY <1>1, <1>3, <2>1 DEF Needs
  <2>3. /\ t.order \in Orders /\ t.todo = <<>> /\ t.moved \in [Products -> Nat]
        /\ t.result \in {"RESERVED", "REJECTED"} /\ t.holds \subseteq StockRows \cup Orders
    BY <2>2 DEF Transactions, Grounded, Results
  <2>4. Continue(pod, [at |-> "Commit", order |-> t.order, todo |-> t.todo,
                       moved |-> t.moved, result |-> t.result, holds |-> tx[pod].holds])
    BY <1>3, NextAt, Zenon
  <2> PICK new : new = [at |-> "Commit", order |-> t.order, todo |-> t.todo,
                        moved |-> t.moved, result |-> t.result,
                        holds |-> tx[pod].holds \cup Needs(tx[pod])]
    OBVIOUS
  <2>5. /\ new.at = "Commit" /\ new.order = t.order /\ new.todo = <<>>
        /\ new.moved = t.moved /\ new.result = t.result
        /\ new.holds = t.holds \cup {t.order}
    BY <2>2, <2>3
  <2>6. new \in Transactions
    <3>1. new \in [at : Statements, order : Orders, todo : Seq(Products),
                   moved : [Products -> Nat],
                   result : {"NONE", "RESERVED", "REJECTED", "RELEASED"},
                   holds : SUBSET (StockRows \cup Orders)]
      BY <2>2, <2>3 DEF Statements
    <3>2. Range(<<>>) = {}
      BY DEF Range
    <3> QED
      BY <2>5, <3>1, <3>2 DEF Transactions
  <2>7. Grounded(new)
    BY <2>2, <2>3, <2>5 DEF Grounded, Covered, Short, Results
  <2> QED
    BY <1>1, <2>4, <2>6, <2>7, GoesOn
<1> QED
  BY <1>1, <1>2, <1>3

\* A plain line is looked at: the order is rejected, or there is a next one, or the
\* lines are gone through again to reserve them.
LEMMA GetStockForUpdateStep ==
    ASSUME TxInv, NEW pod \in Pods, GetStockForUpdate(pod)
    PROVE  TxInv'
<1>1. /\ tx[pod].at = "GetStockForUpdate" /\ Granted(pod)
      /\ UNCHANGED <<database, failures>> /\ failures' \in 0..MaxFailures
  BY DEF GetStockForUpdate, TxInv, TypeOK
<1>2. /\ tx[pod] \in Transactions /\ Grounded(tx[pod])
      /\ available \in [StockRows -> Nat]
      /\ Demand[tx[pod].order] \in [Products -> Nat]
      /\ Listing[tx[pod].order] \in Seq(Products) /\ Listing[tx[pod].order] # <<>>
      /\ \A p \in Products :
            p \in Range(Listing[tx[pod].order]) <=> Demand[tx[pod].order][p] > 0
  BY <1>1, AtStatement DEF Statements
<1> PICK t \in Transactions : t = tx[pod]
  BY <1>2
<1>3. /\ t.at = "GetStockForUpdate" /\ t.todo # <<>> /\ t.order \in Orders
      /\ t.todo \in Seq(Products) /\ t.holds \subseteq StockRows \cup Orders
      /\ t.order \notin t.holds
      /\ \A p \in Range(t.todo) : Demand[t.order][p] > 0
  BY <1>1 DEF Transactions
<1>4. /\ t.moved = NoLines /\ t.result = "NONE"
      /\ \A p \in Range(Listing[t.order]) \ Range(t.todo) : Covered(t, p)
  BY <1>2, <1>3 DEF Grounded, Results
<1> PICK p : p = Head(t.todo)
  OBVIOUS
<1>5. /\ p \in Products /\ p \in Range(t.todo) /\ Demand[t.order][p] > 0
      /\ Tail(t.todo) \in Seq(Products) /\ Len(t.todo) \in Nat \ {0}
      /\ Range(t.todo) = {p} \cup Range(Tail(t.todo))
      /\ Len(t.todo) = 1 <=> Tail(t.todo) = <<>>
  BY <1>3, TailFacts
<1>6. Needs(tx[pod]) = {p} \cap StockRows
  BY <1>3 DEF Needs, RowLock
<1>7. NoLines \in [Products -> Nat] /\ Range(<<>>) = {} /\ p \notin Orders
  BY <1>5, InventoryTxAssumption DEF NoLines, Range
<1>8. t.order \notin t.holds \cup ({p} \cap StockRows)
  BY <1>3, <1>7
<1>9. CASE /\ ~Enough(t.order, p)
           /\ Continue(pod, [t EXCEPT !.at = "InsertProcessedOrder",
                                      !.todo = <<>>, !.result = "REJECTED"])
  <2>1. Continue(pod, [at |-> "InsertProcessedOrder", order |-> t.order, todo |-> <<>>,
                       moved |-> t.moved, result |-> "REJECTED", holds |-> tx[pod].holds])
    <3>1. Continue(pod, Decided(t, "InsertProcessedOrder", <<>>, "REJECTED"))
      BY <1>9 DEF Decided
    <3>2. Decided(t, "InsertProcessedOrder", <<>>, "REJECTED")
          = [at |-> "InsertProcessedOrder", order |-> t.order, todo |-> <<>>,
             moved |-> t.moved, result |-> "REJECTED", holds |-> t.holds]
      BY DecidedIs
    <3> QED
      BY <3>1, <3>2, Zenon
  <2> PICK new : new = [at |-> "InsertProcessedOrder", order |-> t.order, todo |-> <<>>,
                        moved |-> t.moved, result |-> "REJECTED",
                        holds |-> tx[pod].holds \cup Needs(tx[pod])]
    OBVIOUS
  <2>2. /\ new.at = "InsertProcessedOrder" /\ new.order = t.order /\ new.todo = <<>>
        /\ new.moved = NoLines /\ new.result = "REJECTED"
        /\ new.holds = t.holds \cup ({p} \cap StockRows)
    BY <1>4, <1>6
  <2>3. new \in [at : Statements, order : Orders, todo : Seq(Products),
                 moved : [Products -> Nat],
                 result : {"NONE", "RESERVED", "REJECTED", "RELEASED"},
                 holds : SUBSET (StockRows \cup Orders)]
    BY <1>3, <1>4, <1>6, <1>7 DEF Statements
  <2>4. new \in Transactions
    BY <1>7, <1>8, <2>2, <2>3 DEF Transactions
  <2>5. Short(new, p)
    BY <1>2, <1>5, <1>9, <2>2 DEF Short, Enough
  <2>6. Grounded(new)
    BY <1>2, <1>5, <2>2, <2>5 DEF Grounded, Results
  <2> QED
    BY <1>1, <2>1, <2>4, <2>6, GoesOn
<1>10. CASE /\ Enough(t.order, p)
            /\ Len(t.todo) > 1
            /\ Continue(pod, [t EXCEPT !.todo = Tail(t.todo)])
  <2>1. Continue(pod, [at |-> t.at, order |-> t.order, todo |-> Tail(t.todo),
                       moved |-> t.moved, result |-> t.result, holds |-> tx[pod].holds])
    BY <1>10, NextTodo, Zenon
  <2>n. PICK new : new = [at |-> t.at, order |-> t.order, todo |-> Tail(t.todo),
                        moved |-> t.moved, result |-> t.result,
                        holds |-> tx[pod].holds \cup Needs(tx[pod])]
    OBVIOUS
  <2>2. /\ new.at = "GetStockForUpdate" /\ new.order = t.order
        /\ new.todo = Tail(t.todo) /\ new.todo # <<>>
        /\ new.moved = NoLines /\ new.result = "NONE"
        /\ new.holds = t.holds \cup ({p} \cap StockRows)
    BY <1>3, <1>4, <1>5, <1>6, <1>10, <2>n
  <2>3. new \in [at : Statements, order : Orders, todo : Seq(Products),
                 moved : [Products -> Nat],
                 result : {"NONE", "RESERVED", "REJECTED", "RELEASED"},
                 holds : SUBSET (StockRows \cup Orders)]
    BY <1>3, <1>4, <1>5, <1>6, <1>7, <2>n DEF Statements
  <2>4. new \in Transactions
    BY <1>3, <1>5, <1>8, <2>2, <2>3 DEF Transactions
  <2>5. \A q \in Range(Listing[t.order]) \ Range(Tail(t.todo)) : Covered(new, q)
    BY <1>4, <1>5, <1>10, <2>2 DEF Covered, Enough
  <2>6. Grounded(new)
    BY <2>2, <2>5 DEF Grounded, Results
  <2>7. PICK at, order, todo, moved, result :
           at = t.at /\ order = t.order /\ todo = Tail(t.todo) /\ moved = t.moved /\ result = t.result
    OBVIOUS
  <2>8. /\ Continue(pod, [at |-> at, order |-> order, todo |-> todo, moved |-> moved,
                          result |-> result, holds |-> tx[pod].holds])
        /\ new = [at |-> at, order |-> order, todo |-> todo, moved |-> moved,
                  result |-> result, holds |-> tx[pod].holds \cup Needs(tx[pod])]
    BY <2>1, <2>7, <2>n, Zenon
  <2> QED
    BY <1>1, <2>4, <2>6, <2>8, GoesOn
<1>11. CASE /\ Enough(t.order, p)
            /\ Len(t.todo) = 1
            /\ Continue(pod, [t EXCEPT !.at = "ReserveStock", !.todo = Listing[t.order]])
  <2>1. Continue(pod, [at |-> "ReserveStock", order |-> t.order, todo |-> Listing[t.order],
                       moved |-> t.moved, result |-> t.result, holds |-> tx[pod].holds])
    <3>1. Continue(pod, Turned(t, "ReserveStock", Listing[t.order]))
      BY <1>11 DEF Turned
    <3>2. Turned(t, "ReserveStock", Listing[t.order])
          = [at |-> "ReserveStock", order |-> t.order, todo |-> Listing[t.order],
             moved |-> t.moved, result |-> t.result, holds |-> t.holds]
      BY TurnedIs
    <3> QED
      BY <3>1, <3>2, Zenon
  <2> PICK new : new = [at |-> "ReserveStock", order |-> t.order, todo |-> Listing[t.order],
                        moved |-> t.moved, result |-> t.result,
                        holds |-> tx[pod].holds \cup Needs(tx[pod])]
    OBVIOUS
  <2>2. /\ new.at = "ReserveStock" /\ new.order = t.order
        /\ new.todo = Listing[t.order] /\ new.todo # <<>>
        /\ new.moved = NoLines /\ new.result = "NONE"
        /\ new.holds = t.holds \cup ({p} \cap StockRows)
    BY <1>2, <1>4, <1>6
  <2>3. new \in [at : Statements, order : Orders, todo : Seq(Products),
                 moved : [Products -> Nat],
                 result : {"NONE", "RESERVED", "REJECTED", "RELEASED"},
                 holds : SUBSET (StockRows \cup Orders)]
    BY <1>2, <1>3, <1>4, <1>6, <1>7 DEF Statements
  <2>4. \A q \in Range(Listing[t.order]) : q \in Products /\ Demand[t.order][q] > 0
    BY <1>2 DEF Range
  <2>5. new \in Transactions
    BY <1>8, <2>2, <2>3, <2>4 DEF Transactions
  <2>6. \A q \in Range(Listing[t.order]) : Covered(new, q)
    BY <1>4, <1>5, <1>7, <1>11, <2>2 DEF Covered, Enough
  <2>7. \A q \in Products \ Range(Listing[t.order]) : new.moved[q] = Demand[t.order][q]
    BY <1>2, <2>2 DEF NoLines
  <2>8. Grounded(new)
    BY <2>2, <2>6, <2>7 DEF Grounded, Results
  <2> QED
    BY <1>1, <2>1, <2>5, <2>8, GoesOn
<1> QED
  BY <1>1, <1>9, <1>10, <1>11, Zenon DEF GetStockForUpdate

\* A line is reserved: what was covered still is, and one more line is moved.
LEMMA ReserveStockStep ==
    ASSUME TxInv, NEW pod \in Pods, ReserveStock(pod)
    PROVE  TxInv'
<1>1. /\ tx[pod].at = "ReserveStock" /\ Granted(pod)
      /\ UNCHANGED <<database, failures>> /\ failures' \in 0..MaxFailures
  BY DEF ReserveStock, TxInv, TypeOK
<1>2. /\ tx[pod] \in Transactions /\ Grounded(tx[pod])
      /\ Demand[tx[pod].order] \in [Products -> Nat]
      /\ \A p \in Products :
            p \in Range(Listing[tx[pod].order]) <=> Demand[tx[pod].order][p] > 0
  BY <1>1, AtStatement DEF Statements
<1>3. CASE Rollback(pod)
  BY <1>1, <1>3, GivenUp DEF database
<1> PICK t \in Transactions : t = tx[pod]
  BY <1>2
<1>4. /\ t.at = "ReserveStock" /\ t.todo # <<>> /\ t.order \in Orders
      /\ t.todo \in Seq(Products) /\ t.holds \subseteq StockRows \cup Orders
      /\ t.order \notin t.holds /\ t.moved \in [Products -> Nat]
      /\ \A p \in Range(t.todo) : Demand[t.order][p] > 0
  BY <1>1 DEF Transactions
<1>5. /\ t.result = "NONE"
      /\ \A p \in Range(Listing[t.order]) : Covered(t, p)
      /\ \A p \in Products \ Range(t.todo) : t.moved[p] = Demand[t.order][p]
  BY <1>2, <1>4 DEF Grounded, Results
<1>p. PICK p, rest, n : p = Head(t.todo) /\ rest = Tail(t.todo) /\ n = Demand[t.order][p]
  OBVIOUS
<1>6. /\ p \in Products /\ p \in Range(t.todo) /\ n > 0 /\ n \in Nat
      /\ rest \in Seq(Products) /\ Range(t.todo) = {p} \cup Range(rest)
      /\ Len(t.todo) = 1 <=> rest = <<>>
  BY <1>2, <1>4, <1>p, TailFacts
<1>7. Needs(tx[pod]) = {p}
  BY <1>4, <1>p DEF Needs
<1>8. p \in StockRows /\ p \notin Orders
  BY <1>2, <1>5, <1>6, <1>p, InventoryTxAssumption DEF Covered
<1>a. PICK at, result :
        /\ at = IF Len(t.todo) = 1 THEN "InsertProcessedOrder" ELSE t.at
        /\ result = IF Len(t.todo) = 1 THEN "RESERVED" ELSE t.result
  OBVIOUS
<1>9. CASE Continue(pod, LastMoved(t, rest, p, n, at, result))
  <2>m. PICK moved : moved = [t.moved EXCEPT ![p] = n]
    OBVIOUS
  <2>1. Continue(pod, [at |-> at, order |-> t.order, todo |-> rest,
                       moved |-> moved, result |-> result, holds |-> tx[pod].holds])
    <3>1. LastMoved(t, rest, p, n, at, result)
          = [at |-> at, order |-> t.order, todo |-> rest,
             moved |-> moved, result |-> result, holds |-> t.holds]
      BY <2>m, LastMovedIs
    <3> QED
      BY <1>9, <3>1, Zenon
  <2>n. PICK new : new = [at |-> at, order |-> t.order, todo |-> rest,
                        moved |-> moved, result |-> result,
                        holds |-> tx[pod].holds \cup Needs(tx[pod])]
    OBVIOUS
  <2>2. /\ new.at = at /\ new.order = t.order /\ new.todo = rest
        /\ new.moved = moved /\ new.result = result
        /\ new.holds = t.holds \cup {p}
    BY <1>7, <2>n
  <2>3. /\ moved \in [Products -> Nat] /\ moved[p] = n
        /\ \A q \in Products \ {p} : moved[q] = t.moved[q]
    BY <1>4, <1>6, <2>m
  <2>4. \/ at = "InsertProcessedOrder" /\ result = "RESERVED" /\ rest = <<>>
        \/ at = "ReserveStock" /\ result = "NONE" /\ rest # <<>>
    BY <1>4, <1>5, <1>6, <1>a
  <2>5. new \in [at : Statements, order : Orders, todo : Seq(Products),
                 moved : [Products -> Nat],
                 result : {"NONE", "RESERVED", "REJECTED", "RELEASED"},
                 holds : SUBSET (StockRows \cup Orders)]
    BY <1>4, <1>6, <1>7, <1>8, <2>3, <2>4, <2>n DEF Statements
  <2>6. new \in Transactions
    BY <1>4, <1>6, <1>8, <2>2, <2>4, <2>5 DEF Transactions
  <2>7. \A q \in Range(Listing[t.order]) : Covered(new, q)
    BY <1>5, <2>2 DEF Covered
  <2>8. \A q \in Products \ Range(rest) : moved[q] = Demand[t.order][q]
    <3>1. moved[p] = Demand[t.order][p]
      BY <1>p, <2>3
    <3>2. ASSUME NEW q \in Products \ Range(rest), q # p
          PROVE  moved[q] = Demand[t.order][q]
      <4>1. q \notin Range(t.todo)
        BY <1>6, <3>2
      <4> QED
        BY <1>5, <2>3, <3>2, <4>1
    <3> QED
      BY <3>1, <3>2
  <2>9. Grounded(new)
    <3>1. CASE at = "InsertProcessedOrder" /\ result = "RESERVED" /\ rest = <<>>
      BY <2>2, <2>7, <2>8, <3>1 DEF Grounded, Results
    <3>2. CASE at = "ReserveStock" /\ result = "NONE" /\ rest # <<>>
      BY <2>2, <2>7, <2>8, <3>2 DEF Grounded, Results
    <3> QED
      BY <2>4, <3>1, <3>2
  <2> QED
    BY <1>1, <2>1, <2>6, <2>9, <2>n, GoesOn
<1>10. Rollback(pod) \/ Continue(pod, LastMoved(t, rest, p, n, at, result))
  BY <1>p, <1>a, Zenon DEF ReserveStock, LastMoved
<1> QED
  BY <1>3, <1>9, <1>10

\* The lines of a reserved order are the lines the order asked for.
LEMMA MarkOrderReleasedStep ==
    ASSUME TxInv, NEW pod \in Pods, MarkOrderReleased(pod)
    PROVE  TxInv'
<1>1. /\ tx[pod].at = "MarkOrderReleased" /\ Granted(pod)
      /\ UNCHANGED <<database, failures>> /\ failures' \in 0..MaxFailures
  BY DEF MarkOrderReleased, TxInv, TypeOK
<1>2. /\ tx[pod] \in Transactions /\ Grounded(tx[pod])
      /\ Demand[tx[pod].order] \in [Products -> Nat]
      /\ Listing[tx[pod].order] \in Seq(Products) /\ Listing[tx[pod].order] # <<>>
      /\ \A p \in Products :
            p \in Range(Listing[tx[pod].order]) <=> Demand[tx[pod].order][p] > 0
  BY <1>1, AtStatement DEF Statements
<1>3. CASE Rollback(pod)
  BY <1>1, <1>3, GivenUp DEF database
<1> PICK t \in Transactions : t = tx[pod]
  BY <1>2
<1>4. /\ t.at = "MarkOrderReleased" /\ t.order \in Orders
      /\ t.holds \subseteq StockRows \cup Orders
  BY <1>1 DEF Transactions
<1>5. t.moved = NoLines
  BY <1>2, <1>4 DEF Grounded
<1>6. Needs(tx[pod]) = {t.order}
  BY <1>4 DEF Needs
<1>7. ASSUME processed[t.order] = "RESERVED", NEW lines \in ListReservations(t.order),
             Continue(pod, Decided(t, "ReleaseStock", lines, "RELEASED"))
      PROVE  TxInv'
  <2>1. reservations[t.order] = Demand[t.order]
    BY <1>4, <1>7 DEF TxInv, Counted
  <2> DEFINE Lines == { p \in Products : reservations[t.order][p] > 0 }
  <2>2. IsFiniteSet(Lines)
    BY InventoryTxAssumption, FS_Subset
  <2>3. lines \in Seq(Lines) /\ Range(lines) = Lines
    <3>1. lines \in SetToSeqs(Lines)
      BY <1>7 DEF ListReservations
    <3> HIDE DEF Lines
    <3> QED
      BY <2>2, <3>1, Listed
  <2>4. lines \in Seq(Products)
    BY <2>3
  <2>5. lines # <<>>
    <3>1. PICK p \in Products : p \in Range(Listing[t.order])
      BY <1>2, TailFacts
    <3>2. p \in Range(lines)
      BY <1>2, <2>1, <2>3, <3>1
    <3> QED
      BY <3>2 DEF Range
  <2>6. \A p \in Range(lines) : Demand[t.order][p] > 0
    BY <2>1, <2>3
  <2>7. \A p \in Products \ Range(lines) : reservations[t.order][p] = 0
    BY <1>2, <2>1, <2>3
  <2> HIDE DEF Lines
  <2>8. Continue(pod, [at |-> "ReleaseStock", order |-> t.order, todo |-> lines,
                       moved |-> t.moved, result |-> "RELEASED", holds |-> tx[pod].holds])
    BY <1>7, DecidedIs
  <2> PICK new : new = [at |-> "ReleaseStock", order |-> t.order, todo |-> lines,
                        moved |-> t.moved, result |-> "RELEASED",
                        holds |-> tx[pod].holds \cup Needs(tx[pod])]
    OBVIOUS
  <2>9. /\ new.at = "ReleaseStock" /\ new.order = t.order /\ new.todo = lines
        /\ new.moved = NoLines /\ new.result = "RELEASED"
        /\ new.holds = t.holds \cup {t.order}
    BY <1>5, <1>6
  <2>10. new \in [at : Statements, order : Orders, todo : Seq(Products),
                  moved : [Products -> Nat],
                  result : {"NONE", "RESERVED", "REJECTED", "RELEASED"},
                  holds : SUBSET (StockRows \cup Orders)]
    BY <1>4, <1>5, <1>6, <2>4 DEF Statements, NoLines
  <2>11. new \in Transactions
    BY <2>5, <2>6, <2>9, <2>10 DEF Transactions
  <2>12. \A p \in Products \ Range(lines) : Returned(new, p)
    BY <2>7, <2>9 DEF Returned, NoLines
  <2>13. Grounded(new)
    BY <1>7, <2>9, <2>12 DEF Grounded, Results
  <2> QED
    BY <1>1, <2>8, <2>11, <2>13, GoesOn
<1>8. \/ Rollback(pod)
      \/ /\ processed[t.order] = "RESERVED"
         /\ \E lines \in ListReservations(t.order) :
               Continue(pod, Decided(t, "ReleaseStock", lines, "RELEASED"))
  BY Zenon DEF MarkOrderReleased, Releasable, Decided
<1> QED
  BY <1>3, <1>7, <1>8

\* A line is released: one more line goes back as it was reserved.
LEMMA ReleaseStockStep ==
    ASSUME TxInv, NEW pod \in Pods, ReleaseStock(pod)
    PROVE  TxInv'
<1>1. /\ tx[pod].at = "ReleaseStock" /\ Granted(pod)
      /\ UNCHANGED <<database, failures>> /\ failures' \in 0..MaxFailures
  BY DEF ReleaseStock, TxInv, TypeOK
<1>2. /\ tx[pod] \in Transactions /\ Grounded(tx[pod])
      /\ Demand[tx[pod].order] \in [Products -> Nat]
  BY <1>1, AtStatement DEF Statements
<1> PICK t \in Transactions : t = tx[pod]
  BY <1>2
<1>3. /\ t.at = "ReleaseStock" /\ t.todo # <<>> /\ t.order \in Orders
      /\ t.todo \in Seq(Products) /\ t.holds \subseteq StockRows \cup Orders
      /\ t.order \in t.holds /\ t.moved \in [Products -> Nat]
      /\ \A p \in Range(t.todo) : Demand[t.order][p] > 0
  BY <1>1 DEF Transactions
<1>4. /\ t.result = "RELEASED" /\ processed[t.order] = "RESERVED"
      /\ \A p \in Products \ Range(t.todo) : Returned(t, p)
  BY <1>2, <1>3 DEF Grounded, Results
<1>5. reservations[t.order] = Demand[t.order]
  BY <1>3, <1>4 DEF TxInv, Counted
<1>p. PICK p, rest, n :
        p = Head(t.todo) /\ rest = Tail(t.todo) /\ n = reservations[t.order][p]
  OBVIOUS
<1>6. /\ p \in Products /\ p \in Range(t.todo) /\ n > 0 /\ n \in Nat
      /\ rest \in Seq(Products) /\ Range(t.todo) = {p} \cup Range(rest)
      /\ Len(t.todo) = 1 <=> rest = <<>>
  BY <1>2, <1>3, <1>5, <1>p, TailFacts
<1>7. Needs(tx[pod]) = {p}
  BY <1>3, <1>p DEF Needs
<1>8. p \in StockRows
  BY <1>3, <1>6, <1>p DEF TxInv, Counted
<1>a. PICK at : at = IF Len(t.todo) = 1 THEN "Commit" ELSE t.at
  OBVIOUS
<1>m. PICK moved : moved = [t.moved EXCEPT ![p] = n]
  OBVIOUS
<1>9. n <= reserved[p] /\ Continue(pod, Moved(t, rest, p, n, at))
  BY <1>p, <1>a, Zenon DEF ReleaseStock, Moved
<1>10. Continue(pod, [at |-> at, order |-> t.order, todo |-> rest,
                      moved |-> moved, result |-> t.result, holds |-> tx[pod].holds])
  <2>1. Moved(t, rest, p, n, at)
        = [at |-> at, order |-> t.order, todo |-> rest,
           moved |-> moved, result |-> t.result, holds |-> t.holds]
    BY <1>m, MovedIs
  <2> QED
    BY <1>9, <2>1, Zenon
<1>n. PICK new : new = [at |-> at, order |-> t.order, todo |-> rest,
                      moved |-> moved, result |-> t.result,
                      holds |-> tx[pod].holds \cup Needs(tx[pod])]
  OBVIOUS
<1>11. /\ new.at = at /\ new.order = t.order /\ new.todo = rest
       /\ new.moved = moved /\ new.result = "RELEASED"
       /\ new.holds = t.holds \cup {p}
  BY <1>4, <1>7, <1>n
<1>12. /\ moved \in [Products -> Nat] /\ moved[p] = n
       /\ \A q \in Products \ {p} : moved[q] = t.moved[q]
  BY <1>3, <1>6, <1>m
<1>13. \/ at = "Commit" /\ rest = <<>>
       \/ at = "ReleaseStock" /\ rest # <<>>
  BY <1>3, <1>6, <1>a
<1>14. new \in [at : Statements, order : Orders, todo : Seq(Products),
                moved : [Products -> Nat],
                result : {"NONE", "RESERVED", "REJECTED", "RELEASED"},
                holds : SUBSET (StockRows \cup Orders)]
  BY <1>3, <1>4, <1>6, <1>7, <1>8, <1>12, <1>13, <1>n DEF Statements
<1>15. new \in Transactions
  BY <1>3, <1>6, <1>11, <1>13, <1>14 DEF Transactions
<1>16. \A q \in Products \ Range(rest) : Returned(new, q)
  <2>1. Returned(new, p)
    BY <1>8, <1>9, <1>11, <1>12, <1>p DEF Returned
  <2>2. ASSUME NEW q \in Products \ Range(t.todo) PROVE Returned(new, q)
    BY <1>4, <1>6, <1>11, <1>12 DEF Returned
  <2> QED
    BY <1>6, <2>1, <2>2
<1>17. Grounded(new)
  BY <1>3, <1>4, <1>11, <1>13, <1>16 DEF Grounded, Results
<1> QED
  BY <1>1, <1>10, <1>15, <1>17, <1>n, GoesOn

-----------------------------------------------------------------------------
(* The end of a transaction *)

\* The change of the database by one complete transaction of an order.
Transacted(o) ==
    \/ /\ ~Service!AlreadyProcessed(o)
       /\ Service!Reserve(o, Demand[o]) \/ Service!Reject(o, Demand[o])
    \/ /\ Service!Releasable(o)
       /\ Service!Release(o)
       /\ UNCHANGED reservations

\* A commit is one such change, and it is made to rows the transaction holds.
LEMMA CommitTransacts ==
    ASSUME TxInv, NEW pod \in Pods, Commit(pod)
    PROVE  /\ tx[pod].order \in Orders /\ tx[pod].order \in tx[pod].holds
           /\ Transacted(tx[pod].order)
           /\ available' \in [StockRows -> Nat] /\ reserved' \in [StockRows -> Nat]
           /\ \A p \in StockRows \ tx[pod].holds :
                 available'[p] = available[p] /\ reserved'[p] = reserved[p]
           /\ \A p \in StockRows : available'[p] + reserved'[p] = available[p] + reserved[p]
<1>1. /\ tx[pod].at = "Commit"
      /\ processed' = [processed EXCEPT ![tx[pod].order] = tx[pod].result]
      /\ reservations' = IF tx[pod].result = "RESERVED"
                         THEN [reservations EXCEPT ![tx[pod].order] = tx[pod].moved]
                         ELSE reservations
      /\ available' = [p \in StockRows |-> available[p]
            - (IF tx[pod].result = "RELEASED" THEN -1 ELSE 1) * tx[pod].moved[p]]
      /\ reserved' = [p \in StockRows |-> reserved[p]
            + (IF tx[pod].result = "RELEASED" THEN -1 ELSE 1) * tx[pod].moved[p]]
  BY Zenon DEF Commit
<1>2. /\ tx[pod] \in Transactions /\ Grounded(tx[pod])
      /\ available \in [StockRows -> Nat] /\ reserved \in [StockRows -> Nat]
      /\ Demand[tx[pod].order] \in [Products -> Nat]
      /\ Listing[tx[pod].order] \in Seq(Products)
      /\ \A p \in Products :
            p \in Range(Listing[tx[pod].order]) <=> Demand[tx[pod].order][p] > 0
  BY <1>1, AtStatement DEF Statements
<1>t. PICK t \in Transactions : t = tx[pod]
  BY <1>2
<1>3. /\ t.order \in Orders /\ t.todo = <<>> /\ t.order \in t.holds
      /\ t.moved \in [Products -> Nat] /\ StockRows \subseteq Products
      /\ Range(t.todo) = {} /\ Range(Listing[t.order]) \subseteq Products
  <2>1. t.order \in Orders /\ t.moved \in [Products -> Nat]
    BY <1>t DEF Transactions
  <2>2. t.at = "Commit"
    BY <1>1, <1>t
  <2>3. t.todo = <<>> /\ t.order \in t.holds
    BY <1>t, <2>2 DEF Transactions
  <2>4. Range(t.todo) = {}
    BY <2>3 DEF Range
  <2>5. Listing[t.order] \in Seq(Products)
    BY <1>2, <1>t
  <2>6. Range(Listing[t.order]) \subseteq Products
    BY <2>5 DEF Range
  <2>7. StockRows \subseteq Products
    BY InventoryTxAssumption DEF StockRows
  <2> QED
    BY <2>1, <2>3, <2>4, <2>6, <2>7
<1>4. /\ t.result \in {"RESERVED", "REJECTED", "RELEASED"}
      /\ t.result # "RELEASED" => processed[t.order] = "NONE"
  BY <1>1, <1>2, <1>t DEF Grounded, Results
<1>5. CASE t.result = "RESERVED"
  <2>1. /\ \A p \in Range(Listing[t.order]) : Covered(t, p)
        /\ \A p \in Products : t.moved[p] = Demand[t.order][p]
    BY <1>2, <1>3, <1>5, <1>t DEF Grounded
  <2>2. \A p \in Products : t.moved[p] > 0 =>
           p \in StockRows \cap t.holds /\ t.moved[p] <= available[p]
    BY <1>2, <1>t, <2>1 DEF Covered
  <2>3. t.moved = Demand[t.order]
    BY <1>2, <1>3, <1>t, <2>1
  <2>4. /\ available' = [p \in StockRows |-> available[p] - t.moved[p]]
        /\ reserved' = [p \in StockRows |-> reserved[p] + t.moved[p]]
    <3>1. \A p \in StockRows : /\ available[p] \in Nat /\ reserved[p] \in Nat
                               /\ t.moved[p] \in Nat
      BY <1>2, <1>3
    <3>2. /\ \A p \in StockRows : available[p] - 1 * t.moved[p] = available[p] - t.moved[p]
          /\ \A p \in StockRows : reserved[p] + 1 * t.moved[p] = reserved[p] + t.moved[p]
      BY <3>1
    <3>3. /\ available' = [p \in StockRows |-> available[p] - 1 * t.moved[p]]
          /\ reserved' = [p \in StockRows |-> reserved[p] + 1 * t.moved[p]]
      BY <1>1, <1>5, <1>t
    <3> QED
      BY <3>2, <3>3
  <2>5. /\ available' \in [StockRows -> Nat] /\ reserved' \in [StockRows -> Nat]
        /\ \A p \in StockRows \ t.holds :
              available'[p] = available[p] /\ reserved'[p] = reserved[p]
        /\ \A p \in StockRows : available'[p] + reserved'[p] = available[p] + reserved[p]
    <3>1. \A p \in StockRows :
             /\ available[p] \in Nat /\ reserved[p] \in Nat /\ t.moved[p] \in Nat
             /\ t.moved[p] > 0 => p \in t.holds /\ t.moved[p] <= available[p]
      BY <1>2, <1>3, <2>2
    <3> QED
      BY <2>4, <3>1
  <2>6. Service!Sufficient(Demand[t.order])
    BY <2>2, <2>3 DEF Service!Sufficient, Service!StockRows, StockRows
  <2>7. Service!Reserve(t.order, Demand[t.order])
    BY <1>1, <1>5, <1>t, <2>3, <2>4, <2>6 DEF Service!Reserve, Service!StockRows, StockRows
  <2> QED
    BY <1>3, <1>4, <1>5, <1>t, <2>5, <2>7 DEF Transacted, Service!AlreadyProcessed
<1>6. CASE t.result = "REJECTED"
  <2>1. /\ t.moved = NoLines
        /\ \E p \in Range(Listing[t.order]) : Short(t, p)
    BY <1>2, <1>6, <1>t DEF Grounded
  <2>2. available' = available /\ reserved' = reserved
    <3>1. /\ \A p \in StockRows : available[p] - 1 * t.moved[p] = available[p]
          /\ \A p \in StockRows : reserved[p] + 1 * t.moved[p] = reserved[p]
      BY <1>2, <1>3, <2>1 DEF NoLines
    <3>2. /\ available' = [p \in StockRows |-> available[p] - 1 * t.moved[p]]
          /\ reserved' = [p \in StockRows |-> reserved[p] + 1 * t.moved[p]]
      BY <1>1, <1>6, <1>t
    <3> QED
      BY <1>2, <3>1, <3>2
  <2>3. ~Service!Sufficient(Demand[t.order])
    <3>1. PICK p \in Products : Demand[t.order][p] > 0 /\ Short(t, p)
      BY <1>2, <1>3, <1>t, <2>1
    <3>2. p \in StockRows => ~(Demand[t.order][p] <= available[p])
      BY <1>2, <1>t, <3>1 DEF Short
    <3> QED
      BY <3>1, <3>2 DEF Service!Sufficient, Service!StockRows, StockRows
  <2>4. Service!Reject(t.order, Demand[t.order])
    BY <1>1, <1>6, <1>t, <2>2, <2>3 DEF Service!Reject
  <2> QED
    BY <1>2, <1>3, <1>4, <1>6, <1>t, <2>2, <2>4 DEF Transacted, Service!AlreadyProcessed
<1>7. CASE t.result = "RELEASED"
  <2>1. /\ processed[t.order] = "RESERVED"
        /\ \A p \in Products : Returned(t, p)
    BY <1>2, <1>3, <1>7, <1>t DEF Grounded
  <2>2. \A p \in Products :
           /\ t.moved[p] = reservations[t.order][p]
           /\ t.moved[p] > 0 => p \in StockRows \cap t.holds /\ t.moved[p] <= reserved[p]
    BY <2>1 DEF Returned
  <2>3. /\ available' = [p \in StockRows |-> available[p] + reservations[t.order][p]]
        /\ reserved' = [p \in StockRows |-> reserved[p] - reservations[t.order][p]]
    <3>1. \A p \in StockRows : /\ available[p] \in Nat /\ reserved[p] \in Nat
                               /\ t.moved[p] \in Nat
      BY <1>2, <1>3
    <3>2. /\ \A p \in StockRows :
                available[p] - (-1) * t.moved[p] = available[p] + reservations[t.order][p]
          /\ \A p \in StockRows :
                reserved[p] + (-1) * t.moved[p] = reserved[p] - reservations[t.order][p]
      BY <1>3, <2>2, <3>1
    <3>3. /\ available' = [p \in StockRows |-> available[p] - (-1) * t.moved[p]]
          /\ reserved' = [p \in StockRows |-> reserved[p] + (-1) * t.moved[p]]
      BY <1>1, <1>7, <1>t
    <3> QED
      BY <3>2, <3>3
  <2>r. \A p \in StockRows :
           /\ available[p] \in Nat /\ reserved[p] \in Nat /\ reservations[t.order][p] \in Nat
           /\ reservations[t.order][p] > 0 =>
                 p \in t.holds /\ reservations[t.order][p] <= reserved[p]
    BY <1>2, <1>3, <2>2
  <2>4. /\ available' \in [StockRows -> Nat] /\ reserved' \in [StockRows -> Nat]
        /\ \A p \in StockRows \ t.holds :
              available'[p] = available[p] /\ reserved'[p] = reserved[p]
        /\ \A p \in StockRows : available'[p] + reserved'[p] = available[p] + reserved[p]
    BY <2>3, <2>r
  <2>5. \A p \in StockRows : reservations[t.order][p] <= reserved[p]
    BY <2>r
  <2>6. Service!Release(t.order)
    BY <1>1, <1>7, <1>t, <2>3, <2>5 DEF Service!Release, Service!StockRows, StockRows
  <2>7. UNCHANGED reservations
    BY <1>1, <1>7, <1>t
  <2> QED
    BY <1>3, <1>7, <1>t, <2>1, <2>4, <2>6, <2>7 DEF Transacted, Service!Releasable
<1> QED
  BY <1>4, <1>5, <1>6, <1>7

\* A transaction is about one order, and leaves reservations that are counted.
LEMMA TransactedFacts ==
    ASSUME TypeOK, Counted, NEW o \in Orders, Transacted(o)
    PROVE  /\ processed' \in [Orders -> {"NONE", "RESERVED", "REJECTED", "RELEASED"}]
           /\ reservations' \in [Orders -> [Products -> Nat]]
           /\ \A other \in Orders \ {o} : /\ processed'[other] = processed[other]
                                          /\ reservations'[other] = reservations[other]
           /\ processed'[o] \in {"RESERVED", "RELEASED"} => reservations'[o] = Demand[o]
           /\ \A p \in Products : reservations'[o][p] > 0 => p \in StockRows
<1>1. /\ processed \in [Orders -> {"NONE", "RESERVED", "REJECTED", "RELEASED"}]
      /\ reservations \in [Orders -> [Products -> Nat]]
      /\ Demand[o] \in [Products -> Nat]
      /\ \A p \in Products : reservations[o][p] > 0 => p \in StockRows
      /\ processed[o] = "RESERVED" => reservations[o] = Demand[o]
  BY InventoryTxAssumption DEF TypeOK, Counted
<1>2. CASE Service!Reserve(o, Demand[o])
  <2>1. /\ processed' = [processed EXCEPT ![o] = "RESERVED"]
        /\ reservations' = [reservations EXCEPT ![o] = Demand[o]]
        /\ \A p \in Products : Demand[o][p] > 0 => p \in StockRows
    BY <1>2 DEF Service!Reserve, Service!Sufficient, Service!StockRows, StockRows
  <2> QED
    BY <1>1, <2>1
<1>3. CASE Service!Reject(o, Demand[o])
  <2>1. /\ processed' = [processed EXCEPT ![o] = "REJECTED"]
        /\ reservations' = reservations
    BY <1>3 DEF Service!Reject
  <2> QED
    BY <1>1, <2>1
<1>4. CASE Service!Releasable(o) /\ Service!Release(o) /\ UNCHANGED reservations
  <2>1. /\ processed' = [processed EXCEPT ![o] = "RELEASED"]
        /\ reservations' = reservations /\ processed[o] = "RESERVED"
    BY <1>4 DEF Service!Release, Service!Releasable
  <2> QED
    BY <1>1, <2>1
<1> QED
  BY <1>2, <1>3, <1>4 DEF Transacted

\* What other transactions go by is true after a commit: it is about rows and orders
\* they hold, which this one does not.
LEMMA CommitStep ==
    ASSUME TxInv, NEW pod \in Pods, Commit(pod)
    PROVE  TxInv'
<1>1. /\ TypeOK /\ Exclusive /\ Counted
      /\ \A other \in Pods : tx[other] # NoTx => Grounded(tx[other])
  BY DEF TxInv
<1>2. Rollback(pod) /\ UNCHANGED failures
  BY DEF Commit
<1>3. /\ DOMAIN tx' = Pods /\ tx'[pod] = NoTx
      /\ \A other \in Pods \ {pod} : tx'[other] = tx[other]
      /\ waiting' \in Seq(Pods) /\ Exclusive'
  BY <1>1, <1>2, RollingBack
<1>o. PICK o, held : o = tx[pod].order /\ held = tx[pod].holds
  OBVIOUS
<1>4. /\ o \in Orders /\ o \in held /\ Transacted(o)
      /\ available' \in [StockRows -> Nat] /\ reserved' \in [StockRows -> Nat]
      /\ \A p \in StockRows \ held : available'[p] = available[p] /\ reserved'[p] = reserved[p]
      /\ \A p \in StockRows : available'[p] + reserved'[p] = available[p] + reserved[p]
  BY <1>o, CommitTransacts
<1>5. /\ processed' \in [Orders -> {"NONE", "RESERVED", "REJECTED", "RELEASED"}]
      /\ reservations' \in [Orders -> [Products -> Nat]]
      /\ \A other \in Orders \ {o} : /\ processed'[other] = processed[other]
                                     /\ reservations'[other] = reservations[other]
      /\ processed'[o] \in {"RESERVED", "RELEASED"} => reservations'[o] = Demand[o]
      /\ \A p \in Products : reservations'[o][p] > 0 => p \in StockRows
  BY <1>1, <1>4, TransactedFacts
<1>6. TypeOK'
  BY <1>1, <1>2, <1>3, <1>4, <1>5 DEF TypeOK
<1>7. Counted'
  BY <1>1, <1>4, <1>5 DEF Counted
<1>8. ASSUME NEW other \in Pods \ {pod}, tx[other] # NoTx
      PROVE  Grounded(tx[other])'
  <2>1. tx[other] \in Transactions /\ Grounded(tx[other]) /\ held \cap tx[other].holds = {}
    BY <1>1, <1>8, <1>o DEF TypeOK, Exclusive
  <2>t. PICK t \in Transactions : t = tx[other]
    BY <2>1
  <2>2. /\ t.order \in Orders /\ t.todo \in Seq(Products) /\ held \cap t.holds = {}
        /\ Grounded(t) /\ (t.at \in {"ReleaseStock", "Commit"} <=> t.order \in t.holds)
    BY <2>1, <2>t DEF Transactions
  <2>3. t.order \in t.holds => /\ processed'[t.order] = processed[t.order]
                               /\ reservations'[t.order] = reservations[t.order]
    BY <1>4, <1>5, <2>2
  <2>4. \A p \in StockRows \cap t.holds :
           available'[p] = available[p] /\ reserved'[p] = reserved[p]
    BY <1>4, <2>2
  <2>5. \A p : Covered(t, p) => Covered(t, p)'
    BY <2>4 DEF Covered
  <2>6. \A p : Short(t, p) => Short(t, p)'
    BY <2>4 DEF Short
  <2>7. t.order \in t.holds => \A p : Returned(t, p) => Returned(t, p)'
    BY <2>3, <2>4 DEF Returned
  <2>8. Grounded(t)'
    BY <2>2, <2>3, <2>5, <2>6, <2>7 DEF Grounded
  <2> QED
    BY <1>3, <2>8, <2>t
<1> QED
  BY <1>3, <1>6, <1>7, <1>8 DEF TxInv

-----------------------------------------------------------------------------
(* Every step *)

LEMMA TxInvInit ==
    ASSUME Init
    PROVE  TxInv
<1>1. TypeOK
  BY InventoryTxAssumption, EmptySeq DEF Init, TypeOK, NoLines, StockRows
<1>2. \A pod \in Pods : tx[pod] = NoTx /\ tx[pod].holds = {}
  BY DEF Init, NoTx
<1>3. Counted
  <2>1. \A o \in Orders : processed[o] = "NONE" /\ \A p \in Products : reservations[o][p] = 0
    BY DEF Init, NoLines
  <2>2. \A p \in StockRows : available[p] + reserved[p] = InitialStock[p]
    BY InventoryTxAssumption DEF Init, StockRows
  <2> QED
    BY <2>1, <2>2 DEF Counted
<1> QED
  BY <1>1, <1>2, <1>3 DEF TxInv, Exclusive

\* A pod that waits changes no transaction.
LEMMA WaitStep ==
    ASSUME TxInv, NEW pod \in Pods, Wait(pod)
    PROVE  TxInv'
<1>1. /\ UNCHANGED <<database, tx, failures>> /\ waiting' = Append(waiting, pod)
      /\ TypeOK /\ Exclusive /\ DOMAIN tx = Pods
  BY DEF Wait, TxInv, TypeOK
<1>2. waiting' \in Seq(Pods) /\ failures' \in 0..MaxFailures
  BY <1>1 DEF TypeOK
<1>3. Exclusive'
  BY <1>1 DEF Exclusive
<1>4. Sound(pod)'
  <2>1. Sound(pod)
    BY DEF TxInv, TypeOK, Sound
  <2> QED
    BY <1>1, <2>1 DEF Sound, Grounded, Covered, Short, Returned, database
<1> QED
  BY <1>1, <1>2, <1>3, <1>4, StatementTxInv

\* Every step of the service leaves the invariant, and is one transaction or leaves
\* the database as it is.
LEMMA TxStep ==
    ASSUME TxInv, [Next]_vars
    PROVE  TxInv' /\ ((\E o \in Orders : Transacted(o)) \/ UNCHANGED database)
<1>0. failures \in 0..MaxFailures /\ MaxFailures \in Nat
  BY InventoryTxAssumption DEF TxInv, TypeOK
<1>1. ASSUME NEW o \in Orders, NEW pod \in Pods, BeginReserve(pod, o)
      PROVE  TxInv' /\ UNCHANGED database
  <2>1. Listing[o] \in Seq(Products)
    BY InventoryTxAssumption
  <2>2. /\ tx' = [tx EXCEPT ![pod] = Begun("GetStockForUpdate", o, Listing[o])]
        /\ UNCHANGED <<database, waiting, failures>>
    BY <1>1 DEF BeginReserve
  <2> QED
    BY <1>0, <2>1, <2>2, Beginning
<1>2. ASSUME NEW o \in Orders, NEW pod \in Pods,
             BeginRelease(pod, o) \/ BeginReleaseAgain(pod, o)
      PROVE  TxInv' /\ UNCHANGED database
  <2>1. /\ tx' = [tx EXCEPT ![pod] = Begun("MarkOrderReleased", o, <<>>)]
        /\ UNCHANGED <<database, waiting>> /\ failures' \in 0..MaxFailures
    BY <1>0, <1>2 DEF BeginRelease, BeginReleaseAgain
  <2>2. <<>> \in Seq(Products)
    BY EmptySeq
  <2> QED
    BY <2>1, <2>2, Beginning
<1>3. ASSUME NEW pod \in Pods, Statement(pod)
      PROVE  TxInv' /\ ((\E o \in Orders : Transacted(o)) \/ UNCHANGED database)
  <2>1. CASE Wait(pod)
    BY <2>1, WaitStep DEF Wait
  <2>2. CASE GetStockForUpdate(pod)
    BY <2>2, GetStockForUpdateStep DEF GetStockForUpdate
  <2>3. CASE ReserveStock(pod)
    BY <2>3, ReserveStockStep DEF ReserveStock
  <2>4. CASE InsertProcessedOrder(pod)
    BY <2>4, InsertProcessedOrderStep DEF InsertProcessedOrder
  <2>5. CASE MarkOrderReleased(pod)
    BY <2>5, MarkOrderReleasedStep DEF MarkOrderReleased
  <2>6. CASE ReleaseStock(pod)
    BY <2>6, ReleaseStockStep DEF ReleaseStock
  <2>7. CASE Commit(pod)
    BY <2>7, CommitStep, CommitTransacts
  <2> QED
    BY <1>3, <2>1, <2>2, <2>3, <2>4, <2>5, <2>6, <2>7 DEF Statement
<1>4. ASSUME NEW pod \in Pods, DeadlockVictim(pod) \/ Fail(pod)
      PROVE  TxInv' /\ UNCHANGED database
  <2>1. Rollback(pod) /\ UNCHANGED database /\ failures' \in 0..MaxFailures
    BY <1>0, <1>4 DEF DeadlockVictim, Fail
  <2> QED
    BY <2>1, GivenUp
<1>5. CASE UNCHANGED vars
  <2>1. UNCHANGED <<database, tx, waiting, failures>>
    BY <1>5 DEF vars
  <2>2. UNCHANGED <<available, reserved, processed, reservations>>
    BY <2>1 DEF database
  <2> QED
    BY <2>1, <2>2 DEF TxInv, TypeOK, Exclusive, Counted, Grounded, Covered, Short, Returned
<1>6. CASE Next
  BY <1>1, <1>2, <1>3, <1>4, <1>5, <1>6 DEF Next, Begin, Rest
<1> QED
  BY <1>5, <1>6

\* The tables and the transactions have their types, no lock is held twice, and what
\* a transaction goes by stays true of rows it holds.
THEOREM TxInvariance == Spec => []TxInv
<1>1. Init => TxInv
  BY TxInvInit
<1>2. TxInv /\ [Next]_vars => TxInv'
  BY TxStep
<1> QED
  BY <1>1, <1>2, PTL DEF Spec

\* However the statements of several pods interleave, and whatever deadlocks, losses
\* of a connection and redeliveries there are, the database changes by complete
\* transactions only, each as if it ran alone (AtomicTransactions).
THEOREM TransactionsAreAtomic == Spec => AtomicTransactions
<1>1. TxInv /\ [Next]_vars => [\E o \in Orders : Transacted(o)]_database
  BY TxStep
<1>2. (\E o \in Orders : Transacted(o)) <=>
         (\E o \in Orders :
             \/ /\ ~Service!AlreadyProcessed(o)
                /\ Service!Reserve(o, Demand[o]) \/ Service!Reject(o, Demand[o])
             \/ /\ Service!Releasable(o)
                /\ Service!Release(o)
                /\ UNCHANGED reservations)
  BY DEF Transacted
<1> QED
  BY <1>1, <1>2, TxInvariance, PTL DEF Spec, AtomicTransactions

-----------------------------------------------------------------------------
(* CheckStock *)

\* A call, field by field.
LEMMA CallFacts ==
    ASSUME NEW c \in Calls
    PROVE  /\ c = [at |-> c.at, request |-> c.request, items |-> c.items, all |-> c.all,
                   had |-> c.had, lacked |-> c.lacked]
           /\ c.at = "GetStock" /\ c.request \in Checks /\ c.items \in Seq(Answers)
           /\ c.all \in BOOLEAN /\ c.had \subseteq Nat /\ c.lacked \subseteq Nat
           /\ Len(c.items) <= Len(c.request) /\ c.had \cup c.lacked = DOMAIN c.request
           /\ c # Idle
           /\ c.request \in Seq([product : Products \cup {NoUUID}, quantity : Nat])
           /\ DOMAIN c.request = 1..Len(c.request) /\ Len(c.request) \in Nat
           /\ DOMAIN c.items = 1..Len(c.items) /\ Len(c.items) \in Nat
<1>1. c \in [at : {"GetStock"}, request : Checks, items : Seq(Answers), all : BOOLEAN,
             had : SUBSET Nat, lacked : SUBSET Nat]
  BY DEF Calls
<1>2. c = [at |-> c.at, request |-> c.request, items |-> c.items, all |-> c.all,
           had |-> c.had, lacked |-> c.lacked]
  BY <1>1
<1>3. Len(c.items) <= Len(c.request) /\ c.had \cup c.lacked = DOMAIN c.request
  BY DEF Calls
<1>4. c # Idle
  <2>1. "items" \in DOMAIN c
    BY <1>1
  <2>2. "items" \notin DOMAIN Idle
    BY DEF Idle
  <2> QED
    BY <2>1, <2>2
<1>5. c.request \in Seq([product : Products \cup {NoUUID}, quantity : Nat])
  BY <1>1, StockCheckAssumption
<1>6. /\ c.at = "GetStock" /\ c.request \in Checks /\ c.items \in Seq(Answers)
      /\ c.all \in BOOLEAN /\ c.had \subseteq Nat /\ c.lacked \subseteq Nat
  BY <1>1
<1>7. /\ DOMAIN c.request = 1..Len(c.request) /\ Len(c.request) \in Nat
      /\ DOMAIN c.items = 1..Len(c.items) /\ Len(c.items) \in Nat
  BY <1>5, <1>6
<1> QED
  BY <1>2, <1>3, <1>4, <1>5, <1>6, <1>7

\* Each line can be served from a stock, or cannot.
LEMMA EitherServable ==
    ASSUME NEW request, NEW stock
    PROVE  /\ Servable(request, stock) \cup Unservable(request, stock) = DOMAIN request
           /\ Servable(request, stock) \cap Unservable(request, stock) = {}
  BY DEF Servable, Unservable

\* A call begins.
LEMMA CheckStockStep ==
    ASSUME CheckInv, NEW request \in Checks, CheckStock(request)
    PROVE  CheckInv'
<1>1. TxInv /\ UNCHANGED vars /\ check' = Called(request)
  BY DEF CheckStock, CheckInv
<1>2. TxInv' /\ available' = available
  BY <1>1, TxStep DEF vars, database
<1>c. PICK had, lacked : had = Servable(request, available) /\ lacked = Unservable(request, available)
  OBVIOUS
<1>3. had \cup lacked = DOMAIN request
  BY <1>c, EitherServable
<1>n. PICK new : new = [at |-> "GetStock", request |-> request, items |-> <<>>, all |-> TRUE,
                        had |-> had, lacked |-> lacked]
  OBVIOUS
<1>4. check' = new
  BY <1>1, <1>c, <1>n DEF Called
<1>5. /\ new.request = request /\ new.items = <<>> /\ new.all = TRUE
      /\ new.had = had /\ new.lacked = lacked
  BY <1>n
<1>6. new \in Calls
  <2>1. request \in Seq([product : Products \cup {NoUUID}, quantity : Nat])
    BY StockCheckAssumption
  <2>2. DOMAIN request = 1..Len(request) /\ Len(request) \in Nat
    BY <2>1
  <2>3. had \subseteq Nat /\ lacked \subseteq Nat
    BY <1>3, <2>2
  <2>4. <<>> \in Seq(Answers) /\ Len(<<>>) = 0
    BY EmptySeq
  <2>5. new \in [at : {"GetStock"}, request : Checks, items : Seq(Answers), all : BOOLEAN,
                 had : SUBSET Nat, lacked : SUBSET Nat]
    BY <1>n, <2>3, <2>4
  <2> QED
    BY <1>3, <1>5, <2>2, <2>4, <2>5 DEF Calls
<1>7. DOMAIN <<>> = {}
  OBVIOUS
<1>8. CheckStockTrue'
  BY <1>4, <1>5, <1>7 DEF CheckStockTrue
<1>9. /\ Servable(request, available)' = had /\ Unservable(request, available)' = lacked
  BY <1>2, <1>c DEF Servable, Unservable
<1> QED
  BY <1>2, <1>4, <1>5, <1>6, <1>8, <1>9 DEF CheckInv

\* A line is read.
LEMMA CheckLineStep ==
    ASSUME CheckInv, CheckLine
    PROVE  CheckInv'
<1>1. /\ TxInv /\ UNCHANGED vars /\ check # Idle /\ check \in Calls
      /\ Len(check.items) < Len(check.request)
  BY DEF CheckLine, CheckInv
<1>2. TxInv' /\ UNCHANGED <<available, reserved>> /\ Counted
  BY <1>1, TxStep DEF vars, database, TxInv
<1>c. PICK c \in Calls : c = check
  BY <1>1
<1>3. /\ c.items \in Seq(Answers) /\ c.all \in BOOLEAN /\ c.request \in Checks
      /\ c.had \subseteq Nat /\ c.lacked \subseteq Nat /\ Len(c.items) < Len(c.request)
      /\ c.had \cup c.lacked = DOMAIN c.request /\ Len(c.items) \in Nat
      /\ Len(c.request) \in Nat /\ c.at = "GetStock"
      /\ DOMAIN c.items = 1..Len(c.items) /\ DOMAIN c.request = 1..Len(c.request)
      /\ c.request \in Seq([product : Products \cup {NoUUID}, quantity : Nat])
  BY <1>1, <1>c, CallFacts
<1>4. /\ Servable(c.request, available) \subseteq c.had
      /\ Unservable(c.request, available) \subseteq c.lacked
  BY <1>1, <1>c DEF CheckInv
<1>5. /\ IF c.all THEN DOMAIN c.items \subseteq c.had
         ELSE DOMAIN c.items \cap c.lacked # {}
      /\ \A i \in DOMAIN c.items : c.request[i].product \in StockRows =>
            c.items[i].available + c.items[i].reserved = InitialStock[c.request[i].product]
  BY <1>1, <1>c DEF CheckInv, CheckStockTrue
<1>l. PICK i, line, found :
         /\ i = Len(c.items) + 1 /\ line = c.request[i] /\ found = GetStock(line.product)
  OBVIOUS
<1>6. CASE check' = Idle
  BY <1>2, <1>6 DEF CheckInv, CheckStockTrue
<1>7. CASE /\ found.code # "InvalidArgument"
           /\ check' = [c EXCEPT !.items = Append(c.items, found),
                                 !.all = c.all /\ Suffices(found, line)]
  <2>1. /\ i \in DOMAIN c.request /\ i \notin DOMAIN c.items
        /\ line \in [product : Products \cup {NoUUID}, quantity : Nat]
    <3>1. i \in 1..Len(c.request) /\ i \notin 1..Len(c.items)
      BY <1>3, <1>l
    <3>2. \A j \in 1..Len(c.request) :
             c.request[j] \in [product : Products \cup {NoUUID}, quantity : Nat]
      BY <1>3, ElementOf
    <3> QED
      BY <1>3, <1>l, <3>1, <3>2
  <2>2. \/ /\ line.product \in StockRows
           /\ found = [code |-> "OK", available |-> available[line.product],
                       reserved |-> reserved[line.product]]
        \/ /\ line.product \notin StockRows
           /\ found = [code |-> "NotFound", available |-> 0, reserved |-> 0]
    <3>1. line.product # NoUUID
      <4>1. ASSUME line.product = NoUUID
            PROVE  found = [code |-> "InvalidArgument"]
        BY <1>l, <4>1 DEF GetStock
      <4>2. [code |-> "InvalidArgument"].code = "InvalidArgument"
        OBVIOUS
      <4> QED
        BY <1>7, <4>1, <4>2
    <3>2. CASE line.product \in StockRows
      BY <1>l, <3>1, <3>2 DEF GetStock
    <3>3. CASE line.product \notin StockRows
      BY <1>l, <3>1, <3>3 DEF GetStock
    <3> QED
      BY <3>2, <3>3
  <2>3. found \in Answers
    BY <1>2, <2>2 DEF Answers, TxInv, TypeOK
  <2>4. line.product \in StockRows =>
           found.available + found.reserved = InitialStock[line.product]
    BY <1>2, <2>2 DEF Counted
  <2>5. Suffices(found, line) <=> i \in Servable(c.request, available)
    BY <1>l, <2>1, <2>2 DEF Suffices, Servable
  <2>b. PICK all : all = (c.all /\ Suffices(found, line))
    OBVIOUS
  <2>v. all \in BOOLEAN /\ (all <=> c.all /\ Suffices(found, line))
    BY <2>b, Zenon
  <2>a. PICK items : items = Append(c.items, found)
    OBVIOUS
  <2>6. /\ items \in Seq(Answers) /\ Len(items) = Len(c.items) + 1
        /\ DOMAIN items = DOMAIN c.items \cup {i} /\ items[i] = found
        /\ \A j \in DOMAIN c.items : items[j] = c.items[j]
    BY <1>3, <1>l, <2>3, <2>a
  <2>n. PICK new : new = [at |-> "GetStock", request |-> c.request, items |-> items,
                          all |-> all, had |-> c.had, lacked |-> c.lacked]
    OBVIOUS
  <2>7. check' = new
    <3> DEFINE u == [c EXCEPT !.items = items, !.all = all]
    <3>1. /\ u = [f \in DOMAIN u |-> u[f]]
          /\ DOMAIN u = {"at", "request", "items", "all", "had", "lacked"}
      BY CallFacts
    <3>2. /\ u.at = "GetStock" /\ u.request = c.request /\ u.items = items
          /\ u.all = all /\ u.had = c.had /\ u.lacked = c.lacked
      BY CallFacts
    <3>3. check' = u
      BY <1>7, <2>a, <2>b, Zenon
    <3> HIDE DEF u
    <3>4. u = new
      BY <2>n, <3>1, <3>2
    <3> QED
      BY <3>3, <3>4
  <2>8. /\ new.request = c.request /\ new.items = items /\ new.all = all
        /\ new.had = c.had /\ new.lacked = c.lacked
    BY <2>n
  <2>9. new \in Calls
    <3>1. new \in [at : {"GetStock"}, request : Checks, items : Seq(Answers), all : BOOLEAN,
                   had : SUBSET Nat, lacked : SUBSET Nat]
      BY <1>3, <2>6, <2>n, <2>v
    <3> QED
      BY <1>3, <2>6, <2>8, <3>1 DEF Calls
  <2>10. i \in c.had \/ ~Suffices(found, line)
    BY <1>4, <2>5
  <2>11. i \in c.lacked \/ Suffices(found, line)
    BY <1>4, <2>1, <2>5 DEF Unservable
  <2>12. IF all THEN DOMAIN items \subseteq c.had ELSE DOMAIN items \cap c.lacked # {}
    BY <1>5, <2>6, <2>10, <2>11, <2>v
  <2>13. \A j \in DOMAIN items : c.request[j].product \in StockRows =>
            items[j].available + items[j].reserved = InitialStock[c.request[j].product]
    BY <1>5, <1>l, <2>4, <2>6
  <2>14. CheckStockTrue'
    BY <2>7, <2>8, <2>12, <2>13 DEF CheckStockTrue
  <2>15. /\ Servable(c.request, available)' = Servable(c.request, available)
         /\ Unservable(c.request, available)' = Unservable(c.request, available)
    BY <1>2 DEF Servable, Unservable
  <2> QED
    BY <1>2, <1>4, <2>7, <2>8, <2>9, <2>14, <2>15 DEF CheckInv
<1>8. \/ check' = Idle
      \/ /\ found.code # "InvalidArgument"
         /\ check' = [c EXCEPT !.items = Append(c.items, found),
                               !.all = c.all /\ Suffices(found, line)]
  BY <1>c, <1>l, Zenon DEF CheckLine
<1> QED
  BY <1>6, <1>7, <1>8

\* The stock may change while a call is under way: what can be served now counts, too.
LEMMA MeanwhileStep ==
    ASSUME CheckInv, TxInv', Meanwhile
    PROVE  CheckInv'
<1>1. CASE check = Idle
  BY <1>1 DEF Meanwhile, CheckInv, CheckStockTrue
<1>2. CASE check # Idle
  <2>1. check \in Calls
    BY <1>2 DEF CheckInv
  <2>c. PICK c \in Calls : c = check
    BY <2>1
  <2>2. /\ c.items \in Seq(Answers) /\ c.all \in BOOLEAN /\ c.request \in Checks
        /\ c.had \subseteq Nat /\ c.lacked \subseteq Nat /\ Len(c.items) <= Len(c.request)
        /\ c.had \cup c.lacked = DOMAIN c.request /\ c.at = "GetStock"
        /\ DOMAIN c.request = 1..Len(c.request)
    BY CallFacts
  <2>3. /\ IF c.all THEN DOMAIN c.items \subseteq c.had
           ELSE DOMAIN c.items \cap c.lacked # {}
        /\ \A i \in DOMAIN c.items : c.request[i].product \in StockRows =>
              c.items[i].available + c.items[i].reserved = InitialStock[c.request[i].product]
    BY <1>2, <2>c DEF CheckInv, CheckStockTrue
  <2>h. PICK had, lacked : /\ had = c.had \cup Servable(c.request, available')
                           /\ lacked = c.lacked \cup Unservable(c.request, available')
    OBVIOUS
  <2>4. had \cup lacked = DOMAIN c.request
    BY <2>2, <2>h, EitherServable
  <2>5. had \subseteq Nat /\ lacked \subseteq Nat
    BY <2>2, <2>4
  <2>n. PICK new : new = [at |-> "GetStock", request |-> c.request, items |-> c.items,
                          all |-> c.all, had |-> had, lacked |-> lacked]
    OBVIOUS
  <2>6. check' = new
    <3> DEFINE u == [c EXCEPT !.had = had, !.lacked = lacked]
    <3>1. /\ u = [f \in DOMAIN u |-> u[f]]
          /\ DOMAIN u = {"at", "request", "items", "all", "had", "lacked"}
      BY CallFacts
    <3>2. /\ u.at = "GetStock" /\ u.request = c.request /\ u.items = c.items
          /\ u.all = c.all /\ u.had = had /\ u.lacked = lacked
      BY CallFacts
    <3>3. check' = u
      BY <1>2, <2>c, <2>h, Zenon DEF Meanwhile
    <3> HIDE DEF u
    <3>4. u = new
      BY <2>n, <3>1, <3>2
    <3> QED
      BY <3>3, <3>4
  <2>7. /\ new.request = c.request /\ new.items = c.items /\ new.all = c.all
        /\ new.had = had /\ new.lacked = lacked
    BY <2>n
  <2>8. new \in Calls
    <3>1. new \in [at : {"GetStock"}, request : Checks, items : Seq(Answers), all : BOOLEAN,
                   had : SUBSET Nat, lacked : SUBSET Nat]
      BY <2>2, <2>5, <2>n
    <3> QED
      BY <2>2, <2>4, <2>7, <3>1 DEF Calls
  <2>9. IF c.all THEN DOMAIN c.items \subseteq had ELSE DOMAIN c.items \cap lacked # {}
    BY <2>3, <2>h
  <2>10. CheckStockTrue'
    BY <2>3, <2>6, <2>7, <2>9 DEF CheckStockTrue
  <2>11. /\ Servable(c.request, available)' \subseteq had
         /\ Unservable(c.request, available)' \subseteq lacked
    BY <2>h DEF Servable, Unservable
  <2> QED
    BY <2>6, <2>7, <2>8, <2>10, <2>11 DEF CheckInv
<1> QED
  BY <1>1, <1>2

\* Every step of the transactions and of CheckStock.
LEMMA CheckedStep ==
    ASSUME CheckInv, [CheckedNext]_checkedVars
    PROVE  CheckInv' /\ ((\E o \in Orders : Transacted(o)) \/ UNCHANGED database)
<1>1. TxInv
  BY DEF CheckInv
<1>2. ASSUME UNCHANGED vars
      PROVE  TxInv' /\ UNCHANGED database /\ available' = available
  BY <1>1, <1>2, TxStep DEF vars, database
<1>3. CASE \E request \in Checks : CheckStock(request)
  BY <1>2, <1>3, CheckStockStep DEF CheckStock
<1>4. CASE CheckLine
  BY <1>2, <1>4, CheckLineStep DEF CheckLine
<1>5. CASE CheckReturns
  BY <1>2, <1>5 DEF CheckReturns, CheckInv, CheckStockTrue
<1>6. CASE Next /\ Meanwhile
  BY <1>1, <1>6, TxStep, MeanwhileStep
<1>7. CASE UNCHANGED checkedVars
  <2>1. UNCHANGED vars /\ check' = check
    BY <1>7 DEF checkedVars
  <2> QED
    BY <1>2, <2>1 DEF CheckInv, CheckStockTrue, Servable, Unservable
<1> QED
  BY <1>3, <1>4, <1>5, <1>6, <1>7 DEF CheckedNext

LEMMA CheckInvariance == CheckedSpec => []CheckInv
<1>1. CheckedInit => CheckInv
  BY TxInvInit DEF CheckedInit, CheckInv, CheckStockTrue
<1>2. CheckInv /\ [CheckedNext]_checkedVars => CheckInv'
  BY CheckedStep
<1> QED
  BY <1>1, <1>2, PTL DEF CheckedSpec

\* The rows, the transactions and the call that is under way have their types.
THEOREM CheckTypeCorrect == CheckedSpec => []CheckTypeOK
<1>1. CheckInv => CheckTypeOK
  BY CallFacts DEF CheckInv, TxInv, CheckTypeOK
<1> QED
  BY <1>1, CheckInvariance, PTL

\* Of each line CheckStock answers what was so at some moment of the call, and it sees
\* no row half changed, whatever transactions commit between its statements
\* (CheckStockTrue).
THEOREM ChecksAreTrue == CheckedSpec => []CheckStockTrue
<1>1. CheckInv => CheckStockTrue
  BY DEF CheckInv
<1> QED
  BY <1>1, CheckInvariance, PTL

\* The same with the readers running: CheckStock takes no lock and changes no row.
THEOREM AtomicWhileChecked == CheckedSpec => AtomicTransactions
<1>1. CheckInv /\ [CheckedNext]_checkedVars => [\E o \in Orders : Transacted(o)]_database
  BY CheckedStep
<1>2. (\E o \in Orders : Transacted(o)) <=>
         (\E o \in Orders :
             \/ /\ ~Service!AlreadyProcessed(o)
                /\ Service!Reserve(o, Demand[o]) \/ Service!Reject(o, Demand[o])
             \/ /\ Service!Releasable(o)
                /\ Service!Release(o)
                /\ UNCHANGED reservations)
  BY DEF Transacted
<1> QED
  BY <1>1, <1>2, CheckInvariance, PTL DEF CheckedSpec, AtomicTransactions
=============================================================================
