------------------------- MODULE KafkaConsumerProofs -------------------------
(***************************************************************************)
(* Proofs about the consumer loop, for every set of pods and partitions    *)
(* and any number of records, exits and rebalances: nothing is committed   *)
(* or passed over unhandled, and the loop implements AtLeastOnce.          *)
(*                                                                         *)
(* The theorems assume that the client never returns records next to an    *)
(* error; where it does, Run passes over the records.                      *)
(***************************************************************************)
EXTENDS KafkaConsumer, FiniteSetTheorems, WellFoundedInduction, TLAPS

\* What a pod has in hand of a partition is read and not yet handled records
\* from next on, and all the records before them have been handled.
BatchFollows ==
    \A m \in Members : \A tp \in DOMAIN batch[m] :
        LET b == batch[m][tp]
        IN  /\ b.next <= b.last + 1 /\ b.last <= end[tp]
            /\ 1..b.next - 1 \subseteq handled[tp]

\* Handled records leave no hole.
HandledPrefix ==
    \A tp \in Partitions :
        /\ handled[tp] \subseteq 1..end[tp]
        /\ \A n \in handled[tp] : 1..n \subseteq handled[tp]

IInv == TypeOK /\ CommittedHandled /\ NothingSkipped /\ BatchFollows /\ HandledPrefix

-----------------------------------------------------------------------------
LEMMA InitIInv == Init => IInv
<1> SUFFICES ASSUME Init PROVE IInv
  OBVIOUS
<1> USE DEF Init
<1>1. TypeOK
  BY ConsumerAssumption DEF TypeOK, NothingRead, Empty
<1>2. CommittedHandled /\ HandledPrefix
  BY DEF CommittedHandled, HandledPrefix
<1>3. NothingSkipped
  BY DEF NothingSkipped, NothingRead
<1>4. BatchFollows
  BY DEF BatchFollows, Empty
<1> QED
  BY <1>1, <1>2, <1>3, <1>4 DEF IInv

LEMMA ProduceIInv ==
    ASSUME IInv, NEW tp \in Partitions, Produce(tp)
    PROVE  IInv'
<1> USE DEF IInv, Produce, clientVars
<1>1. end' \in [Partitions -> 0..MaxRecords] /\ \A u \in Partitions : end[u] <= end'[u]
  BY ConsumerAssumption DEF TypeOK
<1>2. TypeOK'
  BY <1>1 DEF TypeOK
<1>3. CommittedHandled' /\ NothingSkipped'
  BY DEF CommittedHandled, NothingSkipped
<1>4. BatchFollows'
  BY <1>1 DEF BatchFollows, TypeOK
<1>5. HandledPrefix'
  BY <1>1 DEF HandledPrefix, TypeOK
<1> QED
  BY <1>2, <1>3, <1>4, <1>5

LEMMA RebalanceIInv ==
    ASSUME IInv, NEW new \in [Partitions -> up], Rebalance(new)
    PROVE  IInv'
<1> USE DEF IInv, Rebalance
<1>1. \A m \in Members, tp \in Partitions :
         position'[m][tp] \in {0, position[m][tp], committed[tp]}
  BY DEF StartOffset
<1>2. TypeOK'
  <2>1. owner' \in [Partitions -> up' \cup {None}]
    BY DEF TypeOK
  <2>2. position' \in [Members -> [Partitions -> 0..MaxRecords]]
    BY ConsumerAssumption DEF TypeOK, StartOffset
  <2>3. rebalances' \in 0..MaxRebalances
    BY ConsumerAssumption DEF TypeOK
  <2> QED
    BY <2>1, <2>2, <2>3 DEF TypeOK
<1>3. NothingSkipped'
  BY <1>1 DEF NothingSkipped, CommittedHandled
<1>4. CommittedHandled' /\ BatchFollows' /\ HandledPrefix'
  BY DEF CommittedHandled, BatchFollows, HandledPrefix
<1> QED
  BY <1>2, <1>3, <1>4

LEMMA StartIInv ==
    ASSUME IInv, NEW m \in Members, Start(m)
    PROVE  IInv'
<1> USE DEF IInv, Start, brokerVars
<1>1. TypeOK'
  BY DEF TypeOK
<1> QED
  BY <1>1 DEF CommittedHandled, NothingSkipped, BatchFollows, HandledPrefix

LEMMA CrashIInv ==
    ASSUME IInv, NEW m \in Members, Crash(m)
    PROVE  IInv'
<1> USE DEF IInv, Crash
<1>1. /\ batch'[m] = Empty /\ DOMAIN batch' = Members
      /\ \A n \in Members \ {m} : batch'[n] = batch[n]
      /\ DOMAIN Empty = {}
  BY DEF TypeOK, Empty
<1>2. TypeOK'
  <2>1. position' \in [Members -> [Partitions -> 0..MaxRecords]]
    BY ConsumerAssumption DEF TypeOK, NothingRead
  <2>2. faults' \in 0..MaxFaults
    BY ConsumerAssumption DEF TypeOK
  <2>3. up' \subseteq Members /\ owner' \in [Partitions -> up' \cup {None}]
    BY DEF TypeOK
  <2> QED
    BY <1>1, <2>1, <2>2, <2>3 DEF TypeOK
<1>3. NothingSkipped'
  BY <1>1 DEF NothingSkipped, NothingRead, TypeOK
<1>4. CommittedHandled' /\ BatchFollows' /\ HandledPrefix'
  BY <1>1 DEF CommittedHandled, BatchFollows, HandledPrefix
<1> QED
  BY <1>2, <1>3, <1>4

\* The batch a poll returns starts where the pod has read up to.
LEMMA PollFetchesIInv ==
    ASSUME IInv, NEW m \in Members, NEW upto \in Fetches(m), PollFetches(m, upto)
    PROVE  IInv'
<1> DEFINE new == NewBatch(m, upto)
<1> USE DEF IInv, PollFetches, Polling, brokerVars
<1>1. /\ batch[m] = Empty /\ DOMAIN Empty = {}
      /\ batch'[m] = new /\ DOMAIN batch' = Members
      /\ \A n \in Members \ {m} : batch'[n] = batch[n]
  BY DEF TypeOK, Empty
<1>2. /\ DOMAIN new = { tp \in Owned(m) : position[m][tp] < upto[tp] }
      /\ \A tp \in DOMAIN new : new[tp] = [next |-> position[m][tp] + 1, last |-> upto[tp]]
  BY DEF NewBatch
<1>3. /\ \A tp \in Owned(m) : /\ tp \in Partitions /\ upto[tp] \in 0..MaxRecords
                              /\ position[m][tp] <= upto[tp] /\ upto[tp] <= end[tp]
      /\ \A tp \in Partitions : position[m][tp] \in 0..MaxRecords
  BY DEF Fetches, Owned, TypeOK
<1>4. /\ \A tp \in Partitions :
            position'[m][tp] = IF tp \in Owned(m) THEN upto[tp] ELSE position[m][tp]
      /\ \A n \in Members \ {m} : position'[n] = position[n]
      /\ position' \in [Members -> [Partitions -> 0..MaxRecords]]
  BY <1>3 DEF Advance, TypeOK
<1>5. TypeOK'
  <2>1. \A tp \in DOMAIN new :
           tp \in Partitions /\ new[tp] \in [next : 1..MaxRecords + 1, last : 1..MaxRecords]
    BY <1>2, <1>3, ConsumerAssumption
  <2> HIDE DEF new
  <2> QED
    BY <1>1, <1>4, <2>1 DEF TypeOK
\* What was read before is handled, since the pod has nothing in hand.
<1>6. \A tp \in Partitions : 1..position[m][tp] \subseteq handled[tp]
  BY <1>1 DEF NothingSkipped
<1>7. NothingSkipped'
  <2> SUFFICES ASSUME NEW n \in Members, NEW tp \in Partitions
               PROVE  1..position'[n][tp] \subseteq
                        handled[tp] \cup IF tp \in DOMAIN batch'[n]
                                         THEN batch'[n][tp].next..batch'[n][tp].last ELSE {}
    BY DEF NothingSkipped
  <2>1. CASE n # m
    BY <1>1, <1>4, <2>1 DEF NothingSkipped
  <2>2. CASE n = m /\ tp \in DOMAIN new
    BY <1>1, <1>2, <1>3, <1>4, <1>6, <2>2
  <2>3. CASE n = m /\ tp \notin DOMAIN new
    <3>1. position'[m][tp] = position[m][tp]
      <4>1. CASE tp \in Owned(m)
        <5>1. ~(position[m][tp] < upto[tp]) /\ position[m][tp] <= upto[tp]
          BY <1>2, <1>3, <2>3, <4>1
        <5>2. upto[tp] \in Nat /\ position[m][tp] \in Nat
          BY <1>3, <4>1
        <5> QED
          BY <1>4, <4>1, <5>1, <5>2
      <4>2. CASE tp \notin Owned(m)
        BY <1>4, <4>2
      <4> QED
        BY <4>1, <4>2
    <3> QED
      BY <1>6, <2>3, <3>1
  <2> QED
    BY <2>1, <2>2, <2>3
<1>8. BatchFollows'
  <2> SUFFICES ASSUME NEW n \in Members, NEW tp \in DOMAIN batch'[n]
               PROVE  LET b == batch'[n][tp]
                      IN  /\ b.next <= b.last + 1 /\ b.last <= end[tp]
                          /\ 1..b.next - 1 \subseteq handled[tp]
    BY DEF BatchFollows
  <2>1. CASE n # m
    BY <1>1, <2>1 DEF BatchFollows
  <2>2. CASE n = m
    BY <1>1, <1>2, <1>3, <1>6, <2>2
  <2> QED
    BY <2>1, <2>2
<1>9. CommittedHandled' /\ HandledPrefix'
  BY DEF CommittedHandled, HandledPrefix
<1> QED
  BY <1>5, <1>7, <1>8, <1>9

\* Without mixed fetches an erroneous poll has advanced nothing.
LEMMA PollErrorIInv ==
    ASSUME ~MixedFetch, IInv, NEW m \in Members, NEW upto \in Fetches(m),
           PollError(m, upto)
    PROVE  IInv'
<1> USE DEF IInv, PollError, brokerVars
<1>1. \A tp \in Owned(m) : upto[tp] = position[m][tp]
  <2>1. { tp \in Owned(m) : position[m][tp] < upto[tp] } = {}
    BY DEF NewBatch, Empty
  <2>2. \A tp \in Owned(m) : /\ upto[tp] \in 0..MaxRecords /\ position[m][tp] <= upto[tp]
                             /\ position[m][tp] \in 0..MaxRecords
    BY DEF Fetches, Owned, TypeOK
  <2> QED
    BY <2>1, <2>2
<1>2. \A n \in Members, tp \in Partitions : position'[n][tp] = position[n][tp]
  BY <1>1 DEF Advance, TypeOK
<1>3. TypeOK'
  <2>1. position' \in [Members -> [Partitions -> 0..MaxRecords]]
    BY <1>1 DEF Advance, TypeOK
  <2>2. faults' \in 0..MaxFaults
    BY ConsumerAssumption DEF TypeOK
  <2> QED
    BY <2>1, <2>2 DEF TypeOK
<1>4. NothingSkipped'
  BY <1>2 DEF NothingSkipped
<1>5. CommittedHandled' /\ BatchFollows' /\ HandledPrefix'
  BY DEF CommittedHandled, BatchFollows, HandledPrefix
<1> QED
  BY <1>3, <1>4, <1>5

LEMMA HandleRecordIInv ==
    ASSUME IInv, NEW m \in Members, NEW tp \in DOMAIN batch[m], HandleRecord(m, tp)
    PROVE  IInv'
<1> DEFINE b == batch[m][tp]
<1> USE DEF IInv, HandleRecord, brokerVars
<1>1. /\ tp \in Partitions /\ b \in [next : 1..MaxRecords + 1, last : 1..MaxRecords]
      /\ b.next <= b.last /\ b.last <= end[tp] /\ 1..b.next - 1 \subseteq handled[tp]
      /\ end[tp] \in 0..MaxRecords
  BY DEF TypeOK, BatchFollows
<1>2. /\ DOMAIN batch' = Members /\ DOMAIN batch'[m] = DOMAIN batch[m]
      /\ batch'[m][tp] = [b EXCEPT !.next = @ + 1]
      /\ \A u \in DOMAIN batch[m] \ {tp} : batch'[m][u] = batch[m][u]
      /\ \A n \in Members \ {m} : batch'[n] = batch[n]
  BY DEF TypeOK
<1>3. batch'[m][tp].next = b.next + 1 /\ batch'[m][tp].last = b.last
  BY <1>1, <1>2
<1>4. /\ handled'[tp] = handled[tp] \cup {b.next}
      /\ \A u \in Partitions \ {tp} : handled'[u] = handled[u]
      /\ handled' \in [Partitions -> SUBSET (1..MaxRecords)]
  BY <1>1, ConsumerAssumption DEF TypeOK
<1>5. TypeOK'
  <2>1. batch'[m][tp] \in [next : 1..MaxRecords + 1, last : 1..MaxRecords]
    BY <1>1, <1>2, ConsumerAssumption
  <2> HIDE DEF b
  <2>2. \A n \in Members : /\ DOMAIN batch'[n] \subseteq Partitions
                           /\ \A u \in DOMAIN batch'[n] :
                                 batch'[n][u] \in [next : 1..MaxRecords + 1, last : 1..MaxRecords]
    BY <1>2, <2>1 DEF TypeOK
  <2> QED
    BY <1>2, <1>4, <2>2 DEF TypeOK
<1>6. CommittedHandled'
  BY <1>1, <1>4 DEF CommittedHandled
<1>7. NothingSkipped'
  <2> SUFFICES ASSUME NEW n \in Members, NEW u \in Partitions
               PROVE  1..position[n][u] \subseteq
                        handled'[u] \cup IF u \in DOMAIN batch'[n]
                                         THEN batch'[n][u].next..batch'[n][u].last ELSE {}
    BY DEF NothingSkipped
  <2>1. CASE n = m /\ u = tp
    <3>1. 1..position[m][tp] \subseteq handled[tp] \cup b.next..b.last
      BY DEF NothingSkipped, TypeOK
    <3> QED
      BY <1>1, <1>2, <1>3, <1>4, <2>1, <3>1
  <2>2. CASE n # m \/ u # tp
    <3>1. u \in DOMAIN batch'[n] <=> u \in DOMAIN batch[n]
      BY <1>2
    <3>2. u \in DOMAIN batch[n] => batch'[n][u] = batch[n][u]
      BY <1>2, <2>2
    <3>3. handled[u] \subseteq handled'[u]
      BY <1>1, <1>4
    <3> QED
      BY <3>1, <3>2, <3>3 DEF NothingSkipped
  <2> QED
    BY <2>1, <2>2
<1>8. BatchFollows'
  <2> SUFFICES ASSUME NEW n \in Members, NEW u \in DOMAIN batch'[n]
               PROVE  /\ batch'[n][u].next <= batch'[n][u].last + 1
                      /\ batch'[n][u].last <= end[u]
                      /\ 1..batch'[n][u].next - 1 \subseteq handled'[u]
    BY DEF BatchFollows
  <2>1. CASE n = m /\ u = tp
    BY <1>1, <1>3, <1>4, <2>1
  <2>2. CASE n # m \/ u # tp
    <3>1. u \in DOMAIN batch[n] /\ batch'[n][u] = batch[n][u] /\ u \in Partitions
      BY <1>2, <2>2 DEF TypeOK
    <3>2. handled[u] \subseteq handled'[u]
      BY <1>1, <1>4, <3>1
    <3> QED
      BY <3>1, <3>2 DEF BatchFollows
  <2> QED
    BY <2>1, <2>2
<1>9. HandledPrefix'
  <2> SUFFICES ASSUME NEW u \in Partitions
               PROVE  /\ handled'[u] \subseteq 1..end[u]
                      /\ \A n \in handled'[u] : 1..n \subseteq handled'[u]
    BY DEF HandledPrefix
  <2>1. handled[u] \subseteq 1..end[u] /\ \A n \in handled[u] : 1..n \subseteq handled[u]
    BY DEF HandledPrefix
  <2>2. CASE u = tp
    BY <1>1, <1>4, <2>1, <2>2
  <2>3. CASE u # tp
    BY <1>4, <2>1, <2>3
  <2> QED
    BY <2>2, <2>3
<1> QED
  BY <1>5, <1>6, <1>7, <1>8, <1>9

\* What is committed is the end of a batch that has been handled.
LEMMA CommitRecordsIInv ==
    ASSUME IInv, NEW m \in Members, CommitRecords(m)
    PROVE  IInv'
<1> USE DEF IInv, CommitRecords
<1>1. /\ batch'[m] = Empty /\ DOMAIN Empty = {} /\ DOMAIN batch' = Members
      /\ \A n \in Members \ {m} : batch'[n] = batch[n]
  BY DEF TypeOK, Empty
<1>2. \A tp \in DOMAIN batch[m] :
         /\ tp \in Partitions /\ batch[m][tp].last \in 1..MaxRecords
         /\ batch[m][tp].next = batch[m][tp].last + 1
         /\ 1..batch[m][tp].last \subseteq handled[tp]
  BY DEF AllHandled, BatchFollows, TypeOK
<1>3. TypeOK'
  <2>1. committed' \in [Partitions -> 0..MaxRecords]
    BY <1>2, ConsumerAssumption DEF TypeOK, CommitOffset
  <2> QED
    BY <1>1, <2>1 DEF TypeOK
<1>4. CommittedHandled'
  BY <1>2 DEF CommittedHandled, CommitOffset
<1>5. NothingSkipped'
  <2> SUFFICES ASSUME NEW n \in Members, NEW tp \in Partitions
               PROVE  1..position[n][tp] \subseteq
                        handled[tp] \cup IF tp \in DOMAIN batch'[n]
                                         THEN batch'[n][tp].next..batch'[n][tp].last ELSE {}
    BY DEF NothingSkipped
  <2>1. CASE n # m
    BY <1>1, <2>1 DEF NothingSkipped
  <2>2. CASE n = m
    <3>1. tp \in DOMAIN batch[m] => batch[m][tp].next..batch[m][tp].last = {}
      BY <1>2
    <3> QED
      BY <2>2, <3>1 DEF NothingSkipped
  <2> QED
    BY <2>1, <2>2
<1>6. BatchFollows' /\ HandledPrefix'
  BY <1>1 DEF BatchFollows, HandledPrefix
<1> QED
  BY <1>3, <1>4, <1>5, <1>6

LEMMA StutterIInv == ASSUME IInv, UNCHANGED vars PROVE IInv'
<1> USE DEF vars, brokerVars, clientVars
<1> QED
  BY DEF IInv, TypeOK, CommittedHandled, NothingSkipped, BatchFollows, HandledPrefix

LEMMA NextIInv == ASSUME ~MixedFetch, IInv, [Next]_vars PROVE IInv'
<1>1. CASE \E tp \in Partitions : Produce(tp)
  BY <1>1, ProduceIInv
<1>2. CASE \E new \in [Partitions -> up] : Rebalance(new)
  BY <1>2, RebalanceIInv
<1>3. CASE \E m \in Members : Start(m) \/ Crash(m) \/ CommitRecords(m)
  BY <1>3, StartIInv, CrashIInv, CommitRecordsIInv
<1>4. CASE \E m \in Members : \E upto \in Fetches(m) : PollFetches(m, upto) \/ PollError(m, upto)
  BY <1>4, PollFetchesIInv, PollErrorIInv
<1>5. CASE \E m \in Members : \E tp \in DOMAIN batch[m] : HandleRecord(m, tp)
  BY <1>5, HandleRecordIInv
<1>6. CASE Rest \/ UNCHANGED vars
  BY <1>6, StutterIInv DEF Rest
<1> QED
  BY <1>1, <1>2, <1>3, <1>4, <1>5, <1>6 DEF Next

\* Where the client does not mix records and errors, the invariant holds in every
\* behaviour, whatever pods exit, start, and win or lose partitions.
THEOREM Invariance == ASSUME ~MixedFetch PROVE Spec => []IInv
  BY InitIInv, NextIInv, PTL DEF Spec

-----------------------------------------------------------------------------
(* What follows *)

\* Offsets and batches have their types and stay in the log.
THEOREM TypeCorrect == ASSUME ~MixedFetch PROVE Spec => []TypeOK
<1>1. IInv => TypeOK
  BY DEF IInv
<1> QED
  BY <1>1, Invariance, PTL

\* Only what was handled, with all that came before it, is ever committed, though
\* a pod commits batches of partitions that it has lost to another one.
THEOREM CommitsOnlyHandled == ASSUME ~MixedFetch PROVE Spec => []CommittedHandled
<1>1. IInv => CommittedHandled
  BY DEF IInv
<1> QED
  BY <1>1, Invariance, PTL

\* No pod has read past a record that is neither handled nor in its hands.
THEOREM SkipsNothing == ASSUME ~MixedFetch PROVE Spec => []NothingSkipped
<1>1. IInv => NothingSkipped
  BY DEF IInv
<1> QED
  BY <1>1, Invariance, PTL

\* A set of numbers without holes is an interval.
LEMMA Interval ==
    ASSUME NEW n \in Nat, NEW S \in SUBSET (1..n), \A k \in S : 1..k \subseteq S
    PROVE  Cardinality(S) \in Nat /\ S = 1..Cardinality(S)
<1> DEFINE T == { k \in Nat : k > 0 /\ k \notin S }
<1>1. T \subseteq Nat /\ n + 1 \in T
  OBVIOUS
<1>2. PICK least \in T : \A k \in T : ~(k < least)
  <2>1. PICK x \in T : \A y \in T : <<y, x>> \notin OpToRel(<, Nat)
    <3> HIDE DEF T
    <3> QED
      BY <1>1, NatLessThanWellFounded, WFMin
  <2> QED
    BY <2>1 DEF OpToRel
<1>3. S = 1..least - 1
  <2>1. \A k \in Nat : k > 0 /\ k < least => k \in S
    BY <1>2
  <2>2. \A k \in S : k \in 1..least - 1
    BY <1>2
  <2>3. \A k \in 1..least - 1 : k \in S
    BY <1>2, <2>1
  <2> HIDE DEF T
  <2> QED
    BY <2>2, <2>3
<1>4. Cardinality(1..least - 1) = least - 1
  BY FS_Interval
<1> QED
  BY <1>3, <1>4

LEMMA HandledInterval ==
    ASSUME IInv, NEW tp \in Partitions
    PROVE  Cardinality(handled[tp]) \in Nat /\ handled[tp] = 1..Cardinality(handled[tp])
<1>1. /\ end[tp] \in Nat
      /\ handled[tp] \in SUBSET (1..end[tp])
      /\ \A k \in handled[tp] : 1..k \subseteq handled[tp]
  BY DEF IInv, TypeOK, HandledPrefix
<1> QED
  BY <1>1, Interval

\* A record is first handled after all its predecessors, whichever pods handle
\* them.
THEOREM HandlesInOrder == ASSUME ~MixedFetch PROVE Spec => []HandledInOrder
<1>1. IInv => HandledInOrder
  BY HandledInterval DEF HandledInOrder
<1> QED
  BY <1>1, Invariance, PTL

\* Every step of the group is one that AtLeastOnce allows, or changes nothing of
\* what it speaks of.
LEMMA StepAllowed ==
    ASSUME IInv, IInv', [Next]_vars
    PROVE  [Delivery!Next]_(Delivery!atLeastOnceVars)
<1> DEFINE done == [tp \in Partitions |-> Cardinality(handled[tp])]
<1> USE DEF Delivery!atLeastOnceVars
<1>1. ASSUME NEW tp \in Partitions, Produce(tp) PROVE Delivery!Produce(tp)
  BY <1>1 DEF Produce, Delivery!Produce
<1>2. ASSUME NEW m \in Members, NEW tp \in DOMAIN batch[m], HandleRecord(m, tp)
      PROVE  tp \in Partitions /\ \E k \in 1..end[tp] : Delivery!Handle(tp, k)
  <2> DEFINE k == batch[m][tp].next
  <2>1. /\ tp \in Partitions /\ k \in Nat /\ k > 0 /\ k \in 1..end[tp]
        /\ 1..k - 1 \subseteq handled[tp]
        /\ handled' = [handled EXCEPT ![tp] = @ \cup {k}]
        /\ end' = end
    BY <1>2 DEF IInv, TypeOK, BatchFollows, HandleRecord, brokerVars
  <2>2. /\ done[tp] \in Nat /\ handled[tp] = 1..done[tp]
        /\ done'[tp] \in Nat /\ handled'[tp] = 1..done'[tp]
    <3>1. /\ end'[tp] \in Nat
          /\ handled'[tp] \in SUBSET (1..end'[tp])
          /\ \A j \in handled'[tp] : 1..j \subseteq handled'[tp]
      BY <2>1 DEF IInv, TypeOK, HandledPrefix
    <3>2. Cardinality(handled'[tp]) \in Nat /\ handled'[tp] = 1..Cardinality(handled'[tp])
      BY <3>1, Interval
    <3> QED
      BY <2>1, <3>2, HandledInterval
  <2>3. handled'[tp] = 1..done[tp] \cup {k}
    BY <2>1, <2>2 DEF IInv, TypeOK
  <2> HIDE DEF k
  <2>4. k <= done[tp] + 1
    <3> DEFINE d == done[tp]
    <3>1. d \in Nat /\ k \in Nat /\ 1..k - 1 \subseteq 1..d
      BY <2>1, <2>2
    <3> HIDE DEF d
    <3>2. k <= d + 1
      BY <3>1
    <3> QED
      BY <3>2 DEF d
  <2>5. done'[tp] = IF k > done[tp] THEN k ELSE done[tp]
    <3> DEFINE d == done[tp]
               e == done'[tp]
    <3>1. d \in Nat /\ e \in Nat /\ k \in Nat /\ k > 0 /\ k <= d + 1 /\ 1..e = 1..d \cup {k}
      <4> HIDE DEF done
      <4> QED
        BY <2>1, <2>2, <2>3, <2>4
    <3> HIDE DEF d, e
    <3>2. e = IF k > d THEN k ELSE d
      BY <3>1
    <3> QED
      BY <3>2 DEF d, e
  <2>6. \A u \in Partitions \ {tp} : done'[u] = done[u]
    BY <2>1
  <2>7. done' = [done EXCEPT ![tp] = IF k > @ THEN k ELSE @]
    BY <2>1, <2>5, <2>6
  <2>8. Delivery!Handle(tp, k)
    BY <2>1, <2>4, <2>7 DEF Delivery!Handle
  <2> QED
    BY <2>1, <2>8
<1>3. CASE UNCHANGED <<end, handled>>
  BY <1>3
<1> QED
  BY <1>1, <1>2, <1>3
  DEF Next, vars, brokerVars, Rebalance, Start, Crash, CommitRecords, PollFetches,
      PollError, Rest, Delivery!Next

\* The group, with its exits, rebalances and repeated commits, keeps the safety
\* part of the promise of AtLeastOnce: the rule by which EventLog offers records
\* to the services.
THEOREM ImplementsAtLeastOnce == ASSUME ~MixedFetch PROVE Spec => Delivery!SafeSpec
<1>1. Init => Delivery!Init
  BY FS_EmptySet DEF Init, Delivery!Init
<1> QED
  BY <1>1, Invariance, StepAllowed, PTL DEF Spec, Delivery!SafeSpec
=============================================================================
