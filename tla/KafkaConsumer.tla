--------------------------- MODULE KafkaConsumer ---------------------------
(***************************************************************************)
(* pkg/kafka's Consumer: the pods of one consumer group, each in the loop  *)
(* Run: poll a batch, handle its records one by one, commit the batch.     *)
(*                                                                         *)
(* The broker and the franz-go client are modelled from how Run uses them. *)
(* The client joins, leaves and rebalances in the background: a pod may    *)
(* lose a partition while it is still handling records of it, finishes its *)
(* batch all the same, and its commit is still accepted if it is a member  *)
(* of the group under any assignment.  A partition newly assigned is read  *)
(* from the committed offset.                                              *)
(*                                                                         *)
(* A pod whose Run returns an error exits and is restarted (Crash, Start). *)
(***************************************************************************)
EXTENDS Integers, FiniteSets, Functions

CONSTANTS Members,        \* the pods of the service
          None,           \* the owner of a partition that has none
          Partitions,     \* the partitions the group subscribes to
          MixedFetch,     \* may a poll return records next to an error?
          MaxRecords,     \* bound on the records produced per partition
          MaxFaults,      \* bound on the exits of pods and the failed polls
          MaxRebalances   \* bound on rebalances with all partitions owned

ASSUME ConsumerAssumption ==
    /\ None \notin Members
    /\ MixedFetch \in BOOLEAN
    /\ MaxRecords \in Nat /\ MaxFaults \in Nat /\ MaxRebalances \in Nat

VARIABLES end,         \* broker: records in a partition
          committed,   \* broker: the group's committed offset
          owner,       \* broker: the pod a partition is assigned to
          up,          \* the pods that run
          position,    \* client: the records of a partition read so far
          batch,       \* Run: the polled records, as partition -> offsets
          handled,     \* the offsets whose handler returned nil, ever
          faults, rebalances   \* spent so far

brokerVars == <<end, committed, owner>>
clientVars == <<up, position, batch>>
vars == <<brokerVars, clientVars, handled, faults, rebalances>>

Empty == [tp \in {} |-> [next |-> 0, last |-> 0]]

TypeOK ==
    /\ end \in [Partitions -> 0..MaxRecords]
    /\ committed \in [Partitions -> 0..MaxRecords]
    /\ owner \in [Partitions -> up \cup {None}]
    /\ up \subseteq Members
    /\ position \in [Members -> [Partitions -> 0..MaxRecords]]
    /\ DOMAIN batch = Members
    /\ \A m \in Members :
          /\ DOMAIN batch[m] \subseteq Partitions
          /\ \A tp \in DOMAIN batch[m] :
                batch[m][tp] \in [next : 1..MaxRecords + 1, last : 1..MaxRecords]
    /\ handled \in [Partitions -> SUBSET (1..MaxRecords)]
    /\ faults \in 0..MaxFaults /\ rebalances \in 0..MaxRebalances

NothingRead == [tp \in Partitions |-> 0]

Init ==
    /\ end = [tp \in Partitions |-> 0]
    /\ committed = [tp \in Partitions |-> 0]
    /\ owner = [tp \in Partitions |-> None]
    /\ up = {}
    /\ position = [m \in Members |-> NothingRead]
    /\ batch = [m \in Members |-> Empty]
    /\ handled = [tp \in Partitions |-> {}]
    /\ faults = 0 /\ rebalances = 0

-----------------------------------------------------------------------------
(* The broker and the group *)

Produce(tp) ==
    /\ end[tp] < MaxRecords
    /\ end' = [end EXCEPT ![tp] = @ + 1]
    /\ UNCHANGED <<committed, owner, clientVars, handled, faults, rebalances>>

\* A mutant of StartOffset: a new owner starts at the end.
StartAtEnd(tp) == end[tp]

\* Where a pod starts reading a partition it is given.
StartOffset(tp) == committed[tp]

\* The group gives every partition to a running pod.  A pod starts a partition
\* it did not own at the committed offset, and forgets one it has lost.
Rebalance(new) ==
    /\ new \in [Partitions -> up]
    /\ new # owner
    /\ IF None \in Range(owner)
       THEN UNCHANGED rebalances
       ELSE rebalances < MaxRebalances /\ rebalances' = rebalances + 1
    /\ owner' = new
    /\ position' = [m \in Members |-> [tp \in Partitions |->
                       CASE new[tp] # m -> 0
                         [] new[tp] = m /\ owner[tp] = m -> position[m][tp]
                         [] OTHER -> StartOffset(tp)]]
    /\ UNCHANGED <<end, committed, up, batch, handled, faults>>

Start(m) ==
    /\ m \notin up
    /\ up' = up \cup {m}
    /\ UNCHANGED <<brokerVars, position, batch, handled, faults, rebalances>>

\* Run returns an error, the handler having failed six times or the commit
\* having failed, or the process dies.  The records it held stay uncommitted.
Crash(m) ==
    /\ m \in up
    /\ faults < MaxFaults
    /\ faults' = faults + 1
    /\ up' = up \ {m}
    /\ owner' = [tp \in Partitions |-> IF owner[tp] = m THEN None ELSE owner[tp]]
    /\ position' = [position EXCEPT ![m] = NothingRead]
    /\ batch' = [batch EXCEPT ![m] = Empty]
    /\ UNCHANGED <<end, committed, handled, rebalances>>

-----------------------------------------------------------------------------
(* Run *)

Polling(m) == m \in up /\ batch[m] = Empty

Owned(m) == { tp \in Partitions : owner[tp] = m }

\* What PollFetches may return: from its partitions, the next few records.
Fetches(m) ==
    { upto \in [Owned(m) -> 0..MaxRecords] :
        \A tp \in Owned(m) : position[m][tp] <= upto[tp] /\ upto[tp] <= end[tp] }

\* The client counts what it has returned as read.
Advance(m, upto) ==
    position' = [position EXCEPT ![m] =
                    [tp \in Partitions |-> IF tp \in Owned(m) THEN upto[tp] ELSE @[tp]]]

\* A mutant of NewBatch: starts one record late.
LateBatch(m, upto) ==
    [tp \in { tp \in Owned(m) : position[m][tp] + 1 < upto[tp] } |->
        [next |-> position[m][tp] + 2, last |-> upto[tp]]]

NewBatch(m, upto) ==
    [tp \in { tp \in Owned(m) : position[m][tp] < upto[tp] } |->
        [next |-> position[m][tp] + 1, last |-> upto[tp]]]

PollFetches(m, upto) ==
    /\ Polling(m)
    /\ upto \in Fetches(m)
    /\ NewBatch(m, upto) # Empty
    /\ Advance(m, upto)
    /\ batch' = [batch EXCEPT ![m] = NewBatch(m, upto)]
    /\ UNCHANGED <<brokerVars, up, handled, faults, rebalances>>

\* The fetches carry an error: Run pauses and polls again, and whatever records
\* came in the same fetches are not looked at.
PollError(m, upto) ==
    /\ Polling(m)
    /\ upto \in Fetches(m)
    /\ NewBatch(m, upto) = Empty \/ MixedFetch
    /\ faults < MaxFaults
    /\ faults' = faults + 1
    /\ Advance(m, upto)
    /\ UNCHANGED <<brokerVars, up, batch, handled, rebalances>>

\* The handler returns nil for the next record of a partition in the batch.
HandleRecord(m, tp) ==
    /\ tp \in DOMAIN batch[m]
    /\ batch[m][tp].next <= batch[m][tp].last
    /\ handled' = [handled EXCEPT ![tp] = @ \cup {batch[m][tp].next}]
    /\ batch' = [batch EXCEPT ![m][tp].next = @ + 1]
    /\ UNCHANGED <<brokerVars, up, position, faults, rebalances>>

\* A mutant of AllHandled: commits when one partition of the batch is done.
OneHandled(m) == \E tp \in DOMAIN batch[m] : batch[m][tp].next > batch[m][tp].last

AllHandled(m) == \A tp \in DOMAIN batch[m] : batch[m][tp].next > batch[m][tp].last

\* A mutant of CommitOffset: one record too many.
CommitPast(m, tp) == batch[m][tp].last + 1

CommitOffset(m, tp) == batch[m][tp].last

\* CommitRecords: the last offset of every partition in the batch, be it behind
\* what another pod has committed since.
CommitRecords(m) ==
    /\ batch[m] # Empty
    /\ AllHandled(m)
    /\ committed' = [tp \in Partitions |->
                        IF tp \in DOMAIN batch[m] THEN CommitOffset(m, tp) ELSE committed[tp]]
    /\ batch' = [batch EXCEPT ![m] = Empty]
    /\ UNCHANGED <<end, owner, up, position, handled, faults, rebalances>>

-----------------------------------------------------------------------------
\* All records are produced and handled, and all partitions have an owner with
\* nothing left to read: the pods wait in PollFetches.
Rest ==
    /\ \A tp \in Partitions : /\ end[tp] = MaxRecords
                              /\ owner[tp] # None
                              /\ position[owner[tp]][tp] = end[tp]
    /\ \A m \in Members : batch[m] = Empty
    /\ UNCHANGED vars

Next ==
    \/ \E tp \in Partitions : Produce(tp)
    \/ \E new \in [Partitions -> up] : Rebalance(new)
    \/ \E m \in Members : Start(m) \/ Crash(m) \/ CommitRecords(m)
    \/ \E m \in Members : \E upto \in Fetches(m) : PollFetches(m, upto) \/ PollError(m, upto)
    \/ \E m \in Members : \E tp \in DOMAIN batch[m] : HandleRecord(m, tp)
    \/ Rest

Spec == Init /\ [][Next]_vars

\* Exited pods are restarted, the group reassigns what nobody owns, and a pod
\* goes on with its loop.
Fairness ==
    /\ \A m \in Members :
          /\ WF_vars(Start(m))
          /\ WF_vars(\E upto \in Fetches(m) : PollFetches(m, upto))
          /\ WF_vars(\E tp \in DOMAIN batch[m] : HandleRecord(m, tp))
          /\ WF_vars(CommitRecords(m))
    /\ WF_vars(None \in Range(owner) /\ \E new \in [Partitions -> up] : Rebalance(new))

FairSpec == Spec /\ Fairness

-----------------------------------------------------------------------------
(* Properties *)

\* Offsets are committed only after the record, and every one before it, was
\* handled: whoever reads from the committed offset skips nothing.
CommittedHandled == \A tp \in Partitions : 1..committed[tp] \subseteq handled[tp]

\* The same of what a running pod counts as read, minus its batch: a pod that
\* is given a partition, loses it or finishes a batch late leaves no hole.
NothingSkipped ==
    \A m \in Members, tp \in Partitions :
        LET inBatch == IF tp \in DOMAIN batch[m]
                       THEN batch[m][tp].next..batch[m][tp].last ELSE {}
        IN  1..position[m][tp] \subseteq handled[tp] \cup inBatch

\* A record is first handled only after all its predecessors: the handled
\* records are a prefix, although two pods may work on it at the same time.
HandledInOrder ==
    \A tp \in Partitions : handled[tp] = 1..Cardinality(handled[tp])

\* A group of pods that crash, exit and lose partitions keeps the promise of
\* AtLeastOnce, its liveness included.
Delivery == INSTANCE AtLeastOnce
    WITH done <- [tp \in Partitions |-> Cardinality(handled[tp])]

DeliversAtLeastOnce == Delivery!LiveSpec
=============================================================================
