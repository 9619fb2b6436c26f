---------------------------- MODULE AtLeastOnce ----------------------------
(***************************************************************************)
(* What a consumer group promises about the partitions it subscribes to:   *)
(* every record is handled, none before all its predecessors, and any of   *)
(* them again at any later time.  This is the rule by which EventLog hands *)
(* events to the handlers of the services.                                 *)
(***************************************************************************)
EXTENDS Integers

CONSTANT Partitions

VARIABLES end,    \* records in a partition
          done    \* the length of the prefix handled at least once

atLeastOnceVars == <<end, done>>

Init == /\ end = [tp \in Partitions |-> 0]
        /\ done = [tp \in Partitions |-> 0]

Produce(tp) == /\ end' = [end EXCEPT ![tp] = @ + 1]
               /\ UNCHANGED done

\* Handling record k again changes nothing here.
Handle(tp, k) == /\ k <= end[tp]
                 /\ k <= done[tp] + 1
                 /\ done' = [done EXCEPT ![tp] = IF k > @ THEN k ELSE @]
                 /\ UNCHANGED end

Next == \E tp \in Partitions : \/ Produce(tp)
                               \/ \E k \in 1..end[tp] : Handle(tp, k)

SafeSpec == Init /\ [][Next]_atLeastOnceVars

LiveSpec == /\ SafeSpec
            /\ \A tp \in Partitions : WF_atLeastOnceVars(Handle(tp, done[tp] + 1))
=============================================================================
