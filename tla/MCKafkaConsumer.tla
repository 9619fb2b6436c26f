-------------------------- MODULE MCKafkaConsumer --------------------------
(***************************************************************************)
(* Two pods and two partitions, the least with which a pod can lose one of *)
(* the partitions of its batch; pods and partitions are interchangeable.   *)
(***************************************************************************)
EXTENDS KafkaConsumer, TLC

Symmetry == Permutations(Members) \cup Permutations(Partitions)
=============================================================================
