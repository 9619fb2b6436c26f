-------------------------- MODULE MCServiceProcess --------------------------
(***************************************************************************)
(* Pods of a service are interchangeable, and so are its requests.         *)
(***************************************************************************)
EXTENDS ServiceProcess, TLC

Symmetry == Permutations(Pods) \cup Permutations(Requests)
=============================================================================
