------------------------------- MODULE MCCart -------------------------------
(***************************************************************************)
(* The products of a cart are interchangeable.                             *)
(***************************************************************************)
EXTENDS Cart, TLC

Symmetry == Permutations(Products)
=============================================================================
