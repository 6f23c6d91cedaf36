------------------------------- MODULE MCTunn --------------------------------
(***************************************************************************)
(* Instances of Tunn for TLC.                                              *)
(***************************************************************************)
EXTENDS Tunn

Symmetry == Permutations({A, B})
==============================================================================
