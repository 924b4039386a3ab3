---------------------------- MODULE MCInterception ----------------------------
(* An instance of Interception for TLC.                                      *)
EXTENDS Interception, TLC
Symmetry == Permutations(Calls)
===============================================================================
