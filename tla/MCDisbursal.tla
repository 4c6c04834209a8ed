---------------------------- MODULE MCDisbursal ----------------------------
(* Instances of Disbursal for TLC.                                          *)
EXTENDS Disbursal, TLC

AllOps == {"generate", "retry", "update", "close"}

Symmetry == Permutations(Employees) \cup Permutations(Workers)
=============================================================================
