--------------------------- MODULE MCConfigChange ---------------------------
(* Instances of ConfigChange for TLC.                                       *)
EXTENDS ConfigChange, TLC

AllOps == {"save", "set-status", "assign", "create", "analyse", "submit", "decide",
           "withdraw", "activate"}

Symmetry == Permutations(Requests) \cup Permutations(People)
=============================================================================
