---------------------------- MODULE MCLeadership ----------------------------
(* The instance of Leadership for TLC.                                      *)
EXTENDS Leadership, TLC

Symmetry == Permutations(Givers) \cup Permutations(Workers)
=============================================================================
