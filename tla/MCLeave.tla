------------------------------ MODULE MCLeave ------------------------------
(* Instances of Leave for TLC: the entry points each run exercises.          *)
EXTENDS Leave, TLC

\* Leave numbers, approvers and workers are interchangeable.
Symmetry == Permutations(Leaves) \cup Permutations(Deciders)
WorkerSymmetry == Permutations(Workers) \cup Permutations(Deciders)

AllOps == AttendanceOps \cup LeaveOps \cup {"expire"}

\* Everything that reads a lock, sets it or writes a day.
DayOps == AttendanceOps \cup {"apply", "act", "cancel"}
=============================================================================
