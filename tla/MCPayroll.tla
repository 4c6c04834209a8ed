----------------------------- MODULE MCPayroll -----------------------------
(* The instance of Payroll for TLC.                                         *)
EXTENDS Payroll, TLC

\* Maker, Checker, Finance; without a checker; and chains of two and three.
Standard == [stages |-> 0, checker |-> TRUE, distinct |-> TRUE]
TwoStep == [stages |-> 0, checker |-> FALSE, distinct |-> TRUE]
Chain(n) == [stages |-> n, checker |-> TRUE, distinct |-> TRUE]

SignPolicies == {Standard, TwoStep, Chain(2), Chain(3)}
AllOps == Ops

\* What consecutive months settle.
DueOps == {"none", "create", "calculate", "submit", "decide", "lock", "post-lock", "lock-month",
           "advance", "act-advance", "save-vp", "calculate-vp", "decide-vp"}

\* The approval of one month that owes nothing: any matrix, any signer, its
\* attendance locked anew.
Signing ==
    /\ advance.status = "None" /\ quarter = "None" /\ crashes = 0
    /\ \A p \in Periods \ {1} : ~att[p].locked /\ run[p] = NoRun
    /\ \A w \in Workers : task[w].p \in {0, 1}

Busy(op) == {task[w].who : w \in {v \in Workers : task[v].op = op}}
Single(people) == Cardinality(people \ {"none"}) <= 1

\* What two months settle, of one maker and one approver, each month locked once,
\* under one matrix without a checker and without manual lines; any two of the three
\* kinds of dues at once.
Settling ==
    /\ policy = TwoStep
    /\ \/ advance.status = "None"
       \/ quarter = "None"
       \/ \A c \in Carries : carry[c].status = "None"
    /\ \A p \in Periods : /\ att[p].stamp = IF att[p].locked THEN 1 ELSE 0
                          /\ run[p].checked = "none" /\ run[p].stage = 0
                          /\ record[p].line = NoLine
    /\ \A w \in Workers : task[w].op \in DueOps
    /\ Single({run[p].by : p \in Periods} \cup Busy("submit"))
    /\ Single({run[p].decided : p \in Periods} \cup Busy("decide"))

\* Bound: the two are explored side by side, not multiplied by each other.
Scope == Signing \/ Settling

Symmetry == Permutations(People) \cup Permutations(Carries)
=============================================================================
