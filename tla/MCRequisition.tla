---------------------------- MODULE MCRequisition ----------------------------
(* The instance of Requisition for TLC.                                       *)
EXTENDS Requisition, TLC

MCFigures == {NoFigure, 1}
AllOps == Ops \cup {"close", "sanction", "headcount"}

WorkerSymmetry == Permutations(Workers)

\* Everything that decides or signs one requisition, at once.
RaceOps == {"raise", "hr-verify", "hr-reject", "escalate-approve", "escalate-reject",
            "scorecard-approve", "scorecard-reject", "draft", "sign", "send-back",
            "delete"}

\* One vacancy, raised here and neither edited nor closed by hand.
Plain ==
    /\ sanctioned = 1 /\ actual = 0
    /\ \A r \in Reqs : /\ req[r].vacancy = 1 /\ jd[r].ver <= 1 /\ card[r].ver = 0
                       /\ req[r].closing = IF req[r].status = "Rejected" THEN "Closed" ELSE "Open"

Overlaps == \E v, w \in Workers : v # w /\ task[v] # Idle /\ task[w] # Idle

\* Bounds: two requests overlap only in RaceOps, and these, like a restart, only
\* over Plain requisitions; anything may happen one request at a time.  Of a
\* requisition that was put on hold, hired for or cancelled nothing more is followed.
Scope ==
    /\ Overlaps => /\ Plain
                   /\ \A w \in Workers : /\ task[w].op \in RaceOps \cup {"none"}
                                         /\ task[w].doc.vacancy = 1
    /\ crashes > 0 => Plain
    /\ \A r \in Reqs : req[r].closing \in {"Open", "Closed"}
=============================================================================
