------------------------------ MODULE MCHiring ------------------------------
(* The instance of Hiring for TLC.                                            *)
EXTENDS Hiring, TLC

Symmetry == Permutations(Workers) \cup Permutations(Offers)

\* The acts that move one candidate forward, and those that undo them.
RaceOps == {"select", "hand", "create", "approve", "send", "revoke", "respond",
            "draft-letter", "send-letter", "cancel-letter", "onboard", "employ"}

\* Nothing parked, marked a duplicate or deleted, one salary, no letter opened.
Plain ==
    /\ \A o \in Offers : offer[o].ctc <= 1 /\ (offer[o].status = "None" => Unused(o))
    /\ \A c \in Cands : /\ letter[c] \notin {"PendingAck", "Acknowledged"}
                        /\ stage[c] \notin {"Duplicate", "Gone"}
                        /\ stage[c] = "Pipeline" => OffersTo(c) = {}

Overlaps == \E v, w \in Workers : v # w /\ task[v] # Idle /\ task[w] # Idle

\* Bounds: two requests overlap only in RaceOps, over Plain candidates and before a
\* restart, which comes over Plain ones too; anything may happen one request at a time.
Scope ==
    /\ crashes > 0 => Plain
    /\ Overlaps => /\ Plain /\ crashes = 0
                   /\ \A w \in Workers : task[w].op \in RaceOps \cup {"none"} /\ task[w].ctc <= 1
=============================================================================
