-------------------------------- MODULE Hire --------------------------------
(***************************************************************************)
(* What the hiring pipeline promises about a person, whatever its requests *)
(* do to each other: an applicant accepts an offer, is sent a letter, is   *)
(* onboarded and becomes an employee, in that order, each once, and no     *)
(* step of it is ever undone.                                              *)
(***************************************************************************)
CONSTANT Cands

VARIABLE phase

Phases == {"applicant", "accepted", "lettered", "onboarding", "employee"}

Follows == [p \in Phases \ {"applicant"} |->
              CASE p = "accepted" -> "applicant"
                [] p = "lettered" -> "accepted"
                [] p = "onboarding" -> "lettered"
                [] p = "employee" -> "onboarding"]

HireInit == phase = [c \in Cands |-> "applicant"]

Promote(c) ==
    \E p \in Phases \ {"applicant"} :
        /\ phase[c] = Follows[p]
        /\ phase' = [phase EXCEPT ![c] = p]

HireNext == \E c \in Cands : Promote(c)

HireSpec == HireInit /\ [][HireNext]_phase
=============================================================================
