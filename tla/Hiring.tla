------------------------------- MODULE Hiring -------------------------------
(***************************************************************************)
(* From selection to the payroll: the candidate's stage, the offers raised *)
(* to them, their appointment letter, their onboarding case and the        *)
(* employee record it ends in (hrms_candidate_service, hrms_offer_service, *)
(* hrms_appointment_service, hrms_onboarding_service), on the internal     *)
(* track, the only one that still hires.                                   *)
(*                                                                         *)
(* As in Requisition, one database call is one step and any other request  *)
(* may run at each await.  Every one of these services moves the stage in  *)
(* the same way: it reads it, consults the lifecycle graph, and writes     *)
(* without a condition.                                                    *)
(***************************************************************************)
EXTENDS Integers, FiniteSets

CONSTANTS
    Cands,      \* candidates
    Offers,     \* offer numbers next_business_id can hand out
    Workers,    \* requests in flight at once
    Offered,    \* the entry points this instance exercises
    MaxCtc,     \* bound: salaries 1..MaxCtc
    MaxCode,    \* bound: employee codes handed out
    MaxCrashes  \* bound: process restarts

ASSUME ConstantsAssumption ==
    /\ "none" \notin Cands
    /\ MaxCtc \in Nat \ {0}
    /\ MaxCode \in Nat
    /\ MaxCrashes \in Nat

VARIABLES
    stage,      \* hrms_candidates: application_status
    offer,      \* hrms_offers
    letter,     \* hrms_appointments: at most one per candidate (unique index)
    onb,        \* hrms_onboarding: at most one per candidate (unique index)
    staff,      \* hrms_employee_profiles: the codes of the records made for one
    codes,      \* employee codes handed out
    answer,     \* history: what the candidate replied through the offer's link
    issued,     \* history: candidates whose letter has been sent
    crashes,    \* restarts of the process so far
    task        \* the request handlers in flight

letters == <<letter, issued>>
cases == <<onb, staff, codes>>
replies == <<offer, answer>>
vars == <<stage, replies, letters, cases, crashes, task>>

-----------------------------------------------------------------------------
(* The documents                                                            *)

\* "Pipeline" is every stage before Selected, and the parked and rejected ones
\* that lead back to them; "Gone" is a deleted candidate.
Accepted == {"OfferAccepted", "LetterSent", "PreOnboarding", "Joined"}
Stage == {"Pipeline", "Selected", "OfferGenerated", "OfferDeclined", "Duplicate", "Gone"}
         \cup Accepted

\* FORWARD_TRANSITIONS.
Forward(s) ==
    CASE s = "Pipeline" -> {"Selected"}
      [] s = "Selected" -> {"OfferGenerated"}
      [] s = "OfferGenerated" -> {"OfferAccepted", "OfferDeclined", "Selected"}
      [] s = "OfferAccepted" -> {"LetterSent"}
      [] s = "LetterSent" -> {"PreOnboarding"}
      [] s = "PreOnboarding" -> {"Joined"}
      [] OTHER -> {}

\* allowed_next_statuses: rejecting, parking and marking a duplicate are always
\* open until the stage is final.
CanTransition(s, t) ==
    /\ s \notin {"OfferDeclined", "Duplicate", "Gone"}
    /\ t \in (Forward(s) \cup {"Pipeline", "Duplicate"}) \ {s}

OfferStatus == {"None", "Draft", "Sent", "Accepted", "Declined", "Revoked"}
Ctc == 1..MaxCtc

\* granted is the salary Management approved the offer at, 0 with no approval
\* on the document.
OfferDoc == [status: OfferStatus, for: Cands \cup {"none"},
             ctc: Ctc \cup {0}, granted: Ctc \cup {0}]
NoOffer == [status |-> "None", for |-> "none", ctc |-> 0, granted |-> 0]

Active == {"Draft", "Sent", "Accepted"}         \* ACTIVE_OFFER_STATUSES
Editable == {"Draft"}                            \* EDITABLE_OFFER_STATUSES

LetterStatus == {"None", "Generated", "Sent", "PendingAck", "Acknowledged", "Cancelled"}
InForce == {"Sent", "PendingAck", "Acknowledged"}

\* An onboarding case, and the Employee ID it claims (0 for none).
OnbDoc == [open: BOOLEAN, id: Nat]

Moves == {"select", "park", "duplicate", "hand"}
Ops == Moves \cup {"none", "create", "approve", "edit", "send", "revoke", "delete-offer",
                   "respond", "draft-letter", "send-letter", "cancel-letter", "open-letter",
                   "acknowledge", "onboard", "employ", "delete"}

PCs == {"idle", "offer_dup", "offer_insert", "approve_write", "edit_write", "send_cas",
        "revoke_write", "offer_delete", "respond_cas", "move_read", "move_gate", "move_write",
        "letter_dup", "letter_insert", "letter_cas", "letter_cancel", "letter_open", "letter_ack",
        "onb_read", "onb_dup", "onb_letter", "onb_insert",
        "id_mint", "id_claim", "emp_insert", "id_release", "cand_delete"}

Task == [pc: PCs, op: Ops, c: Cands \cup {"none"}, o: Offers \cup {"none"},
         to: Stage,                    \* the stage to move to, or the answer given
         ctc: Ctc \cup {0},            \* the salary it read, or will write
         approved: BOOLEAN,            \* it read an approval
         code: Nat]                    \* the employee code it minted

Idle == [pc |-> "idle", op |-> "none", c |-> "none", o |-> "none", to |-> "Selected",
         ctc |-> 0, approved |-> FALSE, code |-> 0]

TypeOK ==
    /\ stage \in [Cands -> Stage]
    /\ offer \in [Offers -> OfferDoc]
    /\ letter \in [Cands -> LetterStatus]
    /\ onb \in [Cands -> OnbDoc]
    /\ staff \in [Cands -> SUBSET Nat]
    /\ codes \in Nat
    /\ answer \in [Offers -> {"none", "OfferAccepted", "OfferDeclined"}]
    /\ issued \subseteq Cands
    /\ crashes \in Nat
    /\ task \in [Workers -> Task]

Init ==
    /\ stage = [c \in Cands |-> "Pipeline"]
    /\ offer = [o \in Offers |-> NoOffer]
    /\ letter = [c \in Cands |-> "None"]
    /\ onb = [c \in Cands |-> [open |-> FALSE, id |-> 0]]
    /\ staff = [c \in Cands |-> {}]
    /\ codes = 0
    /\ answer = [o \in Offers |-> "none"]
    /\ issued = {}
    /\ crashes = 0
    /\ task = [w \in Workers |-> Idle]

Begin(w, op, t) ==
    /\ op \in Offered
    /\ task[w] = Idle
    /\ task' = [task EXCEPT ![w] = [t EXCEPT !.op = op]]
    /\ UNCHANGED <<stage, replies, letters, cases, crashes>>

At(w, pc) == task[w].pc = pc
Goto(w, pc) == task' = [task EXCEPT ![w].pc = pc]
Finish(w) == task' = [task EXCEPT ![w] = Idle]

\* A candidate-side consequence: read the stage, move it if the graph allows.
ThenMove(w, to) == task' = [task EXCEPT ![w].pc = "move_read", ![w].to = to]

-----------------------------------------------------------------------------
(* Moving the stage                                                         *)

After(w) ==
    IF task[w].op = "send-letter" /\ task[w].to = "LetterSent"
    THEN Goto(w, "onb_read") ELSE Finish(w)

\* An illegal move is silently not made.

MoveRead(w) ==
    /\ At(w, "move_read")
    /\ IF CanTransition(stage[task[w].c], task[w].to) THEN Goto(w, "move_write") ELSE After(w)
    /\ UNCHANGED <<stage, replies, letters, cases, crashes>>

\* update_one by the candidate's key alone; a deleted candidate matches nothing.
MoveWrite(w) ==
    /\ At(w, "move_write")
    /\ stage' = [stage EXCEPT ![task[w].c] = IF @ = "Gone" THEN @ ELSE task[w].to]
    /\ After(w)
    /\ UNCHANGED <<replies, letters, cases, crashes>>

\* update_candidate, and the interview and shortlist decisions that select:
\* what stage is read, and what the caller wants.
MoveOp(to) ==
    CASE to = "Selected" -> "select" [] to = "Pipeline" -> "park"
      [] to = "Duplicate" -> "duplicate" [] OTHER -> "hand"

StartMove(w, c, to) ==
    /\ CanTransition(stage[c], to)
    /\ Begin(w, MoveOp(to), [Idle EXCEPT !.pc = "move_gate", !.c = c, !.to = to])

OffersTo(c) == {o \in Offers : offer[o].status # "None" /\ offer[o].for = c}

\* assert_stage_has_backing_record; the two gates on Selected are outside.
BackedByMutant(c, to) == TRUE
BackedBy(c, to) ==
    CASE to = "OfferGenerated" -> \E o \in OffersTo(c) : offer[o].status # "Draft"
      [] to = "OfferAccepted" -> \E o \in OffersTo(c) : offer[o].status = "Accepted"
      [] to = "LetterSent" -> letter[c] \in InForce
      [] to = "PreOnboarding" -> onb[c].open
      [] to = "Joined" -> onb[c].open /\ onb[c].id # 0
      [] OTHER -> TRUE

MoveGate(w) ==
    /\ At(w, "move_gate")
    /\ IF BackedBy(task[w].c, task[w].to) THEN Goto(w, "move_write") ELSE Finish(w)
    /\ UNCHANGED <<stage, replies, letters, cases, crashes>>

\* delete_candidate.
StartDelete(w, c) ==
    /\ stage[c] \notin {"Gone", "OfferAccepted", "PreOnboarding", "Joined"}
    /\ Begin(w, "delete", [Idle EXCEPT !.pc = "cand_delete", !.c = c])

CandDelete(w) ==
    /\ At(w, "cand_delete")
    /\ stage' = [stage EXCEPT ![task[w].c] = "Gone"]
    /\ Finish(w)
    /\ UNCHANGED <<replies, letters, cases, crashes>>

-----------------------------------------------------------------------------
(* Offers                                                                   *)

\* create_offer: the candidate is read, then their active offers, then, after
\* the references, the band, the selection and the background are checked and
\* a number is minted, the draft is inserted.
StartCreate(w, c) ==
    /\ stage[c] = "Selected"
    /\ \E ctc \in Ctc :
         Begin(w, "create", [Idle EXCEPT !.pc = "offer_dup", !.c = c, !.ctc = ctc])

OfferDup(w) ==
    /\ At(w, "offer_dup")
    /\ IF \E o \in OffersTo(task[w].c) : offer[o].status \in Active
       THEN Finish(w) ELSE Goto(w, "offer_insert")
    /\ UNCHANGED <<stage, replies, letters, cases, crashes>>

\* A number is never handed out twice: a deleted draft keeps its candidate.
Unused(o) == offer[o] = NoOffer

OfferInsert(w) ==
    /\ At(w, "offer_insert")
    /\ \E o \in Offers :
         /\ Unused(o)
         /\ offer' = [offer EXCEPT ![o] = [status |-> "Draft", for |-> task[w].c,
                                           ctc |-> task[w].ctc, granted |-> 0]]
    /\ Finish(w)
    /\ UNCHANGED <<stage, answer, letters, cases, crashes>>

\* What every request about an offer holds once it has read it.
Reading(o, pc) ==
    [Idle EXCEPT !.pc = pc, !.o = o, !.c = offer[o].for,
                 !.ctc = offer[o].ctc, !.approved = offer[o].granted # 0]

\* Writes of an offer by its number: a deleted one matches nothing.
WriteOffer(o, new) ==
    offer' = IF offer[o].status = "None" THEN offer ELSE [offer EXCEPT ![o] = new]

\* approve_offer.
StartApprove(w, o) ==
    /\ offer[o].status = "Draft"
    /\ Begin(w, "approve", Reading(o, "approve_write"))

ApproveWrite(w) ==
    /\ At(w, "approve_write")
    /\ LET t == task[w] IN WriteOffer(t.o, [offer[t.o] EXCEPT !.granted = t.ctc])
    /\ Finish(w)
    /\ UNCHANGED <<stage, answer, letters, cases, crashes>>

\* update_offer: a new salary withdraws the approval, if one was read.
StartEdit(w, o) ==
    /\ offer[o].status \in Editable
    /\ \E ctc \in Ctc \ {offer[o].ctc} :
         Begin(w, "edit", [Reading(o, "edit_write") EXCEPT !.ctc = ctc])

EditedOfferMutant(t, d) == [d EXCEPT !.ctc = t.ctc]
EditedOffer(t, d) == [d EXCEPT !.ctc = t.ctc, !.granted = IF t.approved THEN 0 ELSE @]

EditWrite(w) ==
    /\ At(w, "edit_write")
    /\ LET t == task[w] IN WriteOffer(t.o, EditedOffer(t, offer[t.o]))
    /\ Finish(w)
    /\ UNCHANGED <<stage, answer, letters, cases, crashes>>

\* send_offer: assert_offer_approved on what was read, then a swap on Draft.
StartSend(w, o) ==
    /\ offer[o].status = "Draft"
    /\ offer[o].granted # 0
    /\ Begin(w, "send", Reading(o, "send_cas"))

SendCas(w) ==
    /\ At(w, "send_cas")
    /\ LET o == task[w].o IN
         IF offer[o].status = "Draft"
         THEN /\ offer' = [offer EXCEPT ![o].status = "Sent"]
              /\ ThenMove(w, "OfferGenerated")
         ELSE Finish(w) /\ UNCHANGED offer
    /\ UNCHANGED <<stage, answer, letters, cases, crashes>>

\* revoke_offer: the write does not repeat the condition.
Revocable(o) == offer[o].status = "Sent"

StartRevoke(w, o) ==
    /\ Revocable(o)
    /\ Begin(w, "revoke", Reading(o, "revoke_write"))

RevokeWrite(w) ==
    /\ At(w, "revoke_write")
    /\ LET o == task[w].o IN WriteOffer(o, [offer[o] EXCEPT !.status = "Revoked"])
    /\ ThenMove(w, "Selected")
    /\ UNCHANGED <<stage, answer, letters, cases, crashes>>

\* delete_offer.
StartDeleteOffer(w, o) ==
    /\ offer[o].status = "Draft"
    /\ Begin(w, "delete-offer", Reading(o, "offer_delete"))

OfferDelete(w) ==
    /\ At(w, "offer_delete")
    /\ offer' = [offer EXCEPT ![task[w].o].status = "None"]
    /\ Finish(w)
    /\ UNCHANGED <<stage, answer, letters, cases, crashes>>

\* respond_to_offer, on the candidate's link; the answer is a swap on Sent.
StartRespondMutant(w, o) ==
    /\ offer[o].status = "Sent"
    /\ \E reply \in {"Accepted", "Declined"} :
         Begin(w, "respond", [Reading(o, "respond_cas") EXCEPT !.to = reply])

StartRespond(w, o) ==
    /\ offer[o].status = "Sent"
    /\ \E reply \in {"OfferAccepted", "OfferDeclined"} :
         Begin(w, "respond", [Reading(o, "respond_cas") EXCEPT !.to = reply])

AnswerableMutant(o) == offer[o].status # "None"
Answerable(o) == offer[o].status = "Sent"

RespondCas(w) ==
    /\ At(w, "respond_cas")
    /\ LET t == task[w] IN
         IF Answerable(t.o)
         THEN /\ offer' = [offer EXCEPT ![t.o].status =
                             IF t.to = "OfferAccepted" THEN "Accepted" ELSE "Declined"]
              /\ answer' = [answer EXCEPT ![t.o] = t.to]
              /\ ThenMove(w, t.to)
         ELSE Finish(w) /\ UNCHANGED replies
    /\ UNCHANGED <<stage, letters, cases, crashes>>

-----------------------------------------------------------------------------
(* Appointment letters                                                      *)

\* create_appointment.
AppointableMutant == {"Selected", "OfferAccepted", "PreOnboarding"}
Appointable == {"OfferAccepted", "PreOnboarding"}

StartDraftLetter(w, c) ==
    /\ stage[c] \in Appointable
    /\ Begin(w, "draft-letter", [Idle EXCEPT !.pc = "letter_dup", !.c = c])

LetterDup(w) ==
    /\ At(w, "letter_dup")
    /\ IF letter[task[w].c] \in {"None", "Cancelled"}
       THEN Goto(w, "letter_insert") ELSE Finish(w)
    /\ UNCHANGED <<stage, replies, letters, cases, crashes>>

\* The unique index refuses a second letter, a cancelled first one too.
LetterInsert(w) ==
    /\ At(w, "letter_insert")
    /\ letter' = [letter EXCEPT ![task[w].c] = IF @ = "None" THEN "Generated" ELSE @]
    /\ Finish(w)
    /\ UNCHANGED <<stage, replies, issued, cases, crashes>>

\* send_appointment: a swap, the stage, then start_onboarding.
StartSendLetter(w, c) ==
    /\ letter[c] = "Generated"
    /\ Begin(w, "send-letter", [Idle EXCEPT !.pc = "letter_cas", !.c = c])

LetterCas(w) ==
    /\ At(w, "letter_cas")
    /\ LET c == task[w].c IN
         IF letter[c] = "Generated"
         THEN /\ letter' = [letter EXCEPT ![c] = "Sent"]
              /\ issued' = issued \cup {c}
              /\ ThenMove(w, "LetterSent")
         ELSE Finish(w) /\ UNCHANGED letters
    /\ UNCHANGED <<stage, replies, cases, crashes>>

\* cancel_appointment.
Cancellable(c) == letter[c] \notin {"None", "Acknowledged", "Cancelled"}

StartCancelLetter(w, c) ==
    /\ Cancellable(c)
    /\ Begin(w, "cancel-letter", [Idle EXCEPT !.pc = "letter_cancel", !.c = c])

LetterCancel(w) ==
    /\ At(w, "letter_cancel")
    /\ letter' = [letter EXCEPT ![task[w].c] = "Cancelled"]
    /\ Finish(w)
    /\ UNCHANGED <<stage, replies, issued, cases, crashes>>

\* get_public_appointment and acknowledge_appointment: the letter is read, and
\* what follows is a swap on the statuses it may be in.
StartOpenLetter(w, c) ==
    /\ letter[c] = "Sent"
    /\ Begin(w, "open-letter", [Idle EXCEPT !.pc = "letter_open", !.c = c])

LetterOpen(w) ==
    /\ At(w, "letter_open")
    /\ letter' = [letter EXCEPT ![task[w].c] = IF @ = "Sent" THEN "PendingAck" ELSE @]
    /\ Finish(w)
    /\ UNCHANGED <<stage, replies, issued, cases, crashes>>

StartAcknowledge(w, c) ==
    /\ letter[c] \in {"Sent", "PendingAck"}
    /\ Begin(w, "acknowledge", [Idle EXCEPT !.pc = "letter_ack", !.c = c])

LetterAck(w) ==
    /\ At(w, "letter_ack")
    /\ letter' = [letter EXCEPT ![task[w].c] =
                    IF @ \in {"Sent", "PendingAck"} THEN "Acknowledged" ELSE @]
    /\ Finish(w)
    /\ UNCHANGED <<stage, replies, issued, cases, crashes>>

-----------------------------------------------------------------------------
(* Onboarding and the employee record                                       *)

\* start_onboarding, by hand or at the end of send_appointment.
StartOnboard(w, c) ==
    Begin(w, "onboard", [Idle EXCEPT !.pc = "onb_read", !.c = c])

\* The stage is read first and judged after the duplicate check, which has no
\* effect of its own.
OnbRead(w) ==
    /\ At(w, "onb_read")
    /\ IF stage[task[w].c] = "LetterSent" THEN Goto(w, "onb_dup") ELSE Finish(w)
    /\ UNCHANGED <<stage, replies, letters, cases, crashes>>

OnbDup(w) ==
    /\ At(w, "onb_dup")
    /\ IF onb[task[w].c].open THEN Finish(w) ELSE Goto(w, "onb_letter")
    /\ UNCHANGED <<stage, replies, letters, cases, crashes>>

OnbLetter(w) ==
    /\ At(w, "onb_letter")
    /\ IF letter[task[w].c] \in InForce THEN Goto(w, "onb_insert") ELSE Finish(w)
    /\ UNCHANGED <<stage, replies, letters, cases, crashes>>

\* The insert is refused by the unique index, or the request fails before it;
\* then the stage is advanced.
OnbInsert(w) ==
    /\ At(w, "onb_insert")
    /\ LET c == task[w].c IN
         \/ /\ ~onb[c].open
            /\ onb' = [onb EXCEPT ![c] = [open |-> TRUE, id |-> 0]]
            /\ ThenMove(w, "PreOnboarding")
         \/ Finish(w) /\ UNCHANGED onb
    /\ UNCHANGED <<stage, replies, letters, staff, codes, crashes>>

\* generate_employee_id: the case is read and has no blocker (what clears the
\* other blockers, KYC and the confirmed joining date, is outside).
StartEmploy(w, c) ==
    /\ onb[c].open
    /\ onb[c].id = 0
    /\ Begin(w, "employ", [Idle EXCEPT !.pc = "id_mint", !.c = c])

IdMint(w) ==
    /\ At(w, "id_mint")
    /\ codes < MaxCode
    /\ codes' = codes + 1
    /\ task' = [task EXCEPT ![w].pc = "id_claim", ![w].code = codes + 1]
    /\ UNCHANGED <<stage, replies, letters, onb, staff, crashes>>

\* The claim is a swap on the ID being unissued.
UnclaimedMutant(c) == onb[c].open
Unclaimed(c) == onb[c].open /\ onb[c].id = 0

IdClaim(w) ==
    /\ At(w, "id_claim")
    /\ LET t == task[w] IN
         IF Unclaimed(t.c)
         THEN /\ onb' = [onb EXCEPT ![t.c].id = t.code]
              /\ Goto(w, "emp_insert")
         ELSE Finish(w) /\ UNCHANGED onb
    /\ UNCHANGED <<stage, replies, letters, staff, codes, crashes>>

\* create_from_onboarding, which may raise; then the claim is released.
EmpInsert(w) ==
    /\ At(w, "emp_insert")
    /\ LET t == task[w] IN
         \/ /\ staff' = [staff EXCEPT ![t.c] = @ \cup {t.code}]
            /\ ThenMove(w, "Joined")
         \/ Goto(w, "id_release") /\ UNCHANGED staff
    /\ UNCHANGED <<stage, replies, letters, onb, codes, crashes>>

ReleasedMutant(d) == d
Released(d) == [d EXCEPT !.id = 0]

IdRelease(w) ==
    /\ At(w, "id_release")
    /\ onb' = [onb EXCEPT ![task[w].c] = Released(@)]
    /\ Finish(w)
    /\ UNCHANGED <<stage, replies, letters, staff, codes, crashes>>

-----------------------------------------------------------------------------

\* A restart of the process loses every handler in flight.
Crash ==
    /\ crashes < MaxCrashes
    /\ crashes' = crashes + 1
    /\ task' = [w \in Workers |-> Idle]
    /\ UNCHANGED <<stage, replies, letters, cases>>

StartOffer(w, o) ==
    \/ StartApprove(w, o) \/ StartEdit(w, o) \/ StartSend(w, o)
    \/ StartRevoke(w, o) \/ StartDeleteOffer(w, o) \/ StartRespond(w, o)

StartCand(w, c) ==
    \/ \E to \in Stage : StartMove(w, c, to)
    \/ StartDelete(w, c) \/ StartCreate(w, c)
    \/ StartDraftLetter(w, c) \/ StartSendLetter(w, c) \/ StartCancelLetter(w, c)
    \/ StartOpenLetter(w, c) \/ StartAcknowledge(w, c)
    \/ StartOnboard(w, c) \/ StartEmploy(w, c)

Continue(w) ==
    \/ MoveRead(w) \/ MoveGate(w) \/ MoveWrite(w) \/ CandDelete(w)
    \/ OfferDup(w) \/ OfferInsert(w) \/ ApproveWrite(w) \/ EditWrite(w)
    \/ SendCas(w) \/ RevokeWrite(w) \/ OfferDelete(w) \/ RespondCas(w)
    \/ LetterDup(w) \/ LetterInsert(w) \/ LetterCas(w) \/ LetterCancel(w)
    \/ LetterOpen(w) \/ LetterAck(w)
    \/ OnbRead(w) \/ OnbDup(w) \/ OnbLetter(w) \/ OnbInsert(w)
    \/ IdMint(w) \/ IdClaim(w) \/ EmpInsert(w) \/ IdRelease(w)

Next ==
    \/ \E w \in Workers : \/ \E o \in Offers : StartOffer(w, o)
                          \/ \E c \in Cands : StartCand(w, c)
                          \/ Continue(w)
    \/ Crash

Spec == Init /\ [][Next]_vars

-----------------------------------------------------------------------------
(* Safety: what holds of every interleaving                                 *)

HasAccepted(c) == \E o \in Offers : offer[o].for = c /\ answer[o] = "OfferAccepted"

\* A candidate becomes at most one employee, through simultaneous clicks, claims
\* released after a failure and retries (generate_employee_id).
OneEmployee == \A c \in Cands : \A j, k \in staff[c] : j = k

\* No stage past the offer is reached without the act that earns it: not by
\* hand, and not by a request acting on what it read before
\* (assert_stage_has_backing_record, start_onboarding).
StageEarned ==
    \A c \in Cands : /\ stage[c] \in Accepted => HasAccepted(c)
                     /\ stage[c] \in {"LetterSent", "PreOnboarding", "Joined"} => c \in issued
                     /\ stage[c] \in {"PreOnboarding", "Joined"} => onb[c].open
                     /\ onb[c].open => c \in issued

Quiet == \A w \in Workers : task[w] = Idle

\* An onboarding case does not believe in an employee that does not exist, nor
\* does an employee exist that no case claims (no restart in between;
\* generate_employee_id).
ClaimsAreTrue ==
    crashes = 0 /\ Quiet =>
      \A c \in Cands : staff[c] = IF onb[c].id = 0 THEN {} ELSE {onb[c].id}

\* The pipeline implements Hire: each person passes its phases in order and
\* once, as the replies, letters, cases and records show.
Phase(c) ==
    CASE staff[c] # {} -> "employee"
      [] staff[c] = {} /\ onb[c].open -> "onboarding"
      [] staff[c] = {} /\ ~onb[c].open /\ c \in issued -> "lettered"
      [] staff[c] = {} /\ ~onb[c].open /\ c \notin issued /\ HasAccepted(c) -> "accepted"
      [] OTHER -> "applicant"

H == INSTANCE Hire WITH phase <- [c \in Cands |-> Phase(c)]
ImplementsHire == H!HireSpec

-----------------------------------------------------------------------------
(* Safety: what the code and its comments promise, which holds of one       *)
(* request at a time                                                        *)

\* An offer goes out, and stands, at the salary Management approved
\* (approve_offer, update_offer, assert_offer_approved).
SentAtApprovedFigure ==
    \A o \in Offers : offer[o].status \in {"Sent", "Accepted", "Declined", "Revoked"}
                        => offer[o].granted = offer[o].ctc
=============================================================================
