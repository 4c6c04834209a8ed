----------------------------- MODULE Requisition -----------------------------
(***************************************************************************)
(* The internal hiring requisition of the HRMS, with the job description   *)
(* raised with it and the position scorecard it is approved against        *)
(* (hrms_requisition_service, hrms_scorecard_service and the sanctioned    *)
(* strength it is judged by, hrms_sanction_service).                       *)
(*                                                                         *)
(* Every handler is an async function over MongoDB: one database call is   *)
(* one step, and any other request may run at each await between two of    *)
(* them.  A handler in flight is a record of task: what it is about to do  *)
(* (pc) and what it has read.  A restart of the process loses the handlers *)
(* and keeps the collections.  All requisitions are for one position       *)
(* (department and designation) of one company.                            *)
(***************************************************************************)
EXTENDS Integers, FiniteSetsExt

CONSTANTS
    Reqs,        \* request numbers next_business_id can hand out
    Legacy,      \* requisitions that may be at the removed budget step
    Workers,     \* requests in flight at once
    Managers,    \* users with the MANAGER role (hiring managers)
    MDs,         \* users with the MD role
    Offered,     \* the entry points this instance exercises
    Rungs,       \* lengths an escalation ladder may come out with
    MaxVacancy,  \* bound: vacancies one requisition asks for
    Figures,     \* sanctioned figures set_sanction may write
    MaxActual,   \* bound: employees in the position
    MaxSigns,    \* bound: scorecard signatures started
    MaxVer,      \* bound: edits of a scorecard's criteria or of a JD
    MaxCrashes   \* bound: process restarts

NoFigure == -1   \* no sanctioned strength row for the position

ASSUME ConstantsAssumption ==
    /\ Legacy \subseteq Reqs
    /\ Managers \cap MDs = {}
    /\ Rungs \subseteq Nat
    /\ Figures \subseteq Nat \cup {NoFigure}
    /\ MaxVacancy \in Nat \ {0}
    /\ MaxActual \in Nat
    /\ MaxSigns \in Nat
    /\ MaxVer \in Nat
    /\ MaxCrashes \in Nat

Users == Managers \cup MDs

VARIABLES
    req,         \* hrms_requisitions
    jd,          \* hrms_job_descriptions
    card,        \* hrms_position_scorecards
    minted,      \* request numbers already handed out
    sanctioned,  \* hrms_sanctioned_strength: the position's figure
    actual,      \* employees on the payroll in the position
    signs,       \* signatures started: the time stamp `now` of the last one
    crashes,     \* restarts of the process so far
    task         \* the request handlers in flight

records == <<req, jd, card>>
figures == <<minted, sanctioned, actual, signs, crashes>>
vars == <<req, jd, card, minted, sanctioned, actual, signs, crashes, task>>

-----------------------------------------------------------------------------
(* The documents                                                            *)

PreBudget == {"PendingHr", "PendingBudget"}                  \* PRE_BUDGET_STATES
Editable == PreBudget \cup {"PendingEscalation", "PendingScorecard"}   \* EDITABLE_STATUSES
ReqApproval == Editable \cup {"Approved", "Rejected"}
ReqClosing == {"Open", "Hired", "Closed", "Hold", "Cancel"}
Snapshots == {"none", "in", "over"}   \* sanction_snapshot.is_over_sanction

\* escalation_chain is its length and the rungs marked Approved in it.
ReqDoc == [status: ReqApproval \cup {"Absent"}, closing: ReqClosing,
           vacancy: Nat \ {0}, over: Snapshots,
           rungs: Nat, cleared: SUBSET Nat, level: Nat]
JdDoc == [status: {"Absent", "Pending", "Approved", "Rejected"}, ver: Nat]

\* The approvals array is its signers and its identity: every entry carries the
\* time it was signed, so two arrays are equal only when they are the same one
\* or both are empty (stamp 0).  ver counts the writes of the criteria; seen is
\* history: the criteria the signers had read.
CardDoc == [status: {"Absent", "Pending", "Approved", "Rejected"},
            managerial: BOOLEAN, approvals: SUBSET Users, stamp: Nat,
            ver: Nat, seen: SUBSET Nat]

NoReq == [status |-> "Absent", closing |-> "Open", vacancy |-> 1, over |-> "none",
          rungs |-> 0, cleared |-> {}, level |-> 0]
NoJd == [status |-> "Absent", ver |-> 0]
NoCard == [status |-> "Absent", managerial |-> FALSE, approvals |-> {},
           stamp |-> 0, ver |-> 0, seen |-> {}]

\* INTERNAL_REQ_TRANSITIONS: where an action starts, and where it leads unless
\* the escalation ladder decides otherwise.
Verifying == {"hr-verify", "budget-skip"}     \* INTERNAL_ESCALATION_ROUTING
Actions == Verifying \cup {"hr-reject", "escalate-approve", "escalate-reject",
                           "scorecard-approve", "scorecard-reject"}
From == [a \in Actions |->
           CASE a \in {"hr-verify", "hr-reject"} -> "PendingHr"
             [] a = "budget-skip" -> "PendingBudget"
             [] a \in {"escalate-approve", "escalate-reject"} -> "PendingEscalation"
             [] OTHER -> "PendingScorecard"]
To == [a \in Actions |->
         CASE a \in {"hr-reject", "escalate-reject", "scorecard-reject"} -> "Rejected"
           [] a = "scorecard-approve" -> "Approved"
           [] OTHER -> "PendingScorecard"]

CardEdits == {"edit-criteria", "edit-managerial", "edit-title"}
Ops == Actions \cup CardEdits
       \cup {"none", "raise", "update", "delete", "draft", "sign", "send-back", "edit-jd"}

PCs == {"idle", "insert_jd", "insert_req", "undo_jd", "update_eval", "update_write",
        "del_req", "del_jd", "act_eval", "act_card", "act_cas", "act_jd",
        "fin_req", "fin_card", "fin_act", "ins_card", "sign_write", "back_write",
        "edit_write", "jd_gate", "jd_write"}

\* A handler in flight: its next database call, the request, and what it holds.
Task == [pc: PCs, op: Ops, r: Reqs \cup {"none"}, by: Users \cup {"none"},
         doc: ReqDoc,                    \* the requisition it read or will insert
         card: CardDoc,                  \* the scorecard it read
         stamp: Nat,                     \* the `now` it signs with
         ver: Nat,                       \* the JD version it read
         over: Snapshots \cup {"keep"},  \* the snapshot it will store
         rungs: Nat,                     \* the ladder it will store
         to: ReqApproval]                \* next_status

Idle == [pc |-> "idle", op |-> "none", r |-> "none", by |-> "none", doc |-> NoReq,
         card |-> NoCard, stamp |-> 0, ver |-> 0, over |-> "keep", rungs |-> 0,
         to |-> "PendingHr"]

TypeOK ==
    /\ req \in [Reqs -> ReqDoc]
    /\ jd \in [Reqs -> JdDoc]
    /\ card \in [Reqs -> CardDoc]
    /\ minted \subseteq Reqs
    /\ sanctioned \in Figures
    /\ actual \in Nat
    /\ signs \in Nat
    /\ crashes \in Nat
    /\ task \in [Workers -> Task]

\* Some requisitions may have been left at the budget step before it was removed.
Init ==
    /\ minted \in SUBSET Legacy
    /\ req = [r \in Reqs |-> IF r \in minted
                             THEN [NoReq EXCEPT !.status = "PendingBudget"] ELSE NoReq]
    /\ jd = [r \in Reqs |-> IF r \in minted THEN [status |-> "Pending", ver |-> 1] ELSE NoJd]
    /\ card = [r \in Reqs |-> NoCard]
    /\ sanctioned \in Figures
    /\ actual = 0
    /\ signs = 0
    /\ crashes = 0
    /\ task = [w \in Workers |-> Idle]

Begin(w, op, t) ==
    /\ op \in Offered
    /\ task[w] = Idle
    /\ task' = [task EXCEPT ![w] = [t EXCEPT !.op = op]]

At(w, pc) == task[w].pc = pc
Goto(w, pc) == task' = [task EXCEPT ![w].pc = pc]
Finish(w) == task' = [task EXCEPT ![w] = Idle]

-----------------------------------------------------------------------------
(* Sanctioned strength (hrms_sanction_service).  The three reads of         *)
(* position_status are one step.                                            *)

CommittedVacancies(r) ==
    MapThenSumSet(LAMBDA o : req[o].vacancy,
                  {o \in Reqs \ {r} : req[o].status = "Approved" /\ req[o].closing = "Open"})

IsOverSanction(r, requested) ==
    sanctioned = NoFigure \/ actual + CommittedVacancies(r) + requested > sanctioned

SnapshotFor(r, requested) == IF IsOverSanction(r, requested) THEN "over" ELSE "in"

\* set_sanction, update_sanction and delete_sanction.
SetSanction ==
    /\ "sanction" \in Offered
    /\ sanctioned' \in Figures \ {sanctioned}
    /\ UNCHANGED <<records, minted, actual, signs, crashes, task>>

\* An employee joins or leaves the position, elsewhere in the system.
HeadcountMoves ==
    /\ "headcount" \in Offered
    /\ actual' \in {actual - 1, actual + 1} \cap (0..MaxActual)
    /\ UNCHANGED <<records, minted, sanctioned, signs, crashes, task>>

-----------------------------------------------------------------------------
(* create_requisition                                                       *)

\* Validation, the minted numbers and the snapshot (absent when its
\* evaluation raises).
Raise(w, r) ==
    /\ r \notin minted
    /\ minted' = minted \cup {r}
    /\ \E v \in 1..MaxVacancy : \E over \in {SnapshotFor(r, v), "none"} :
         Begin(w, "raise",
               [Idle EXCEPT !.pc = "insert_jd", !.r = r,
                            !.doc = [NoReq EXCEPT !.status = "PendingHr",
                                                  !.vacancy = v, !.over = over]])
    /\ UNCHANGED <<records, sanctioned, actual, signs, crashes>>

\* jds.insert_one, which may raise and end the request (the mutant goes on).
InsertJdMutant(w) ==
    /\ At(w, "insert_jd")
    /\ \/ jd' = [jd EXCEPT ![task[w].r] = [status |-> "Pending", ver |-> 1]]
       \/ UNCHANGED jd
    /\ Goto(w, "insert_req")
    /\ UNCHANGED <<req, card, figures>>

InsertJd(w) ==
    /\ At(w, "insert_jd")
    /\ \/ /\ jd' = [jd EXCEPT ![task[w].r] = [status |-> "Pending", ver |-> 1]]
          /\ Goto(w, "insert_req")
       \/ Finish(w) /\ UNCHANGED jd
    /\ UNCHANGED <<req, card, figures>>

InsertReq(w) ==
    /\ At(w, "insert_req")
    /\ \/ /\ req' = [req EXCEPT ![task[w].r] = task[w].doc]
          /\ Finish(w)
       \/ Goto(w, "undo_jd") /\ UNCHANGED req
    /\ UNCHANGED <<jd, card, figures>>

\* The compensating delete.
UndoJd(w) ==
    /\ At(w, "undo_jd")
    /\ jd' = [jd EXCEPT ![task[w].r] = NoJd]
    /\ Finish(w)
    /\ UNCHANGED <<req, card, figures>>

-----------------------------------------------------------------------------
(* update_requisition: the edit that matters here changes the vacancy.      *)

StartUpdate(w, r) ==
    /\ req[r].status \in Editable
    /\ \E v \in 1..MaxVacancy :
         /\ v # req[r].vacancy
         /\ Begin(w, "update", [Idle EXCEPT !.pc = "update_eval", !.r = r,
                                            !.doc = [req[r] EXCEPT !.vacancy = v]])
    /\ UNCHANGED <<records, figures>>

\* The snapshot is taken anew; when that raises the stored one is kept.
UpdateEval(w) ==
    /\ At(w, "update_eval")
    /\ \E over \in {SnapshotFor(task[w].r, task[w].doc.vacancy), "keep"} :
         task' = [task EXCEPT ![w].pc = "update_write", ![w].over = over]
    /\ UNCHANGED <<records, figures>>

Updated(t, d) == [d EXCEPT !.vacancy = t.doc.vacancy,
                           !.over = IF t.over = "keep" THEN @ ELSE t.over]

\* update_one filtered by the number alone.
UpdateWrite(w) ==
    /\ At(w, "update_write")
    /\ LET t == task[w] IN
         req' = IF req[t.r].status = "Absent" THEN req
                ELSE [req EXCEPT ![t.r] = Updated(t, @)]
    /\ Finish(w)
    /\ UNCHANGED <<jd, card, figures>>

-----------------------------------------------------------------------------
(* delete_requisition                                                       *)

Deletable(r) == req[r].status \notin {"Absent", "Approved"}

StartDelete(w, r) ==
    /\ Deletable(r)
    /\ Begin(w, "delete", [Idle EXCEPT !.pc = "del_req", !.r = r])
    /\ UNCHANGED <<records, figures>>

DeleteReq(w) ==
    /\ At(w, "del_req")
    /\ req' = [req EXCEPT ![task[w].r] = NoReq]
    /\ Goto(w, "del_jd")
    /\ UNCHANGED <<jd, card, figures>>

DeleteJd(w) ==
    /\ At(w, "del_jd")
    /\ jd' = [jd EXCEPT ![task[w].r] = NoJd]
    /\ Finish(w)
    /\ UNCHANGED <<req, card, figures>>

-----------------------------------------------------------------------------
(* act_on_requisition and finalise_if_scorecard_approved                    *)

\* An escalation step advances the ladder it has read, not the status, until
\* the last rung has acted.
NextStatusMutant(a, d) ==
    IF a = "escalate-approve" /\ d.level + 1 < d.rungs THEN "PendingEscalation" ELSE To[a]

NextStatus(a, d) ==
    IF a = "escalate-approve" /\ d.level < d.rungs THEN "PendingEscalation" ELSE To[a]

\* What the handler holds once it has read the requisition as d.
Acting(a, r, d) ==
    [Idle EXCEPT !.pc = IF a \in Verifying THEN "act_eval"
                        ELSE IF a = "scorecard-approve" THEN "act_card" ELSE "act_cas",
                 !.op = a, !.r = r, !.doc = d, !.to = NextStatus(a, d)]

\* budget-skip is started by advance_legacy_budget, the others by their route.
StartAct(w, a, r) ==
    /\ req[r].status = From[a]
    /\ Begin(w, a, Acting(a, r, req[r]))
    /\ UNCHANGED <<records, figures>>

\* The headcount is judged again, for the vacancies read, and over the sanction
\* when that raises; _build_escalation_chain gives a ladder, or nobody.
ActEval(w) ==
    /\ At(w, "act_eval")
    /\ \E over \in {SnapshotFor(task[w].r, task[w].doc.vacancy), "over"} :
         \E n \in IF over = "over" THEN Rungs ELSE {0} :
           task' = [task EXCEPT ![w] =
                      [@ EXCEPT !.pc = "act_cas", !.over = over, !.rungs = n,
                                !.to = IF n > 0 THEN "PendingEscalation" ELSE task[w].to]]
    /\ UNCHANGED <<records, figures>>

\* assert_scorecard_approved.
CardPasses(r) == card[r].status = "Approved"

ActCard(w) ==
    /\ At(w, "act_card")
    /\ IF CardPasses(task[w].r) THEN Goto(w, "act_cas") ELSE Finish(w)
    /\ UNCHANGED <<records, figures>>

\* The stored requisition d after the update of handler t.
LadderAfter(t, d) ==
    CASE t.op \in Verifying /\ t.over = "over" ->
           [d EXCEPT !.rungs = t.rungs, !.cleared = {},
                     !.level = IF t.rungs > 0 THEN 1 ELSE @]
      [] t.op = "escalate-approve" ->
           [d EXCEPT !.rungs = t.doc.rungs,
                     !.cleared = t.doc.cleared \cup ({t.doc.level} \cap (1..t.doc.rungs)),
                     !.level = IF t.doc.level < t.doc.rungs THEN t.doc.level + 1
                               ELSE t.doc.rungs]
      [] t.op = "escalate-reject" ->
           [d EXCEPT !.rungs = t.doc.rungs, !.cleared = t.doc.cleared]
      [] OTHER -> d

Acted(t, d) ==
    [LadderAfter(t, d) EXCEPT !.status = t.to,
                              !.over = IF t.over = "keep" THEN @ ELSE t.over,
                              !.closing = IF t.to = "Rejected" THEN "Closed" ELSE @]

\* The compare-and-swap: the expected status is part of the filter.
MatchesMutant(t) == req[t.r].status # "Absent"
Matches(t) == req[t.r].status = From[t.op]

\* What follows the swap: the JD's own verdict, or the finalisation.
CoDecidesMutant(to) == to # "PendingEscalation"
CoDecides(to) == to \in {"Approved", "Rejected"}
FinalisesMutant(to) == FALSE
Finalises(to) == to = "PendingScorecard"

ActCas(w) ==
    /\ At(w, "act_cas")
    /\ LET t == task[w] IN
         IF Matches(t)
         THEN /\ req' = [req EXCEPT ![t.r] = Acted(t, @)]
              /\ CASE CoDecides(t.to) -> Goto(w, "act_jd")
                   [] Finalises(t.to) -> Goto(w, "fin_req")
                   [] OTHER -> Finish(w)
         ELSE Finish(w) /\ UNCHANGED req
    /\ UNCHANGED <<jd, card, figures>>

\* The JD is co-approved, or rejected with the requisition.
ActJd(w) ==
    /\ At(w, "act_jd")
    /\ LET t == task[w] IN
         jd' = IF jd[t.r].status = "Absent" THEN jd ELSE [jd EXCEPT ![t.r].status = t.to]
    /\ Finish(w)
    /\ UNCHANGED <<req, card, figures>>

\* finalise_if_scorecard_approved: the requisition, the card, then the action.
FinReq(w) ==
    /\ At(w, "fin_req")
    /\ IF req[task[w].r].status = "PendingScorecard" THEN Goto(w, "fin_card") ELSE Finish(w)
    /\ UNCHANGED <<records, figures>>

FinCard(w) ==
    /\ At(w, "fin_card")
    /\ IF card[task[w].r].status = "Approved" THEN Goto(w, "fin_act") ELSE Finish(w)
    /\ UNCHANGED <<records, figures>>

FinAct(w) ==
    /\ At(w, "fin_act")
    /\ LET r == task[w].r IN
         IF req[r].status = From["scorecard-approve"]
         THEN task' = [task EXCEPT ![w] = Acting("scorecard-approve", r, req[r])]
         ELSE Finish(w)
    /\ UNCHANGED <<records, figures>>

\* close_requisition, one unconditional update.
CloseRequisition(r) ==
    /\ "close" \in Offered
    /\ req[r].status # "Absent"
    /\ \E c \in ReqClosing \ {req[r].closing} : req' = [req EXCEPT ![r].closing = c]
    /\ UNCHANGED <<jd, card, figures, task>>

-----------------------------------------------------------------------------
(* The position scorecard (hrms_scorecard_service)                          *)

\* _approval_state(..)["complete"].
Complete(managerial, signers) ==
    IF managerial THEN signers \cap Managers # {} /\ signers \cap MDs # {}
                  ELSE signers # {}

\* create_scorecard: the requisition and the absence of a card are read first;
\* the insert is refused by the unique index when a card has appeared.
StartDraft(w, r) ==
    /\ req[r].status # "Absent"
    /\ card[r].status = "Absent"
    /\ \E managerial \in BOOLEAN :
         Begin(w, "draft", [Idle EXCEPT !.pc = "ins_card", !.r = r,
                                        !.card = [NoCard EXCEPT !.status = "Pending",
                                                                !.managerial = managerial]])
    /\ UNCHANGED <<records, figures>>

InsertCard(w) ==
    /\ At(w, "ins_card")
    /\ LET t == task[w] IN
         card' = IF card[t.r].status = "Absent" THEN [card EXCEPT ![t.r] = t.card] ELSE card
    /\ Finish(w)
    /\ UNCHANGED <<req, jd, figures>>

\* Not frozen yet.
CardOpen(r) == card[r].status \in {"Pending", "Rejected"}

\* approve_scorecard with Pass.
StartSign(w, r, u) ==
    /\ CardOpen(r)
    /\ signs < MaxSigns
    /\ signs' = signs + 1
    /\ Begin(w, "sign", [Idle EXCEPT !.pc = "sign_write", !.r = r, !.by = u,
                                     !.card = card[r], !.stamp = signs'])
    /\ UNCHANGED <<records, minted, sanctioned, actual, crashes>>

\* The compare-and-swap on the approvals array the new one was built from.
SameApprovals(t) == card[t.r].status # "Absent" /\ card[t.r].stamp = t.card.stamp

Signers(t) == t.card.approvals \cup {t.by}
Completes(t) == Complete(t.card.managerial, Signers(t))

Signed(t, c) ==
    [c EXCEPT !.approvals = Signers(t), !.stamp = t.stamp,
              !.seen = t.card.seen \cup {t.card.ver},
              !.status = IF Completes(t) THEN "Approved" ELSE @]

SignWrite(w) ==
    /\ At(w, "sign_write")
    /\ LET t == task[w] IN
         IF SameApprovals(t)
         THEN /\ card' = [card EXCEPT ![t.r] = Signed(t, @)]
              /\ IF Completes(t) THEN Goto(w, "fin_req") ELSE Finish(w)
         ELSE Finish(w) /\ UNCHANGED card
    /\ UNCHANGED <<req, jd, figures>>

\* approve_scorecard with Fail.
StartSendBack(w, r) ==
    /\ card[r].status = "Pending"
    /\ Begin(w, "send-back", [Idle EXCEPT !.pc = "back_write", !.r = r])
    /\ UNCHANGED <<records, figures>>

UnsignedMutant(c, status) == [c EXCEPT !.status = status]
Unsigned(c, status) ==
    [c EXCEPT !.status = status, !.approvals = {}, !.stamp = 0, !.seen = {}]

BackWrite(w) ==
    /\ At(w, "back_write")
    /\ card' = [card EXCEPT ![task[w].r] = Unsigned(@, "Rejected")]
    /\ Finish(w)
    /\ UNCHANGED <<req, jd, figures>>

\* update_scorecard.
StartEditCard(w, e, r) ==
    /\ CardOpen(r)
    /\ card[r].ver < MaxVer
    /\ Begin(w, e, [Idle EXCEPT !.pc = "edit_write", !.r = r, !.card = card[r]])
    /\ UNCHANGED <<records, figures>>

\* An unconditional write: of a new bar or a new rule of who signs it, which
\* clears the signatures, or of the wording alone, which puts a card that was
\* read as sent back into the queue again.
Edited(t, c) ==
    CASE t.op = "edit-criteria" -> [Unsigned(c, "Pending") EXCEPT !.ver = c.ver + 1]
      [] t.op = "edit-managerial" ->
           [Unsigned(c, "Pending") EXCEPT !.managerial = ~t.card.managerial]
      [] t.op = "edit-title" ->
           [c EXCEPT !.status = IF t.card.status = "Rejected" THEN "Pending" ELSE @]
      [] OTHER -> c

EditWrite(w) ==
    /\ At(w, "edit_write")
    /\ card' = [card EXCEPT ![task[w].r] = Edited(task[w], @)]
    /\ Finish(w)
    /\ UNCHANGED <<req, jd, figures>>

-----------------------------------------------------------------------------
(* update_jd                                                                *)

JdOpen(r) == jd[r].status \notin {"Absent", "Approved"}

StartEditJd(w, r) ==
    /\ JdOpen(r)
    /\ jd[r].ver <= MaxVer
    /\ Begin(w, "edit-jd", [Idle EXCEPT !.pc = "jd_gate", !.r = r, !.ver = jd[r].ver])
    /\ UNCHANGED <<records, figures>>

JdGate(w) ==
    /\ At(w, "jd_gate")
    /\ IF req[task[w].r].status \in PreBudget THEN Finish(w) ELSE Goto(w, "jd_write")
    /\ UNCHANGED <<records, figures>>

JdWrite(w) ==
    /\ At(w, "jd_write")
    /\ LET t == task[w] IN
         jd' = IF jd[t.r].status = "Absent" THEN jd ELSE [jd EXCEPT ![t.r].ver = t.ver + 1]
    /\ Finish(w)
    /\ UNCHANGED <<req, card, figures>>

-----------------------------------------------------------------------------

\* A restart of the process loses every handler in flight.
Crash ==
    /\ crashes < MaxCrashes
    /\ crashes' = crashes + 1
    /\ task' = [w \in Workers |-> Idle]
    /\ UNCHANGED <<records, minted, sanctioned, actual, signs>>

Start(w) ==
    \E r \in Reqs :
        \/ Raise(w, r) \/ StartUpdate(w, r) \/ StartDelete(w, r)
        \/ \E a \in Actions : StartAct(w, a, r)
        \/ StartDraft(w, r) \/ StartSendBack(w, r) \/ StartEditJd(w, r)
        \/ \E u \in Users : StartSign(w, r, u)
        \/ \E e \in CardEdits : StartEditCard(w, e, r)

Continue(w) ==
    \/ InsertJd(w) \/ InsertReq(w) \/ UndoJd(w)
    \/ UpdateEval(w) \/ UpdateWrite(w) \/ DeleteReq(w) \/ DeleteJd(w)
    \/ ActEval(w) \/ ActCard(w) \/ ActCas(w) \/ ActJd(w)
    \/ FinReq(w) \/ FinCard(w) \/ FinAct(w)
    \/ InsertCard(w) \/ SignWrite(w) \/ BackWrite(w) \/ EditWrite(w)
    \/ JdGate(w) \/ JdWrite(w)

Next ==
    \/ \E w \in Workers : Start(w) \/ Continue(w)
    \/ \E r \in Reqs : CloseRequisition(r)
    \/ SetSanction \/ HeadcountMoves \/ Crash

Spec == Init /\ [][Next]_vars

-----------------------------------------------------------------------------
(* Safety: what holds of every interleaving                                 *)

Exists(r) == req[r].status # "Absent"

\* Every requisition has a JD, through failed inserts, compensating deletes,
\* cascades and restarts (create_requisition, delete_requisition).
EveryReqHasJd == \A r \in Reqs : Exists(r) => jd[r].status # "Absent"

\* A JD's verdict is that of its requisition, until that is deleted: racing
\* approvals and rejections never leave an approved JD beside a requisition
\* that was refused, or the reverse (act_on_requisition).
CoApproved ==
    \A r \in Reqs : Exists(r) /\ jd[r].status \in {"Approved", "Rejected"}
                      => req[r].status = jd[r].status

\* A requisition reaches the scorecard gate, or Approved, only with every rung
\* of the ladder it was given cleared, whatever the approvers read
\* (act_on_requisition, escalate-approve).
LadderComplete ==
    \A r \in Reqs : req[r].status \in {"PendingScorecard", "Approved"}
                      => req[r].cleared = 1..req[r].rungs

\* The edges of INTERNAL_REQ_TRANSITIONS and INTERNAL_ESCALATION_ROUTING.
Edges == {<<From[a], To[a]>> : a \in Actions}
         \cup {<<From[a], "PendingEscalation">> : a \in Verifying}

\* A decision is taken once, on the route the table gives: the status moves
\* along its edges, starts before HR, and Approved and Rejected are left only
\* by deletion (the compare-and-swap of act_on_requisition).
StatusFollowsTable ==
    [][\A r \in Reqs :
         LET old == req[r].status  new == req'[r].status
         IN \/ new \in {old, "Absent"}
            \/ old = "Absent" /\ new = "PendingHr"
            \/ <<old, new>> \in Edges]_vars

Quiet == \A w \in Workers : task[w] = Idle
Finalisable(r) == req[r].status = "PendingScorecard" /\ card[r].status = "Approved"

\* No requisition waits behind a signed-off scorecard: whichever of the last
\* approval and the last signature lands second approves it.  Nor does an
\* approved one keep an undecided JD.  (No restart in between;
\* finalise_if_scorecard_approved.)
NoneStranded ==
    crashes = 0 /\ Quiet =>
      \A r \in Reqs : /\ ~Finalisable(r)
                      /\ req[r].status = "Approved" => jd[r].status = "Approved"

-----------------------------------------------------------------------------
(* Safety: what the code and its comments promise, which holds of one       *)
(* request at a time                                                        *)

\* Every signature on an approved scorecard was given for the criteria it
\* carries (update_scorecard, approve_scorecard).
ApprovedBarIsSignedBar ==
    \A r \in Reqs : card[r].status = "Approved" => card[r].seen = {card[r].ver}

=============================================================================
