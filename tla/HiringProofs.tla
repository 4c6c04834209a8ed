---------------------------- MODULE HiringProofs ----------------------------
(***************************************************************************)
(* Proofs about hiring, for any candidates, offers, requests at once and   *)
(* restarts: the documents and requests have their types, no stage is      *)
(* reached unearned, a candidate becomes one employee at most, and the     *)
(* pipeline implements Hire; and, when requests come one at a time, an     *)
(* offer goes out at the salary that was approved.                         *)
(***************************************************************************)
EXTENDS Hiring, TLAPS

-----------------------------------------------------------------------------
(* Types                                                                    *)

StageTyped == stage \in [Cands -> Stage]
OfferTyped == /\ offer \in [Offers -> OfferDoc]
              /\ answer \in [Offers -> {"none", "OfferAccepted", "OfferDeclined"}]
              /\ \A o \in Offers : offer[o].status # "None" => offer[o].for \in Cands
LetterTyped == letter \in [Cands -> LetterStatus] /\ issued \subseteq Cands
CaseTyped == onb \in [Cands -> OnbDoc] /\ staff \in [Cands -> SUBSET Nat] /\ codes \in Nat

DocsTyped == StageTyped /\ OfferTyped /\ LetterTyped /\ CaseTyped /\ crashes \in Nat

OfferSteps == {"approve_write", "edit_write", "send_cas", "revoke_write", "offer_delete", "respond_cas"}
IdSteps == {"id_mint", "id_claim", "emp_insert", "id_release"}

\* What a request in flight carries.
Fit(t) ==
    /\ t \in Task
    /\ t.pc # "idle" => t.c \in Cands
    /\ t.pc \in OfferSteps => t.o \in Offers
    /\ t.pc = "respond_cas" => t.to \in {"OfferAccepted", "OfferDeclined"}
    /\ t.pc = "id_claim" => t.code # 0

-----------------------------------------------------------------------------
(* What has been earned: who has accepted an offer (A), been sent a letter  *)
(* (I, which is issued) and has an onboarding case (O), and to whom each    *)
(* offer is made (F).  None of it is ever lost.                             *)

A == {c \in Cands : HasAccepted(c)}
O == {c \in Cands : onb[c].open}
F == [o \in Offers |-> offer[o].for]

\* A candidate may stand at a stage, or be moved there.
Due(c, s, X, Y, Z) ==
    /\ s \in Accepted => c \in X
    /\ s \in {"LetterSent", "PreOnboarding", "Joined"} => c \in Y
    /\ s \in {"PreOnboarding", "Joined"} => c \in Z

\* What a request knows from what it read, against what has been earned.
Knows(t, X, Y, Z, G) ==
    /\ t.pc \in {"move_read", "move_write"} => Due(t.c, t.to, X, Y, Z)
    /\ t.pc \in {"letter_dup", "letter_insert", "letter_cancel"} => t.c \in X
    /\ t.pc \in {"onb_dup", "onb_letter", "onb_insert"} => t.c \in Y
    /\ t.pc \in IdSteps => t.c \in Z
    /\ t.pc = "respond_cas" => G[t.o] = t.c

Backed ==
    /\ \A c \in Cands : Due(c, stage[c], A, issued, O)
    /\ \A c \in Cands : /\ letter[c] # "None" => c \in A
                        /\ letter[c] \in InForce => c \in issued
    /\ O \subseteq issued /\ issued \subseteq A
    /\ \A o \in Offers : /\ offer[o].status = "Accepted" => answer[o] = "OfferAccepted"
                         /\ answer[o] # "none" => /\ offer[o].status \notin {"Draft", "Sent"}
                                                  /\ offer[o].for \in Cands

DocsSound == DocsTyped /\ Backed

Tasks ==
    /\ DOMAIN task = Workers /\ task = [w \in Workers |-> task[w]]
    /\ \A w \in Workers : Fit(task[w]) /\ Knows(task[w], A, issued, O, F)

Sound == DocsSound /\ Tasks

Grow ==
    /\ A \subseteq A' /\ issued \subseteq issued' /\ O \subseteq O'
    /\ \A o \in Offers : F[o] \in Cands => F'[o] = F[o]

\* Nothing is earned in a step.
Same == A' = A /\ issued' = issued /\ O' = O /\ staff' = staff

LEMMA SoundIsTypeOK == Sound => TypeOK
<1> SUFFICES ASSUME Sound PROVE TypeOK
  OBVIOUS
<1>1. task \in [Workers -> Task]
  BY DEF Sound, Tasks, Fit
<1> QED
  BY <1>1, Zenon DEF TypeOK, Sound, DocsSound, DocsTyped, StageTyped, OfferTyped, LetterTyped, CaseTyped

LEMMA SoundIsEarned == Sound => StageEarned
<1> SUFFICES ASSUME Sound, NEW c \in Cands
             PROVE  /\ stage[c] \in Accepted => HasAccepted(c)
                    /\ stage[c] \in {"LetterSent", "PreOnboarding", "Joined"} => c \in issued
                    /\ stage[c] \in {"PreOnboarding", "Joined"} => onb[c].open
                    /\ onb[c].open => c \in issued
  BY DEF StageEarned
<1>1. Due(c, stage[c], A, issued, O) /\ O \subseteq issued
  BY DEF Sound, DocsSound, Backed
<1>2. (c \in A => HasAccepted(c)) /\ (c \in O <=> onb[c].open)
  BY DEF A, O
<1> QED
  BY <1>1, <1>2 DEF Due

LEMMA IdleFits ==
    /\ Fit(Idle) /\ Idle.pc = "idle"
    /\ \A X, Y, Z, G : Knows(Idle, X, Y, Z, G)
<1>1. Idle \in Task
  BY ConstantsAssumption DEF Idle, Task, PCs, Ops, Moves, Stage, Ctc
<1>2. Idle.pc = "idle"
  BY DEF Idle
<1> QED
  BY <1>1, <1>2 DEF Fit, Knows, OfferSteps, IdSteps

\* A request that moves finds the others' knowledge still true.
LEMMA Moved ==
    ASSUME Sound, DocsSound', Grow, NEW w \in Workers, NEW u, task' = [task EXCEPT ![w] = u],
           Fit(u), Knows(u, A', issued', O', F')
    PROVE  Sound'
<1>1. ASSUME NEW v \in Workers PROVE Fit(task'[v]) /\ Knows(task'[v], A', issued', O', F')
  <2>1. CASE v = w
    BY <2>1 DEF Sound, Tasks
  <2>2. CASE v # w
    <3>1. task'[v] = task[v] /\ Fit(task[v]) /\ Knows(task[v], A, issued, O, F)
      BY <2>2 DEF Sound, Tasks
    <3>2. task[v].pc = "respond_cas" => task[v].o \in Offers /\ F[task[v].o] \in Cands
      BY <3>1 DEF Fit, Knows, OfferSteps
    <3> QED
      BY <3>1, <3>2 DEF Grow, Knows, Due
  <2> QED
    BY <2>1, <2>2
<1>2. DOMAIN task' = Workers /\ task' = [v \in Workers |-> task'[v]]
  BY DEF Sound, Tasks
<1> QED
  BY <1>1, <1>2 DEF Sound, Tasks

\* One request moved, and holds no Employee ID.
Hold == {"emp_insert", "id_release"}
Aside(w) == \E u : task' = [task EXCEPT ![w] = u] /\ u.pc \notin Hold

LEMMA Finished ==
    ASSUME Sound, DocsSound', Grow, NEW w \in Workers, Finish(w) PROVE Sound' /\ Aside(w)
BY IdleFits, Moved DEF Finish, Aside, Hold

LEMMA WentTo ==
    ASSUME Sound, DocsSound', Grow, NEW w \in Workers, NEW pc \in PCs \ {"idle", "respond_cas"}, Goto(w, pc),
           task[w].c \in Cands, pc \in OfferSteps => task[w].o \in Offers,
           pc = "id_claim" => task[w].code # 0,
           Knows([task[w] EXCEPT !.pc = pc], A', issued', O', F')
    PROVE  Sound' /\ (pc \notin Hold => Aside(w))
<1> DEFINE u == [task[w] EXCEPT !.pc = pc]
<1>1. task' = [task EXCEPT ![w] = u]
  BY DEF Goto, Sound, Tasks
<1>2. Fit(task[w])
  BY DEF Sound, Tasks
<1>3. Fit(u) /\ u.pc = pc
  BY <1>2 DEF Fit, Task
<1> HIDE DEF u
<1>4. Sound'
  BY <1>1, <1>3, Moved DEF u
<1> QED
  BY <1>1, <1>3, <1>4 DEF Aside

LEMMA ThenMoved ==
    ASSUME Sound, DocsSound', Grow, NEW w \in Workers, NEW to \in Stage, ThenMove(w, to),
           task[w].c \in Cands, Due(task[w].c, to, A', issued', O')
    PROVE  Sound' /\ Aside(w)
<1> DEFINE u == [task[w] EXCEPT !.pc = "move_read", !.to = to]
<1>1. task' = [task EXCEPT ![w] = u]
  BY DEF ThenMove, Sound, Tasks
<1>2. Fit(task[w])
  BY DEF Sound, Tasks
<1>3. Fit(u) /\ u.pc = "move_read" /\ u.c = task[w].c /\ u.to = to
  <2>1. u \in Task /\ u.pc = "move_read" /\ u.c = task[w].c /\ u.to = to
    BY <1>2 DEF Fit, Task, PCs
  <2> HIDE DEF u
  <2> QED
    BY <2>1 DEF Fit, OfferSteps
<1> HIDE DEF u
<1>4. Knows(u, A', issued', O', F')
  BY <1>3 DEF Knows, IdSteps
<1>5. Sound'
  BY <1>1, <1>3, <1>4, Moved
<1> QED
  BY <1>1, <1>3, <1>5 DEF Aside, Hold

LEMMA WentOn ==
    ASSUME Sound, DocsSound', Grow, NEW w \in Workers, After(w), task[w].c \in Cands
    PROVE  Sound' /\ Aside(w)
<1>1. CASE Finish(w)
  BY <1>1, Finished
<1>2. CASE Goto(w, "onb_read")
  <2>1. Fit(task[w])
    BY DEF Sound, Tasks
  <2>2. [task[w] EXCEPT !.pc = "onb_read"].pc = "onb_read"
    BY <2>1 DEF Fit, Task
  <2>3. Knows([task[w] EXCEPT !.pc = "onb_read"], A', issued', O', F')
    BY <2>2 DEF Knows, IdSteps
  <2>4. "onb_read" \in PCs \ {"idle", "respond_cas"} /\ "onb_read" \notin OfferSteps \cup Hold
    BY DEF PCs, OfferSteps, Hold
  <2> QED
    BY <1>2, <2>3, <2>4, WentTo
<1> QED
  BY <1>1, <1>2 DEF After

\* No document changes.
Docs == <<stage, replies, letters, cases, crashes>>

LEMMA Still ==
    ASSUME Sound, UNCHANGED Docs
    PROVE  /\ DocsSound' /\ Grow /\ Same
           /\ A' = A /\ O' = O /\ F' = F /\ issued' = issued /\ onb' = onb
<1>1. UNCHANGED <<stage, offer, answer, letter, issued, onb, staff, codes, crashes>>
  BY DEF Docs, replies, letters, cases
<1>2. A' = A /\ O' = O /\ F' = F
  BY <1>1 DEF A, O, F, HasAccepted
<1>3. DocsTyped'
  BY <1>1 DEF Sound, DocsSound, DocsTyped, StageTyped, OfferTyped, LetterTyped, CaseTyped
<1>4. Backed'
  BY <1>1, <1>2 DEF Sound, DocsSound, Backed
<1> QED
  BY <1>1, <1>2, <1>3, <1>4 DEF DocsSound, Grow, Same

-----------------------------------------------------------------------------
(* A request begins                                                         *)

LEMMA Begun ==
    ASSUME Sound, NEW w \in Workers, NEW op \in Ops, NEW t, Begin(w, op, t), Fit(t),
           Knows(t, A, issued, O, F), t.pc \notin Hold
    PROVE  Sound' /\ Same /\ onb' = onb /\ Aside(w)
<1> DEFINE u == [t EXCEPT !.op = op]
<1>1. task' = [task EXCEPT ![w] = u] /\ UNCHANGED Docs
  BY DEF Begin, Docs
<1>2. Fit(u) /\ u.pc = t.pc /\ u.c = t.c /\ u.to = t.to /\ u.o = t.o
  BY DEF Fit, Task
<1> HIDE DEF u
<1>3. DocsSound' /\ Grow /\ Same /\ A' = A /\ O' = O /\ F' = F /\ issued' = issued /\ onb' = onb
  BY <1>1, Still
<1>4. Knows(u, A', issued', O', F')
  BY <1>2, <1>3 DEF Knows
<1>5. Sound'
  BY <1>1, <1>2, <1>3, <1>4, Moved
<1> QED
  BY <1>1, <1>2, <1>3, <1>5 DEF Aside

\* A request on a candidate carries the candidate.
LEMMA Simple ==
    ASSUME NEW c \in Cands, NEW pc \in PCs \ (OfferSteps \cup IdSteps \cup {"move_read", "move_write",
               "letter_dup", "letter_insert", "letter_cancel", "onb_dup", "onb_letter", "onb_insert"})
    PROVE  LET t == [Idle EXCEPT !.pc = pc, !.c = c]
           IN  /\ Fit(t) /\ t.pc = pc /\ t.pc \notin Hold
               /\ \A X, Y, Z, G : Knows(t, X, Y, Z, G)
<1> DEFINE t == [Idle EXCEPT !.pc = pc, !.c = c]
<1>1. t.pc = pc /\ t.c = c /\ t \in Task
  BY IdleFits DEF Fit, Task, Idle
<1> HIDE DEF t
<1>2. Fit(t)
  BY <1>1 DEF Fit, OfferSteps, IdSteps
<1>3. \A X, Y, Z, G : Knows(t, X, Y, Z, G)
  BY <1>1 DEF Knows, OfferSteps
<1> QED
  BY <1>1, <1>2, <1>3 DEF t, Hold, IdSteps

LEMMA ReadingIs ==
    ASSUME Sound, NEW o \in Offers, offer[o].status # "None", NEW pc \in PCs
    PROVE  LET t == Reading(o, pc)
           IN  t \in Task /\ t.pc = pc /\ t.o = o /\ t.c = offer[o].for /\ t.c \in Cands
<1> DEFINE Read(r, s, b) == [Idle EXCEPT !.pc = pc, !.o = o, !.c = r, !.ctc = s, !.approved = b]
<1>1. ASSUME NEW r \in Cands, NEW s \in Ctc \cup {0}, NEW b \in BOOLEAN
      PROVE  LET t == Read(r, s, b) IN t \in Task /\ t.pc = pc /\ t.o = o /\ t.c = r
  BY IdleFits DEF Fit, Task
<1>2. offer[o].for \in Cands /\ offer[o].ctc \in Ctc \cup {0}
  BY DEF Sound, DocsSound, DocsTyped, OfferTyped, OfferDoc
<1>3. \E b \in BOOLEAN : Reading(o, pc) = Read(offer[o].for, offer[o].ctc, b)
  <2>1. (offer[o].granted # 0) \in BOOLEAN
    OBVIOUS
  <2> QED
    BY <2>1, Zenon DEF Reading
<1> HIDE DEF Read
<1> QED
  BY <1>1, <1>2, <1>3

LEMMA ReadingFits ==
    ASSUME Sound, NEW o \in Offers, offer[o].status # "None", NEW pc \in OfferSteps \ {"respond_cas"}
    PROVE  LET t == Reading(o, pc)
           IN  Fit(t) /\ t.pc = pc /\ t.pc \notin Hold /\ \A X, Y, Z, G : Knows(t, X, Y, Z, G)
<1> DEFINE t == Reading(o, pc)
<1>1. pc \in PCs
  BY DEF OfferSteps, PCs
<1>2. t.pc = pc /\ t.c \in Cands /\ t.o = o /\ t \in Task
  BY <1>1, ReadingIs
<1> HIDE DEF t
<1>3. Fit(t)
  BY <1>2 DEF Fit, OfferSteps
<1>4. \A X, Y, Z, G : Knows(t, X, Y, Z, G)
  BY <1>2 DEF Knows, OfferSteps, IdSteps
<1> QED
  BY <1>2, <1>3, <1>4 DEF t, Hold, OfferSteps

LEMMA OfferBegun ==
    ASSUME Sound, NEW w \in Workers, NEW o \in Offers, StartOffer(w, o)
    PROVE  Sound' /\ Same /\ onb' = onb /\ Aside(w)
<1>1. offer[o].status # "None"
  BY DEF StartOffer, StartApprove, StartEdit, StartSend, StartRevoke, StartDeleteOffer, StartRespond,
     Revocable, Editable
<1>2. ASSUME NEW pc \in OfferSteps \ {"respond_cas"}, NEW op \in Ops, Begin(w, op, Reading(o, pc))
      PROVE  Sound' /\ Same /\ onb' = onb /\ Aside(w)
  <2>1. Fit(Reading(o, pc)) /\ Reading(o, pc).pc \notin Hold /\ Knows(Reading(o, pc), A, issued, O, F)
    BY <1>1, ReadingFits
  <2> QED
    BY <1>2, <2>1, Begun
<1>3. /\ {"approve_write", "edit_write", "send_cas", "revoke_write", "offer_delete"}
           \subseteq OfferSteps \ {"respond_cas"}
      /\ {"approve", "edit", "send", "revoke", "delete-offer", "respond"} \subseteq Ops
  BY DEF OfferSteps, Ops
<1>4. CASE StartApprove(w, o)
  BY <1>2, <1>3, <1>4 DEF StartApprove
<1>5. CASE StartSend(w, o)
  BY <1>2, <1>3, <1>5 DEF StartSend
<1>6. CASE StartRevoke(w, o)
  BY <1>2, <1>3, <1>6 DEF StartRevoke
<1>7. CASE StartDeleteOffer(w, o)
  BY <1>2, <1>3, <1>7 DEF StartDeleteOffer
<1>8. CASE StartEdit(w, o)
  <2>1. PICK ctc \in Ctc : Begin(w, "edit", [Reading(o, "edit_write") EXCEPT !.ctc = ctc])
    BY <1>8 DEF StartEdit
  <2> DEFINE r == Reading(o, "edit_write")
             t == [r EXCEPT !.ctc = ctc]
  <2>2. Fit(r) /\ r.pc = "edit_write"
    BY <1>1, <1>3, ReadingFits
  <2> HIDE DEF r
  <2>3. Fit(t) /\ t.pc = "edit_write"
    BY <2>2 DEF Fit, Task
  <2>4. t.pc \notin Hold /\ Knows(t, A, issued, O, F)
    BY <2>3 DEF Knows, Hold, IdSteps
  <2> QED
    BY <1>3, <2>1, <2>3, <2>4, Begun DEF r
<1>9. CASE StartRespond(w, o)
  <2>1. PICK reply \in {"OfferAccepted", "OfferDeclined"} :
            Begin(w, "respond", [Reading(o, "respond_cas") EXCEPT !.to = reply])
    BY <1>9 DEF StartRespond
  <2> DEFINE t == [Reading(o, "respond_cas") EXCEPT !.to = reply]
  <2>2. /\ Reading(o, "respond_cas") \in Task /\ Reading(o, "respond_cas").pc = "respond_cas"
        /\ Reading(o, "respond_cas").o = o /\ Reading(o, "respond_cas").c = offer[o].for
        /\ offer[o].for \in Cands
    <3>1. "respond_cas" \in PCs
      BY DEF PCs
    <3> QED
      BY <1>1, <3>1, ReadingIs
  <2>3. t.pc = "respond_cas" /\ t.c = offer[o].for /\ t.o = o /\ t.to = reply /\ t \in Task
    BY <2>2 DEF Task, Stage, Accepted
  <2> HIDE DEF t
  <2>4. Fit(t)
    BY <2>2, <2>3 DEF Fit, OfferSteps
  <2>5. Knows(t, A, issued, O, F) /\ t.pc \notin Hold
    BY <2>3 DEF Knows, F, IdSteps, Hold
  <2> QED
    BY <1>3, <2>1, <2>4, <2>5, Begun DEF t
<1> QED
  BY <1>4, <1>5, <1>6, <1>7, <1>8, <1>9 DEF StartOffer

LEMMA CandBegun ==
    ASSUME Sound, NEW w \in Workers, NEW c \in Cands, StartCand(w, c)
    PROVE  Sound' /\ Same /\ onb' = onb /\ Aside(w)
<1>1. ASSUME NEW op \in Ops,
             NEW pc \in PCs \ (OfferSteps \cup IdSteps \cup {"move_read", "move_write",
               "letter_dup", "letter_insert", "letter_cancel", "onb_dup", "onb_letter", "onb_insert"}),
             Begin(w, op, [Idle EXCEPT !.pc = pc, !.c = c])
      PROVE  Sound' /\ Same /\ onb' = onb /\ Aside(w)
  <2> DEFINE t == [Idle EXCEPT !.pc = pc, !.c = c]
  <2>1. Fit(t) /\ t.pc \notin Hold /\ Knows(t, A, issued, O, F)
    BY Simple
  <2> HIDE DEF t
  <2> QED
    BY <1>1, <2>1, Begun DEF t
<1>2. /\ {"cand_delete", "letter_cas", "letter_open", "letter_ack", "onb_read"}
           \subseteq PCs \ (OfferSteps \cup IdSteps \cup {"move_read", "move_write",
               "letter_dup", "letter_insert", "letter_cancel", "onb_dup", "onb_letter", "onb_insert"})
      /\ {"delete", "create", "draft-letter", "send-letter", "cancel-letter", "open-letter",
          "acknowledge", "onboard", "employ", "select", "park", "duplicate", "hand"} \subseteq Ops
  BY DEF PCs, OfferSteps, IdSteps, Ops, Moves
<1>3. CASE StartDelete(w, c)
  BY <1>1, <1>2, <1>3 DEF StartDelete
<1>4. CASE StartSendLetter(w, c)
  BY <1>1, <1>2, <1>4 DEF StartSendLetter
<1>5. CASE StartOpenLetter(w, c)
  BY <1>1, <1>2, <1>5 DEF StartOpenLetter
<1>6. CASE StartAcknowledge(w, c)
  BY <1>1, <1>2, <1>6 DEF StartAcknowledge
<1>7. CASE StartOnboard(w, c)
  BY <1>1, <1>2, <1>7 DEF StartOnboard
<1>8. CASE \E to \in Stage : StartMove(w, c, to)
  <2>1. PICK to \in Stage : Begin(w, MoveOp(to), [Idle EXCEPT !.pc = "move_gate", !.c = c, !.to = to])
    BY <1>8 DEF StartMove
  <2> DEFINE t == [Idle EXCEPT !.pc = "move_gate", !.c = c, !.to = to]
  <2>2. MoveOp(to) \in Ops
    BY <1>2 DEF MoveOp
  <2>3. t.pc = "move_gate" /\ t.c = c /\ t \in Task
    BY IdleFits DEF Fit, Task, Idle, PCs
  <2> HIDE DEF t
  <2>4. Fit(t) /\ Knows(t, A, issued, O, F) /\ t.pc \notin Hold
    BY <2>3 DEF Fit, Knows, OfferSteps, IdSteps, Hold
  <2> QED
    BY <2>1, <2>2, <2>4, Begun DEF t
<1>9. CASE StartCreate(w, c)
  <2>1. PICK ctc \in Ctc : Begin(w, "create", [Idle EXCEPT !.pc = "offer_dup", !.c = c, !.ctc = ctc])
    BY <1>9 DEF StartCreate
  <2> DEFINE t == [Idle EXCEPT !.pc = "offer_dup", !.c = c, !.ctc = ctc]
  <2>2. t.pc = "offer_dup" /\ t.c = c /\ t \in Task
    BY IdleFits DEF Fit, Task, Idle, PCs
  <2> HIDE DEF t
  <2>3. Fit(t) /\ Knows(t, A, issued, O, F) /\ t.pc \notin Hold
    BY <2>2 DEF Fit, Knows, OfferSteps, IdSteps, Hold
  <2> QED
    BY <1>2, <2>1, <2>3, Begun DEF t
<1>10. Backed
  BY DEF Sound, DocsSound
<1>11. ASSUME NEW op \in Ops, NEW pc \in {"letter_dup", "letter_cancel", "id_mint"},
              Begin(w, op, [Idle EXCEPT !.pc = pc, !.c = c]),
              pc # "id_mint" => c \in A, pc = "id_mint" => c \in O
       PROVE  Sound' /\ Same /\ onb' = onb /\ Aside(w)
  <2> DEFINE t == [Idle EXCEPT !.pc = pc, !.c = c]
  <2>1. t.pc = pc /\ t.c = c /\ t \in Task
    BY IdleFits DEF Fit, Task, Idle, PCs
  <2> HIDE DEF t
  <2>2. Fit(t) /\ Knows(t, A, issued, O, F) /\ t.pc \notin Hold
    BY <1>11, <2>1 DEF Fit, Knows, OfferSteps, IdSteps, Hold
  <2> QED
    BY <1>11, <2>2, Begun DEF t
<1>12. CASE StartDraftLetter(w, c)
  <2>1. c \in A
    BY <1>10, <1>12 DEF StartDraftLetter, Appointable, Backed, Due, Accepted
  <2> QED
    BY <1>2, <1>11, <1>12, <2>1 DEF StartDraftLetter
<1>13. CASE StartCancelLetter(w, c)
  <2>1. c \in A
    BY <1>10, <1>13 DEF StartCancelLetter, Cancellable, Backed
  <2> QED
    BY <1>2, <1>11, <1>13, <2>1 DEF StartCancelLetter
<1>14. CASE StartEmploy(w, c)
  <2>1. c \in O
    BY <1>14 DEF StartEmploy, O
  <2> QED
    BY <1>2, <1>11, <1>14, <2>1 DEF StartEmploy
<1> QED
  BY <1>3, <1>4, <1>5, <1>6, <1>7, <1>8, <1>9, <1>12, <1>13, <1>14 DEF StartCand

-----------------------------------------------------------------------------
(* A request goes on                                                        *)

Carries(w) == Fit(task[w]) /\ Knows(task[w], A, issued, O, F)

LEMMA Carried == ASSUME Sound, NEW w \in Workers PROVE Carries(w)
  BY DEF Sound, Tasks, Carries

\* A step that only judges: it ends the request or sends it to pc.
LEMMA Judged ==
    ASSUME Sound, NEW w \in Workers, UNCHANGED Docs, task[w].pc # "idle",
           NEW pc \in PCs \ (OfferSteps \cup IdSteps \cup {"idle", "move_read"}),
           Finish(w) \/ Goto(w, pc),
           Goto(w, pc) => /\ pc = "move_write" => Due(task[w].c, task[w].to, A, issued, O)
                          /\ pc \in {"letter_dup", "letter_insert", "letter_cancel"} => task[w].c \in A
                          /\ pc \in {"onb_dup", "onb_letter", "onb_insert"} => task[w].c \in issued
    PROVE  Sound' /\ Same /\ onb' = onb /\ Aside(w)
<1>1. DocsSound' /\ Grow /\ Same /\ A' = A /\ O' = O /\ F' = F /\ issued' = issued /\ onb' = onb
  BY Still
<1>2. CASE Finish(w)
  BY <1>1, <1>2, Finished
<1>3. CASE Goto(w, pc)
  <2> DEFINE u == [task[w] EXCEPT !.pc = pc]
  <2>1. Fit(task[w]) /\ task[w].c \in Cands
    BY Carried DEF Carries, Fit
  <2>2. u.pc = pc /\ u.c = task[w].c /\ u.to = task[w].to
    BY <2>1 DEF Fit, Task
  <2> HIDE DEF u
  <2>3. Knows(u, A', issued', O', F')
    BY <1>1, <1>3, <2>2 DEF Knows, OfferSteps
  <2>4. pc \notin Hold /\ pc \notin OfferSteps /\ pc # "id_claim" /\ pc \in PCs \ {"idle", "respond_cas"}
    BY DEF Hold, IdSteps, OfferSteps
  <2> QED
    BY <1>1, <1>3, <2>1, <2>3, <2>4, WentTo DEF u
<1> QED
  BY <1>2, <1>3

LEMMA JudgeSteps ==
    ASSUME Sound, NEW w \in Workers,
           MoveGate(w) \/ OfferDup(w) \/ LetterDup(w) \/ OnbRead(w) \/ OnbDup(w) \/ OnbLetter(w)
    PROVE  Sound' /\ Same /\ onb' = onb /\ Aside(w)
<1> DEFINE c == task[w].c
<1>1. Fit(task[w]) /\ Knows(task[w], A, issued, O, F) /\ Backed
  BY Carried DEF Carries, Sound, DocsSound
<1>2. {"move_write", "offer_insert", "letter_insert", "onb_dup", "onb_letter", "onb_insert"}
        \subseteq PCs \ (OfferSteps \cup IdSteps \cup {"idle", "move_read"})
  BY DEF PCs, OfferSteps, IdSteps
<1>3. CASE MoveGate(w)
  <2>1. task[w].pc = "move_gate" /\ UNCHANGED Docs /\ (Finish(w) \/ Goto(w, "move_write"))
    BY <1>3 DEF MoveGate, At, Docs
  <2>2. c \in Cands
    BY <1>1, <2>1 DEF Fit
  <2>3. ASSUME Goto(w, "move_write") PROVE BackedBy(c, task[w].to)
    <3>1. task'[w].pc = "move_write"
      BY <1>1, <2>3 DEF Goto, Sound, Tasks, Fit, Task
    <3>2. ~Finish(w)
      BY <3>1, IdleFits DEF Finish, Sound, Tasks
    <3> QED
      BY <1>3, <3>2 DEF MoveGate
  <2>4. BackedBy(c, task[w].to) => Due(c, task[w].to, A, issued, O)
    <3> SUFFICES ASSUME BackedBy(c, task[w].to) PROVE Due(c, task[w].to, A, issued, O)
      OBVIOUS
    <3>1. O \subseteq issued /\ issued \subseteq A
      BY <1>1 DEF Backed
    <3>2. CASE task[w].to = "OfferAccepted"
      <4>1. PICK o \in OffersTo(c) : offer[o].status = "Accepted"
        BY <3>2 DEF BackedBy
      <4>2. o \in Offers /\ offer[o].for = c /\ answer[o] = "OfferAccepted"
        BY <1>1, <4>1 DEF OffersTo, Backed
      <4>3. c \in A
        BY <2>2, <4>2 DEF A, HasAccepted
      <4> QED
        BY <3>2, <4>3 DEF Due
    <3>3. CASE task[w].to = "LetterSent"
      <4>1. c \in issued
        BY <1>1, <2>2, <3>3 DEF BackedBy, Backed
      <4> QED
        BY <3>1, <3>3, <4>1 DEF Due
    <3>4. CASE task[w].to \in {"PreOnboarding", "Joined"}
      <4>1. c \in O
        BY <2>2, <3>4 DEF BackedBy, O
      <4> QED
        BY <3>1, <4>1 DEF Due
    <3>5. CASE task[w].to \notin Accepted
      BY <3>5 DEF Due, Accepted
    <3> QED
      BY <3>2, <3>3, <3>4, <3>5 DEF Accepted
  <2> QED
    BY <1>2, <2>1, <2>3, <2>4, Judged
<1>4. CASE OfferDup(w)
  <2>1. task[w].pc = "offer_dup" /\ UNCHANGED Docs /\ (Finish(w) \/ Goto(w, "offer_insert"))
    BY <1>4 DEF OfferDup, At, Docs
  <2> QED
    BY <1>2, <2>1, Judged
<1>5. CASE LetterDup(w)
  <2>1. task[w].pc = "letter_dup" /\ UNCHANGED Docs /\ (Finish(w) \/ Goto(w, "letter_insert"))
    BY <1>5 DEF LetterDup, At, Docs
  <2>2. c \in A
    BY <1>1, <2>1 DEF Knows
  <2> QED
    BY <1>2, <2>1, <2>2, Judged
<1>6. CASE OnbRead(w)
  <2>1. task[w].pc = "onb_read" /\ UNCHANGED Docs /\ (Finish(w) \/ Goto(w, "onb_dup"))
    BY <1>6 DEF OnbRead, At, Docs
  <2>2. ASSUME Goto(w, "onb_dup") PROVE c \in issued
    <3>1. task'[w].pc = "onb_dup"
      BY <1>1, <2>2 DEF Goto, Sound, Tasks, Fit, Task
    <3>2. ~Finish(w)
      BY <3>1, IdleFits DEF Finish, Sound, Tasks
    <3>3. stage[c] = "LetterSent" /\ c \in Cands
      BY <1>1, <1>6, <2>1, <3>2 DEF OnbRead, Fit
    <3> QED
      BY <1>1, <3>3 DEF Backed, Due
  <2> QED
    BY <1>2, <2>1, <2>2, Judged
<1>7. CASE OnbDup(w)
  <2>1. task[w].pc = "onb_dup" /\ UNCHANGED Docs /\ (Finish(w) \/ Goto(w, "onb_letter"))
    BY <1>7 DEF OnbDup, At, Docs
  <2>2. c \in issued
    BY <1>1, <2>1 DEF Knows
  <2> QED
    BY <1>2, <2>1, <2>2, Judged
<1>8. CASE OnbLetter(w)
  <2>1. task[w].pc = "onb_letter" /\ UNCHANGED Docs /\ (Finish(w) \/ Goto(w, "onb_insert"))
    BY <1>8 DEF OnbLetter, At, Docs
  <2>2. c \in issued
    BY <1>1, <2>1 DEF Knows
  <2> QED
    BY <1>2, <2>1, <2>2, Judged
<1> QED
  BY <1>3, <1>4, <1>5, <1>6, <1>7, <1>8

\* The stage: written only where it is due.
LEMMA StageWritten ==
    ASSUME Sound, NEW c \in Cands, NEW s \in Stage, stage' = [stage EXCEPT ![c] = s],
           Due(c, s, A, issued, O), UNCHANGED <<replies, letters, cases, crashes>>
    PROVE  DocsSound' /\ Grow /\ Same /\ onb' = onb
<1>1. UNCHANGED <<offer, answer, letter, issued, onb, staff, codes, crashes>>
  BY DEF replies, letters, cases
<1>2. A' = A /\ O' = O /\ F' = F
  BY <1>1 DEF A, O, F, HasAccepted
<1>3. StageTyped'
  BY DEF StageTyped, Sound, DocsSound, DocsTyped
<1>4. DocsTyped'
  BY <1>1, <1>3 DEF Sound, DocsSound, DocsTyped, OfferTyped, LetterTyped, CaseTyped
<1>5. \A d \in Cands : Due(d, stage'[d], A, issued, O)
  <2>1. StageTyped /\ Backed
    BY DEF Sound, DocsSound, DocsTyped
  <2> QED
    BY <2>1 DEF StageTyped, Backed
<1>6. Backed'
  BY <1>1, <1>2, <1>5 DEF Sound, DocsSound, Backed
<1> QED
  BY <1>1, <1>2, <1>4, <1>6 DEF DocsSound, Grow, Same

LEMMA StageSteps ==
    ASSUME Sound, NEW w \in Workers, MoveRead(w) \/ MoveWrite(w) \/ CandDelete(w)
    PROVE  Sound' /\ Same /\ onb' = onb /\ Aside(w)
<1> DEFINE c == task[w].c
<1>1. Fit(task[w]) /\ Knows(task[w], A, issued, O, F) /\ Backed /\ StageTyped
  BY Carried DEF Carries, Sound, DocsSound, DocsTyped
<1>2. CASE MoveRead(w)
  <2>1. task[w].pc = "move_read" /\ UNCHANGED Docs /\ (Goto(w, "move_write") \/ After(w))
    BY <1>2 DEF MoveRead, At, Docs
  <2>2. Due(c, task[w].to, A, issued, O) /\ c \in Cands
    BY <1>1, <2>1 DEF Knows, Fit
  <2>3. CASE Goto(w, "move_write")
    <3>1. "move_write" \in PCs \ (OfferSteps \cup IdSteps \cup {"idle", "move_read"})
      BY DEF PCs, OfferSteps, IdSteps
    <3> QED
      BY <2>1, <2>2, <2>3, <3>1, Judged
  <2>4. CASE After(w)
    BY <2>1, <2>2, <2>4, Still, WentOn
  <2> QED
    BY <2>1, <2>3, <2>4
<1>3. CASE MoveWrite(w)
  <2>1. task[w].pc = "move_write"
    BY <1>3 DEF MoveWrite, At
  <2>2. Due(c, task[w].to, A, issued, O) /\ c \in Cands /\ task[w].to \in Stage
    BY <1>1, <2>1 DEF Knows, Fit, Task
  <2> DEFINE s == IF stage[c] = "Gone" THEN "Gone" ELSE task[w].to
  <2>3. stage' = [stage EXCEPT ![c] = s] /\ UNCHANGED <<replies, letters, cases, crashes>> /\ After(w)
    BY <1>3 DEF MoveWrite
  <2>4. s \in Stage /\ Due(c, s, A, issued, O)
    BY <2>2 DEF Due, Accepted, Stage
  <2>5. DocsSound' /\ Grow /\ Same /\ onb' = onb
    BY <2>2, <2>3, <2>4, StageWritten
  <2> QED
    BY <2>2, <2>3, <2>5, WentOn
<1>4. CASE CandDelete(w)
  <2>1. task[w].pc = "cand_delete" /\ stage' = [stage EXCEPT ![c] = "Gone"] /\ Finish(w)
        /\ UNCHANGED <<replies, letters, cases, crashes>>
    BY <1>4 DEF CandDelete, At
  <2>2. c \in Cands
    BY <1>1, <2>1 DEF Fit
  <2>3. "Gone" \in Stage /\ Due(c, "Gone", A, issued, O)
    BY DEF Due, Accepted, Stage
  <2>4. DocsSound' /\ Grow /\ Same /\ onb' = onb
    BY <2>1, <2>2, <2>3, StageWritten
  <2> QED
    BY <2>1, <2>4, Finished
<1> QED
  BY <1>2, <1>3, <1>4

\* An offer: rewritten without answering it.
LEMMA OfferWritten ==
    ASSUME Sound, NEW o \in Offers, NEW d \in OfferDoc, offer' = [offer EXCEPT ![o] = d],
           d.status # "None" => d.for \in Cands,
           offer[o].for \in Cands => d.for = offer[o].for,
           d.status = "Accepted" => answer[o] = "OfferAccepted",
           answer[o] # "none" => d.status \notin {"Draft", "Sent"},
           UNCHANGED <<stage, answer, letters, cases, crashes>>
    PROVE  DocsSound' /\ Grow /\ Same /\ onb' = onb
<1>1. UNCHANGED <<stage, answer, letter, issued, onb, staff, codes, crashes>>
  BY DEF letters, cases
<1>2. OfferTyped /\ Backed /\ DocsTyped
  BY DEF Sound, DocsSound, DocsTyped
<1>3. offer' \in [Offers -> OfferDoc] /\ \A p \in Offers : offer'[p] = IF p = o THEN d ELSE offer[p]
  BY <1>2 DEF OfferTyped
<1>4. \A p \in Offers : offer[p].for \in Cands => offer'[p].for = offer[p].for
  BY <1>3
<1>5. \A p \in Offers : answer[p] # "none" => offer[p].for \in Cands
  BY <1>2 DEF Backed
<1>6. A' = A
  BY <1>1, <1>4, <1>5 DEF A, HasAccepted
<1>7. O' = O /\ \A p \in Offers : F[p] \in Cands => F'[p] = F[p]
  BY <1>1, <1>4 DEF O, F
<1>8. OfferTyped'
  BY <1>1, <1>2, <1>3 DEF OfferTyped
<1>9. DocsTyped'
  BY <1>1, <1>2, <1>8 DEF DocsTyped, StageTyped, LetterTyped, CaseTyped
<1>10. \A p \in Offers : /\ offer'[p].status = "Accepted" => answer[p] = "OfferAccepted"
                         /\ answer[p] # "none" => /\ offer'[p].status \notin {"Draft", "Sent"}
                                                  /\ offer'[p].for \in Cands
  BY <1>2, <1>3, <1>4, <1>5 DEF Backed
<1>11. Backed'
  BY <1>1, <1>2, <1>6, <1>7, <1>10 DEF Backed
<1> QED
  BY <1>1, <1>6, <1>7, <1>9, <1>11 DEF DocsSound, Grow, Same

\* The same through WriteOffer, for what keeps whom the offer is for.
LEMMA OfferRewritten ==
    ASSUME Sound, NEW o \in Offers, NEW d, WriteOffer(o, d),
           offer[o].status # "None" =>
               /\ d \in OfferDoc /\ d.for = offer[o].for
               /\ d.status \in {offer[o].status, "Revoked"},
           UNCHANGED <<stage, answer, letters, cases, crashes>>
    PROVE  DocsSound' /\ Grow /\ Same /\ onb' = onb
<1>1. /\ offer \in [Offers -> OfferDoc]
      /\ offer[o].status # "None" => offer[o].for \in Cands
      /\ offer[o].status = "Accepted" => answer[o] = "OfferAccepted"
      /\ answer[o] # "none" => offer[o].status \notin {"Draft", "Sent"}
  BY DEF Sound, DocsSound, DocsTyped, OfferTyped, Backed
<1>2. CASE offer[o].status = "None"
  <2>1. offer' = [offer EXCEPT ![o] = offer[o]] /\ offer[o] \in OfferDoc
    BY <1>1, <1>2 DEF WriteOffer
  <2> QED
    BY <1>1, <1>2, <2>1, OfferWritten
<1>3. CASE offer[o].status # "None"
  <2>1. offer' = [offer EXCEPT ![o] = d]
    BY <1>3 DEF WriteOffer
  <2> QED
    BY <1>1, <1>3, <2>1, OfferWritten
<1> QED
  BY <1>2, <1>3

LEMMA OfferWrites ==
    ASSUME Sound, NEW w \in Workers,
           \/ OfferInsert(w) \/ ApproveWrite(w) \/ EditWrite(w)
           \/ SendCas(w) \/ RevokeWrite(w) \/ OfferDelete(w)
    PROVE  Sound' /\ Same /\ onb' = onb /\ Aside(w)
<1> DEFINE t == task[w]
           o == t.o
<1>1. Fit(t) /\ OfferTyped /\ Backed /\ offer \in [Offers -> OfferDoc]
  BY Carried DEF Carries, Sound, DocsSound, DocsTyped, OfferTyped
<1>2. t.pc \in OfferSteps => o \in Offers /\ offer[o] \in OfferDoc
  BY <1>1 DEF Fit
<1>3. \A p \in Offers : /\ offer[p].status # "None" => offer[p].for \in Cands
                        /\ answer[p] # "none" => /\ offer[p].status \notin {"Draft", "Sent"}
                                                 /\ offer[p].for \in Cands
  BY <1>1 DEF Backed, OfferTyped
<1>4. CASE OfferInsert(w)
  <2>1. t.pc = "offer_insert" /\ Finish(w) /\ UNCHANGED <<stage, answer, letters, cases, crashes>>
    BY <1>4 DEF OfferInsert, At
  <2>2. t.c \in Cands /\ t.ctc \in Ctc \cup {0}
    BY <1>1, <2>1 DEF Fit, Task
  <2> DEFINE d == [status |-> "Draft", for |-> t.c, ctc |-> t.ctc, granted |-> 0]
  <2>3. PICK p \in Offers : Unused(p) /\ offer' = [offer EXCEPT ![p] = d]
    BY <1>4 DEF OfferInsert
  <2>4. offer[p].for = "none" /\ answer[p] = "none"
    BY <1>3, <2>3, ConstantsAssumption DEF Unused, NoOffer
  <2>5. d \in OfferDoc /\ d.status = "Draft" /\ d.for = t.c
    BY <2>2 DEF OfferDoc, OfferStatus
  <2>6. DocsSound' /\ Grow /\ Same /\ onb' = onb
    BY <2>1, <2>2, <2>3, <2>4, <2>5, OfferWritten, ConstantsAssumption
  <2> QED
    BY <2>1, <2>6, Finished
<1>5. CASE ApproveWrite(w)
  <2>1. t.pc \in OfferSteps /\ Finish(w) /\ UNCHANGED <<stage, answer, letters, cases, crashes>>
    BY <1>5 DEF ApproveWrite, At, OfferSteps
  <2> DEFINE d == [offer[o] EXCEPT !.granted = t.ctc]
  <2>2. WriteOffer(o, d)
    BY <1>5 DEF ApproveWrite
  <2>3. d \in OfferDoc /\ d.for = offer[o].for /\ d.status = offer[o].status
    BY <1>1, <1>2, <2>1 DEF OfferDoc, Fit, Task
  <2>4. DocsSound' /\ Grow /\ Same /\ onb' = onb
    BY <1>2, <2>1, <2>2, <2>3, OfferRewritten
  <2> QED
    BY <2>1, <2>4, Finished
<1>6. CASE EditWrite(w)
  <2>1. t.pc \in OfferSteps /\ Finish(w) /\ UNCHANGED <<stage, answer, letters, cases, crashes>>
    BY <1>6 DEF EditWrite, At, OfferSteps
  <2> DEFINE d == EditedOffer(t, offer[o])
  <2>2. WriteOffer(o, d)
    BY <1>6 DEF EditWrite
  <2>3. d \in OfferDoc /\ d.for = offer[o].for /\ d.status = offer[o].status
    BY <1>1, <1>2, <2>1 DEF OfferDoc, Fit, Task, EditedOffer
  <2>4. DocsSound' /\ Grow /\ Same /\ onb' = onb
    BY <1>2, <2>1, <2>2, <2>3, OfferRewritten
  <2> QED
    BY <2>1, <2>4, Finished
<1>7. CASE SendCas(w)
  <2>1. t.pc = "send_cas" /\ UNCHANGED <<stage, answer, letters, cases, crashes>>
    BY <1>7 DEF SendCas, At
  <2>2. o \in Offers /\ offer[o] \in OfferDoc /\ t.c \in Cands
    BY <1>1, <1>2, <2>1 DEF OfferSteps, Fit
  <2>3. CASE offer[o].status = "Draft"
    <3> DEFINE d == [offer[o] EXCEPT !.status = "Sent"]
    <3>1. offer' = [offer EXCEPT ![o] = d] /\ ThenMove(w, "OfferGenerated")
      BY <1>7, <2>3 DEF SendCas
    <3>2. d \in OfferDoc /\ d.for = offer[o].for /\ d.status = "Sent"
      BY <2>2 DEF OfferDoc, OfferStatus
    <3>3. offer[o].for \in Cands /\ answer[o] = "none"
      BY <1>3, <2>2, <2>3
    <3>4. DocsSound' /\ Grow /\ Same /\ onb' = onb
      BY <2>1, <2>2, <3>1, <3>2, <3>3, OfferWritten
    <3>5. "OfferGenerated" \in Stage /\ Due(t.c, "OfferGenerated", A', issued', O')
      BY DEF Stage, Due, Accepted
    <3> QED
      BY <2>2, <3>1, <3>4, <3>5, ThenMoved
  <2>4. CASE offer[o].status # "Draft"
    <3>1. UNCHANGED Docs /\ Finish(w)
      BY <1>7, <2>1, <2>4 DEF SendCas, Docs, replies
    <3> QED
      BY <3>1, Still, Finished
  <2> QED
    BY <2>3, <2>4
<1>8. CASE RevokeWrite(w)
  <2>1. t.pc = "revoke_write" /\ ThenMove(w, "Selected") /\ UNCHANGED <<stage, answer, letters, cases, crashes>>
    BY <1>8 DEF RevokeWrite, At
  <2>2. o \in Offers /\ offer[o] \in OfferDoc /\ t.c \in Cands
    BY <1>1, <1>2, <2>1 DEF OfferSteps, Fit
  <2> DEFINE d == [offer[o] EXCEPT !.status = "Revoked"]
  <2>3. WriteOffer(o, d)
    BY <1>8 DEF RevokeWrite
  <2>4. d \in OfferDoc /\ d.for = offer[o].for /\ d.status = "Revoked"
    BY <2>2 DEF OfferDoc, OfferStatus
  <2>5. DocsSound' /\ Grow /\ Same /\ onb' = onb
    BY <2>1, <2>2, <2>3, <2>4, OfferRewritten
  <2>6. "Selected" \in Stage /\ Due(t.c, "Selected", A', issued', O')
    BY DEF Stage, Due, Accepted
  <2> QED
    BY <2>1, <2>2, <2>5, <2>6, ThenMoved
<1>9. CASE OfferDelete(w)
  <2>1. t.pc \in OfferSteps /\ Finish(w) /\ UNCHANGED <<stage, answer, letters, cases, crashes>>
    BY <1>9 DEF OfferDelete, At, OfferSteps
  <2> DEFINE d == [offer[o] EXCEPT !.status = "None"]
  <2>2. offer' = [offer EXCEPT ![o] = d]
    BY <1>9 DEF OfferDelete
  <2>3. d \in OfferDoc /\ d.for = offer[o].for /\ d.status = "None"
    BY <1>2, <2>1 DEF OfferDoc, OfferStatus
  <2>4. DocsSound' /\ Grow /\ Same /\ onb' = onb
    BY <1>2, <2>1, <2>2, <2>3, OfferWritten
  <2> QED
    BY <2>1, <2>4, Finished
<1> QED
  BY <1>4, <1>5, <1>6, <1>7, <1>8, <1>9

\* An offer answered: the candidate it is for has accepted it, or declined.
LEMMA Responded ==
    ASSUME Sound, NEW w \in Workers, RespondCas(w)
    PROVE  /\ Sound' /\ onb' = onb /\ staff' = staff /\ issued' = issued /\ O' = O /\ Aside(w)
           /\ A \subseteq A' /\ A' \subseteq A \cup {task[w].c}
<1> DEFINE t == task[w]
           o == t.o
<1>1. Fit(t) /\ Knows(t, A, issued, O, F) /\ DocsTyped /\ OfferTyped /\ Backed
  BY Carried DEF Carries, Sound, DocsSound, DocsTyped
<1>2. t.pc = "respond_cas" /\ UNCHANGED <<stage, letters, cases, crashes>>
  BY DEF RespondCas, At
<1>3. o \in Offers /\ t.c \in Cands /\ t.to \in {"OfferAccepted", "OfferDeclined"} /\ offer[o].for = t.c
  BY <1>1, <1>2 DEF Fit, OfferSteps, Knows, F
<1>4. UNCHANGED <<stage, letter, issued, onb, staff, codes, crashes>> /\ O' = O
  BY <1>2 DEF letters, cases, O
<1>5. CASE ~Answerable(o)
  <2>1. UNCHANGED Docs /\ Finish(w)
    BY <1>2, <1>5 DEF RespondCas, Docs
  <2> QED
    BY <1>4, <2>1, Still, Finished
<1>6. CASE Answerable(o)
  <2> DEFINE s == IF t.to = "OfferAccepted" THEN "Accepted" ELSE "Declined"
             d == [offer[o] EXCEPT !.status = s]
  <2>1. offer' = [offer EXCEPT ![o] = d] /\ answer' = [answer EXCEPT ![o] = t.to] /\ ThenMove(w, t.to)
    BY <1>6 DEF RespondCas
  <2>2. offer[o].status = "Sent" /\ answer[o] = "none" /\ offer[o] \in OfferDoc
    BY <1>1, <1>3, <1>6 DEF Answerable, Backed, OfferTyped
  <2>3. d \in OfferDoc /\ d.for = t.c /\ d.status = s
    BY <1>3, <2>2 DEF OfferDoc, OfferStatus
  <2>4. \A p \in Offers : /\ offer'[p] = IF p = o THEN d ELSE offer[p]
                          /\ answer'[p] = IF p = o THEN t.to ELSE answer[p]
    BY <1>1, <2>1 DEF OfferTyped
  <2>5. \A p \in Offers : offer'[p].for = offer[p].for
    BY <1>3, <2>3, <2>4
  <2>6. OfferTyped'
    <3>1. offer' \in [Offers -> OfferDoc] /\ answer' \in [Offers -> {"none", "OfferAccepted", "OfferDeclined"}]
      BY <1>1, <1>3, <2>1, <2>3 DEF OfferTyped
    <3> QED
      BY <1>1, <1>3, <2>3, <2>4, <3>1 DEF OfferTyped
  <2>7. A \subseteq A' /\ A' \subseteq A \cup {t.c}
    BY <1>3, <2>2, <2>4, <2>5 DEF A, HasAccepted
  <2>8. t.to = "OfferAccepted" => t.c \in A'
    BY <1>3, <2>4, <2>5 DEF A, HasAccepted
  <2>9. DocsTyped'
    BY <1>1, <1>4, <2>6 DEF DocsTyped, StageTyped, LetterTyped, CaseTyped
  <2>10. \A p \in Offers : /\ offer'[p].status = "Accepted" => answer'[p] = "OfferAccepted"
                           /\ answer'[p] # "none" => /\ offer'[p].status \notin {"Draft", "Sent"}
                                                     /\ offer'[p].for \in Cands
    <3> TAKE p \in Offers
    <3>1. CASE p = o
      <4>1. offer'[p] = d /\ answer'[p] = t.to
        BY <2>4, <3>1
      <4> QED
        BY <1>3, <2>3, <4>1
    <3>2. CASE p # o
      BY <1>1, <2>4, <3>2 DEF Backed
    <3> QED
      BY <3>1, <3>2
  <2>11. Backed'
    BY <1>1, <1>4, <2>7, <2>10 DEF Backed, Due
  <2>12. Grow
    BY <1>4, <2>5, <2>7 DEF Grow, F
  <2>13. t.to \in Stage /\ Due(t.c, t.to, A', issued', O')
    BY <1>3, <2>8 DEF Stage, Due, Accepted
  <2> QED
    BY <1>3, <1>4, <2>1, <2>7, <2>9, <2>11, <2>12, <2>13, ThenMoved DEF DocsSound
<1> QED
  BY <1>5, <1>6

\* A letter: only for whom it is due.
LEMMA LetterWritten ==
    ASSUME Sound, NEW c \in Cands, NEW l \in LetterStatus, letter' = [letter EXCEPT ![c] = l],
           l # "None" => c \in A, l \in InForce => c \in issued',
           issued \subseteq issued', issued' \subseteq A,
           UNCHANGED <<stage, replies, cases, crashes>>
    PROVE  DocsSound' /\ Grow /\ A' = A /\ O' = O /\ onb' = onb /\ staff' = staff
<1>1. UNCHANGED <<stage, offer, answer, onb, staff, codes, crashes>>
  BY DEF replies, cases
<1>2. DocsTyped /\ LetterTyped /\ Backed
  BY DEF Sound, DocsSound, DocsTyped
<1>3. A' = A /\ O' = O /\ F' = F
  BY <1>1 DEF A, O, F, HasAccepted
<1>4. LetterTyped'
  BY <1>2 DEF LetterTyped, A
<1>5. DocsTyped'
  BY <1>1, <1>2, <1>4 DEF DocsTyped, StageTyped, OfferTyped, CaseTyped
<1>6. \A d \in Cands : letter'[d] = IF d = c THEN l ELSE letter[d]
  BY <1>2 DEF LetterTyped
<1>7. Backed'
  BY <1>1, <1>2, <1>3, <1>6 DEF Backed, Due
<1> QED
  BY <1>1, <1>3, <1>5, <1>7 DEF DocsSound, Grow

LEMMA LetterWrites ==
    ASSUME Sound, NEW w \in Workers, LetterInsert(w) \/ LetterCancel(w) \/ LetterOpen(w) \/ LetterAck(w)
    PROVE  Sound' /\ Same /\ onb' = onb /\ Aside(w)
<1> DEFINE c == task[w].c
<1>1. /\ Fit(task[w]) /\ Knows(task[w], A, issued, O, F) /\ issued \subseteq A
      /\ letter \in [Cands -> LetterStatus] /\ (c \in Cands => letter[c] \in LetterStatus)
      /\ c \in Cands => /\ letter[c] # "None" => c \in A
                        /\ letter[c] \in InForce => c \in issued
  BY Carried DEF Carries, Sound, DocsSound, DocsTyped, LetterTyped, Backed
<1>2. /\ UNCHANGED <<stage, replies, issued, cases, crashes>> /\ Finish(w)
      /\ task[w].pc \in {"letter_insert", "letter_cancel", "letter_open", "letter_ack"}
  BY DEF LetterInsert, LetterCancel, LetterOpen, LetterAck, At
<1>3. c \in Cands
  BY <1>1, <1>2 DEF Fit
<1>4. ASSUME NEW l \in LetterStatus, letter' = [letter EXCEPT ![c] = l],
             l # "None" => c \in A, l \in InForce => c \in issued
      PROVE  Sound' /\ Same /\ onb' = onb /\ Aside(w)
  <2>1. DocsSound' /\ Grow /\ Same /\ onb' = onb
    BY <1>1, <1>2, <1>3, <1>4, LetterWritten DEF Same
  <2> QED
    BY <1>2, <2>1, Finished
<1>5. CASE LetterInsert(w)
  <2> DEFINE l == IF letter[c] = "None" THEN "Generated" ELSE letter[c]
  <2>1. letter' = [letter EXCEPT ![c] = l] /\ c \in A
    BY <1>1, <1>5 DEF LetterInsert, At, Knows
  <2>2. l \in LetterStatus /\ (l \in InForce => c \in issued)
    BY <1>1, <1>3 DEF LetterStatus, InForce
  <2> QED
    BY <1>4, <2>1, <2>2
<1>6. CASE LetterCancel(w)
  <2>1. letter' = [letter EXCEPT ![c] = "Cancelled"] /\ c \in A
    BY <1>1, <1>6 DEF LetterCancel, At, Knows
  <2>2. "Cancelled" \in LetterStatus \ InForce
    BY DEF LetterStatus, InForce
  <2> QED
    BY <1>4, <2>1, <2>2
<1>7. CASE LetterOpen(w)
  <2> DEFINE l == IF letter[c] = "Sent" THEN "PendingAck" ELSE letter[c]
  <2>1. letter' = [letter EXCEPT ![c] = l]
    BY <1>7 DEF LetterOpen
  <2>2. l \in LetterStatus /\ (l \in InForce => c \in issued) /\ (l # "None" => c \in A)
    BY <1>1, <1>3 DEF LetterStatus, InForce
  <2> QED
    BY <1>4, <2>1, <2>2
<1>8. CASE LetterAck(w)
  <2> DEFINE l == IF letter[c] \in {"Sent", "PendingAck"} THEN "Acknowledged" ELSE letter[c]
  <2>1. letter' = [letter EXCEPT ![c] = l]
    BY <1>8 DEF LetterAck
  <2>2. l \in LetterStatus /\ (l \in InForce => c \in issued) /\ (l # "None" => c \in A)
    BY <1>1, <1>3 DEF LetterStatus, InForce
  <2> QED
    BY <1>4, <2>1, <2>2
<1> QED
  BY <1>5, <1>6, <1>7, <1>8

LEMMA LetterIssued ==
    ASSUME Sound, NEW w \in Workers, LetterCas(w)
    PROVE  /\ Sound' /\ onb' = onb /\ staff' = staff /\ A' = A /\ O' = O /\ Aside(w)
           /\ issued \subseteq issued' /\ issued' \subseteq issued \cup {task[w].c}
<1> DEFINE c == task[w].c
<1>1. /\ Fit(task[w]) /\ issued \subseteq A
      /\ c \in Cands => (letter[c] # "None" => c \in A)
  BY Carried DEF Carries, Sound, DocsSound, Backed
<1>2. UNCHANGED <<stage, replies, cases, crashes>> /\ task[w].pc = "letter_cas"
  BY DEF LetterCas, At
<1>3. c \in Cands
  BY <1>1, <1>2 DEF Fit
<1>4. CASE letter[c] = "Generated"
  <2>1. letter' = [letter EXCEPT ![c] = "Sent"] /\ issued' = issued \cup {c} /\ ThenMove(w, "LetterSent")
    BY <1>4 DEF LetterCas
  <2>2. c \in A /\ "Sent" \in LetterStatus
    BY <1>1, <1>3, <1>4 DEF LetterStatus
  <2>3. DocsSound' /\ Grow /\ A' = A /\ O' = O /\ onb' = onb /\ staff' = staff
    BY <1>1, <1>2, <1>3, <2>1, <2>2, LetterWritten
  <2>4. "LetterSent" \in Stage /\ Due(c, "LetterSent", A', issued', O')
    BY <2>1, <2>2, <2>3 DEF Stage, Accepted, Due
  <2> QED
    BY <1>3, <2>1, <2>3, <2>4, ThenMoved
<1>5. CASE letter[c] # "Generated"
  <2>1. UNCHANGED Docs /\ Finish(w)
    BY <1>2, <1>5 DEF LetterCas, Docs, letters
  <2> QED
    BY <2>1, Still, Finished DEF Same
<1> QED
  BY <1>4, <1>5

\* An onboarding case, the codes and the records: a case once open stays open.
LEMMA CaseWritten ==
    ASSUME Sound, CaseTyped', NEW c \in Cands, NEW d \in OnbDoc, onb' = [onb EXCEPT ![c] = d],
           d.open => c \in issued, onb[c].open => d.open,
           UNCHANGED <<stage, replies, letters, crashes>>
    PROVE  /\ DocsSound' /\ Grow /\ A' = A /\ issued' = issued
           /\ O \subseteq O' /\ O' \subseteq O \cup {c} /\ (d.open => c \in O')
<1>1. UNCHANGED <<stage, offer, answer, letter, issued, crashes>>
  BY DEF replies, letters
<1>2. DocsTyped /\ CaseTyped /\ Backed
  BY DEF Sound, DocsSound, DocsTyped
<1>3. A' = A /\ F' = F
  BY <1>1 DEF A, F, HasAccepted
<1>4. \A e \in Cands : onb'[e] = IF e = c THEN d ELSE onb[e]
  BY <1>2 DEF CaseTyped
<1>5. O \subseteq O' /\ O' \subseteq O \cup {c} /\ (d.open => c \in O')
  BY <1>4 DEF O
<1>6. O' \subseteq issued
  BY <1>2, <1>4 DEF O, Backed
<1>7. DocsTyped'
  BY <1>1, <1>2 DEF DocsTyped, StageTyped, OfferTyped, LetterTyped
<1>8. Backed'
  BY <1>1, <1>2, <1>3, <1>5, <1>6 DEF Backed, Due
<1> QED
  BY <1>1, <1>3, <1>5, <1>7, <1>8 DEF DocsSound, Grow

LEMMA CaseOpened ==
    ASSUME Sound, NEW w \in Workers, OnbInsert(w)
    PROVE  /\ Sound' /\ staff' = staff /\ A' = A /\ issued' = issued /\ Aside(w)
           /\ O \subseteq O' /\ O' \subseteq O \cup {task[w].c}
<1> DEFINE c == task[w].c
<1>1. /\ Fit(task[w]) /\ Knows(task[w], A, issued, O, F) /\ Backed /\ CaseTyped
  BY Carried DEF Carries, Sound, DocsSound, DocsTyped
<1>2. UNCHANGED <<stage, replies, letters, staff, codes, crashes>> /\ task[w].pc = "onb_insert"
  BY DEF OnbInsert, At
<1>3. c \in Cands /\ c \in issued
  BY <1>1, <1>2 DEF Fit, Knows
<1>4. CASE ~onb[c].open /\ onb' = [onb EXCEPT ![c] = [open |-> TRUE, id |-> 0]] /\ ThenMove(w, "PreOnboarding")
  <2> DEFINE d == [open |-> TRUE, id |-> 0]
  <2>1. d \in OnbDoc /\ d.open
    BY DEF OnbDoc
  <2>2. CaseTyped'
    BY <1>1, <1>2, <1>4, <2>1 DEF CaseTyped
  <2>3. /\ DocsSound' /\ Grow /\ A' = A /\ issued' = issued
        /\ O \subseteq O' /\ O' \subseteq O \cup {c} /\ c \in O'
    BY <1>2, <1>3, <1>4, <2>1, <2>2, CaseWritten
  <2>4. "PreOnboarding" \in Stage /\ Due(c, "PreOnboarding", A', issued', O')
    BY <1>1, <1>3, <2>3 DEF Stage, Accepted, Due, Backed
  <2> QED
    BY <1>2, <1>3, <1>4, <2>3, <2>4, ThenMoved
<1>5. CASE Finish(w) /\ UNCHANGED onb
  <2>1. UNCHANGED Docs
    BY <1>2, <1>5 DEF Docs, cases
  <2> QED
    BY <1>5, <2>1, Still, Finished DEF Same
<1> QED
  BY <1>4, <1>5 DEF OnbInsert

LEMMA IdMinted ==
    ASSUME Sound, NEW w \in Workers, IdMint(w)
    PROVE  Sound' /\ Same /\ onb' = onb /\ Aside(w)
<1> DEFINE t == task[w]
           u == [t EXCEPT !.pc = "id_claim", !.code = codes + 1]
<1>1. /\ Fit(t) /\ Knows(t, A, issued, O, F) /\ Backed /\ CaseTyped /\ DocsTyped
  BY Carried DEF Carries, Sound, DocsSound, DocsTyped
<1>2. /\ UNCHANGED <<stage, replies, letters, onb, staff, crashes>> /\ t.pc = "id_mint"
      /\ codes' = codes + 1 /\ task' = [task EXCEPT ![w] = u]
  BY DEF IdMint, At, Sound, Tasks
<1>3. codes + 1 \in Nat /\ codes + 1 # 0
  BY <1>1 DEF CaseTyped
<1>4. UNCHANGED <<stage, offer, answer, letter, issued, onb, staff, crashes>>
  BY <1>2 DEF replies, letters
<1>5. A' = A /\ O' = O /\ F' = F
  BY <1>4 DEF A, O, F, HasAccepted
<1>6. DocsTyped'
  BY <1>1, <1>2, <1>3, <1>4 DEF DocsTyped, StageTyped, OfferTyped, LetterTyped, CaseTyped
<1>7. DocsSound' /\ Grow /\ Same
  BY <1>1, <1>4, <1>5, <1>6 DEF DocsSound, Backed, Grow, Same
<1>8. t.c \in Cands /\ t.c \in O
  BY <1>1, <1>2 DEF Fit, Knows, IdSteps
<1>9. u.pc = "id_claim" /\ u.c = t.c /\ u.code = codes + 1 /\ u \in Task
  BY <1>1, <1>3 DEF Fit, Task, PCs
<1> HIDE DEF u
<1>10. Fit(u) /\ Knows(u, A', issued', O', F')
  BY <1>3, <1>5, <1>8, <1>9 DEF Fit, Knows, OfferSteps, IdSteps
<1>11. Sound'
  BY <1>2, <1>7, <1>10, Moved
<1> QED
  BY <1>2, <1>4, <1>7, <1>9, <1>11 DEF Aside, Hold

\* The three steps that touch a claim.
LEMMA Claimed ==
    ASSUME Sound, NEW w \in Workers, IdClaim(w) \/ EmpInsert(w) \/ IdRelease(w)
    PROVE  Sound' /\ A' = A /\ issued' = issued /\ O' = O /\ task[w].c \in O
<1> DEFINE t == task[w]
           c == t.c
<1>1. /\ Fit(t) /\ Knows(t, A, issued, O, F) /\ Backed /\ CaseTyped
  BY Carried DEF Carries, Sound, DocsSound, DocsTyped
<1>2. /\ UNCHANGED <<stage, replies, letters, codes, crashes>>
      /\ t.pc \in {"id_claim", "emp_insert", "id_release"}
  BY DEF IdClaim, EmpInsert, IdRelease, At
<1>3. c \in Cands /\ c \in O /\ t.code \in Nat /\ c \in issued /\ c \in A
  BY <1>1, <1>2 DEF Fit, Knows, IdSteps, Task, Backed
<1>4. onb[c] \in OnbDoc /\ onb[c].open
  BY <1>1, <1>3 DEF CaseTyped, O
<1>5. ASSUME UNCHANGED <<onb, staff>>, Finish(w) \/ Goto(w, "id_release")
      PROVE  Sound' /\ A' = A /\ issued' = issued /\ O' = O
  <2>1. UNCHANGED Docs
    BY <1>2, <1>5 DEF Docs, cases
  <2>2. CASE Finish(w)
    BY <2>1, <2>2, Still, Finished
  <2>3. CASE Goto(w, "id_release")
    <3> DEFINE u == [t EXCEPT !.pc = "id_release"]
    <3>1. u.pc = "id_release" /\ u.c = c
      BY <1>1 DEF Fit, Task
    <3> HIDE DEF u
    <3>2. Knows(u, A', issued', O', F')
      BY <1>3, <2>1, <3>1, Still DEF Knows
    <3>3. "id_release" \in PCs \ {"idle", "respond_cas"} /\ "id_release" \notin OfferSteps
      BY DEF PCs, OfferSteps
    <3> QED
      BY <1>3, <2>1, <2>3, <3>2, <3>3, Still, WentTo DEF u
  <2> QED
    BY <1>5, <2>2, <2>3
<1>6. ASSUME NEW d \in OnbDoc, d.open, onb' = [onb EXCEPT ![c] = d], UNCHANGED staff
      PROVE  DocsSound' /\ Grow /\ A' = A /\ issued' = issued /\ O' = O
  <2>1. onb' \in [Cands -> OnbDoc]
    BY <1>1, <1>6 DEF CaseTyped
  <2>2. codes' \in Nat /\ staff' \in [Cands -> SUBSET Nat]
    BY <1>1, <1>2, <1>6 DEF CaseTyped
  <2>3. CaseTyped'
    BY <2>1, <2>2 DEF CaseTyped
  <2> QED
    <3>1. UNCHANGED <<stage, replies, letters, crashes>>
      BY <1>2
    <3>2. /\ DocsSound' /\ Grow /\ A' = A /\ issued' = issued
          /\ O \subseteq O' /\ O' \subseteq O \cup {c}
      BY <1>3, <1>6, <2>3, <3>1, CaseWritten
    <3> QED
      BY <1>3, <3>2
<1>7. CASE IdClaim(w)
  <2>1. CASE Unclaimed(c)
    <3> DEFINE d == [onb[c] EXCEPT !.id = t.code]
               u == [t EXCEPT !.pc = "emp_insert"]
    <3>1. onb' = [onb EXCEPT ![c] = d] /\ Goto(w, "emp_insert") /\ UNCHANGED staff
      BY <1>7, <2>1 DEF IdClaim
    <3>2. d \in OnbDoc /\ d.open
      BY <1>3, <1>4 DEF OnbDoc
    <3>3. DocsSound' /\ Grow /\ A' = A /\ issued' = issued /\ O' = O
      BY <1>6, <3>1, <3>2
    <3>4. u.pc = "emp_insert" /\ u.c = c
      BY <1>1 DEF Fit, Task
    <3> HIDE DEF u
    <3>5. Knows(u, A', issued', O', F')
      BY <1>3, <3>3, <3>4 DEF Knows
    <3>6. "emp_insert" \in PCs \ {"idle", "respond_cas"} /\ "emp_insert" \notin OfferSteps
      BY DEF PCs, OfferSteps
    <3> QED
      BY <1>3, <3>1, <3>3, <3>5, <3>6, WentTo DEF u
  <2>2. CASE ~Unclaimed(c)
    BY <1>3, <1>5, <1>7, <2>2 DEF IdClaim
  <2> QED
    BY <2>1, <2>2
<1>8. CASE EmpInsert(w)
  <2>1. CASE Goto(w, "id_release") /\ UNCHANGED staff
    BY <1>3, <1>5, <1>8, <2>1 DEF EmpInsert
  <2>2. CASE staff' = [staff EXCEPT ![c] = @ \cup {t.code}] /\ ThenMove(w, "Joined")
    <3>1. UNCHANGED onb /\ onb' = [onb EXCEPT ![c] = onb[c]]
      BY <1>1, <1>8 DEF EmpInsert, CaseTyped
    <3>2. staff' \in [Cands -> SUBSET Nat] /\ codes' \in Nat
      BY <1>1, <1>2, <1>3, <2>2 DEF CaseTyped
    <3>3. CaseTyped'
      BY <1>1, <3>1, <3>2 DEF CaseTyped
    <3>4. DocsSound' /\ Grow /\ A' = A /\ issued' = issued /\ O' = O
      <4>1. UNCHANGED <<stage, replies, letters, crashes>>
        BY <1>2
      <4>2. /\ DocsSound' /\ Grow /\ A' = A /\ issued' = issued
            /\ O \subseteq O' /\ O' \subseteq O \cup {c}
        BY <1>3, <1>4, <3>1, <3>3, <4>1, CaseWritten
      <4> QED
        BY <1>3, <4>2
    <3>5. "Joined" \in Stage /\ Due(c, "Joined", A', issued', O')
      BY <1>3, <3>4 DEF Stage, Accepted, Due
    <3> QED
      BY <1>3, <2>2, <3>4, <3>5, ThenMoved
  <2> QED
    BY <1>8, <2>1, <2>2 DEF EmpInsert
<1>9. CASE IdRelease(w)
  <2> DEFINE d == Released(onb[c])
  <2>1. onb' = [onb EXCEPT ![c] = d] /\ Finish(w) /\ UNCHANGED staff
    BY <1>9 DEF IdRelease
  <2>2. d \in OnbDoc /\ d.open
    BY <1>4 DEF OnbDoc, Released
  <2> QED
    BY <1>3, <1>6, <2>1, <2>2, Finished
<1> QED
  BY <1>3, <1>7, <1>8, <1>9

-----------------------------------------------------------------------------
(* What is sound stays sound                                                *)

LEMMA InitSound == Init => Sound
<1> SUFFICES ASSUME Init PROVE Sound
  OBVIOUS
<1>1. /\ \A c \in Cands : stage[c] = "Pipeline" /\ letter[c] = "None" /\ ~onb[c].open
      /\ \A o \in Offers : offer[o] = NoOffer /\ answer[o] = "none"
      /\ issued = {}
  BY DEF Init
<1>2. NoOffer \in OfferDoc /\ NoOffer.status = "None"
  BY DEF NoOffer, OfferDoc, OfferStatus
<1>3. StageTyped /\ LetterTyped /\ CaseTyped /\ crashes \in Nat
  BY DEF Init, StageTyped, LetterTyped, CaseTyped, Stage, LetterStatus, OnbDoc
<1>4. OfferTyped
  BY <1>1, <1>2 DEF Init, OfferTyped
<1>5. O = {} /\ A = {}
  BY <1>1 DEF O, A, HasAccepted
<1>6. Backed
  BY <1>1, <1>2, <1>5 DEF Backed, Due, Accepted, InForce
<1>7. Tasks
  BY IdleFits DEF Init, Tasks
<1> QED
  BY <1>3, <1>4, <1>6, <1>7 DEF Sound, DocsSound, DocsTyped

LEMMA Crashed == ASSUME Sound, Crash PROVE Sound' /\ Same /\ onb' = onb
<1>1. UNCHANGED <<stage, offer, answer, letter, issued, onb, staff, codes>>
  BY DEF Crash, replies, letters, cases
<1>2. A' = A /\ O' = O
  BY <1>1 DEF A, O, HasAccepted
<1>3. crashes' \in Nat
  BY DEF Crash, Sound, DocsSound, DocsTyped
<1>4. DocsTyped'
  BY <1>1, <1>3 DEF Sound, DocsSound, DocsTyped, StageTyped, OfferTyped, LetterTyped, CaseTyped
<1>5. Backed'
  BY <1>1, <1>2 DEF Sound, DocsSound, Backed
<1>6. Tasks'
  BY IdleFits DEF Crash, Tasks
<1> QED
  BY <1>1, <1>2, <1>4, <1>5, <1>6 DEF Sound, DocsSound, Same

\* The steps that earn nothing and touch no case.
Plain(w) ==
    \/ \E o \in Offers : StartOffer(w, o)
    \/ \E c \in Cands : StartCand(w, c)
    \/ MoveGate(w) \/ OfferDup(w) \/ LetterDup(w) \/ OnbRead(w) \/ OnbDup(w) \/ OnbLetter(w)
    \/ MoveRead(w) \/ MoveWrite(w) \/ CandDelete(w)
    \/ OfferInsert(w) \/ ApproveWrite(w) \/ EditWrite(w)
    \/ SendCas(w) \/ RevokeWrite(w) \/ OfferDelete(w)
    \/ LetterInsert(w) \/ LetterCancel(w) \/ LetterOpen(w) \/ LetterAck(w)
    \/ IdMint(w)

LEMMA PlainSteps ==
    ASSUME Sound, NEW w \in Workers, Plain(w) PROVE Sound' /\ Same /\ onb' = onb /\ Aside(w)
BY OfferBegun, CandBegun, JudgeSteps, StageSteps, OfferWrites, LetterWrites, IdMinted DEF Plain

LEMMA NextSteps ==
    ASSUME Next
    PROVE  \/ Crash
           \/ \E w \in Workers : \/ Plain(w) \/ RespondCas(w) \/ LetterCas(w) \/ OnbInsert(w)
                                 \/ IdClaim(w) \/ EmpInsert(w) \/ IdRelease(w)
BY DEF Next, Continue, Plain

LEMMA Rests == ASSUME Sound, UNCHANGED vars PROVE Sound' /\ Same /\ onb' = onb /\ task' = task
<1>1. UNCHANGED Docs /\ task' = task
  BY DEF vars, Docs
<1>2. DocsSound' /\ Same /\ A' = A /\ O' = O /\ F' = F /\ issued' = issued /\ onb' = onb
  BY <1>1, Still
<1>3. Tasks'
  BY <1>1, <1>2 DEF Sound, Tasks
<1> QED
  BY <1>1, <1>2, <1>3 DEF Sound

LEMMA NextSound == Sound /\ [Next]_vars => Sound'
<1> SUFFICES ASSUME Sound, [Next]_vars PROVE Sound'
  OBVIOUS
<1>1. CASE UNCHANGED vars
  BY <1>1, Rests
<1>2. CASE Next
  BY <1>2, NextSteps, Crashed, PlainSteps, Responded, LetterIssued, CaseOpened, Claimed
<1> QED
  BY <1>1, <1>2

LEMMA AlwaysSound == Spec => []Sound
<1> QED
  BY InitSound, NextSound, PTL DEF Spec

\* Every document and every request has its type, whatever the requests do to
\* each other (hrms_candidate_service, hrms_offer_service,
\* hrms_appointment_service, hrms_onboarding_service).
THEOREM TypeCorrect == Spec => []TypeOK
BY AlwaysSound, SoundIsTypeOK, PTL

\* No candidate stands at a stage past the offer without the accepted offer,
\* the letter and the case that earn it, although every service moves the stage
\* on what it read before (assert_stage_has_backing_record, start_onboarding).
THEOREM StagesEarned == Spec => []StageEarned
BY AlwaysSound, SoundIsEarned, PTL

-----------------------------------------------------------------------------
(* One employee each: whoever is about to make or release a record holds    *)
(* the case's claim, alone, and the candidate has no record yet.            *)

One ==
    /\ \A c \in Cands : staff[c] # {} => /\ onb[c].open /\ onb[c].id # 0
                                         /\ \A j, k \in staff[c] : j = k
    /\ \A w \in Workers : task[w].pc \in Hold =>
         LET c == task[w].c
         IN  /\ onb[c].id # 0 /\ staff[c] = {}
             /\ \A v \in Workers : task[v].pc \in Hold /\ task[v].c = c => v = w

LEMMA OneKept ==
    ASSUME Sound, Sound', One, onb' = onb, staff' = staff,
           \A w \in Workers : task'[w].pc \in Hold => task'[w] = task[w]
    PROVE  One'
BY DEF One

LEMMA AsideKept ==
    ASSUME Sound, NEW w \in Workers, Aside(w)
    PROVE  \A v \in Workers : task'[v].pc \in Hold => task'[v] = task[v]
BY DEF Aside, Sound, Tasks

LEMMA OneIsInvariant == Sound /\ One /\ [Next]_vars => One'
<1> SUFFICES ASSUME Sound, One, [Next]_vars PROVE One'
  OBVIOUS
<1>1. Sound'
  BY NextSound
<1>2. CASE UNCHANGED vars
  BY <1>1, <1>2, Rests, OneKept DEF Same
<1>3. CASE Crash
  <2>1. \A v \in Workers : task'[v].pc \notin Hold
    BY <1>3, IdleFits DEF Crash, Hold
  <2> QED
    BY <1>1, <1>3, <2>1, Crashed, OneKept DEF Same
<1>4. ASSUME NEW w \in Workers, Plain(w) \/ RespondCas(w) \/ LetterCas(w) PROVE One'
  <2>1. onb' = onb /\ staff' = staff /\ Aside(w)
    BY <1>4, PlainSteps, Responded, LetterIssued DEF Same
  <2> QED
    BY <1>1, <2>1, AsideKept, OneKept
<1>5. ASSUME NEW w \in Workers, OnbInsert(w) \/ IdClaim(w) \/ EmpInsert(w) \/ IdRelease(w) PROVE One'
  <2> DEFINE t == task[w]
             c == t.c
  <2>1. Fit(t) /\ c \in Cands /\ onb \in [Cands -> OnbDoc] /\ staff \in [Cands -> SUBSET Nat]
    <3>1. Fit(t) /\ onb \in [Cands -> OnbDoc] /\ staff \in [Cands -> SUBSET Nat]
      BY Carried DEF Carries, Sound, DocsSound, DocsTyped, CaseTyped
    <3>2. t.pc # "idle"
      BY <1>5 DEF OnbInsert, IdClaim, EmpInsert, IdRelease, At
    <3> QED
      BY <3>1, <3>2 DEF Fit
  <2>2. \A v \in Workers : task[v].pc \in Hold => task[v].c \in Cands /\ onb[task[v].c].open
    <3> TAKE v \in Workers
    <3> HAVE task[v].pc \in Hold
    <3>1. Carries(v)
      BY Carried
    <3> QED
      BY <3>1 DEF Carries, Fit, Knows, Hold, IdSteps, O
  <2>3. \A v \in Workers \ {w} : task'[v] = task[v]
    <3>1. DOMAIN task = Workers
      BY DEF Sound, Tasks
    <3>2. \E u : task' = [task EXCEPT ![w] = u]
      BY <1>5 DEF OnbInsert, IdClaim, EmpInsert, IdRelease, ThenMove, Finish, Goto
    <3> QED
      BY <3>1, <3>2
  <2>4. CASE OnbInsert(w)
    <3>1. staff' = staff /\ \A v \in Workers : task'[v].pc \in Hold => task'[v] = task[v]
      BY <2>4, CaseOpened, AsideKept
    <3>2. CASE UNCHANGED onb
      BY <1>1, <3>1, <3>2, OneKept
    <3>3. CASE ~onb[c].open /\ onb' = [onb EXCEPT ![c] = [open |-> TRUE, id |-> 0]]
      <4>1. staff[c] = {} /\ \A d \in Cands \ {c} : onb'[d] = onb[d]
        BY <2>1, <3>3 DEF One
      <4>2. \A v \in Workers : task[v].pc \in Hold => task[v].c # c
        BY <2>2, <3>3
      <4> QED
        BY <2>2, <3>1, <4>1, <4>2 DEF One
    <3> QED
      BY <2>4, <3>2, <3>3 DEF OnbInsert
  <2>5. CASE IdClaim(w)
    <3>1. t.pc = "id_claim" /\ t.code # 0 /\ staff' = staff
      BY <2>1, <2>5 DEF IdClaim, At, Fit
    <3>2. CASE ~Unclaimed(c)
      <4>1. onb' = onb /\ Finish(w)
        BY <2>5, <3>2 DEF IdClaim
      <4>2. \A v \in Workers : task'[v].pc \in Hold => task'[v] = task[v]
        BY <4>1, <2>3, IdleFits DEF Finish, Hold, Sound, Tasks
      <4> QED
        BY <1>1, <3>1, <4>1, <4>2, OneKept
    <3>3. CASE Unclaimed(c)
      <4>1. onb' = [onb EXCEPT ![c].id = t.code] /\ Goto(w, "emp_insert")
        BY <2>5, <3>3 DEF IdClaim
      <4>2. onb'[c].id # 0 /\ onb'[c].open /\ \A d \in Cands \ {c} : onb'[d] = onb[d]
        BY <2>1, <3>1, <3>3, <4>1 DEF OnbDoc, Unclaimed
      <4>3. staff[c] = {} /\ \A v \in Workers : task[v].pc \in Hold => task[v].c # c
        BY <2>1, <3>3 DEF One, Unclaimed
      <4>4. task'[w].c = c
        BY <2>1, <4>1 DEF Goto, Sound, Tasks, Fit, Task
      <4> QED
        BY <2>2, <2>3, <3>1, <4>2, <4>3, <4>4 DEF One
    <3> QED
      BY <3>2, <3>3
  <2>6. CASE EmpInsert(w)
    <3>1. t.pc \in Hold /\ onb' = onb
      BY <2>6 DEF EmpInsert, At, Hold
    <3>2. onb[c].open /\ onb[c].id # 0 /\ staff[c] = {}
      BY <2>2, <3>1 DEF One
    <3>3. CASE Goto(w, "id_release") /\ UNCHANGED staff
      <4>1. task'[w].c = c
        BY <2>1, <3>3 DEF Goto, Sound, Tasks, Fit, Task
      <4> QED
        BY <2>3, <3>1, <3>3, <4>1 DEF One
    <3>4. CASE staff' = [staff EXCEPT ![c] = @ \cup {t.code}] /\ ThenMove(w, "Joined")
      <4>1. task'[w].pc \notin Hold
        BY <2>1, <3>4 DEF ThenMove, Sound, Tasks, Fit, Task, Hold
      <4>2. staff'[c] = {t.code} /\ \A d \in Cands \ {c} : staff'[d] = staff[d]
        BY <2>1, <3>2, <3>4
      <4>3. \A v \in Workers : task'[v].pc \in Hold => task'[v] = task[v] /\ task[v].c # c
        BY <2>3, <3>1, <4>1 DEF One
      <4> QED
        BY <2>2, <3>1, <3>2, <4>2, <4>3 DEF One
    <3> QED
      BY <2>6, <3>3, <3>4 DEF EmpInsert
  <2>7. CASE IdRelease(w)
    <3>1. t.pc \in Hold /\ onb' = [onb EXCEPT ![c] = Released(@)] /\ Finish(w) /\ staff' = staff
      BY <2>7 DEF IdRelease, At, Hold
    <3>2. staff[c] = {} /\ \A d \in Cands \ {c} : onb'[d] = onb[d]
      BY <2>1, <3>1 DEF One
    <3>3. task'[w].pc \notin Hold
      BY <3>1, IdleFits DEF Finish, Sound, Tasks, Hold
    <3>4. \A v \in Workers : task'[v].pc \in Hold => task'[v] = task[v] /\ task[v].c # c
      BY <2>3, <3>1, <3>3 DEF One
    <3> QED
      BY <2>2, <3>1, <3>2, <3>4 DEF One
  <2> QED
    BY <1>5, <2>4, <2>5, <2>6, <2>7
<1> QED
  BY <1>2, <1>3, <1>4, <1>5, NextSteps

LEMMA InitOne == Init => One
BY DEF Init, One, Idle, Hold

LEMMA AlwaysOne == Spec => [](Sound /\ One)
BY InitSound, InitOne, NextSound, OneIsInvariant, PTL DEF Spec

\* However many requests make the employee record of a candidate at once, and
\* whichever of them fail, release their claim or are lost with the process,
\* the candidate has one record at most (generate_employee_id).
THEOREM OneEmployeeEach == Spec => []OneEmployee
<1>1. One => OneEmployee
  BY DEF One, OneEmployee
<1> QED
  BY <1>1, AlwaysOne, PTL

-----------------------------------------------------------------------------
(* A case's claim: the ID of a record is the one its case claims, and until *)
(* the first restart a claim without a record has a request that will make  *)
(* the record or release the claim.                                         *)

Holds(w, c) == task[w].pc \in Hold /\ task[w].c = c

Claims ==
    /\ \A c \in Cands : staff[c] \subseteq {onb[c].id}
    /\ \A w \in Workers : task[w].pc \in Hold => onb[task[w].c].id = task[w].code
    /\ crashes = 0 => \A c \in Cands : onb[c].id # 0 /\ staff[c] = {} => \E w \in Workers : Holds(w, c)

\* Before a step that touches no claim, its request held none.
LEMMA HeldNone ==
    ASSUME NEW w \in Workers, Plain(w) \/ RespondCas(w) \/ LetterCas(w) \/ OnbInsert(w)
    PROVE  task[w].pc \notin Hold /\ crashes' = crashes
<1>1. CASE \E o \in Offers : StartOffer(w, o)
  BY <1>1, IdleFits DEF StartOffer, StartApprove, StartEdit, StartSend, StartRevoke, StartDeleteOffer,
     StartRespond, Begin, Hold
<1>2. CASE \E c \in Cands : StartCand(w, c)
  BY <1>2, IdleFits DEF StartCand, StartMove, StartDelete, StartCreate, StartDraftLetter, StartSendLetter,
     StartCancelLetter, StartOpenLetter, StartAcknowledge, StartOnboard, StartEmploy, Begin, Hold
<1>3. CASE \/ MoveGate(w) \/ OfferDup(w) \/ LetterDup(w) \/ OnbRead(w) \/ OnbDup(w) \/ OnbLetter(w)
           \/ MoveRead(w) \/ MoveWrite(w) \/ CandDelete(w)
  BY <1>3 DEF MoveGate, OfferDup, LetterDup, OnbRead, OnbDup, OnbLetter, MoveRead, MoveWrite, CandDelete,
     At, Hold
<1>4. CASE \/ OfferInsert(w) \/ ApproveWrite(w) \/ EditWrite(w) \/ SendCas(w) \/ RevokeWrite(w)
           \/ OfferDelete(w) \/ RespondCas(w)
  BY <1>4 DEF OfferInsert, ApproveWrite, EditWrite, SendCas, RevokeWrite, OfferDelete, RespondCas, At, Hold
<1>5. CASE \/ LetterInsert(w) \/ LetterCancel(w) \/ LetterOpen(w) \/ LetterAck(w) \/ LetterCas(w)
           \/ IdMint(w) \/ OnbInsert(w)
  BY <1>5 DEF LetterInsert, LetterCancel, LetterOpen, LetterAck, LetterCas, IdMint, OnbInsert, At, Hold
<1> QED
  BY <1>1, <1>2, <1>3, <1>4, <1>5 DEF Plain

LEMMA ClaimsKept ==
    ASSUME Sound, Sound', Claims, onb' = onb, staff' = staff, crashes' = 0 => crashes = 0,
           \A v \in Workers : task'[v].pc \in Hold => task'[v] = task[v],
           crashes' = 0 => \A v \in Workers : task[v].pc \in Hold => task'[v] = task[v]
    PROVE  Claims'
BY DEF Claims, Holds

LEMMA ClaimsIsInvariant == Sound /\ One /\ Claims /\ [Next]_vars => Claims'
<1> SUFFICES ASSUME Sound, One, Claims, [Next]_vars PROVE Claims'
  OBVIOUS
<1>1. Sound'
  BY NextSound
<1>2. CASE UNCHANGED vars
  <2>1. onb' = onb /\ staff' = staff /\ crashes' = crashes /\ task' = task
    BY <1>2 DEF vars, cases
  <2> QED
    BY <1>1, <2>1, ClaimsKept
<1>3. CASE Crash
  <2>1. crashes' # 0 /\ \A v \in Workers : task'[v].pc \notin Hold
    BY <1>3, IdleFits DEF Crash, Hold, Sound, DocsSound, DocsTyped
  <2> QED
    BY <1>1, <1>3, <2>1, Crashed, ClaimsKept DEF Same
<1>4. ASSUME NEW w \in Workers, Plain(w) \/ RespondCas(w) \/ LetterCas(w) PROVE Claims'
  <2>1. onb' = onb /\ staff' = staff /\ Aside(w)
    BY <1>4, PlainSteps, Responded, LetterIssued DEF Same
  <2>2. task[w].pc \notin Hold /\ crashes' = crashes
    BY <1>4, HeldNone
  <2>3. \A v \in Workers : task[v].pc \in Hold => task'[v] = task[v]
    BY <2>1, <2>2 DEF Aside, Sound, Tasks
  <2> QED
    BY <1>1, <2>1, <2>2, <2>3, AsideKept, ClaimsKept
<1>5. ASSUME NEW w \in Workers, OnbInsert(w) \/ IdClaim(w) \/ EmpInsert(w) \/ IdRelease(w) PROVE Claims'
  <2> DEFINE t == task[w]
             c == t.c
  <2>1. Fit(t) /\ c \in Cands /\ onb \in [Cands -> OnbDoc] /\ staff \in [Cands -> SUBSET Nat]
    <3>1. Fit(t) /\ onb \in [Cands -> OnbDoc] /\ staff \in [Cands -> SUBSET Nat]
      BY Carried DEF Carries, Sound, DocsSound, DocsTyped, CaseTyped
    <3>2. t.pc # "idle"
      BY <1>5 DEF OnbInsert, IdClaim, EmpInsert, IdRelease, At
    <3> QED
      BY <3>1, <3>2 DEF Fit
  <2>2. \A v \in Workers : task[v].pc \in Hold => task[v].c \in Cands /\ onb[task[v].c].open
    <3> TAKE v \in Workers
    <3> HAVE task[v].pc \in Hold
    <3>1. Carries(v)
      BY Carried
    <3> QED
      BY <3>1 DEF Carries, Fit, Knows, Hold, IdSteps, O
  <2>3. crashes' = crashes /\ \A v \in Workers \ {w} : task'[v] = task[v]
    <3>1. DOMAIN task = Workers
      BY DEF Sound, Tasks
    <3>2. crashes' = crashes /\ \E u : task' = [task EXCEPT ![w] = u]
      BY <1>5 DEF OnbInsert, IdClaim, EmpInsert, IdRelease, ThenMove, Finish, Goto
    <3> QED
      BY <3>1, <3>2
  <2>4. CASE OnbInsert(w)
    <3>1. /\ staff' = staff /\ t.pc \notin Hold
          /\ \A v \in Workers : task'[v].pc \in Hold => task'[v] = task[v]
          /\ \A v \in Workers : task[v].pc \in Hold => task'[v] = task[v]
      BY <2>3, <2>4, CaseOpened, AsideKept, HeldNone
    <3>2. CASE UNCHANGED onb
      BY <1>1, <2>3, <3>1, <3>2, ClaimsKept
    <3>3. CASE ~onb[c].open /\ onb' = [onb EXCEPT ![c] = [open |-> TRUE, id |-> 0]]
      <4>1. staff[c] = {} /\ onb'[c].id = 0 /\ \A d \in Cands \ {c} : onb'[d] = onb[d]
        BY <2>1, <3>3 DEF One
      <4>2. \A v \in Workers : task[v].pc \in Hold => task[v].c # c
        BY <2>2, <3>3
      <4> QED
        BY <2>2, <2>3, <3>1, <4>1, <4>2 DEF Claims, Holds
    <3> QED
      BY <2>4, <3>2, <3>3 DEF OnbInsert
  <2>5. CASE IdClaim(w)
    <3>1. t.pc = "id_claim" /\ t.pc \notin Hold /\ staff' = staff
      BY <2>5 DEF IdClaim, At, Hold
    <3>2. CASE ~Unclaimed(c)
      <4>1. onb' = onb /\ Finish(w)
        BY <2>5, <3>2 DEF IdClaim
      <4>2. task'[w].pc \notin Hold
        BY <4>1, IdleFits DEF Finish, Hold, Sound, Tasks
      <4> QED
        BY <1>1, <2>3, <3>1, <4>1, <4>2, ClaimsKept
    <3>3. CASE Unclaimed(c)
      <4>1. onb' = [onb EXCEPT ![c].id = t.code] /\ Goto(w, "emp_insert")
        BY <2>5, <3>3 DEF IdClaim
      <4>2. onb'[c].id = t.code /\ \A d \in Cands \ {c} : onb'[d] = onb[d]
        BY <2>1, <4>1 DEF OnbDoc
      <4>3. staff[c] = {} /\ \A v \in Workers : task[v].pc \in Hold => task[v].c # c
        BY <2>1, <3>3 DEF One, Unclaimed
      <4>4. task'[w].c = c /\ task'[w].code = t.code /\ task'[w].pc \in Hold
        BY <2>1, <4>1 DEF Goto, Sound, Tasks, Fit, Task, Hold
      <4> QED
        BY <2>1, <2>2, <2>3, <3>1, <4>2, <4>3, <4>4 DEF Claims, Holds
    <3> QED
      BY <3>2, <3>3
  <2>6. CASE EmpInsert(w)
    <3>1. t.pc \in Hold /\ onb' = onb /\ onb[c].id = t.code
      BY <2>6 DEF EmpInsert, At, Hold, Claims
    <3>2. CASE Goto(w, "id_release") /\ UNCHANGED staff
      <4>1. task'[w].c = c /\ task'[w].code = t.code /\ task'[w].pc \in Hold
        BY <2>1, <3>2 DEF Goto, Sound, Tasks, Fit, Task, Hold
      <4> QED
        BY <2>3, <3>1, <3>2, <4>1 DEF Claims, Holds
    <3>3. CASE staff' = [staff EXCEPT ![c] = @ \cup {t.code}] /\ ThenMove(w, "Joined")
      <4>1. task'[w].pc \notin Hold
        BY <2>1, <3>3 DEF ThenMove, Sound, Tasks, Fit, Task, Hold
      <4>2. staff'[c] = {t.code} /\ \A d \in Cands \ {c} : staff'[d] = staff[d]
        BY <2>1, <3>1, <3>3 DEF One
      <4> QED
        BY <2>2, <2>3, <3>1, <4>1, <4>2 DEF Claims, Holds
    <3> QED
      BY <2>6, <3>2, <3>3 DEF EmpInsert
  <2>7. CASE IdRelease(w)
    <3>1. t.pc \in Hold /\ onb' = [onb EXCEPT ![c] = Released(@)] /\ Finish(w) /\ staff' = staff
      BY <2>7 DEF IdRelease, At, Hold
    <3>2. staff[c] = {} /\ onb'[c].id = 0 /\ \A d \in Cands \ {c} : onb'[d] = onb[d]
      BY <2>1, <3>1 DEF One, Released, OnbDoc
    <3>3. task'[w].pc \notin Hold
      BY <3>1, IdleFits DEF Finish, Sound, Tasks, Hold
    <3>4. \A v \in Workers : task'[v].pc \in Hold => task'[v] = task[v] /\ task[v].c # c
      BY <2>3, <3>1, <3>3 DEF One
    <3> QED
      BY <2>2, <2>3, <3>1, <3>2, <3>4 DEF Claims, Holds
  <2> QED
    BY <1>5, <2>4, <2>5, <2>6, <2>7
<1> QED
  BY <1>2, <1>3, <1>4, <1>5, NextSteps

LEMMA InitClaims == Init => Claims
BY DEF Init, Claims, Idle, Hold

\* When no request is in flight and the process has not been restarted, a case
\* claims the Employee ID of the candidate's record and none without a record:
\* every claim has been kept or released (generate_employee_id).
THEOREM ClaimsTrue == Spec => []ClaimsAreTrue
<1>1. Sound /\ One /\ Claims => ClaimsAreTrue
  <2> SUFFICES ASSUME Sound, One, Claims, crashes = 0, Quiet, NEW c \in Cands
               PROVE  staff[c] = IF onb[c].id = 0 THEN {} ELSE {onb[c].id}
    BY DEF ClaimsAreTrue
  <2>1. ~\E w \in Workers : Holds(w, c)
    BY IdleFits DEF Quiet, Holds, Hold
  <2>2. staff[c] \subseteq {onb[c].id} /\ (onb[c].id = 0 \/ staff[c] # {})
    BY <2>1 DEF Claims
  <2>3. staff[c] # {} => onb[c].id # 0
    BY DEF One
  <2> QED
    BY <2>2, <2>3
<1>2. Spec => [](Sound /\ One /\ Claims)
  BY InitSound, InitOne, InitClaims, NextSound, OneIsInvariant, ClaimsIsInvariant, PTL DEF Spec
<1> QED
  BY <1>1, <1>2, PTL

-----------------------------------------------------------------------------
(* The pipeline implements Hire                                             *)

\* Each phase presupposes the one before it.
Chain == Sound /\ One

phaseBar == [c \in Cands |-> Phase(c)]

\* The phase, read off what has been earned.
LEMMA PhaseIs ==
    ASSUME Chain, NEW c \in Cands
    PROVE  /\ Phase(c) = IF staff[c] # {} THEN "employee" ELSE
                         IF c \in O THEN "onboarding" ELSE
                         IF c \in issued THEN "lettered" ELSE
                         IF c \in A THEN "accepted" ELSE "applicant"
           /\ (staff[c] # {} => c \in O) /\ (c \in O => c \in issued) /\ (c \in issued => c \in A)
<1>1. (c \in O <=> onb[c].open) /\ (c \in A <=> HasAccepted(c))
  BY DEF O, A
<1>2. (c \in O => c \in issued) /\ (c \in issued => c \in A)
  BY DEF Chain, Sound, DocsSound, Backed
<1>3. staff[c] # {} => onb[c].open
  BY DEF Chain, One
<1> QED
  BY <1>1, <1>2, <1>3 DEF Phase

LEMMA PhaseWillBe ==
    ASSUME Chain', NEW c \in Cands
    PROVE  /\ Phase(c)' = IF staff'[c] # {} THEN "employee" ELSE
                          IF c \in O' THEN "onboarding" ELSE
                          IF c \in issued' THEN "lettered" ELSE
                          IF c \in A' THEN "accepted" ELSE "applicant"
           /\ (staff'[c] # {} => c \in O') /\ (c \in O' => c \in issued') /\ (c \in issued' => c \in A')
<1>1. (c \in O' <=> onb'[c].open) /\ (c \in A' <=> HasAccepted(c)')
  BY DEF O, A
<1>2. (c \in O' => c \in issued') /\ (c \in issued' => c \in A')
  BY DEF Chain, Sound, DocsSound, Backed
<1>3. staff'[c] # {} => onb'[c].open
  BY DEF Chain, One
<1> QED
  BY <1>1, <1>2, <1>3 DEF Phase

LEMMA PhaseKept ==
    ASSUME Chain, Chain', NEW c \in Cands, staff'[c] = staff[c], c \in O' <=> c \in O,
           c \in issued' <=> c \in issued, c \in A' <=> c \in A
    PROVE  Phase(c)' = Phase(c)
BY PhaseIs, PhaseWillBe

\* One candidate passes one phase, or none does.
LEMMA Promoted ==
    ASSUME NEW c \in Cands, \A d \in Cands \ {c} : Phase(d)' = Phase(d),
           \/ Phase(c)' = Phase(c)
           \/ Phase(c) = "applicant" /\ Phase(c)' = "accepted"
           \/ Phase(c) = "accepted" /\ Phase(c)' = "lettered"
           \/ Phase(c) = "lettered" /\ Phase(c)' = "onboarding"
           \/ Phase(c) = "onboarding" /\ Phase(c)' = "employee"
    PROVE  H!HireNext \/ phaseBar' = phaseBar
<1>1. CASE Phase(c)' = Phase(c)
  BY <1>1 DEF phaseBar
<1>2. CASE Phase(c)' # Phase(c)
  <2>1. /\ Phase(c)' \in H!Phases \ {"applicant"}
        /\ phaseBar[c] = H!Follows[Phase(c)']
    BY <1>2 DEF phaseBar, H!Phases, H!Follows
  <2>2. phaseBar' = [phaseBar EXCEPT ![c] = Phase(c)']
    BY DEF phaseBar
  <2>3. H!Promote(c)
    BY <2>1, <2>2 DEF H!Promote, phaseBar
  <2> QED
    BY <2>3 DEF H!HireNext
<1> QED
  BY <1>1, <1>2

LEMMA StepIsHire == Chain /\ Chain' /\ [Next]_vars => [H!HireNext]_phaseBar
<1> SUFFICES ASSUME Chain, Chain', [Next]_vars PROVE H!HireNext \/ phaseBar' = phaseBar
  OBVIOUS
<1>1. Sound /\ Sound'
  BY DEF Chain
<1>2. ASSUME Same PROVE phaseBar' = phaseBar
  <2>1. \A c \in Cands : Phase(c)' = Phase(c)
    BY <1>2, PhaseKept DEF Same
  <2> QED
    BY <2>1 DEF phaseBar
<1>3. CASE UNCHANGED vars
  BY <1>1, <1>2, <1>3, Rests
<1>4. CASE Crash
  BY <1>1, <1>2, <1>4, Crashed
<1>5. ASSUME NEW w \in Workers, Plain(w) PROVE phaseBar' = phaseBar
  BY <1>1, <1>2, <1>5, PlainSteps
<1>6. ASSUME NEW w \in Workers,
             RespondCas(w) \/ LetterCas(w) \/ OnbInsert(w) \/ IdClaim(w) \/ EmpInsert(w) \/ IdRelease(w)
      PROVE  H!HireNext \/ phaseBar' = phaseBar
  <2> DEFINE c == task[w].c
  <2>1. c \in Cands
    <3>1. Fit(task[w])
      BY <1>1, Carried DEF Carries
    <3> QED
      BY <1>6, <3>1 DEF RespondCas, LetterCas, OnbInsert, IdClaim, EmpInsert, IdRelease, At, Fit
  <2>2. /\ \A d \in Cands \ {c} : /\ staff'[d] = staff[d] /\ (d \in O' <=> d \in O)
                                  /\ (d \in issued' <=> d \in issued) /\ (d \in A' <=> d \in A)
        /\ \/ A' = A /\ issued' = issued /\ O' = O /\ (staff'[c] = staff[c] \/ c \in O)
           \/ A' = A /\ issued' = issued /\ staff' = staff
           \/ A' = A /\ O' = O /\ staff' = staff
           \/ issued' = issued /\ O' = O /\ staff' = staff
        /\ A \subseteq A' /\ issued \subseteq issued' /\ O \subseteq O'
        /\ staff[c] # {} => staff'[c] # {}
    <3>1. CASE RespondCas(w)
      BY <1>1, <3>1, Responded
    <3>2. CASE LetterCas(w)
      BY <1>1, <3>2, LetterIssued
    <3>3. CASE OnbInsert(w)
      BY <1>1, <3>3, CaseOpened
    <3>4. CASE IdClaim(w) \/ EmpInsert(w) \/ IdRelease(w)
      <4>1. A' = A /\ issued' = issued /\ O' = O /\ c \in O
        BY <1>1, <3>4, Claimed
      <4>2. staff' = staff \/ staff' = [staff EXCEPT ![c] = @ \cup {task[w].code}]
        BY <3>4 DEF IdClaim, EmpInsert, IdRelease
      <4>3. staff \in [Cands -> SUBSET Nat]
        BY <1>1 DEF Sound, DocsSound, DocsTyped, CaseTyped
      <4> QED
        BY <2>1, <4>1, <4>2, <4>3
    <3> QED
      BY <1>6, <3>1, <3>2, <3>3, <3>4
  <2>3. \A d \in Cands \ {c} : Phase(d)' = Phase(d)
    BY <2>2, PhaseKept
  <2>4. /\ Phase(c) = IF staff[c] # {} THEN "employee" ELSE
                      IF c \in O THEN "onboarding" ELSE
                      IF c \in issued THEN "lettered" ELSE
                      IF c \in A THEN "accepted" ELSE "applicant"
        /\ (staff[c] # {} => c \in O) /\ (c \in O => c \in issued) /\ (c \in issued => c \in A)
    BY <2>1, PhaseIs
  <2>5. \A d \in Cands :
        /\ Phase(d)' = IF staff'[d] # {} THEN "employee" ELSE
                       IF d \in O' THEN "onboarding" ELSE
                       IF d \in issued' THEN "lettered" ELSE
                       IF d \in A' THEN "accepted" ELSE "applicant"
        /\ (staff'[d] # {} => d \in O') /\ (d \in O' => d \in issued') /\ (d \in issued' => d \in A')
    BY PhaseWillBe
  <2> QED
    BY <2>1, <2>2, <2>3, <2>4, <2>5, Promoted
<1> QED
  BY <1>3, <1>4, <1>5, <1>6, NextSteps

LEMMA InitIsHire == Init => H!HireInit
<1> SUFFICES ASSUME Init, NEW c \in Cands PROVE Phase(c) = "applicant"
  BY DEF H!HireInit
<1>1. ~HasAccepted(c)
  BY DEF Init, HasAccepted
<1> QED
  BY <1>1 DEF Init, Phase

\* Whatever its requests do to each other, and through failures and restarts,
\* the pipeline takes each candidate through an accepted offer, a letter, an
\* onboarding case and a record in that order, each once, and undoes none
\* (respond_to_offer, send_appointment, start_onboarding, generate_employee_id).
THEOREM Implements == Spec => ImplementsHire
<1>1. Spec => []Chain
  BY AlwaysOne, PTL DEF Chain
<1>2. Chain /\ Chain' /\ [Next]_vars => [H!HireNext]_phaseBar
  BY StepIsHire
<1> QED
  BY <1>1, <1>2, InitIsHire, PTL DEF Spec, ImplementsHire, H!HireSpec, phaseBar

-----------------------------------------------------------------------------
(* The approved figure, when requests do not overlap                        *)

\* One request at a time: a request begins when the last one has ended.
OneRequest == \A v, w \in Workers : v = w

Out == {"Sent", "Accepted", "Declined", "Revoked"}

\* An approval is of the salary the offer has, and an offer that is out has one.
AtFigure(d) ==
    /\ d.granted # 0 => d.granted = d.ctc
    /\ d.status \in Out => d.granted = d.ctc

\* The offer is still the one the request about to write it has read.
ReadSteps == {"approve_write", "edit_write", "send_cas", "revoke_write"}
AsRead(t) ==
    /\ t.pc = "approve_write" => t.ctc = offer[t.o].ctc
    /\ t.pc = "edit_write" => /\ offer[t.o].status = "Draft"
                              /\ t.approved \/ offer[t.o].granted = 0
    /\ t.pc = "send_cas" => offer[t.o].granted # 0
    /\ t.pc = "revoke_write" => offer[t.o].status = "Sent"

Priced ==
    /\ Sound
    /\ \A o \in Offers : AtFigure(offer[o])
    /\ \A w \in Workers : AsRead(task[w])

LEMMA InitPriced == Init => Priced
<1> SUFFICES ASSUME Init PROVE Priced
  OBVIOUS
<1>1. \A o \in Offers : AtFigure(offer[o])
  BY DEF Init, AtFigure, NoOffer, Out
<1>2. \A w \in Workers : AsRead(task[w])
  BY DEF Init, AsRead, Idle
<1> QED
  BY <1>1, <1>2, InitSound DEF Priced

\* What a request about an offer holds of it.
LEMMA ReadingHolds ==
    ASSUME Sound, NEW o \in Offers, offer[o].status # "None", NEW pc \in PCs
    PROVE  LET t == Reading(o, pc)
           IN  /\ t \in Task /\ t.pc = pc /\ t.o = o /\ t.ctc = offer[o].ctc
               /\ t.approved \/ offer[o].granted = 0
<1> DEFINE Read(r, s, b) == [Idle EXCEPT !.pc = pc, !.o = o, !.c = r, !.ctc = s, !.approved = b]
<1>1. ASSUME NEW r, NEW s, NEW b \in BOOLEAN
      PROVE  LET t == Read(r, s, b) IN t.pc = pc /\ t.o = o /\ t.ctc = s /\ t.approved = b
  BY DEF Idle
<1>2. \E b \in BOOLEAN : /\ Reading(o, pc) = Read(offer[o].for, offer[o].ctc, b)
                         /\ b \/ offer[o].granted = 0
  <2>1. (offer[o].granted # 0) \in BOOLEAN
    OBVIOUS
  <2> QED
    BY <2>1, Zenon DEF Reading
<1> HIDE DEF Read
<1> QED
  BY <1>1, <1>2, ReadingIs

\* A request that begins holds what it has just read.
LEMMA BegunAsRead ==
    ASSUME Sound, NEW w \in Workers, NEW o \in Offers, StartOffer(w, o)
    PROVE  UNCHANGED offer /\ AsRead(task'[w])
<1>0. /\ UNCHANGED offer /\ offer[o].status # "None"
  BY DEF StartOffer, StartApprove, StartEdit, StartSend, StartRevoke, StartDeleteOffer,
         StartRespond, Begin, replies, Editable, Revocable
<1>1. ASSUME NEW op, NEW t \in Task, Begin(w, op, t), AsRead(t)
      PROVE  AsRead(task'[w])
  <2>1. task'[w] = [t EXCEPT !.op = op]
    BY <1>1 DEF Begin, Sound, Tasks
  <2>2. /\ [t EXCEPT !.op = op].pc = t.pc /\ [t EXCEPT !.op = op].ctc = t.ctc
        /\ [t EXCEPT !.op = op].o = t.o /\ [t EXCEPT !.op = op].approved = t.approved
    BY DEF Task
  <2> QED
    BY <1>1, <2>1, <2>2 DEF AsRead
<1>2. ASSUME NEW pc \in PCs
      PROVE  /\ Reading(o, pc) \in Task /\ Reading(o, pc).pc = pc /\ Reading(o, pc).o = o
             /\ Reading(o, pc).ctc = offer[o].ctc
             /\ Reading(o, pc).approved \/ offer[o].granted = 0
  BY <1>0, ReadingHolds
<1>3. OfferSteps \subseteq PCs
  BY DEF OfferSteps, PCs
<1>4. CASE StartApprove(w, o)
  <2>1. AsRead(Reading(o, "approve_write"))
    BY <1>2, <1>3 DEF AsRead, OfferSteps
  <2> QED
    BY <1>0, <1>1, <1>2, <1>3, <1>4, <2>1 DEF StartApprove, OfferSteps
<1>5. CASE StartEdit(w, o)
  <2> PICK ctc \in Ctc : Begin(w, "edit", [Reading(o, "edit_write") EXCEPT !.ctc = ctc])
    BY <1>5 DEF StartEdit
  <2> DEFINE r == Reading(o, "edit_write")
             t == [r EXCEPT !.ctc = ctc]
  <2>1. r \in Task /\ r.pc = "edit_write" /\ r.o = o /\ (r.approved \/ offer[o].granted = 0)
    BY <1>2, <1>3 DEF OfferSteps
  <2> HIDE DEF r
  <2>2. t \in Task /\ t.pc = r.pc /\ t.o = r.o /\ t.approved = r.approved
    BY <2>1 DEF Task
  <2>3. AsRead(t)
    BY <1>5, <2>1, <2>2 DEF AsRead, StartEdit, Editable
  <2> QED
    BY <1>0, <1>1, <2>2, <2>3 DEF r
<1>6. CASE StartSend(w, o)
  <2>1. AsRead(Reading(o, "send_cas"))
    BY <1>2, <1>3, <1>6 DEF AsRead, OfferSteps, StartSend
  <2> QED
    BY <1>0, <1>1, <1>2, <1>3, <1>6, <2>1 DEF StartSend, OfferSteps
<1>7. CASE StartRevoke(w, o)
  <2>1. AsRead(Reading(o, "revoke_write"))
    BY <1>2, <1>3, <1>7 DEF AsRead, OfferSteps, StartRevoke, Revocable
  <2> QED
    BY <1>0, <1>1, <1>2, <1>3, <1>7, <2>1 DEF StartRevoke, OfferSteps
<1>8. CASE StartDeleteOffer(w, o)
  <2>1. AsRead(Reading(o, "offer_delete"))
    BY <1>2, <1>3 DEF AsRead, OfferSteps
  <2> QED
    BY <1>0, <1>1, <1>2, <1>3, <1>8, <2>1 DEF StartDeleteOffer, OfferSteps
<1>9. CASE StartRespond(w, o)
  <2> PICK reply \in {"OfferAccepted", "OfferDeclined"} :
         Begin(w, "respond", [Reading(o, "respond_cas") EXCEPT !.to = reply])
    BY <1>9 DEF StartRespond
  <2> DEFINE r == Reading(o, "respond_cas")
             t == [r EXCEPT !.to = reply]
  <2>1. r \in Task /\ r.pc = "respond_cas"
    BY <1>2, <1>3 DEF OfferSteps
  <2> HIDE DEF r
  <2>2. t \in Task /\ t.pc = r.pc
    BY <2>1 DEF Task, Stage, Accepted
  <2>3. AsRead(t)
    BY <2>1, <2>2 DEF AsRead
  <2> QED
    BY <1>0, <1>1, <2>2, <2>3 DEF r
<1> QED
  BY <1>0, <1>4, <1>5, <1>6, <1>7, <1>8, <1>9 DEF StartOffer

\* The requests about a candidate hold no offer.
LEMMA CandAsRead ==
    ASSUME Sound, NEW w \in Workers, NEW c \in Cands, StartCand(w, c)
    PROVE  UNCHANGED offer /\ AsRead(task'[w])
<1>0. UNCHANGED offer
  BY DEF StartCand, StartMove, StartDelete, StartCreate, StartDraftLetter, StartSendLetter,
         StartCancelLetter, StartOpenLetter, StartAcknowledge, StartOnboard, StartEmploy,
         Begin, replies
<1>1. ASSUME task'[w].pc \in {"move_gate", "cand_delete", "offer_dup", "letter_dup",
                              "letter_cas", "letter_cancel", "letter_open", "letter_ack",
                              "onb_read", "id_mint"}
      PROVE  AsRead(task'[w])
  BY <1>1 DEF AsRead
<1>2. ASSUME NEW op, NEW pc, Begin(w, op, [Idle EXCEPT !.pc = pc, !.c = c])
      PROVE  task'[w].pc = pc
  BY <1>2 DEF Begin, Idle, Sound, Tasks
<1>3. ASSUME NEW to \in Stage, StartMove(w, c, to) PROVE task'[w].pc = "move_gate"
  BY <1>3 DEF StartMove, Begin, Idle, Sound, Tasks
<1>4. CASE StartCreate(w, c)
  <2> PICK ctc \in Ctc :
         Begin(w, "create", [Idle EXCEPT !.pc = "offer_dup", !.c = c, !.ctc = ctc])
    BY <1>4 DEF StartCreate
  <2>1. task'[w].pc = "offer_dup"
    BY DEF Begin, Idle, Sound, Tasks
  <2> QED
    BY <1>0, <1>1, <2>1
<1>5. /\ StartDelete(w, c) => task'[w].pc = "cand_delete"
      /\ StartDraftLetter(w, c) => task'[w].pc = "letter_dup"
      /\ StartSendLetter(w, c) => task'[w].pc = "letter_cas"
      /\ StartCancelLetter(w, c) => task'[w].pc = "letter_cancel"
      /\ StartOpenLetter(w, c) => task'[w].pc = "letter_open"
  BY <1>2 DEF StartDelete, StartDraftLetter, StartSendLetter, StartCancelLetter,
     StartOpenLetter
<1>6. /\ StartAcknowledge(w, c) => task'[w].pc = "letter_ack"
      /\ StartOnboard(w, c) => task'[w].pc = "onb_read"
      /\ StartEmploy(w, c) => task'[w].pc = "id_mint"
  BY <1>2 DEF StartAcknowledge, StartOnboard, StartEmploy
<1> QED
  BY <1>0, <1>1, <1>3, <1>4, <1>5, <1>6 DEF StartCand

\* One database call: the offers stay at their figure, and the request goes on
\* with nothing it has read of one.
LEMMA ContinuePriced ==
    ASSUME Priced, NEW w \in Workers, Continue(w)
    PROVE  /\ \A o \in Offers : AtFigure(offer'[o])
           /\ task'[w].pc \notin ReadSteps
<1> DEFINE t == task[w]
<1>0. /\ Fit(t) /\ AsRead(t) /\ DOMAIN task = Workers
      /\ offer \in [Offers -> OfferDoc] /\ \A o \in Offers : AtFigure(offer[o])
  BY DEF Priced, Sound, Tasks, DocsSound, DocsTyped, OfferTyped
<1>a. ASSUME NEW pc, Goto(w, pc) PROVE task'[w].pc = pc
  BY <1>0, <1>a DEF Goto, Fit, Task
<1>b. ASSUME NEW to, ThenMove(w, to) PROVE task'[w].pc = "move_read"
  BY <1>0, <1>b DEF ThenMove, Fit, Task
<1>c. ASSUME Finish(w) PROVE task'[w].pc = "idle"
  BY <1>0, <1>c DEF Finish, Idle
<1>d. ASSUME After(w) PROVE task'[w].pc \notin ReadSteps
  BY <1>a, <1>c, <1>d DEF After, ReadSteps
<1>1. task'[w].pc \notin ReadSteps
  <2>1. CASE MoveRead(w) \/ MoveWrite(w)
    BY <1>a, <1>d, <2>1 DEF MoveRead, MoveWrite, ReadSteps
  <2>2. CASE \/ MoveGate(w) \/ CandDelete(w) \/ OfferDup(w) \/ OfferInsert(w)
             \/ ApproveWrite(w) \/ EditWrite(w) \/ OfferDelete(w)
    BY <1>a, <1>c, <2>2 DEF MoveGate, CandDelete, OfferDup, OfferInsert, ApproveWrite,
       EditWrite, OfferDelete, ReadSteps
  <2>3. CASE SendCas(w) \/ RevokeWrite(w) \/ RespondCas(w) \/ LetterCas(w)
    BY <1>b, <1>c, <2>3 DEF SendCas, RevokeWrite, RespondCas, LetterCas, ReadSteps
  <2>4. CASE \/ LetterDup(w) \/ LetterInsert(w) \/ LetterCancel(w) \/ LetterOpen(w)
             \/ LetterAck(w) \/ OnbRead(w) \/ OnbDup(w) \/ OnbLetter(w) \/ IdClaim(w)
             \/ IdRelease(w)
    BY <1>a, <1>c, <2>4 DEF LetterDup, LetterInsert, LetterCancel, LetterOpen, LetterAck,
       OnbRead, OnbDup, OnbLetter, IdClaim, IdRelease, ReadSteps
  <2>5. CASE OnbInsert(w) \/ EmpInsert(w)
    BY <1>a, <1>b, <1>c, <2>5 DEF OnbInsert, EmpInsert, ReadSteps
  <2>6. CASE IdMint(w)
    BY <1>0, <2>6 DEF IdMint, Fit, Task, ReadSteps
  <2> QED
    BY <2>1, <2>2, <2>3, <2>4, <2>5, <2>6 DEF Continue
<1>2. ASSUME NEW o \in Offers, NEW d \in OfferDoc, AtFigure(d), WriteOffer(o, d)
      PROVE  \A p \in Offers : AtFigure(offer'[p])
  BY <1>0, <1>2 DEF WriteOffer
<1>3. \A o \in Offers : AtFigure(offer'[o])
  <2>0. t.pc \in OfferSteps => t.o \in Offers /\ offer[t.o] \in OfferDoc /\ AtFigure(offer[t.o])
    BY <1>0 DEF Fit
  <2>1. CASE OfferInsert(w)
    <3> PICK o \in Offers :
           offer' = [offer EXCEPT ![o] = [status |-> "Draft", for |-> task[w].c,
                                          ctc |-> task[w].ctc, granted |-> 0]]
      BY <2>1 DEF OfferInsert
    <3> QED
      BY <1>0 DEF AtFigure, Out
  <2>2. CASE ApproveWrite(w)
    <3> DEFINE d == [offer[t.o] EXCEPT !.granted = t.ctc]
    <3>1. t.o \in Offers /\ WriteOffer(t.o, d) /\ t.ctc = offer[t.o].ctc
      BY <1>0, <2>0, <2>2 DEF ApproveWrite, At, AsRead, OfferSteps
    <3>2. d \in OfferDoc /\ AtFigure(d)
      BY <1>0, <2>0, <3>1 DEF OfferDoc, AtFigure
    <3> QED
      BY <1>2, <3>1, <3>2
  <2>3. CASE EditWrite(w)
    <3> DEFINE d == EditedOffer(t, offer[t.o])
    <3>1. /\ t.o \in Offers /\ WriteOffer(t.o, d) /\ offer[t.o].status = "Draft"
          /\ t.approved \/ offer[t.o].granted = 0
      BY <1>0, <2>0, <2>3 DEF EditWrite, At, AsRead, OfferSteps
    <3>2. d = [offer[t.o] EXCEPT !.ctc = t.ctc, !.granted = 0]
      <4>1. CASE t.approved
        BY <4>1 DEF EditedOffer
      <4>2. CASE ~t.approved
        BY <1>0, <3>1, <4>2 DEF EditedOffer, OfferDoc
      <4> QED
        BY <4>1, <4>2
    <3> HIDE DEF d
    <3>3. d \in OfferDoc /\ d.granted = 0 /\ d.status = "Draft"
      <4>1. t.ctc \in Ctc \cup {0} /\ offer[t.o] \in OfferDoc
        BY <1>0, <3>1 DEF Fit, Task
      <4>2. ASSUME NEW c \in OfferDoc, c.status = "Draft", NEW e \in Ctc \cup {0}
            PROVE  LET n == [c EXCEPT !.ctc = e, !.granted = 0]
                   IN n \in OfferDoc /\ n.granted = 0 /\ n.status = "Draft"
        BY <4>2 DEF OfferDoc
      <4> HIDE DEF t
      <4> QED
        BY <3>1, <3>2, <4>1, <4>2
    <3>4. AtFigure(d)
      BY <3>3 DEF AtFigure, Out
    <3> QED
      BY <1>2, <3>1, <3>3, <3>4
  <2>4. CASE RevokeWrite(w)
    <3> DEFINE d == [offer[t.o] EXCEPT !.status = "Revoked"]
    <3>1. t.o \in Offers /\ WriteOffer(t.o, d) /\ offer[t.o].status = "Sent"
      BY <1>0, <2>0, <2>4 DEF RevokeWrite, At, AsRead, OfferSteps
    <3>2. d \in OfferDoc /\ AtFigure(d)
      BY <1>0, <3>1 DEF OfferDoc, OfferStatus, AtFigure, Out
    <3> QED
      BY <1>2, <3>1, <3>2
  <2>5. CASE SendCas(w)
    <3>1. t.o \in Offers /\ offer[t.o].granted # 0
      BY <1>0, <2>0, <2>5 DEF SendCas, At, AsRead, OfferSteps
    <3>2. UNCHANGED offer \/ offer' = [offer EXCEPT ![t.o].status = "Sent"]
      BY <2>5 DEF SendCas
    <3> QED
      BY <1>0, <3>1, <3>2 DEF AtFigure, Out, OfferDoc
  <2>6. CASE RespondCas(w)
    <3>1. \/ UNCHANGED offer
          \/ /\ offer[t.o].status = "Sent"
             /\ \E s \in {"Accepted", "Declined"} : offer' = [offer EXCEPT ![t.o].status = s]
      BY <2>6 DEF RespondCas, Answerable, replies
    <3>2. ASSUME NEW s \in {"Accepted", "Declined"}, offer[t.o].status = "Sent",
                 offer' = [offer EXCEPT ![t.o].status = s]
          PROVE  \A o \in Offers : AtFigure(offer'[o])
      BY <1>0, <3>2 DEF AtFigure, Out, OfferDoc
    <3> QED
      BY <1>0, <3>1, <3>2
  <2>7. CASE OfferDelete(w)
    BY <1>0, <2>7 DEF OfferDelete, AtFigure, Out, OfferDoc
  <2>8. CASE UNCHANGED offer
    BY <1>0, <2>8
  <2> QED
    BY <2>1, <2>2, <2>3, <2>4, <2>5, <2>6, <2>7, <2>8 DEF Continue, MoveRead, MoveGate,
       MoveWrite, CandDelete, OfferDup, LetterDup, LetterInsert, LetterCas, LetterCancel,
       LetterOpen, LetterAck, OnbRead, OnbDup, OnbLetter, OnbInsert, IdMint, IdClaim,
       EmpInsert, IdRelease, replies
<1> QED
  BY <1>1, <1>3

LEMMA NextPriced == OneRequest /\ Priced /\ [Next]_vars => Priced'
<1> SUFFICES ASSUME OneRequest, Priced, [Next]_vars PROVE Priced'
  OBVIOUS
<1>0. Sound' /\ Sound
  BY NextSound DEF Priced
<1>1. ASSUME NEW w \in Workers, UNCHANGED offer, AsRead(task'[w])
      PROVE  Priced'
  <2>1. \A v \in Workers : AsRead(task[v])'
    BY <1>1 DEF OneRequest, AsRead
  <2> QED
    BY <1>0, <1>1, <2>1 DEF Priced, AtFigure
<1>2. ASSUME NEW w \in Workers, NEW o \in Offers, StartOffer(w, o) PROVE Priced'
  BY <1>0, <1>1, <1>2, BegunAsRead
<1>3. ASSUME NEW w \in Workers, NEW c \in Cands, StartCand(w, c) PROVE Priced'
  BY <1>0, <1>1, <1>3, CandAsRead
<1>4. ASSUME NEW w \in Workers, Continue(w) PROVE Priced'
  <2>1. (\A o \in Offers : AtFigure(offer'[o])) /\ task'[w].pc \notin ReadSteps
    BY <1>4, ContinuePriced
  <2>2. \A v \in Workers : AsRead(task[v])'
    BY <2>1 DEF OneRequest, AsRead, ReadSteps
  <2> QED
    BY <1>0, <2>1, <2>2 DEF Priced, AtFigure
<1>5. CASE Crash
  BY <1>0, <1>5 DEF Crash, replies, Priced, AtFigure, AsRead, Idle
<1>6. CASE UNCHANGED vars
  BY <1>0, <1>6 DEF vars, replies, Priced, AtFigure, AsRead
<1> QED
  BY <1>2, <1>3, <1>4, <1>5, <1>6 DEF Next

\* With requests that do not overlap, restarts or not, an offer goes out, is
\* answered and is revoked at the salary Management approved: an edit withdraws
\* the approval it found, and only an approved draft is sent.
THEOREM SentAsApproved == ASSUME OneRequest PROVE Spec => []SentAtApprovedFigure
<1>1. Priced => SentAtApprovedFigure
  BY DEF Priced, AtFigure, Out, SentAtApprovedFigure
<1>2. Priced /\ [Next]_vars => Priced'
  BY NextPriced
<1> QED
  BY InitPriced, <1>1, <1>2, PTL DEF Spec

=============================================================================
