-------------------------- MODULE RequisitionProofs --------------------------
(***************************************************************************)
(* Proofs about Requisition, for every set of requisitions, handlers,      *)
(* users, entry points, ladders and sanctioned figures: types, the         *)
(* JD of each requisition and its verdict, the ladder, the table of        *)
(* statuses, and that no requisition is left waiting for nobody; and, when *)
(* requests come one at a time, that a scorecard's signers read it.        *)
(***************************************************************************)
EXTENDS Requisition, TLAPS

\* What a handler at each step is known to hold.
WellFormed(t) ==
    /\ t.pc # "idle" => t.r \in Reqs
    /\ t.pc = "sign_write" => t.by \in Users
    /\ t.pc \in {"act_eval", "act_card", "act_cas"} => t.op \in Actions
    /\ t.pc = "act_jd" => t.to \in {"Approved", "Rejected"}

Typed == TypeOK /\ \A w \in Workers : WellFormed(task[w])

-----------------------------------------------------------------------------
(* Typing                                                                    *)

\* The empty documents and the idle handler have their types.
LEMMA EmptyTyped ==
    /\ NoReq \in ReqDoc
    /\ NoJd \in JdDoc
    /\ NoCard \in CardDoc
    /\ Idle \in Task
    /\ WellFormed(Idle)
<1>1. NoReq \in ReqDoc
  BY DEF NoReq, ReqDoc, ReqApproval, ReqClosing, Snapshots
<1>2. NoJd \in JdDoc
  BY DEF NoJd, JdDoc
<1>3. NoCard \in CardDoc
  BY DEF NoCard, CardDoc
<1>4. Idle \in Task
  BY <1>1, <1>3 DEF Idle, Task, PCs, Ops, Snapshots, ReqApproval, Editable, PreBudget
<1> QED
  BY <1>1, <1>2, <1>3, <1>4 DEF WellFormed, Idle

\* The transition table is total on the actions.
LEMMA TableTyped ==
    ASSUME NEW a \in Actions
    PROVE  /\ From[a] \in {"PendingHr", "PendingBudget", "PendingEscalation", "PendingScorecard"}
           /\ To[a] \in {"Rejected", "Approved", "PendingScorecard"}
  BY DEF From, To, Actions, Verifying

\* A handler that begins is typed when what it was given is.
LEMMA BeginTyped ==
    ASSUME Typed, NEW w \in Workers, NEW op \in Ops, NEW t \in Task, Begin(w, op, t),
           WellFormed([t EXCEPT !.op = op])
    PROVE  /\ task' \in [Workers -> Task]
           /\ \A v \in Workers : WellFormed(task'[v])
  BY DEF Typed, TypeOK, Begin, Task

LEMMA FinishTyped ==
    ASSUME Typed, NEW w \in Workers, Finish(w)
    PROVE  /\ task' \in [Workers -> Task]
           /\ \A v \in Workers : WellFormed(task'[v])
  BY EmptyTyped DEF Typed, TypeOK, Finish

LEMMA GotoTyped ==
    ASSUME Typed, NEW w \in Workers, NEW pc \in PCs, Goto(w, pc),
           WellFormed([task[w] EXCEPT !.pc = pc])
    PROVE  /\ task' \in [Workers -> Task]
           /\ \A v \in Workers : WellFormed(task'[v])
  BY DEF Typed, TypeOK, Goto, Task

LEMMA ActingTyped ==
    ASSUME NEW a \in Actions, NEW r \in Reqs, NEW d \in ReqDoc
    PROVE  Acting(a, r, d) \in Task /\ WellFormed(Acting(a, r, d))
<1>1. NextStatus(a, d) \in ReqApproval
  BY TableTyped DEF NextStatus, ReqApproval, Editable, PreBudget
<1>2. Acting(a, r, d) \in Task
  <2> DEFINE pc == IF a \in Verifying THEN "act_eval"
                   ELSE IF a = "scorecard-approve" THEN "act_card" ELSE "act_cas"
  <2>1. pc \in PCs
    BY DEF PCs
  <2>2. a \in Ops
    BY DEF Ops
  <2> HIDE DEF pc
  <2>3. [Idle EXCEPT !.pc = pc, !.op = a, !.r = r, !.doc = d, !.to = NextStatus(a, d)] \in Task
    BY <1>1, <2>1, <2>2, EmptyTyped DEF Task
  <2> QED
    BY <2>3 DEF Acting, pc
<1>3. WellFormed(Acting(a, r, d))
  BY DEF Acting, WellFormed, Idle
<1> QED
  BY <1>2, <1>3

\* The handlers that read and begin.
LEMMA StartTyped ==
    ASSUME Typed, NEW w \in Workers, Start(w)
    PROVE  Typed'
<1> PICK r \in Reqs :
        \/ Raise(w, r) \/ StartUpdate(w, r) \/ StartDelete(w, r)
        \/ \E a \in Actions : StartAct(w, a, r)
        \/ StartDraft(w, r) \/ StartSendBack(w, r) \/ StartEditJd(w, r)
        \/ \E u \in Users : StartSign(w, r, u)
        \/ \E e \in CardEdits : StartEditCard(w, e, r)
  BY DEF Start
<1> USE EmptyTyped, ConstantsAssumption
<1> /\ req[r] \in ReqDoc /\ card[r] \in CardDoc /\ jd[r] \in JdDoc
  BY DEF Typed, TypeOK
<1> SUFFICES /\ UNCHANGED <<req, jd, card, sanctioned, actual, crashes>>
             /\ minted' \subseteq Reqs /\ signs' \in Nat
             /\ task' \in [Workers -> Task]
             /\ \A v \in Workers : WellFormed(task'[v])
  BY DEF Typed, TypeOK
<1>1. CASE Raise(w, r)
  <2> PICK v \in 1..MaxVacancy, over \in Snapshots :
         Begin(w, "raise",
               [Idle EXCEPT !.pc = "insert_jd", !.r = r,
                            !.doc = [NoReq EXCEPT !.status = "PendingHr",
                                                  !.vacancy = v, !.over = over]])
    BY <1>1 DEF Raise, SnapshotFor, Snapshots
  <2> v \in Nat \ {0} /\ "PendingHr" \in ReqApproval
    BY DEF ReqApproval, Editable, PreBudget
  <2>1. [NoReq EXCEPT !.status = "PendingHr", !.vacancy = v, !.over = over] \in ReqDoc
    BY DEF ReqDoc
  <2>2. [Idle EXCEPT !.pc = "insert_jd", !.r = r,
                     !.doc = [NoReq EXCEPT !.status = "PendingHr",
                                           !.vacancy = v, !.over = over]] \in Task
    BY <2>1 DEF Task, PCs
  <2>3. WellFormed([[Idle EXCEPT !.pc = "insert_jd", !.r = r,
                                 !.doc = [NoReq EXCEPT !.status = "PendingHr",
                                    !.vacancy = v, !.over = over]] EXCEPT !.op = "raise"])
    BY DEF WellFormed, Idle
  <2>4. task' \in [Workers -> Task] /\ \A u \in Workers : WellFormed(task'[u])
    BY <2>2, <2>3, BeginTyped DEF Ops
  <2>5. UNCHANGED <<req, jd, card, sanctioned, actual, crashes, signs>> /\ minted' \subseteq Reqs
    BY <1>1 DEF Raise, Typed, TypeOK, records
  <2> QED
    BY <2>4, <2>5 DEF Typed, TypeOK
<1>2. CASE StartUpdate(w, r)
  <2> PICK n \in 1..MaxVacancy :
         Begin(w, "update", [Idle EXCEPT !.pc = "update_eval", !.r = r,
                                         !.doc = [req[r] EXCEPT !.vacancy = n]])
    BY <1>2 DEF StartUpdate
  <2>1. [req[r] EXCEPT !.vacancy = n] \in ReqDoc
    BY DEF ReqDoc
  <2>2. [Idle EXCEPT !.pc = "update_eval", !.r = r,
                     !.doc = [req[r] EXCEPT !.vacancy = n]] \in Task
    BY <2>1 DEF Task, PCs
  <2>9. task' \in [Workers -> Task] /\ \A v \in Workers : WellFormed(task'[v])
    BY <1>2, <2>2, BeginTyped DEF StartUpdate, Ops, WellFormed, Idle
  <2> QED
    BY <1>2, <2>9 DEF StartUpdate, Typed, TypeOK, records, figures
<1>3. CASE StartDelete(w, r)
  <2>1. [Idle EXCEPT !.pc = "del_req", !.r = r] \in Task
    BY DEF Task, PCs
  <2>9. task' \in [Workers -> Task] /\ \A v \in Workers : WellFormed(task'[v])
    BY <1>3, <2>1, BeginTyped DEF StartDelete, Ops, WellFormed, Idle
  <2> QED
    BY <1>3, <2>9 DEF StartDelete, Typed, TypeOK, records, figures
<1>4. CASE \E a \in Actions : StartAct(w, a, r)
  <2> PICK a \in Actions : StartAct(w, a, r)
    BY <1>4
  <2>1. Acting(a, r, req[r]) \in Task /\ WellFormed(Acting(a, r, req[r]))
    BY ActingTyped
  <2>2. [Acting(a, r, req[r]) EXCEPT !.op = a] = Acting(a, r, req[r])
    BY <2>1 DEF Acting, Idle
  <2>3. a \in Ops
    BY DEF Ops
  <2> QED
    BY <2>1, <2>2, <2>3, BeginTyped DEF StartAct, Typed, TypeOK, records, figures
<1>5. CASE StartDraft(w, r)
  <2> PICK managerial \in BOOLEAN :
         Begin(w, "draft", [Idle EXCEPT !.pc = "ins_card", !.r = r,
                                        !.card = [NoCard EXCEPT !.status = "Pending",
                                                                !.managerial = managerial]])
    BY <1>5 DEF StartDraft
  <2>1. [NoCard EXCEPT !.status = "Pending", !.managerial = managerial] \in CardDoc
    BY DEF CardDoc
  <2>2. [Idle EXCEPT !.pc = "ins_card", !.r = r,
                     !.card = [NoCard EXCEPT !.status = "Pending",
                                             !.managerial = managerial]] \in Task
    BY <2>1 DEF Task, PCs
  <2>3. WellFormed([[Idle EXCEPT !.pc = "ins_card", !.r = r,
                       !.card = [NoCard EXCEPT !.status = "Pending",
                                    !.managerial = managerial]] EXCEPT !.op = "draft"])
    BY DEF WellFormed, Idle
  <2>4. task' \in [Workers -> Task] /\ \A u \in Workers : WellFormed(task'[u])
    BY <2>2, <2>3, BeginTyped DEF Ops
  <2> QED
    BY <1>5, <2>4 DEF StartDraft, Typed, TypeOK, records, figures
<1>6. CASE StartSendBack(w, r)
  <2>1. [Idle EXCEPT !.pc = "back_write", !.r = r] \in Task
    BY DEF Task, PCs
  <2>9. task' \in [Workers -> Task] /\ \A v \in Workers : WellFormed(task'[v])
    BY <1>6, <2>1, BeginTyped DEF StartSendBack, Ops, WellFormed, Idle
  <2> QED
    BY <1>6, <2>9 DEF StartSendBack, Typed, TypeOK, records, figures
<1>7. CASE StartEditJd(w, r)
  <2>1. [Idle EXCEPT !.pc = "jd_gate", !.r = r, !.ver = jd[r].ver] \in Task
    BY DEF Task, PCs, JdDoc
  <2>9. task' \in [Workers -> Task] /\ \A v \in Workers : WellFormed(task'[v])
    BY <1>7, <2>1, BeginTyped DEF StartEditJd, Ops, WellFormed, Idle
  <2> QED
    BY <1>7, <2>9 DEF StartEditJd, Typed, TypeOK, records, figures
<1>8. CASE \E u \in Users : StartSign(w, r, u)
  <2> PICK u \in Users : StartSign(w, r, u)
    BY <1>8
  <2> signs + 1 \in Nat
    BY DEF Typed, TypeOK
  <2>1. [Idle EXCEPT !.pc = "sign_write", !.r = r, !.by = u,
                     !.card = card[r], !.stamp = signs + 1] \in Task
    BY DEF Task, PCs
  <2>2. Begin(w, "sign", [Idle EXCEPT !.pc = "sign_write", !.r = r, !.by = u,
                                      !.card = card[r], !.stamp = signs + 1])
    BY DEF StartSign
  <2>9. task' \in [Workers -> Task] /\ \A v \in Workers : WellFormed(task'[v])
    BY <2>1, <2>2, BeginTyped DEF StartSign, Ops, WellFormed, Idle
  <2> QED
    BY <2>9 DEF StartSign, Typed, TypeOK, records
<1>9. CASE \E e \in CardEdits : StartEditCard(w, e, r)
  <2> PICK e \in CardEdits : StartEditCard(w, e, r)
    BY <1>9
  <2>1. [Idle EXCEPT !.pc = "edit_write", !.r = r, !.card = card[r]] \in Task
    BY DEF Task, PCs
  <2>2. e \in Ops
    BY DEF Ops
  <2>9. task' \in [Workers -> Task] /\ \A v \in Workers : WellFormed(task'[v])
    BY <2>1, <2>2, BeginTyped DEF StartEditCard, WellFormed, Idle
  <2> QED
    BY <2>9 DEF StartEditCard, Typed, TypeOK, records, figures
<1> QED
  BY <1>1, <1>2, <1>3, <1>4, <1>5, <1>6, <1>7, <1>8, <1>9

\* The ladder a handler writes keeps the requisition a requisition.
LEMMA LadderTyped ==
    ASSUME NEW t \in Task, NEW d \in ReqDoc
    PROVE  LadderAfter(t, d) \in ReqDoc
<1> USE DEF ReqDoc
<1>0. t.rungs \in Nat /\ t.doc \in ReqDoc
  BY DEF Task
<1>1. CASE t.op \in Verifying /\ t.over = "over"
  <2>1. t.op # "escalate-approve" /\ t.op # "escalate-reject"
    BY <1>1 DEF Verifying
  <2>2. {} \in SUBSET Nat /\ (IF t.rungs > 0 THEN 1 ELSE d.level) \in Nat
    OBVIOUS
  <2> QED
    BY <1>0, <1>1, <2>1, <2>2 DEF LadderAfter
<1>2. CASE t.op = "escalate-approve"
  <2>1. t.op \notin Verifying
    BY <1>2 DEF Verifying
  <2>2. /\ t.doc.level + 1 \in Nat
        /\ t.doc.cleared \cup ({t.doc.level} \cap (1..t.doc.rungs)) \in SUBSET Nat
    BY <1>0
  <2> QED
    BY <1>0, <1>2, <2>1, <2>2 DEF LadderAfter
<1>3. CASE t.op = "escalate-reject"
  <2>1. t.op \notin Verifying
    BY <1>3 DEF Verifying
  <2> QED
    BY <1>0, <1>3, <2>1 DEF LadderAfter
<1>4. CASE /\ ~(t.op \in Verifying /\ t.over = "over")
           /\ t.op # "escalate-approve" /\ t.op # "escalate-reject"
  BY <1>4 DEF LadderAfter
<1> QED
  BY <1>1, <1>2, <1>3, <1>4

\* What the compare-and-swap writes is a requisition.
LEMMA ActedTyped ==
    ASSUME NEW t \in Task, NEW d \in ReqDoc
    PROVE  Acted(t, d) \in ReqDoc
<1> USE DEF ReqDoc
<1>1. /\ t.rungs \in Nat /\ t.doc \in ReqDoc
      /\ t.to \in ReqApproval /\ t.over \in Snapshots \cup {"keep"}
  BY DEF Task
<1>2. LadderAfter(t, d) \in ReqDoc
  BY LadderTyped
<1>3. "Closed" \in ReqClosing
  BY DEF ReqClosing
<1> QED
  BY <1>1, <1>2, <1>3 DEF Acted

LEMMA UnsignedTyped ==
    ASSUME NEW c \in CardDoc, NEW s \in {"Pending", "Rejected"}
    PROVE  Unsigned(c, s) \in CardDoc
  BY DEF Unsigned, CardDoc

\* The handlers that continue.
LEMMA ContinueTyped ==
    ASSUME Typed, NEW w \in Workers, Continue(w)
    PROVE  Typed'
<1> USE ConstantsAssumption
<1> DEFINE t == task[w]
<1>0. /\ t \in Task /\ WellFormed(t)
      /\ req \in [Reqs -> ReqDoc] /\ jd \in [Reqs -> JdDoc] /\ card \in [Reqs -> CardDoc]
  BY DEF Typed, TypeOK
<1> SUFFICES /\ UNCHANGED figures
             /\ req' \in [Reqs -> ReqDoc] /\ jd' \in [Reqs -> JdDoc]
             /\ card' \in [Reqs -> CardDoc]
             /\ task' \in [Workers -> Task]
             /\ \A v \in Workers : WellFormed(task'[v])
  BY DEF Typed, TypeOK, figures
<1> DEFINE Goes(pc) == Goto(w, pc) /\ pc \in PCs /\ WellFormed([task[w] EXCEPT !.pc = pc])
<1>a. ASSUME Finish(w) \/ \E pc \in PCs : Goes(pc)
      PROVE  task' \in [Workers -> Task] /\ \A v \in Workers : WellFormed(task'[v])
  BY <1>a, FinishTyped, GotoTyped
<1>b. ASSUME NEW pc \in PCs, Goto(w, pc), t.pc # "idle",
             pc = "sign_write" => t.by \in Users,
             pc \in {"act_eval", "act_card", "act_cas"} => t.op \in Actions,
             pc = "act_jd" => t.to \in {"Approved", "Rejected"}
      PROVE  Goes(pc)
  BY <1>0, <1>b DEF WellFormed, Task
<1>c. ASSUME NEW n \in Task, WellFormed(n), task' = [task EXCEPT ![w] = n]
      PROVE  task' \in [Workers -> Task] /\ \A v \in Workers : WellFormed(task'[v])
  BY <1>c DEF Typed, TypeOK
<1> HIDE DEF Goes
<1>1. CASE InsertJd(w)
  <2>1. jd' \in [Reqs -> JdDoc]
    BY <1>0, <1>1 DEF InsertJd, JdDoc
  <2>2. Finish(w) \/ Goes("insert_req")
    BY <1>1, <1>b DEF InsertJd, At, PCs
  <2> QED
    BY <1>0, <1>1, <1>a, <2>1, <2>2 DEF InsertJd, PCs
<1>2. CASE InsertReq(w)
  <2>1. req' \in [Reqs -> ReqDoc]
    BY <1>0, <1>2 DEF InsertReq, Task
  <2>2. Finish(w) \/ Goes("undo_jd")
    BY <1>2, <1>b DEF InsertReq, At, PCs
  <2> QED
    BY <1>0, <1>2, <1>a, <2>1, <2>2 DEF InsertReq, PCs
<1>3. CASE UndoJd(w)
  BY <1>0, <1>3, <1>a, EmptyTyped DEF UndoJd
<1>4. CASE UpdateEval(w)
  <2> PICK over \in {SnapshotFor(task[w].r, task[w].doc.vacancy), "keep"} :
         task' = [task EXCEPT ![w].pc = "update_write", ![w].over = over]
    BY <1>4 DEF UpdateEval
  <2>1. over \in Snapshots \cup {"keep"}
    BY DEF SnapshotFor, Snapshots
  <2>2. task' = [task EXCEPT ![w] = [t EXCEPT !.pc = "update_write", !.over = over]]
    OBVIOUS
  <2>3. [t EXCEPT !.pc = "update_write", !.over = over] \in Task
    BY <1>0, <2>1 DEF Task, PCs
  <2>4. WellFormed([t EXCEPT !.pc = "update_write", !.over = over])
    BY <1>0, <1>4, <2>1 DEF WellFormed, UpdateEval, At, Task
  <2> QED
    BY <1>0, <1>4, <1>c, <2>2, <2>3, <2>4 DEF UpdateEval, records
<1>5. CASE UpdateWrite(w)
  <2>1. t.doc.vacancy \in Nat \ {0} /\ t.over \in Snapshots \cup {"keep"}
    BY <1>0 DEF Task, ReqDoc
  <2>2. ASSUME NEW d \in ReqDoc
        PROVE  [d EXCEPT !.vacancy = t.doc.vacancy,
                         !.over = IF t.over = "keep" THEN @ ELSE t.over] \in ReqDoc
    BY <2>1 DEF ReqDoc
  <2>3. req' \in [Reqs -> ReqDoc]
    BY <1>0, <1>5, <2>2 DEF UpdateWrite, Updated
  <2> QED
    BY <1>0, <1>5, <1>a, <2>3 DEF UpdateWrite
<1>6. CASE DeleteReq(w)
  <2>1. Goes("del_jd")
    BY <1>6, <1>b DEF DeleteReq, At, PCs
  <2> QED
    BY <1>0, <1>6, <1>a, <2>1, EmptyTyped DEF DeleteReq, PCs
<1>7. CASE DeleteJd(w)
  BY <1>0, <1>7, <1>a, EmptyTyped DEF DeleteJd
<1>8. CASE ActEval(w)
  <2> PICK over \in {SnapshotFor(task[w].r, task[w].doc.vacancy), "over"},
           n \in Rungs \cup {0} :
           task' = [task EXCEPT ![w] =
                      [@ EXCEPT !.pc = "act_cas", !.over = over, !.rungs = n,
                                !.to = IF n > 0 THEN "PendingEscalation" ELSE task[w].to]]
    BY <1>8 DEF ActEval
  <2> DEFINE to == IF n > 0 THEN "PendingEscalation" ELSE t.to
             new == [t EXCEPT !.pc = "act_cas", !.over = over, !.rungs = n, !.to = to]
  <2>1. /\ over \in Snapshots \cup {"keep"} /\ n \in Nat
        /\ to \in ReqApproval
    BY <1>0 DEF SnapshotFor, Snapshots, Task, ReqApproval, Editable
  <2>2. task' = [task EXCEPT ![w] = new]
    OBVIOUS
  <2> HIDE DEF to
  <2>3. new \in Task
    BY <1>0, <2>1 DEF Task, PCs
  <2>4. t.op \in Actions /\ t.r \in Reqs
    BY <1>0, <1>8 DEF WellFormed, ActEval, At
  <2>5. WellFormed(new)
    BY <1>0, <2>4 DEF WellFormed, Task
  <2> HIDE DEF new
  <2> QED
    BY <1>0, <1>8, <1>c, <2>2, <2>3, <2>5 DEF ActEval, records
<1>9. CASE ActCard(w)
  <2>1. Finish(w) \/ Goes("act_cas")
    BY <1>0, <1>9, <1>b DEF ActCard, At, PCs, WellFormed
  <2> QED
    BY <1>0, <1>9, <1>a, <2>1 DEF ActCard, PCs, records
<1>10. CASE ActCas(w)
  <2>1. req' \in [Reqs -> ReqDoc]
    BY <1>0, <1>10, ActedTyped DEF ActCas
  <2>2. Finish(w) \/ Goes("act_jd") \/ Goes("fin_req")
    BY <1>0, <1>10, <1>b DEF ActCas, At, PCs, CoDecides, Finalises
  <2> QED
    BY <1>0, <1>10, <1>a, <2>1, <2>2 DEF ActCas, PCs
<1>11. CASE ActJd(w)
  <2>1. t.to \in {"Approved", "Rejected"}
    BY <1>0, <1>11 DEF ActJd, At, WellFormed
  <2>2. jd' \in [Reqs -> JdDoc]
    BY <1>0, <1>11, <2>1 DEF ActJd, JdDoc
  <2> QED
    BY <1>0, <1>11, <1>a, <2>2 DEF ActJd
<1>12. CASE FinReq(w)
  <2>1. Finish(w) \/ Goes("fin_card")
    BY <1>12, <1>b DEF FinReq, At, PCs
  <2> QED
    BY <1>0, <1>12, <1>a, <2>1 DEF FinReq, PCs, records
<1>13. CASE FinCard(w)
  <2>1. Finish(w) \/ Goes("fin_act")
    BY <1>13, <1>b DEF FinCard, At, PCs
  <2> QED
    BY <1>0, <1>13, <1>a, <2>1 DEF FinCard, PCs, records
<1>14. CASE FinAct(w)
  <2>1. CASE Finish(w)
    BY <1>0, <1>14, <1>a, <2>1 DEF FinAct, records
  <2>2. CASE task' = [task EXCEPT ![w] = Acting("scorecard-approve", t.r, req[t.r])]
    <3>1. t.r \in Reqs /\ "scorecard-approve" \in Actions
      BY <1>0, <1>14 DEF FinAct, At, WellFormed, Actions
    <3>2. /\ Acting("scorecard-approve", t.r, req[t.r]) \in Task
          /\ WellFormed(Acting("scorecard-approve", t.r, req[t.r]))
      BY <1>0, <3>1, ActingTyped
    <3> QED
      BY <1>0, <1>14, <2>2, <3>2 DEF FinAct, records, Typed, TypeOK
  <2> QED
    BY <1>14, <2>1, <2>2 DEF FinAct
<1>15. CASE InsertCard(w)
  BY <1>0, <1>15, <1>a DEF InsertCard, Task
<1>16. CASE SignWrite(w)
  <2>1. /\ t.by \in Users /\ t.stamp \in Nat
        /\ t.card.approvals \in SUBSET Users /\ t.card.seen \in SUBSET Nat
        /\ t.card.ver \in Nat
    BY <1>0, <1>16 DEF SignWrite, At, WellFormed, Task, CardDoc
  <2>2. card' \in [Reqs -> CardDoc]
    <3>1. ASSUME NEW c \in CardDoc PROVE Signed(t, c) \in CardDoc
      BY <2>1 DEF Signed, Signers, CardDoc
    <3> QED
      BY <1>0, <1>16, <3>1 DEF SignWrite
  <2>3. Finish(w) \/ Goes("fin_req")
    BY <1>16, <1>b DEF SignWrite, At, PCs
  <2> QED
    BY <1>0, <1>16, <1>a, <2>2, <2>3 DEF SignWrite, PCs
<1>17. CASE BackWrite(w)
  <2>1. card' \in [Reqs -> CardDoc]
    BY <1>0, <1>17, UnsignedTyped DEF BackWrite
  <2> QED
    BY <1>0, <1>17, <1>a, <2>1 DEF BackWrite
<1>18. CASE EditWrite(w)
  <2>1. ASSUME NEW c \in CardDoc PROVE Edited(t, c) \in CardDoc
    <3>1. t.card.managerial \in BOOLEAN /\ c.ver + 1 \in Nat
      BY <1>0 DEF Task, CardDoc
    <3>2. Unsigned(c, "Pending") \in CardDoc
      BY UnsignedTyped
    <3>3. /\ [Unsigned(c, "Pending") EXCEPT !.ver = c.ver + 1] \in CardDoc
          /\ [Unsigned(c, "Pending") EXCEPT !.managerial = ~t.card.managerial] \in CardDoc
          /\ [c EXCEPT !.status = IF t.card.status = "Rejected" THEN "Pending" ELSE @] \in CardDoc
      <4> USE DEF CardDoc
      <4> HIDE DEF t
      <4> QED
        BY <3>1, <3>2
    <3> QED
      BY <3>3 DEF Edited
  <2>2. card' \in [Reqs -> CardDoc]
    BY <1>0, <1>18, <2>1 DEF EditWrite
  <2> QED
    BY <1>0, <1>18, <1>a, <2>2 DEF EditWrite
<1>19. CASE JdGate(w)
  <2>1. Finish(w) \/ Goes("jd_write")
    BY <1>19, <1>b DEF JdGate, At, PCs
  <2> QED
    BY <1>0, <1>19, <1>a, <2>1 DEF JdGate, PCs, records
<1>20. CASE JdWrite(w)
  <2>1. t.ver + 1 \in Nat
    BY <1>0 DEF Task
  <2>2. ASSUME NEW d \in JdDoc PROVE [d EXCEPT !.ver = t.ver + 1] \in JdDoc
    BY <2>1 DEF JdDoc
  <2>3. jd' = jd \/ jd' = [jd EXCEPT ![t.r] = [@ EXCEPT !.ver = t.ver + 1]]
    BY <1>0, <1>20 DEF JdWrite
  <2> QED
    BY <1>0, <1>20, <1>a, <2>2, <2>3 DEF JdWrite
<1> QED
  BY <1>1, <1>2, <1>3, <1>4, <1>5, <1>6, <1>7, <1>8, <1>9, <1>10, <1>11, <1>12, <1>13,
     <1>14, <1>15, <1>16, <1>17, <1>18, <1>19, <1>20 DEF Continue

LEMMA InitTyped == Init => Typed
  <1> SUFFICES ASSUME Init PROVE Typed
    OBVIOUS
  <1>1. req \in [Reqs -> ReqDoc]
    <2>1. [NoReq EXCEPT !.status = "PendingBudget"] \in ReqDoc
      BY EmptyTyped DEF ReqDoc, ReqApproval, Editable, PreBudget
    <2> QED
      BY <2>1, EmptyTyped DEF Init
  <1>2. jd \in [Reqs -> JdDoc]
    BY EmptyTyped DEF Init, JdDoc
  <1>3. card \in [Reqs -> CardDoc] /\ task \in [Workers -> Task]
        /\ \A w \in Workers : WellFormed(task[w])
    BY EmptyTyped DEF Init
  <1> QED
    BY <1>1, <1>2, <1>3, ConstantsAssumption DEF Init, Typed, TypeOK

\* Typing is inductive.
LEMMA NextTyped == Typed /\ [Next]_vars => Typed'
<1> SUFFICES ASSUME Typed, [Next]_vars PROVE Typed'
  OBVIOUS
<1>1. ASSUME NEW w \in Workers, Start(w) PROVE Typed'
  BY <1>1, StartTyped
<1>2. ASSUME NEW w \in Workers, Continue(w) PROVE Typed'
  BY <1>2, ContinueTyped
<1>3. ASSUME NEW r \in Reqs, CloseRequisition(r) PROVE Typed'
  <2> PICK c \in ReqClosing : req' = [req EXCEPT ![r].closing = c]
    BY <1>3 DEF CloseRequisition
  <2>1. req' \in [Reqs -> ReqDoc]
    <3>1. [req[r] EXCEPT !.closing = c] \in ReqDoc
      BY DEF Typed, TypeOK, ReqDoc
    <3> QED
      BY <3>1 DEF Typed, TypeOK
  <2>2. UNCHANGED <<jd, card, figures, task>>
    BY <1>3 DEF CloseRequisition
  <2> QED
    BY <2>1, <2>2 DEF Typed, TypeOK, figures
<1>4. CASE SetSanction
  BY <1>4 DEF SetSanction, Typed, TypeOK, records
<1>5. CASE HeadcountMoves
  BY <1>5, ConstantsAssumption DEF HeadcountMoves, Typed, TypeOK, records
<1>6. CASE Crash
  BY <1>6, EmptyTyped DEF Crash, Typed, TypeOK, records
<1>7. CASE UNCHANGED vars
  BY <1>7 DEF vars, Typed, TypeOK
<1> QED
  BY <1>1, <1>2, <1>3, <1>4, <1>5, <1>6, <1>7 DEF Next

\* Every reachable state is typed: whatever the figures, the ladders and the
\* interleaving of the handlers, the stored documents are documents.
THEOREM TypeCorrect == Spec => []TypeOK
<1>1. Typed => TypeOK
  BY DEF Typed
<1> QED
  BY InitTyped, NextTyped, <1>1, PTL DEF Spec
-----------------------------------------------------------------------------
(* Every requisition has a JD                                                *)

Creating(t) == t.pc \in {"insert_jd", "insert_req", "undo_jd"}

\* The request number of a handler in flight has been minted, and nothing is
\* stored under a number that has not.
MintedFirst ==
    /\ \A w \in Workers : task[w].pc # "idle" => task[w].r \in minted
    /\ \A r \in Reqs \ minted :
         req[r].status = "Absent" /\ jd[r].status = "Absent" /\ card[r].status = "Absent"

\* While a requisition is being created nobody else works on it, except to
\* edit the JD that is already there.
CreatedAlone ==
    \A w \in Workers : Creating(task[w]) =>
      /\ req[task[w].r].status = "Absent" /\ card[task[w].r].status = "Absent"
      /\ task[w].doc.status = "PendingHr"
      /\ task[w].doc.rungs = 0 /\ task[w].doc.cleared = {}
      /\ \A v \in Workers \ {w} : task[v].pc # "idle" /\ task[v].r = task[w].r
                                    => task[v].pc \in {"jd_gate", "jd_write"}

\* The JD is written before the requisition and deleted after it.
JdFirst ==
    \A w \in Workers :
      /\ task[w].pc = "insert_req" => jd[task[w].r].status = "Pending"
      /\ task[w].pc = "del_jd" => req[task[w].r].status = "Absent"

Paired == Typed /\ MintedFirst /\ CreatedAlone /\ JdFirst /\ EveryReqHasJd

\* A handler that begins, what it has read and where it stands.
LEMMA StartShape ==
    ASSUME Typed, NEW w \in Workers, Start(w)
    PROVE  /\ UNCHANGED <<req, jd, card>>
           /\ task[w] = Idle
           /\ \E r \in Reqs : \E n \in Task :
                /\ task' = [task EXCEPT ![w] = n] /\ n.r = r
                /\ \/ /\ n.pc = "insert_jd" /\ r \notin minted /\ minted' = minted \cup {r}
                      /\ n.doc.status = "PendingHr"
                      /\ n.doc.rungs = 0 /\ n.doc.cleared = {}
                   \/ /\ minted' = minted
                      /\ n.pc \in {"update_eval", "del_req", "act_eval", "act_card", "act_cas",
                                   "ins_card", "back_write", "jd_gate", "sign_write",
                                   "edit_write"}
                      /\ \/ req[r].status # "Absent" \/ card[r].status # "Absent"
                         \/ jd[r].status # "Absent" /\ n.pc = "jd_gate"
                      /\ n.pc \in {"act_eval", "act_card", "act_cas"} =>
                           n.doc = req[r] /\ n.op \in Actions /\ n = Acting(n.op, r, req[r])
                                 /\ req[r].status = From[n.op]
<1> PICK r \in Reqs :
        \/ Raise(w, r) \/ StartUpdate(w, r) \/ StartDelete(w, r)
        \/ \E a \in Actions : StartAct(w, a, r)
        \/ StartDraft(w, r) \/ StartSendBack(w, r) \/ StartEditJd(w, r)
        \/ \E u \in Users : StartSign(w, r, u)
        \/ \E e \in CardEdits : StartEditCard(w, e, r)
  BY DEF Start
<1> DEFINE n == task'[w]
<1>0. /\ task' \in [Workers -> Task] /\ task \in [Workers -> Task]
      /\ req[r] \in ReqDoc
  BY StartTyped DEF Typed, TypeOK
<1>n. n \in Task
  BY <1>0
<1>1. CASE Raise(w, r)
  <2>1. /\ task[w] = Idle /\ task' = [task EXCEPT ![w] = n] /\ n.r = r
        /\ n.pc = "insert_jd"
        /\ n.doc.status = "PendingHr" /\ n.doc.rungs = 0 /\ n.doc.cleared = {}
    <3> PICK v \in 1..MaxVacancy, over \in Snapshots :
           Begin(w, "raise",
                 [Idle EXCEPT !.pc = "insert_jd", !.r = r,
                              !.doc = [NoReq EXCEPT !.status = "PendingHr",
                                                    !.vacancy = v, !.over = over]])
      BY <1>1 DEF Raise, SnapshotFor, Snapshots
    <3> QED
      BY <1>0 DEF Begin, Idle, NoReq
  <2> QED
    BY <1>1, <1>n, <2>1 DEF Raise, records
<1>2. CASE StartUpdate(w, r)
  <2>1. /\ task[w] = Idle /\ task' = [task EXCEPT ![w] = n] /\ n.r = r
        /\ n.pc = "update_eval"
    <3> PICK v \in 1..MaxVacancy :
           Begin(w, "update", [Idle EXCEPT !.pc = "update_eval", !.r = r,
                                           !.doc = [req[r] EXCEPT !.vacancy = v]])
      BY <1>2 DEF StartUpdate
    <3> QED
      BY <1>0 DEF Begin, Idle
  <2>2. req[r].status # "Absent"
    BY <1>2 DEF StartUpdate, Editable, PreBudget
  <2> QED
    BY <1>2, <1>n, <2>1, <2>2 DEF StartUpdate, records, figures
<1>3. CASE StartDelete(w, r)
  <2>1. /\ task[w] = Idle /\ task' = [task EXCEPT ![w] = n] /\ n.r = r
        /\ n.pc = "del_req"
    BY <1>0, <1>3 DEF StartDelete, Begin, Idle
  <2>2. req[r].status # "Absent"
    BY <1>3 DEF StartDelete, Deletable
  <2> QED
    BY <1>3, <1>n, <2>1, <2>2 DEF StartDelete, records, figures
<1>4. CASE \E a \in Actions : StartAct(w, a, r)
  <2> PICK a \in Actions : StartAct(w, a, r)
    BY <1>4
  <2>1. /\ task[w] = Idle /\ task' = [task EXCEPT ![w] = [Acting(a, r, req[r]) EXCEPT !.op = a]]
        /\ req[r].status = From[a]
    BY DEF StartAct, Begin
  <2>2. /\ [Acting(a, r, req[r]) EXCEPT !.op = a] = Acting(a, r, req[r])
        /\ Acting(a, r, req[r]).r = r /\ Acting(a, r, req[r]).op = a
        /\ Acting(a, r, req[r]).doc = req[r]
        /\ Acting(a, r, req[r]).pc \in {"act_eval", "act_card", "act_cas"}
    BY DEF Acting, Idle
  <2>3. n = Acting(a, r, req[r])
    BY <1>0, <2>1, <2>2
  <2>4. req[r].status # "Absent"
    BY <2>1, TableTyped
  <2>5. /\ n.r = r /\ n.op = a /\ n.doc = req[r]
        /\ n.pc \in {"act_eval", "act_card", "act_cas"}
        /\ n = Acting(n.op, r, req[r]) /\ req[r].status = From[n.op]
    BY <2>1, <2>2, <2>3
  <2>6. task[w] = Idle /\ task' = [task EXCEPT ![w] = n]
    BY <2>1, <2>2, <2>3
  <2> HIDE DEF n
  <2> QED
    BY <1>n, <2>4, <2>5, <2>6 DEF StartAct, records, figures
<1>5. CASE StartDraft(w, r)
  <2>1. /\ task[w] = Idle /\ task' = [task EXCEPT ![w] = n] /\ n.r = r
        /\ n.pc = "ins_card"
    <3> PICK m \in BOOLEAN :
           Begin(w, "draft", [Idle EXCEPT !.pc = "ins_card", !.r = r,
                                          !.card = [NoCard EXCEPT !.status = "Pending",
                                                                  !.managerial = m]])
      BY <1>5 DEF StartDraft
    <3> DEFINE c == [NoCard EXCEPT !.status = "Pending", !.managerial = m]
               u == [[Idle EXCEPT !.pc = "ins_card", !.r = r, !.card = c] EXCEPT !.op = "draft"]
    <3>1. task[w] = Idle /\ task' = [task EXCEPT ![w] = u]
      BY DEF Begin
    <3> HIDE DEF c
    <3>2. u.r = r /\ u.pc = "ins_card"
      BY DEF Idle
    <3> HIDE DEF u
    <3> QED
      BY <1>0, <3>1, <3>2
  <2> QED
    BY <1>5, <1>n, <2>1 DEF StartDraft, records, figures
<1>6. CASE StartSendBack(w, r)
  <2>1. /\ task[w] = Idle /\ task' = [task EXCEPT ![w] = n] /\ n.r = r
        /\ n.pc = "back_write"
    BY <1>0, <1>6 DEF StartSendBack, Begin, Idle
  <2> QED
    BY <1>6, <1>n, <2>1 DEF StartSendBack, records, figures
<1>7. CASE StartEditJd(w, r)
  <2>1. /\ task[w] = Idle /\ task' = [task EXCEPT ![w] = n] /\ n.r = r
        /\ n.pc = "jd_gate"
    BY <1>0, <1>7 DEF StartEditJd, Begin, Idle
  <2> QED
    BY <1>7, <1>n, <2>1 DEF StartEditJd, JdOpen, records, figures
<1>8. CASE \E u \in Users : StartSign(w, r, u)
  <2> PICK u \in Users : StartSign(w, r, u)
    BY <1>8
  <2>1. /\ task[w] = Idle /\ task' = [task EXCEPT ![w] = n] /\ n.r = r
        /\ n.pc = "sign_write"
    BY <1>0 DEF StartSign, Begin, Idle
  <2> QED
    BY <1>n, <2>1 DEF StartSign, CardOpen, records
<1>9. CASE \E e \in CardEdits : StartEditCard(w, e, r)
  <2> PICK e \in CardEdits : StartEditCard(w, e, r)
    BY <1>9
  <2>1. /\ task[w] = Idle /\ task' = [task EXCEPT ![w] = n] /\ n.r = r
        /\ n.pc = "edit_write"
    BY <1>0 DEF StartEditCard, Begin, Idle
  <2> QED
    BY <1>n, <2>1 DEF StartEditCard, CardOpen, records, figures
<1> QED
  BY <1>1, <1>2, <1>3, <1>4, <1>5, <1>6, <1>7, <1>8, <1>9

\* What handler t may do to the documents, and what it may become.
ReqStep(t) ==
    \A r \in Reqs :
      \/ /\ req'[r].status = req[r].status /\ req'[r].rungs = req[r].rungs
         /\ req'[r].cleared = req[r].cleared /\ req'[r].level = req[r].level
      \/ /\ r = t.r
         /\ \/ t.pc = "insert_req" /\ req'[r] = t.doc
            \/ t.pc = "del_req" /\ req'[r] = NoReq
            \/ t.pc = "act_cas" /\ Matches(t) /\ req'[r] = Acted(t, req[r])

JdStep(t) ==
    \A r \in Reqs :
      \/ jd'[r].status = jd[r].status
      \/ /\ r = t.r
         /\ \/ t.pc = "insert_jd" /\ jd'[r].status = "Pending"
            \/ t.pc \in {"undo_jd", "del_jd"} /\ jd'[r].status = "Absent"
            \/ t.pc = "act_jd" /\ jd[r].status # "Absent" /\ jd'[r].status = t.to

CardStep(t) ==
    \A r \in Reqs : card[r].status = "Absent" /\ card'[r].status # "Absent"
                      => r = t.r /\ t.pc \in {"ins_card", "back_write", "edit_write"}

PcStep(t, n) ==
    \/ n = Idle
    \/ /\ n.r = t.r
       /\ \/ /\ t.pc = "insert_jd" /\ n.pc = "insert_req" /\ n.doc = t.doc
             /\ jd'[t.r].status = "Pending"
          \/ t.pc = "insert_req" /\ n.pc = "undo_jd" /\ n.doc = t.doc /\ req' = req
          \/ t.pc = "del_req" /\ n.pc = "del_jd" /\ req'[t.r] = NoReq
          \/ t.pc = "jd_gate" /\ n.pc = "jd_write"
          \/ /\ t.pc = "act_eval" /\ n.pc = "act_cas" /\ n.op = t.op /\ n.doc = t.doc
             /\ n.to = IF n.rungs > 0 THEN "PendingEscalation" ELSE t.to
             /\ n.rungs > 0 => n.over = "over"
          \/ t.pc = "act_card" /\ n = [t EXCEPT !.pc = "act_cas"]
          \/ /\ t.pc = "act_cas" /\ n.pc = "act_jd" /\ n.to = t.to
             /\ CoDecides(t.to) /\ req'[t.r].status = t.to
          \/ /\ t.pc = "fin_act" /\ n = Acting("scorecard-approve", t.r, req[t.r])
             /\ req[t.r].status = "PendingScorecard"
          \/ t.pc = "update_eval" /\ n.pc = "update_write"
          \/ t.pc \in {"act_cas", "sign_write"} /\ n.pc = "fin_req"
          \/ t.pc = "fin_req" /\ n.pc = "fin_card"
          \/ t.pc = "fin_card" /\ n.pc = "fin_act"

\* The status after the compare-and-swap is the handler's next_status.
LEMMA ActedStatus ==
    ASSUME NEW t \in Task, NEW d \in ReqDoc
    PROVE  Acted(t, d).status = t.to
<1>1. LadderAfter(t, d) \in ReqDoc
  BY LadderTyped
<1> QED
  BY <1>1 DEF Acted, ReqDoc

\* The automatic approval starts as the one by hand does.
LEMMA ActingShape ==
    ASSUME NEW r, NEW d
    PROVE  LET n == Acting("scorecard-approve", r, d)
           IN /\ n.pc = "act_card" /\ n.op = "scorecard-approve" /\ n.r = r /\ n.doc = d
              /\ n.to = "Approved"
<1>1. NextStatus("scorecard-approve", d) = "Approved"
  BY DEF NextStatus, To, Actions, Verifying
<1> QED
  BY <1>1 DEF Acting, Idle, Verifying

\* One database call of a handler: what it changed, and what is left to do.
LEMMA ContinueShape ==
    ASSUME Typed, NEW w \in Workers, Continue(w)
    PROVE  /\ minted' = minted /\ task[w].pc # "idle"
           /\ ReqStep(task[w]) /\ JdStep(task[w]) /\ CardStep(task[w])
           /\ \E n \in Task : task' = [task EXCEPT ![w] = n] /\ PcStep(task[w], n)
<1> DEFINE t == task[w]
           n == task'[w]
<1>0. /\ t \in Task /\ WellFormed(t) /\ n \in Task
      /\ task \in [Workers -> Task] /\ task' \in [Workers -> Task]
      /\ req \in [Reqs -> ReqDoc] /\ jd \in [Reqs -> JdDoc] /\ card \in [Reqs -> CardDoc]
  BY ContinueTyped DEF Typed, TypeOK
<1>a. ASSUME NEW pc \in PCs, Goto(w, pc)
      PROVE  task' = [task EXCEPT ![w] = n] /\ n = [t EXCEPT !.pc = pc]
  BY <1>0, <1>a DEF Goto
<1>b. ASSUME Finish(w)
      PROVE  task' = [task EXCEPT ![w] = n] /\ n = Idle
  BY <1>0, <1>b DEF Finish
<1>c. /\ UNCHANGED req => ReqStep(t)
      /\ UNCHANGED jd => JdStep(t)
      /\ UNCHANGED card => CardStep(t)
  <2>1. UNCHANGED req => ReqStep(t)
    BY DEF ReqStep
  <2>2. UNCHANGED jd => JdStep(t)
    BY DEF JdStep
  <2>3. UNCHANGED card => CardStep(t)
    BY DEF CardStep
  <2> QED
    BY <2>1, <2>2, <2>3
<1> SUFFICES /\ minted' = minted /\ t.pc # "idle"
             /\ ReqStep(t) /\ JdStep(t) /\ CardStep(t)
             /\ task' = [task EXCEPT ![w] = n] /\ PcStep(t, n)
  BY <1>0
<1> USE <1>0
<1>1. CASE InsertJd(w)
  BY <1>1, <1>a, <1>b, <1>c DEF InsertJd, At, PCs, figures, JdStep, PcStep, Task, WellFormed
<1>2. CASE InsertReq(w)
  BY <1>2, <1>a, <1>b, <1>c DEF InsertReq, At, PCs, figures, ReqStep, PcStep, Task, WellFormed
<1>3. CASE UndoJd(w)
  BY <1>3, <1>b, <1>c DEF UndoJd, At, figures, JdStep, PcStep, NoJd
<1>4. CASE UpdateEval(w)
  <2> PICK over : task' = [task EXCEPT ![w].pc = "update_write", ![w].over = over]
    BY <1>4 DEF UpdateEval
  <2> DEFINE u == [t EXCEPT !.pc = "update_write", !.over = over]
  <2>0. task' = [task EXCEPT ![w] = u]
    OBVIOUS
  <2>1. n.r = t.r /\ n.pc = "update_write" /\ task' = [task EXCEPT ![w] = n]
    <3>1. u.r = t.r /\ u.pc = "update_write"
      BY DEF Task
    <3> HIDE DEF u
    <3> QED
      BY <2>0, <3>1
  <2> QED
    BY <1>4, <1>c, <2>1 DEF UpdateEval, At, figures, records, PcStep
<1>5. CASE UpdateWrite(w)
  <2>1. ReqStep(t)
    BY <1>5 DEF UpdateWrite, Updated, ReqStep, ReqDoc
  <2> QED
    BY <1>5, <1>b, <1>c, <2>1 DEF UpdateWrite, At, figures, PcStep
<1>6. CASE DeleteReq(w)
  BY <1>6, <1>a, <1>c DEF DeleteReq, At, PCs, figures, ReqStep, PcStep, Task, WellFormed
<1>7. CASE DeleteJd(w)
  BY <1>7, <1>b, <1>c DEF DeleteJd, At, figures, JdStep, PcStep, NoJd
<1>8. CASE ActEval(w)
  <2> PICK over \in {SnapshotFor(task[w].r, task[w].doc.vacancy), "over"} :
         \E m \in IF over = "over" THEN Rungs ELSE {0} :
           task' = [task EXCEPT ![w] =
                      [@ EXCEPT !.pc = "act_cas", !.over = over, !.rungs = m,
                                !.to = IF m > 0 THEN "PendingEscalation" ELSE task[w].to]]
    BY <1>8 DEF ActEval
  <2> PICK m \in IF over = "over" THEN Rungs ELSE {0} :
           task' = [task EXCEPT ![w] =
                      [@ EXCEPT !.pc = "act_cas", !.over = over, !.rungs = m,
                                !.to = IF m > 0 THEN "PendingEscalation" ELSE task[w].to]]
    OBVIOUS
  <2> DEFINE to == IF m > 0 THEN "PendingEscalation" ELSE t.to
  <2>0. m > 0 => over = "over"
    OBVIOUS
  <2>a. task' = [task EXCEPT ![w] = [t EXCEPT !.pc = "act_cas", !.over = over,
                                              !.rungs = m, !.to = to]]
    BY Zenon
  <2>1. /\ n.r = t.r /\ n.pc = "act_cas" /\ n.op = t.op /\ n.doc = t.doc
        /\ n.rungs = m /\ n.over = over
        /\ n.to = IF n.rungs > 0 THEN "PendingEscalation" ELSE t.to
        /\ task' = [task EXCEPT ![w] = n]
    <3>1. n = [t EXCEPT !.pc = "act_cas", !.over = over, !.rungs = m, !.to = to]
      BY <2>a
    <3> HIDE DEF n
    <3>2. n.r = t.r /\ n.pc = "act_cas" /\ n.op = t.op /\ n.doc = t.doc
      BY <3>1 DEF Task
    <3>3. n.rungs = m /\ n.over = over /\ n.to = to
      BY <3>1 DEF Task
    <3> QED
      BY <2>a, <3>1, <3>2, <3>3
  <2> QED
    BY <1>8, <1>c, <2>0, <2>1 DEF ActEval, At, figures, records, PcStep
<1>9. CASE ActCard(w)
  BY <1>9, <1>a, <1>b, <1>c DEF ActCard, At, PCs, figures, records, PcStep, Task
<1>10. CASE ActCas(w)
  <2>1. t.r \in Reqs /\ t.pc = "act_cas" /\ req[t.r] \in ReqDoc
    BY <1>10 DEF ActCas, At, WellFormed
  <2>2. ReqStep(t)
    BY <1>10, <2>1 DEF ActCas, ReqStep
  <2>3. CASE Matches(t) /\ CoDecides(t.to)
    <3>1. /\ Goto(w, "act_jd") /\ "act_jd" \in PCs
          /\ req' = [req EXCEPT ![t.r] = Acted(t, req[t.r])]
      BY <1>10, <2>3 DEF ActCas, PCs, CoDecides, Finalises
    <3>2. req'[t.r].status = t.to
      BY <2>1, <3>1, ActedStatus
    <3>3. n = [t EXCEPT !.pc = "act_jd"] /\ task' = [task EXCEPT ![w] = n]
      BY <1>a, <3>1
    <3>4. PcStep(t, n)
      BY <2>1, <2>3, <3>2, <3>3 DEF PcStep, Task
    <3> QED
      BY <1>10, <1>c, <2>1, <2>2, <3>3, <3>4 DEF ActCas, figures
  <2>4. CASE ~(Matches(t) /\ CoDecides(t.to))
    <3>1. Finish(w) \/ (Goto(w, "fin_req") /\ "fin_req" \in PCs)
      BY <1>10, <2>4 DEF ActCas, PCs
    <3>2. PcStep(t, n) /\ task' = [task EXCEPT ![w] = n]
      BY <1>a, <1>b, <2>1, <3>1 DEF PcStep, Task
    <3> QED
      BY <1>10, <1>c, <2>1, <2>2, <3>2 DEF ActCas, figures
  <2> QED
    BY <2>3, <2>4
<1>11. CASE ActJd(w)
  BY <1>11, <1>b, <1>c DEF ActJd, At, figures, JdStep, PcStep, JdDoc
<1>12. CASE FinReq(w)
  BY <1>12, <1>a, <1>b, <1>c DEF FinReq, At, PCs, figures, records, PcStep, Task
<1>13. CASE FinCard(w)
  BY <1>13, <1>a, <1>b, <1>c DEF FinCard, At, PCs, figures, records, PcStep, Task
<1>14. CASE FinAct(w)
  <2>1. t.pc = "fin_act" /\ From["scorecard-approve"] = "PendingScorecard"
    BY <1>14 DEF FinAct, At, From, Actions, Verifying
  <2>2. CASE Finish(w)
    BY <1>14, <1>b, <1>c, <2>1, <2>2 DEF FinAct, figures, records, PcStep
  <2>3. CASE /\ req[t.r].status = "PendingScorecard"
             /\ task' = [task EXCEPT ![w] = Acting("scorecard-approve", t.r, req[t.r])]
    <3>1. /\ n = Acting("scorecard-approve", t.r, req[t.r])
          /\ task' = [task EXCEPT ![w] = n] /\ n.r = t.r
      BY <2>3 DEF Acting, Idle
    <3>2. PcStep(t, n)
      BY <2>1, <2>3, <3>1 DEF PcStep
    <3> QED
      BY <1>14, <1>c, <2>1, <3>1, <3>2 DEF FinAct, figures, records
  <2> QED
    BY <1>14, <2>1, <2>2, <2>3 DEF FinAct
<1>15. CASE InsertCard(w)
  BY <1>15, <1>b, <1>c DEF InsertCard, At, figures, CardStep, PcStep
<1>16. CASE SignWrite(w)
  <2>1. CardStep(t)
    <3>1. \A r \in Reqs : \/ card'[r] = card[r]
                          \/ card[r].status # "Absent"
      BY <1>16 DEF SignWrite, SameApprovals
    <3> QED
      BY <3>1 DEF CardStep
  <2>2. Finish(w) \/ (Goto(w, "fin_req") /\ "fin_req" \in PCs)
    BY <1>16 DEF SignWrite, PCs
  <2> QED
    BY <1>16, <1>a, <1>b, <1>c, <2>1, <2>2 DEF SignWrite, At, figures, PcStep, Task
<1>17. CASE BackWrite(w)
  BY <1>17, <1>b, <1>c DEF BackWrite, At, figures, CardStep, PcStep
<1>18. CASE EditWrite(w)
  BY <1>18, <1>b, <1>c DEF EditWrite, At, figures, CardStep, PcStep
<1>19. CASE JdGate(w)
  BY <1>19, <1>a, <1>b, <1>c DEF JdGate, At, PCs, figures, records, PcStep, Task
<1>20. CASE JdWrite(w)
  BY <1>20, <1>b, <1>c DEF JdWrite, At, figures, JdStep, PcStep, JdDoc
<1> QED
  BY <1>1, <1>2, <1>3, <1>4, <1>5, <1>6, <1>7, <1>8, <1>9, <1>10, <1>11, <1>12, <1>13,
     <1>14, <1>15, <1>16, <1>17, <1>18, <1>19, <1>20 DEF Continue

LEMMA InitPaired == Init => Paired
<1> SUFFICES ASSUME Init PROVE Paired
  OBVIOUS
<1>1. \A w \in Workers : task[w] = Idle
  BY DEF Init
<1>2. Idle.pc = "idle"
  BY DEF Idle
<1>3. \A r \in Reqs \ minted :
         req[r].status = "Absent" /\ jd[r].status = "Absent" /\ card[r].status = "Absent"
  BY DEF Init, NoReq, NoJd, NoCard
<1>4. EveryReqHasJd
  BY DEF Init, EveryReqHasJd, Exists, NoReq
<1> QED
  BY <1>1, <1>2, <1>3, <1>4, InitTyped
     DEF Paired, MintedFirst, CreatedAlone, Creating, JdFirst

\* A handler that begins finds the numbers it works on minted, and no creation
\* of the same requisition in flight.
LEMMA StartPaired ==
    ASSUME Paired, NEW w \in Workers, Start(w)
    PROVE  MintedFirst' /\ CreatedAlone' /\ JdFirst' /\ EveryReqHasJd'
<1> PICK r \in Reqs, n \in Task :
      /\ UNCHANGED <<req, jd, card>> /\ task[w] = Idle
      /\ task' = [task EXCEPT ![w] = n] /\ n.r = r
      /\ \/ /\ n.pc = "insert_jd" /\ r \notin minted /\ minted' = minted \cup {r}
            /\ n.doc.status = "PendingHr"
            /\ n.doc.rungs = 0 /\ n.doc.cleared = {}
         \/ /\ minted' = minted
            /\ n.pc \in {"update_eval", "del_req", "act_eval", "act_card", "act_cas",
                         "ins_card", "back_write", "jd_gate", "sign_write", "edit_write"}
            /\ \/ req[r].status # "Absent" \/ card[r].status # "Absent"
               \/ jd[r].status # "Absent" /\ n.pc = "jd_gate"
  BY StartShape DEF Paired
<1>0. task \in [Workers -> Task] /\ minted \subseteq Reqs
  BY DEF Paired, Typed, TypeOK
<1>1. \A v \in Workers : task'[v] = IF v = w THEN n ELSE task[v]
  BY <1>0
<1>2. MintedFirst'
  <2>1. minted \subseteq minted' /\ r \in minted'
    BY DEF Paired, MintedFirst
  <2>2. \A v \in Workers : task'[v].pc # "idle" => task'[v].r \in minted'
    BY <1>1, <2>1 DEF Paired, MintedFirst
  <2> QED
    BY <2>1, <2>2 DEF Paired, MintedFirst
<1>3. CreatedAlone'
  <2> SUFFICES ASSUME NEW v \in Workers, Creating(task'[v])
               PROVE  /\ req[task'[v].r].status = "Absent" /\ card[task'[v].r].status = "Absent"
                      /\ task'[v].doc.status = "PendingHr"
                      /\ task'[v].doc.rungs = 0 /\ task'[v].doc.cleared = {}
                      /\ \A u \in Workers \ {v} : task'[u].pc # "idle" /\ task'[u].r = task'[v].r
                                                    => task'[u].pc \in {"jd_gate", "jd_write"}
    BY DEF CreatedAlone
  <2>1. CASE v = w
    <3>1. n.pc = "insert_jd"
      BY <1>1, <2>1 DEF Creating
    <3>2. \A u \in Workers \ {w} : task[u].pc # "idle" => task[u].r # r
      BY <3>1 DEF Paired, MintedFirst
    <3> QED
      BY <1>1, <2>1, <3>1, <3>2 DEF Paired, MintedFirst
  <2>2. CASE v # w
    <3>1. Creating(task[v]) /\ task'[v] = task[v]
      BY <1>1, <2>2
    <3>2. /\ req[task[v].r].status = "Absent" /\ card[task[v].r].status = "Absent"
          /\ task[v].doc.status = "PendingHr"
          /\ task[v].doc.rungs = 0 /\ task[v].doc.cleared = {}
          /\ \A u \in Workers \ {v} : task[u].pc # "idle" /\ task[u].r = task[v].r
                                        => task[u].pc \in {"jd_gate", "jd_write"}
      BY <3>1 DEF Paired, CreatedAlone
    <3>3. task[v].r \in minted
      BY <3>1 DEF Paired, MintedFirst, Creating
    <3>4. n.r = task[v].r => n.pc = "jd_gate"
      BY <3>2, <3>3
    <3> QED
      BY <1>1, <3>1, <3>2, <3>4
  <2> QED
    BY <2>1, <2>2
<1>4. JdFirst'
  BY <1>1 DEF Paired, JdFirst
<1>5. EveryReqHasJd'
  BY DEF Paired, EveryReqHasJd, Exists
<1> QED
  BY <1>2, <1>3, <1>4, <1>5

LEMMA ContinuePaired ==
    ASSUME Paired, NEW w \in Workers, Continue(w)
    PROVE  MintedFirst' /\ CreatedAlone' /\ JdFirst' /\ EveryReqHasJd'
<1> DEFINE t == task[w]
<1>0. /\ t \in Task /\ task \in [Workers -> Task] /\ minted \subseteq Reqs
      /\ minted' = minted /\ t.pc # "idle" /\ t.r \in minted /\ t.r \in Reqs
      /\ ReqStep(t) /\ JdStep(t) /\ CardStep(t)
  BY ContinueShape DEF Paired, Typed, TypeOK, MintedFirst
<1> PICK n \in Task : task' = [task EXCEPT ![w] = n] /\ PcStep(t, n)
  BY ContinueShape DEF Paired
<1>1. \A v \in Workers : task'[v] = IF v = w THEN n ELSE task[v]
  BY <1>0
<1>2. n.pc # "idle" => n.r = t.r
  BY DEF PcStep, Idle
<1>a. t.pc = "fin_act" => n.pc \in {"idle", "act_card"}
  BY ActingShape DEF PcStep, Idle
<1>3. Creating(n) => Creating(t) /\ n.doc = t.doc
  BY <1>a DEF PcStep, Idle, Creating, Task
<1>4. /\ t.pc \in {"jd_gate", "jd_write"} => n.pc \in {"idle", "jd_write"}
      /\ Creating(t) => n.pc = "idle" \/ Creating(n)
      /\ n.pc = "insert_req" => jd'[t.r].status = "Pending"
      /\ n.pc = "del_jd" => req'[t.r] = NoReq
      /\ n.pc = "undo_jd" => req' = req
  BY <1>a DEF PcStep, Idle, Creating, Task
<1>5. Creating(t) => /\ req[t.r].status = "Absent" /\ card[t.r].status = "Absent"
                     /\ t.doc.status = "PendingHr"
                     /\ t.doc.rungs = 0 /\ t.doc.cleared = {}
                     /\ \A v \in Workers \ {w} : task[v].pc # "idle" /\ task[v].r = t.r
                                    => task[v].pc \in {"jd_gate", "jd_write"}
  BY DEF Paired, CreatedAlone
\* A requisition comes into being only by the insert.
<1>6. \A r \in Reqs : req[r].status = "Absent" /\ req'[r].status # "Absent"
                        => r = t.r /\ t.pc = "insert_req"
  <2> SUFFICES ASSUME NEW r \in Reqs, req[r].status = "Absent", req'[r].status # "Absent"
               PROVE  r = t.r /\ t.pc = "insert_req"
    OBVIOUS
  <2>1. r = t.r /\ ~(t.pc = "del_req" /\ req'[r] = NoReq)
    BY <1>0 DEF ReqStep, NoReq
  <2>2. ~(t.pc = "act_cas" /\ Matches(t))
    BY <2>1, TableTyped DEF Matches, Paired, Typed, WellFormed
  <2> QED
    BY <1>0, <2>1, <2>2 DEF ReqStep
\* When creation reaches its end nobody is creating it any more.
<1>7. \A v \in Workers \ {w} : Creating(task[v]) /\ t.r = task[v].r
                                => t.pc \in {"jd_gate", "jd_write"}
  BY <1>0 DEF Paired, CreatedAlone
<1>8. MintedFirst'
  <2>1. \A v \in Workers : task'[v].pc # "idle" => task'[v].r \in minted'
    BY <1>0, <1>1, <1>2 DEF Paired, MintedFirst
  <2>2. ASSUME NEW r \in Reqs \ minted
        PROVE  req'[r].status = "Absent" /\ jd'[r].status = "Absent" /\ card'[r].status = "Absent"
    BY <1>0, <2>2 DEF ReqStep, JdStep, CardStep, Paired, MintedFirst
  <2> QED
    BY <1>0, <2>1, <2>2 DEF MintedFirst
<1>9. CreatedAlone'
  <2> SUFFICES ASSUME NEW v \in Workers, Creating(task'[v])
               PROVE  /\ req'[task'[v].r].status = "Absent"
                      /\ card'[task'[v].r].status = "Absent"
                      /\ task'[v].doc.status = "PendingHr"
                      /\ task'[v].doc.rungs = 0 /\ task'[v].doc.cleared = {}
                      /\ \A u \in Workers \ {v} : task'[u].pc # "idle" /\ task'[u].r = task'[v].r
                                                    => task'[u].pc \in {"jd_gate", "jd_write"}
    BY DEF CreatedAlone
  <2>1. CASE v = w
    <3>1. /\ Creating(t) /\ n.doc = t.doc /\ n.r = t.r /\ task'[v] = n
          /\ t.pc \in {"insert_jd", "insert_req"}
      <4>1. Creating(t) /\ n.doc = t.doc /\ n.r = t.r /\ task'[v] = n
        BY <1>1, <1>2, <1>3, <2>1 DEF Creating
      <4>2. t.pc # "undo_jd"
        BY <1>1, <2>1 DEF PcStep, Creating, Idle
      <4> QED
        BY <4>1, <4>2 DEF Creating
    <3>2. req'[t.r].status = "Absent"
      <4>1. t.pc = "insert_req" => n.pc = "undo_jd"
        BY <3>1, <2>1 DEF PcStep, Creating, Idle
      <4> QED
        BY <1>0, <1>4, <1>5, <1>6, <3>1, <4>1
    <3>3. card'[t.r].status = "Absent"
      BY <1>0, <1>5, <3>1 DEF CardStep
    <3> QED
      BY <1>1, <1>5, <2>1, <3>1, <3>2, <3>3
  <2>2. CASE v # w
    <3>1. Creating(task[v]) /\ task'[v] = task[v] /\ task[v].r \in Reqs
      BY <1>0, <1>1, <2>2 DEF Paired, MintedFirst, Creating
    <3>2. /\ req[task[v].r].status = "Absent" /\ card[task[v].r].status = "Absent"
          /\ task[v].doc.status = "PendingHr"
          /\ task[v].doc.rungs = 0 /\ task[v].doc.cleared = {}
          /\ \A u \in Workers \ {v} : task[u].pc # "idle" /\ task[u].r = task[v].r
                                        => task[u].pc \in {"jd_gate", "jd_write"}
      BY <3>1 DEF Paired, CreatedAlone
    <3>3. t.r = task[v].r => t.pc \in {"jd_gate", "jd_write"}
      BY <1>7, <2>2, <3>1
    <3>4. req'[task[v].r].status = "Absent" /\ card'[task[v].r].status = "Absent"
      BY <1>0, <1>6, <3>1, <3>2, <3>3 DEF CardStep
    <3>5. n.pc # "idle" /\ n.r = task[v].r => n.pc \in {"jd_gate", "jd_write"}
      BY <1>2, <1>4, <3>3
    <3> QED
      BY <1>1, <3>1, <3>2, <3>4, <3>5
  <2> QED
    BY <2>1, <2>2
<1>10. JdFirst'
  <2> SUFFICES ASSUME NEW v \in Workers
               PROVE  /\ task'[v].pc = "insert_req" => jd'[task'[v].r].status = "Pending"
                      /\ task'[v].pc = "del_jd" => req'[task'[v].r].status = "Absent"
    BY DEF JdFirst
  <2>1. CASE v = w
    BY <1>1, <1>2, <1>4, <2>1 DEF NoReq
  <2>2. CASE v # w
    <3>0. task'[v] = task[v]
      BY <1>1, <2>2
    <3>1. ASSUME task[v].pc = "insert_req" PROVE jd'[task[v].r].status = "Pending"
      <4>1. /\ jd[task[v].r].status = "Pending" /\ task[v].r \in Reqs
            /\ t.r = task[v].r => t.pc \in {"jd_gate", "jd_write"}
        BY <1>0, <1>7, <2>2, <3>1 DEF Paired, JdFirst, MintedFirst, Creating
      <4> QED
        BY <1>0, <4>1 DEF JdStep
    <3>2. ASSUME task[v].pc = "del_jd" PROVE req'[task[v].r].status = "Absent"
      <4>1. req[task[v].r].status = "Absent" /\ task[v].r \in Reqs
        BY <1>0, <3>2 DEF Paired, JdFirst, MintedFirst
      <4>2. ~(t.pc = "insert_req" /\ t.r = task[v].r)
        BY <1>5, <2>2, <3>2 DEF Creating
      <4> QED
        BY <1>6, <4>1, <4>2
    <3> QED
      BY <3>0, <3>1, <3>2
  <2> QED
    BY <2>1, <2>2
<1>11. EveryReqHasJd'
  <2> SUFFICES ASSUME NEW r \in Reqs, req'[r].status # "Absent"
               PROVE  jd'[r].status # "Absent"
    BY DEF EveryReqHasJd, Exists
  <2>0. /\ t.pc = "insert_req" => jd[t.r].status = "Pending"
        /\ t.pc = "del_jd" => req[t.r].status = "Absent"
    BY DEF Paired, JdFirst
  <2>1. CASE req[r].status = "Absent"
    <3>1. r = t.r /\ t.pc = "insert_req"
      BY <1>6, <2>1
    <3> QED
      BY <1>0, <2>0, <3>1 DEF JdStep
  <2>2. CASE req[r].status # "Absent"
    <3>1. jd[r].status # "Absent"
      BY <2>2 DEF Paired, EveryReqHasJd, Exists
    <3>2. ~(r = t.r /\ t.pc \in {"undo_jd", "del_jd"})
      BY <1>5, <2>0, <2>2 DEF Creating
    <3>3. t.pc = "act_jd" => t.to # "Absent"
      BY DEF Paired, Typed, WellFormed
    <3> QED
      BY <1>0, <3>1, <3>2, <3>3 DEF JdStep
  <2> QED
    BY <2>1, <2>2
<1> QED
  BY <1>8, <1>9, <1>10, <1>11

LEMMA NextPaired == Paired /\ [Next]_vars => Paired'
<1> SUFFICES ASSUME Paired, [Next]_vars PROVE Paired'
  OBVIOUS
<1> SUFFICES MintedFirst' /\ CreatedAlone' /\ JdFirst' /\ EveryReqHasJd'
  BY NextTyped DEF Paired
<1>1. ASSUME NEW w \in Workers, Start(w)
      PROVE  MintedFirst' /\ CreatedAlone' /\ JdFirst' /\ EveryReqHasJd'
  BY <1>1, StartPaired
<1>2. ASSUME NEW w \in Workers, Continue(w)
      PROVE  MintedFirst' /\ CreatedAlone' /\ JdFirst' /\ EveryReqHasJd'
  BY <1>2, ContinuePaired
<1>3. ASSUME UNCHANGED <<jd, card, minted, task>>,
             \A r \in Reqs : req'[r].status = req[r].status
      PROVE  MintedFirst' /\ CreatedAlone' /\ JdFirst' /\ EveryReqHasJd'
  <2>1. \A w \in Workers : task[w].pc # "idle" => task[w].r \in Reqs
    BY DEF Paired, Typed, WellFormed
  <2>2. MintedFirst' /\ EveryReqHasJd'
    BY <1>3 DEF Paired, MintedFirst, EveryReqHasJd, Exists
  <2>3. CreatedAlone' /\ JdFirst'
    BY <1>3, <2>1 DEF Paired, CreatedAlone, JdFirst, Creating
  <2> QED
    BY <2>2, <2>3
<1>4. ASSUME NEW r \in Reqs, CloseRequisition(r)
      PROVE  MintedFirst' /\ CreatedAlone' /\ JdFirst' /\ EveryReqHasJd'
  <2>1. \A q \in Reqs : req'[q].status = req[q].status
    BY <1>4 DEF CloseRequisition, Paired, Typed, TypeOK, ReqDoc
  <2> QED
    BY <1>3, <1>4, <2>1 DEF CloseRequisition, figures
<1>5. CASE SetSanction
  BY <1>3, <1>5 DEF SetSanction, records
<1>6. CASE HeadcountMoves
  BY <1>3, <1>6 DEF HeadcountMoves, records
<1>7. CASE Crash
  BY <1>7 DEF Crash, records, Paired, MintedFirst, CreatedAlone, Creating, JdFirst,
              EveryReqHasJd, Exists, Idle
<1>8. CASE UNCHANGED vars
  BY <1>3, <1>8 DEF vars
<1> QED
  BY <1>1, <1>2, <1>4, <1>5, <1>6, <1>7, <1>8 DEF Next

\* create_requisition and delete_requisition keep "every requisition has a JD"
\* true at every step, whatever runs beside them, whichever insert fails and
\* whenever the process restarts.
THEOREM ReqHasJd == Spec => []EveryReqHasJd
<1>1. Paired => EveryReqHasJd
  BY DEF Paired
<1> QED
  BY InitPaired, NextPaired, <1>1, PTL DEF Spec
-----------------------------------------------------------------------------
(* The JD and its requisition are decided together                           *)

\* A handler about to decide the JD has decided the requisition.
VerdictFirst ==
    \A w \in Workers : task[w].pc = "act_jd"
                         => req[task[w].r].status \in {task[w].to, "Absent"}

Decided == Paired /\ CoApproved /\ VerdictFirst

LEMMA InitDecided == Init => Decided
<1> SUFFICES ASSUME Init PROVE Decided
  OBVIOUS
<1>1. CoApproved
  BY DEF Init, CoApproved, NoJd
<1>2. VerdictFirst
  BY DEF Init, VerdictFirst, Idle
<1> QED
  BY <1>1, <1>2, InitPaired DEF Decided

LEMMA ContinueDecided ==
    ASSUME Decided, NEW w \in Workers, Continue(w)
    PROVE  CoApproved' /\ VerdictFirst'
<1> DEFINE t == task[w]
<1>0. /\ t \in Task /\ task \in [Workers -> Task]
      /\ t.r \in Reqs /\ ReqStep(t) /\ JdStep(t)
      /\ Typed /\ Paired
  BY ContinueShape DEF Decided, Paired, Typed, TypeOK, WellFormed
<1> PICK n \in Task : task' = [task EXCEPT ![w] = n] /\ PcStep(t, n)
  BY ContinueShape DEF Decided, Paired
<1>1. \A v \in Workers : task'[v] = IF v = w THEN n ELSE task[v]
  BY <1>0
\* The compare-and-swap finds an undecided requisition.
<1>2. t.pc = "act_cas" /\ Matches(t) => req[t.r].status \notin {"Approved", "Rejected", "Absent"}
  BY <1>0, TableTyped DEF Matches, Typed, WellFormed
<1>3. t.pc = "insert_req" => jd[t.r].status = "Pending" /\ Creating(t)
  BY <1>0 DEF Paired, JdFirst, Creating
<1>4. CoApproved'
  <2> SUFFICES ASSUME NEW r \in Reqs, req'[r].status # "Absent",
                      jd'[r].status \in {"Approved", "Rejected"}
               PROVE  req'[r].status = jd'[r].status
    BY DEF CoApproved, Exists
  <2>1. CASE jd'[r].status = jd[r].status
    <3>1. ~(r = t.r /\ t.pc = "insert_req")
      BY <1>3, <2>1
    <3>2. ~(r = t.r /\ t.pc = "act_cas" /\ Matches(t))
      BY <1>2, <2>1 DEF Decided, CoApproved, Exists
    <3>3. req'[r].status = req[r].status
      BY <1>0, <3>1, <3>2 DEF ReqStep, NoReq
    <3> QED
      BY <2>1, <3>3 DEF Decided, CoApproved, Exists
  <2>2. CASE jd'[r].status # jd[r].status
    <3>1. r = t.r /\ t.pc = "act_jd" /\ jd'[r].status = t.to
      BY <1>0, <2>2 DEF JdStep
    <3>2. req'[r].status = req[r].status
      BY <1>0, <3>1 DEF ReqStep
    <3> QED
      BY <3>1, <3>2 DEF Decided, VerdictFirst
  <2> QED
    BY <2>1, <2>2
<1>5. VerdictFirst'
  <2> SUFFICES ASSUME NEW v \in Workers, task'[v].pc = "act_jd"
               PROVE  req'[task'[v].r].status \in {task'[v].to, "Absent"}
    BY DEF VerdictFirst
  <2>1. CASE v = w
    <3>1. t.pc # "fin_act" /\ t.pc # "act_card"
      BY <1>1, <2>1, ActingShape DEF PcStep, Idle, Task
    <3>2. n.r = t.r /\ n.to = t.to /\ req'[t.r].status = t.to
      BY <1>1, <2>1, <3>1 DEF PcStep, Idle
    <3> QED
      BY <1>1, <2>1, <3>2
  <2>2. CASE v # w
    <3>1. /\ task'[v] = task[v] /\ task[v].r \in Reqs /\ task[v].to \in {"Approved", "Rejected"}
          /\ req[task[v].r].status \in {task[v].to, "Absent"}
      BY <1>0, <1>1, <2>2 DEF Decided, VerdictFirst, Typed, WellFormed
    <3>2. ~(t.r = task[v].r /\ t.pc = "insert_req")
      BY <1>0, <1>1, <1>3, <2>2 DEF Paired, CreatedAlone
    <3>3. ~(t.r = task[v].r /\ t.pc = "act_cas" /\ Matches(t))
      BY <1>2, <3>1
    <3> QED
      BY <1>0, <3>1, <3>2, <3>3 DEF ReqStep, NoReq
  <2> QED
    BY <2>1, <2>2
<1> QED
  BY <1>4, <1>5

LEMMA NextDecided == Decided /\ [Next]_vars => Decided'
<1> SUFFICES ASSUME Decided, [Next]_vars PROVE Decided'
  OBVIOUS
<1> SUFFICES CoApproved' /\ VerdictFirst'
  BY NextPaired DEF Decided
<1>0. Typed /\ \A w \in Workers : task[w].pc = "act_jd" => task[w].r \in Reqs
  BY DEF Decided, Paired, Typed, WellFormed
<1>1. ASSUME NEW w \in Workers, Start(w) PROVE CoApproved' /\ VerdictFirst'
  <2> PICK n \in Task : /\ UNCHANGED <<req, jd>> /\ task' = [task EXCEPT ![w] = n]
                        /\ n.pc # "act_jd"
    BY <1>0, <1>1, StartShape
  <2> task \in [Workers -> Task]
    BY <1>0 DEF Typed, TypeOK
  <2> QED
    BY DEF Decided, CoApproved, Exists, VerdictFirst
<1>2. ASSUME NEW w \in Workers, Continue(w) PROVE CoApproved' /\ VerdictFirst'
  BY <1>2, ContinueDecided
<1>3. ASSUME UNCHANGED <<jd, task>>, \A r \in Reqs : req'[r].status = req[r].status
      PROVE  CoApproved' /\ VerdictFirst'
  BY <1>0, <1>3 DEF Decided, CoApproved, Exists, VerdictFirst
<1>4. ASSUME NEW r \in Reqs, CloseRequisition(r) PROVE CoApproved' /\ VerdictFirst'
  <2>1. \A q \in Reqs : req'[q].status = req[q].status
    BY <1>0, <1>4 DEF CloseRequisition, Typed, TypeOK, ReqDoc
  <2> QED
    BY <1>3, <1>4, <2>1 DEF CloseRequisition
<1>5. CASE SetSanction
  BY <1>3, <1>5 DEF SetSanction, records
<1>6. CASE HeadcountMoves
  BY <1>3, <1>6 DEF HeadcountMoves, records
<1>7. CASE Crash
  BY <1>7 DEF Crash, records, Decided, CoApproved, Exists, VerdictFirst, Idle
<1>8. CASE UNCHANGED vars
  BY <1>3, <1>8 DEF vars
<1> QED
  BY <1>1, <1>2, <1>4, <1>5, <1>6, <1>7, <1>8 DEF Next

\* act_on_requisition never leaves a JD decided against its requisition: the
\* compare-and-swap lets one verdict through, and only its handler writes the JD.
THEOREM VerdictsAgree == Spec => []CoApproved
<1>1. Decided => CoApproved
  BY DEF Decided
<1> QED
  BY InitDecided, NextDecided, <1>1, PTL DEF Spec

-----------------------------------------------------------------------------
(* The route of a requisition                                                *)

LadderClimbed(d) == d.level \in 1..d.rungs /\ d.cleared = 1..(d.level - 1)

LadderOK(d) ==
    /\ d.status \in PreBudget => d.rungs = 0 /\ d.cleared = {}
    /\ d.status = "PendingEscalation" => LadderClimbed(d)
    /\ d.status \in {"PendingScorecard", "Approved"} => d.cleared = 1..d.rungs

\* What a handler on its way to the compare-and-swap is about to write.
Routed(t) ==
    /\ t.pc \in {"act_eval", "act_card", "act_cas"} =>
         /\ t.op \in Verifying => t.pc \in {"act_eval", "act_cas"}
         /\ t.op \notin Verifying => t.pc # "act_eval" /\ t.to = NextStatus(t.op, t.doc)
         /\ t.op = "escalate-approve" => LadderClimbed(t.doc)
    /\ t.pc = "act_eval" => t.to = "PendingScorecard"
    /\ t.pc = "act_cas" /\ t.op \in Verifying =>
         /\ t.to = IF t.rungs > 0 THEN "PendingEscalation" ELSE "PendingScorecard"
         /\ t.rungs > 0 => t.over = "over"

OnRoute ==
    /\ Paired
    /\ \A r \in Reqs : LadderOK(req[r])
    /\ \A w \in Workers : Routed(task[w])

\* The ladder after the compare-and-swap is one its new status allows.
LEMMA ActedLadder ==
    ASSUME NEW t \in Task, NEW d \in ReqDoc, t.pc = "act_cas", t.op \in Actions,
           Routed(t), LadderOK(d), d.status = From[t.op]
    PROVE  LadderOK(Acted(t, d)) /\ (<<d.status, t.to>> \in Edges \/ t.to = d.status)
<1> DEFINE l == LadderAfter(t, d)
<1>0. /\ l \in ReqDoc /\ t.rungs \in Nat /\ t.doc \in ReqDoc
      /\ d.rungs \in Nat /\ d.cleared \in SUBSET Nat /\ d.level \in Nat
      /\ t.doc.rungs \in Nat /\ t.doc.level \in Nat
  BY LadderTyped DEF Task, ReqDoc
<1>1. /\ Acted(t, d).status = t.to /\ Acted(t, d).rungs = l.rungs
      /\ Acted(t, d).cleared = l.cleared /\ Acted(t, d).level = l.level
  BY <1>0 DEF Acted, ReqDoc
<1> SUFFICES /\ t.to \in PreBudget => l.rungs = 0 /\ l.cleared = {}
             /\ t.to = "PendingEscalation" => LadderClimbed(l)
             /\ t.to \in {"PendingScorecard", "Approved"} => l.cleared = 1..l.rungs
             /\ <<d.status, t.to>> \in Edges \/ t.to = d.status
  BY <1>1 DEF LadderOK, LadderClimbed
<1>e. /\ <<From[t.op], To[t.op]>> \in Edges
      /\ t.op \in Verifying => <<From[t.op], "PendingEscalation">> \in Edges
  BY DEF Edges
<1>2. CASE t.op \in Verifying
  <2>1. /\ d.status \in PreBudget /\ d.rungs = 0 /\ d.cleared = {}
        /\ To[t.op] = "PendingScorecard"
        /\ t.op # "escalate-approve" /\ t.op # "escalate-reject"
    BY <1>2 DEF From, To, Actions, Verifying, PreBudget, LadderOK
  <2>2. /\ t.to = IF t.rungs > 0 THEN "PendingEscalation" ELSE "PendingScorecard"
        /\ t.rungs > 0 => t.over = "over"
    BY <1>2 DEF Routed
  <2>3. CASE t.over = "over"
    <3>0. l = [d EXCEPT !.rungs = t.rungs, !.cleared = {},
                        !.level = IF t.rungs > 0 THEN 1 ELSE @]
      BY <1>2, <2>1, <2>3 DEF LadderAfter
    <3>1. /\ l.rungs = t.rungs /\ l.cleared = {}
          /\ t.rungs > 0 => l.level = 1
      BY <3>0 DEF ReqDoc
    <3> HIDE DEF l
    <3>2. CASE t.rungs > 0
      BY <1>0, <1>e, <1>2, <2>1, <2>2, <3>1, <3>2 DEF LadderClimbed, PreBudget
    <3>3. CASE t.rungs = 0
      <4>1. t.to = "PendingScorecard" /\ l.cleared = 1..l.rungs
        BY <2>2, <3>1, <3>3
      <4> QED
        BY <1>e, <1>2, <2>1, <4>1 DEF PreBudget
    <3> QED
      BY <1>0, <3>2, <3>3
  <2>4. CASE t.over # "over"
    <3>1. l = d /\ t.rungs = 0
      BY <1>0, <2>1, <2>2, <2>4 DEF LadderAfter
    <3>2. t.to = "PendingScorecard"
      BY <2>2, <3>1
    <3>3. l.cleared = {} /\ l.rungs = 0
      BY <2>1, <3>1
    <3> HIDE DEF l
    <3>4. l.cleared = 1..l.rungs
      BY <3>3
    <3> QED
      BY <1>e, <1>2, <2>1, <3>2, <3>4 DEF PreBudget
  <2> QED
    BY <2>3, <2>4
<1>3. CASE t.op = "escalate-approve"
  <2>1. t.op \notin Verifying /\ To[t.op] = "PendingScorecard"
        /\ d.status = "PendingEscalation"
    BY <1>3 DEF From, To, Actions, Verifying
  <2>2. LadderClimbed(t.doc) /\ t.to = NextStatus(t.op, t.doc)
    BY <1>3, <2>1 DEF Routed
  <2>3. /\ l.rungs = t.doc.rungs
        /\ l.cleared = t.doc.cleared \cup ({t.doc.level} \cap (1..t.doc.rungs))
        /\ l.level = IF t.doc.level < t.doc.rungs THEN t.doc.level + 1 ELSE t.doc.rungs
    BY <1>3, <2>1 DEF LadderAfter, ReqDoc
  <2>4. l.cleared = 1..t.doc.level
    BY <1>0, <2>2, <2>3 DEF LadderClimbed
  <2>5. CASE t.doc.level < t.doc.rungs
    <3>1. t.to = "PendingEscalation"
      BY <1>3, <2>2, <2>5 DEF NextStatus
    <3>2. LadderClimbed(l)
      BY <1>0, <2>3, <2>4, <2>5 DEF LadderClimbed
    <3> QED
      BY <2>1, <3>1, <3>2 DEF PreBudget
  <2>6. CASE ~(t.doc.level < t.doc.rungs)
    <3>1. t.to = "PendingScorecard"
      BY <1>3, <2>1, <2>2, <2>6 DEF NextStatus
    <3>2. t.doc.level = t.doc.rungs
      BY <1>0, <2>2, <2>6 DEF LadderClimbed
    <3> QED
      BY <1>e, <2>1, <2>3, <2>4, <3>1, <3>2 DEF PreBudget
  <2> QED
    BY <2>5, <2>6
<1>4. CASE t.op \in {"hr-reject", "escalate-reject", "scorecard-reject"}
  <2>1. t.to = "Rejected" /\ To[t.op] = "Rejected"
    BY <1>4 DEF Routed, NextStatus, To, Actions, Verifying
  <2> QED
    BY <1>e, <2>1 DEF PreBudget
<1>5. CASE t.op = "scorecard-approve"
  <2>1. /\ t.op \notin Verifying /\ To[t.op] = "Approved"
        /\ d.status = "PendingScorecard" /\ l = d
    BY <1>5 DEF From, To, Actions, Verifying, LadderAfter
  <2>2. t.to = "Approved"
    BY <1>5, <2>1 DEF Routed, NextStatus
  <2> QED
    BY <1>e, <2>1, <2>2 DEF LadderOK, PreBudget
<1> QED
  BY <1>2, <1>3, <1>4, <1>5 DEF Actions

LEMMA InitOnRoute == Init => OnRoute
<1> SUFFICES ASSUME Init PROVE OnRoute
  OBVIOUS
<1>1. \A r \in Reqs : LadderOK(req[r])
  BY DEF Init, LadderOK, NoReq, PreBudget
<1>2. \A w \in Workers : Routed(task[w])
  BY DEF Init, Routed, Idle
<1> QED
  BY <1>1, <1>2, InitPaired DEF OnRoute

\* A handler enters the approval chain with the requisition it has read.
LEMMA ActingRouted ==
    ASSUME NEW a \in Actions, NEW r \in Reqs, NEW d \in ReqDoc, LadderOK(d),
           d.status = From[a]
    PROVE  Routed(Acting(a, r, d))
<1> DEFINE n == Acting(a, r, d)
<1>1. /\ n.op = a /\ n.doc = d /\ n.to = NextStatus(a, d)
      /\ n.pc = IF a \in Verifying THEN "act_eval"
                ELSE IF a = "scorecard-approve" THEN "act_card" ELSE "act_cas"
  BY DEF Acting, Idle
<1>2. a = "escalate-approve" => d.status = "PendingEscalation"
  BY DEF From, Actions, Verifying
<1>3. a \in Verifying => NextStatus(a, d) = "PendingScorecard"
  BY DEF NextStatus, To, Actions, Verifying
<1> HIDE DEF n
<1>4. n.op = "escalate-approve" => LadderClimbed(n.doc)
  BY <1>1, <1>2 DEF LadderOK
<1>5. n.pc = "act_eval" => n.to = "PendingScorecard"
  BY <1>1, <1>3
<1>6. n.op \in Verifying => n.pc = "act_eval"
  BY <1>1
<1>7. n.op \notin Verifying => n.pc # "act_eval" /\ n.to = NextStatus(n.op, n.doc)
  BY <1>1
<1>8. Routed(n)
  BY <1>4, <1>5, <1>6, <1>7 DEF Routed
<1> QED
  BY <1>8 DEF n

LEMMA ContinueOnRoute ==
    ASSUME OnRoute, NEW w \in Workers, Continue(w)
    PROVE  /\ \A r \in Reqs : LadderOK(req'[r])
           /\ \A v \in Workers : Routed(task'[v])
           /\ \A r \in Reqs : \/ req'[r].status \in {req[r].status, "Absent"}
                              \/ req[r].status = "Absent" /\ req'[r].status = "PendingHr"
                              \/ <<req[r].status, req'[r].status>> \in Edges
<1> DEFINE t == task[w]
<1>0. /\ t \in Task /\ task \in [Workers -> Task] /\ WellFormed(t)
      /\ t.r \in Reqs /\ ReqStep(t) /\ req \in [Reqs -> ReqDoc] /\ Paired
  BY ContinueShape DEF OnRoute, Paired, Typed, TypeOK, WellFormed
<1> PICK n \in Task : task' = [task EXCEPT ![w] = n] /\ PcStep(t, n)
  BY ContinueShape DEF OnRoute, Paired
<1>1. ASSUME NEW r \in Reqs
      PROVE  /\ LadderOK(req'[r])
             /\ \/ req'[r].status \in {req[r].status, "Absent"}
                \/ req[r].status = "Absent" /\ req'[r].status = "PendingHr"
                \/ <<req[r].status, req'[r].status>> \in Edges
  <2>1. CASE /\ req'[r].status = req[r].status /\ req'[r].rungs = req[r].rungs
             /\ req'[r].cleared = req[r].cleared /\ req'[r].level = req[r].level
    BY <2>1 DEF OnRoute, LadderOK, LadderClimbed
  <2>2. CASE r = t.r /\ t.pc = "insert_req" /\ req'[r] = t.doc
    <3>1. /\ req[r].status = "Absent" /\ t.doc.status = "PendingHr"
          /\ t.doc.rungs = 0 /\ t.doc.cleared = {}
      BY <1>0, <2>2 DEF Paired, CreatedAlone, Creating
    <3> QED
      BY <2>2, <3>1 DEF LadderOK
  <2>3. CASE req'[r] = NoReq
    BY <2>3 DEF NoReq, LadderOK, PreBudget
  <2>4. CASE r = t.r /\ t.pc = "act_cas" /\ Matches(t) /\ req'[r] = Acted(t, req[r])
    <3>1. /\ t.op \in Actions /\ Routed(t) /\ LadderOK(req[r])
          /\ req[r] \in ReqDoc /\ req[r].status = From[t.op]
      BY <1>0, <2>4 DEF WellFormed, OnRoute, Matches
    <3> QED
      BY <1>0, <2>4, <3>1, ActedLadder, ActedStatus
  <2> QED
    BY <1>0, <2>1, <2>2, <2>3, <2>4 DEF ReqStep
<1>2. Routed(n)
  <2>0. Routed(t)
    BY DEF OnRoute
  <2>1. CASE n.pc \notin {"act_eval", "act_card", "act_cas"}
    BY <2>1 DEF Routed
  <2>2. CASE t.pc = "act_eval" /\ n.pc = "act_cas"
    <3>1. /\ n.op = t.op /\ n.doc = t.doc /\ t.to = "PendingScorecard"
          /\ n.to = IF n.rungs > 0 THEN "PendingEscalation" ELSE t.to
          /\ n.rungs > 0 => n.over = "over"
          /\ t.op \in Verifying
      BY <2>0, <2>2 DEF PcStep, Idle, Routed
    <3>2. n.op # "escalate-approve"
      BY <3>1 DEF Verifying
    <3> QED
      BY <2>2, <3>1, <3>2 DEF Routed
  <2>3. CASE t.pc = "act_card" /\ n = [t EXCEPT !.pc = "act_cas"]
    <3>1. /\ n.pc = "act_cas" /\ n.op = t.op /\ n.doc = t.doc /\ n.to = t.to
      BY <1>0, <2>3 DEF Task
    <3>2. t.op \notin Verifying
      BY <2>0, <2>3 DEF Routed
    <3> QED
      BY <2>0, <2>3, <3>1, <3>2 DEF Routed
  <2>4. CASE /\ t.pc = "fin_act" /\ n = Acting("scorecard-approve", t.r, req[t.r])
             /\ req[t.r].status = "PendingScorecard"
    <3>1. /\ "scorecard-approve" \in Actions /\ From["scorecard-approve"] = "PendingScorecard"
          /\ req[t.r] \in ReqDoc /\ LadderOK(req[t.r])
      BY <1>0 DEF Actions, Verifying, From, OnRoute
    <3> QED
      BY <1>0, <2>4, <3>1, ActingRouted
  <2> QED
    BY <2>1, <2>2, <2>3, <2>4 DEF PcStep, Idle
<1> QED
  BY <1>0, <1>1, <1>2 DEF OnRoute

LEMMA NextOnRoute ==
    OnRoute /\ [Next]_vars
      => /\ OnRoute'
         /\ \A r \in Reqs : \/ req'[r].status \in {req[r].status, "Absent"}
                            \/ req[r].status = "Absent" /\ req'[r].status = "PendingHr"
                            \/ <<req[r].status, req'[r].status>> \in Edges
<1> SUFFICES ASSUME OnRoute, [Next]_vars
             PROVE  /\ \A r \in Reqs : LadderOK(req'[r])
                    /\ \A w \in Workers : Routed(task'[w])
                    /\ \A r \in Reqs :
                         \/ req'[r].status \in {req[r].status, "Absent"}
                         \/ req[r].status = "Absent" /\ req'[r].status = "PendingHr"
                         \/ <<req[r].status, req'[r].status>> \in Edges
  BY NextPaired DEF OnRoute
<1>0. /\ Typed /\ task \in [Workers -> Task] /\ req \in [Reqs -> ReqDoc]
      /\ \A r \in Reqs : LadderOK(req[r])
      /\ \A w \in Workers : Routed(task[w])
  BY DEF OnRoute, Paired, Typed, TypeOK
<1>1. ASSUME NEW w \in Workers, Start(w)
      PROVE  UNCHANGED req /\ \A v \in Workers : Routed(task'[v])
  <2> PICK r \in Reqs, n \in Task :
        /\ UNCHANGED req /\ task' = [task EXCEPT ![w] = n]
        /\ n.pc \in {"act_eval", "act_card", "act_cas"} =>
             /\ n.doc = req[r] /\ n.op \in Actions /\ n = Acting(n.op, r, req[r])
             /\ req[r].status = From[n.op]
    BY <1>0, <1>1, StartShape
  <2>1. Routed(n)
    <3>1. CASE n.pc \in {"act_eval", "act_card", "act_cas"}
      BY <1>0, <3>1, ActingRouted
    <3>2. CASE n.pc \notin {"act_eval", "act_card", "act_cas"}
      BY <3>2 DEF Routed
    <3> QED
      BY <3>1, <3>2
  <2> QED
    BY <1>0, <2>1
<1>2. ASSUME NEW w \in Workers, Continue(w)
      PROVE  /\ \A r \in Reqs : LadderOK(req'[r])
             /\ \A v \in Workers : Routed(task'[v])
             /\ \A r \in Reqs :
                  \/ req'[r].status \in {req[r].status, "Absent"}
                  \/ req[r].status = "Absent" /\ req'[r].status = "PendingHr"
                  \/ <<req[r].status, req'[r].status>> \in Edges
  BY <1>2, ContinueOnRoute
<1>3. ASSUME NEW r \in Reqs, CloseRequisition(r)
      PROVE  /\ UNCHANGED task
             /\ \A q \in Reqs : LadderOK(req'[q]) /\ req'[q].status = req[q].status
  <2>1. UNCHANGED task /\ \A q \in Reqs :
             /\ req'[q].status = req[q].status /\ req'[q].rungs = req[q].rungs
             /\ req'[q].cleared = req[q].cleared /\ req'[q].level = req[q].level
    BY <1>0, <1>3 DEF CloseRequisition, ReqDoc
  <2> QED
    BY <1>0, <2>1 DEF LadderOK, LadderClimbed
<1>4. CASE SetSanction \/ HeadcountMoves \/ UNCHANGED vars
  BY <1>0, <1>4 DEF SetSanction, HeadcountMoves, vars, records
<1>5. CASE Crash
  BY <1>0, <1>5 DEF Crash, records, Routed, Idle
<1>6. CASE \E w \in Workers : Start(w)
  BY <1>0, <1>1, <1>6
<1>7. CASE \E r \in Reqs : CloseRequisition(r)
  BY <1>0, <1>3, <1>7
<1> QED
  BY <1>2, <1>4, <1>5, <1>6, <1>7 DEF Next

\* A requisition is at the scorecard gate, or past it, only with every rung of
\* its ladder cleared: stale approvals can repeat a rung, never skip one.
THEOREM LaddersClimbed == Spec => []LadderComplete
<1>1. OnRoute => LadderComplete
  BY DEF OnRoute, LadderOK, LadderComplete
<1> QED
  BY InitOnRoute, NextOnRoute, <1>1, PTL DEF Spec

\* Every change of a requisition's status is an edge of the transition table,
\* its creation or its deletion.
THEOREM StatusOnTable == Spec => StatusFollowsTable
<1>1. OnRoute /\ [Next]_vars =>
        [\A r \in Reqs :
           LET old == req[r].status  new == req'[r].status
           IN \/ new \in {old, "Absent"}
              \/ old = "Absent" /\ new = "PendingHr"
              \/ <<old, new>> \in Edges]_vars
  BY NextOnRoute
<1> QED
  BY InitOnRoute, NextOnRoute, <1>1, PTL DEF Spec, StatusFollowsTable

-----------------------------------------------------------------------------
(* Nobody waits for an approval that nobody will give                        *)

\* A handler that has still to take requisition r through the scorecard gate,
\* and one that has still to approve its JD.
Saves(t, r) ==
    /\ t.r = r
    /\ \/ t.pc \in {"fin_req", "fin_card", "fin_act"}
       \/ t.pc \in {"act_card", "act_cas"} /\ t.op = "scorecard-approve"

Deciding(t, r) == t.r = r /\ t.pc = "act_jd" /\ t.to = "Approved"

\* A card about to be inserted is unsigned.
Drafts == \A w \in Workers : task[w].pc = "ins_card" => task[w].card.status = "Pending"

\* What a handler that has just begun holds of the card it will write.
Holds(t) ==
    /\ t.pc = "ins_card" => t.card.status = "Pending" /\ t.card.seen = {}
    /\ t.pc = "sign_write" => t.card = card[t.r]

\* Until the process restarts, a requisition that could be approved has a
\* handler that will, and so has an approved one whose JD is not.
Attended ==
    /\ OnRoute /\ Decided /\ Drafts
    /\ crashes = 0 =>
         \A r \in Reqs :
           /\ Finalisable(r) => \E w \in Workers : Saves(task[w], r)
           /\ req[r].status = "Approved" =>
                jd[r].status = "Approved" \/ \E w \in Workers : Deciding(task[w], r)

\* What one call of handler t, that is n afterwards, does for the requisitions
\* in wait.
SaveStep(t, n) ==
    \A r \in Reqs :
      /\ card'[r].status = "Approved" => card[r].status = "Approved" \/ Saves(n, r)
      /\ req'[r].status = "PendingScorecard"
           => req[r].status = "PendingScorecard" \/ Saves(n, r)
      /\ req'[r].status = "Approved" => req[r].status = "Approved" \/ Deciding(n, r)
      /\ Saves(t, r) /\ Finalisable(r)
           => Saves(n, r) \/ req'[r].status # "PendingScorecard"
      /\ Deciding(t, r) => jd[r].status = "Absent" \/ jd'[r].status = "Approved"

LEMMA InitAttended == Init => Attended
<1> SUFFICES ASSUME Init PROVE Attended
  OBVIOUS
<1>1. \A r \in Reqs : ~Finalisable(r) /\ req[r].status # "Approved"
  BY DEF Init, Finalisable, NoReq, NoCard
<1>2. Drafts
  BY DEF Init, Drafts, Idle
<1> QED
  BY <1>1, <1>2, InitOnRoute, InitDecided DEF Attended

\* The documents are never those of the handlers that only read.
LEMMA ReadersSave ==
    ASSUME NEW t \in Task, NEW n \in Task, UNCHANGED <<req, card>>,
           t.pc # "act_jd", \A r \in Reqs : Saves(t, r) /\ Finalisable(r) => Saves(n, r)
    PROVE  SaveStep(t, n)
  BY DEF SaveStep, Deciding

LEMMA ContinueSaves ==
    ASSUME Attended, NEW w \in Workers, Continue(w)
    PROVE  UNCHANGED figures /\ SaveStep(task[w], task'[w])
           /\ (task'[w].pc # "ins_card")
<1> DEFINE t == task[w]
           n == task'[w]
<1>0. /\ t \in Task /\ WellFormed(t) /\ n \in Task /\ Routed(t)
      /\ task \in [Workers -> Task] /\ task' \in [Workers -> Task]
      /\ req \in [Reqs -> ReqDoc] /\ jd \in [Reqs -> JdDoc] /\ card \in [Reqs -> CardDoc]
  BY ContinueTyped DEF Attended, OnRoute, Paired, Typed, TypeOK
<1>i. Idle.pc = "idle"
  BY DEF Idle
<1>a. ASSUME NEW pc \in PCs, Goto(w, pc)
      PROVE  n = [t EXCEPT !.pc = pc] /\ n.pc = pc /\ n.r = t.r /\ n.op = t.op /\ n.to = t.to
  BY <1>0, <1>a DEF Goto, Task
<1>b. ASSUME Finish(w)
      PROVE  n = Idle /\ n.pc = "idle"
  BY <1>0, <1>b, <1>i DEF Finish
<1> SUFFICES UNCHANGED figures /\ SaveStep(t, n) /\ n.pc # "ins_card"
  OBVIOUS
<1>c. /\ "insert_req" \in PCs /\ "undo_jd" \in PCs /\ "del_jd" \in PCs /\ "act_cas" \in PCs
      /\ "act_jd" \in PCs /\ "fin_req" \in PCs /\ "fin_card" \in PCs /\ "fin_act" \in PCs
      /\ "jd_write" \in PCs
  BY DEF PCs
<1> HIDE DEF t, n
<1>1. CASE InsertJd(w) \/ UndoJd(w) \/ UpdateEval(w) \/ DeleteJd(w) \/ JdGate(w) \/ JdWrite(w)
  <2>1. /\ UNCHANGED figures /\ UNCHANGED <<req, card>>
        /\ t.pc \in {"insert_jd", "undo_jd", "update_eval", "del_jd", "jd_gate", "jd_write"}
    BY <1>1 DEF InsertJd, UndoJd, UpdateEval, DeleteJd, JdGate, JdWrite, At, records, t
  <2>2. n.pc # "ins_card"
    <3>1. CASE UpdateEval(w)
      <4> PICK over : task' = [task EXCEPT ![w].pc = "update_write", ![w].over = over]
        BY <3>1 DEF UpdateEval
      <4> QED
        BY <1>0 DEF Task, n
    <3>2. CASE ~UpdateEval(w)
      BY <1>1, <1>a, <1>b, <1>c, <3>2 DEF InsertJd, UndoJd, DeleteJd, JdGate, JdWrite
    <3> QED
      BY <3>1, <3>2
  <2>3. \A r \in Reqs : ~Saves(t, r)
    BY <2>1 DEF Saves
  <2> QED
    BY <1>0, <2>1, <2>2, <2>3, ReadersSave
<1>2. CASE InsertReq(w)
  <2>1. t.pc = "insert_req" /\ t.r \in Reqs /\ t.doc.status = "PendingHr"
    BY <1>0, <1>2 DEF InsertReq, At, WellFormed, Attended, OnRoute, Paired, CreatedAlone,
                      Creating, t
  <2>2. /\ UNCHANGED figures /\ UNCHANGED <<jd, card>> /\ n.pc \in {"idle", "undo_jd"}
        /\ \A r \in Reqs : req'[r] = req[r] \/ req'[r].status = "PendingHr"
    BY <1>0, <1>2, <1>a, <1>b, <1>c, <2>1 DEF InsertReq, t
  <2> QED
    BY <2>1, <2>2 DEF SaveStep, Saves, Deciding
<1>3. CASE UpdateWrite(w) \/ DeleteReq(w)
  <2>1. t.pc \in {"update_write", "del_req"} /\ t.r \in Reqs
    BY <1>0, <1>3 DEF UpdateWrite, DeleteReq, At, WellFormed, t
  <2>2. \A r \in Reqs : req'[r].status \in {req[r].status, "Absent"}
    <3>1. ASSUME NEW d \in ReqDoc PROVE Updated(t, d).status = d.status
      BY DEF Updated, ReqDoc
    <3>2. CASE UpdateWrite(w)
      BY <1>0, <2>1, <3>1, <3>2 DEF UpdateWrite, t
    <3>3. CASE DeleteReq(w)
      BY <1>0, <2>1, <3>3 DEF DeleteReq, NoReq, t
    <3> QED
      BY <1>3, <3>2, <3>3
  <2>3. UNCHANGED figures /\ UNCHANGED <<jd, card>> /\ n.pc \in {"idle", "del_jd"}
    BY <1>3, <1>a, <1>b, <1>c DEF UpdateWrite, DeleteReq
  <2> QED
    BY <2>1, <2>2, <2>3 DEF SaveStep, Saves, Deciding
<1>4. CASE ActEval(w)
  <2>1. t.pc = "act_eval" /\ UNCHANGED figures /\ UNCHANGED <<req, jd, card>>
    BY <1>4 DEF ActEval, At, records, t
  <2>2. \E m \in Task : task' = [task EXCEPT ![w] = m] /\ PcStep(t, m)
    BY <1>0, ContinueShape DEF t, Attended, Decided, Paired
  <2>3. n.pc # "ins_card"
    BY <1>0, <1>i, <2>1, <2>2 DEF PcStep, n
  <2>4. \A r \in Reqs : ~Saves(t, r)
    BY <2>1 DEF Saves
  <2> QED
    BY <1>0, <2>1, <2>3, <2>4, ReadersSave
<1>5. CASE ActCard(w) \/ FinReq(w) \/ FinCard(w)
  <2>1. /\ UNCHANGED figures /\ UNCHANGED <<req, card>>
        /\ t.pc \in {"act_card", "fin_req", "fin_card"}
    BY <1>5 DEF ActCard, FinReq, FinCard, At, records, t
  <2>2. n.pc # "ins_card"
    BY <1>5, <1>a, <1>b, <1>c DEF ActCard, FinReq, FinCard
  <2>3. ASSUME NEW r \in Reqs, Saves(t, r), Finalisable(r) PROVE Saves(n, r)
    <3>1. t.r = r
      BY <2>3 DEF Saves
    <3>2. ~Finish(w) => n.r = r /\ n.op = t.op /\ n.pc \in {"act_cas", "fin_card", "fin_act"}
      BY <1>5, <1>a, <1>c, <3>1 DEF ActCard, FinReq, FinCard
    <3>3. /\ ActCard(w) => Goto(w, "act_cas") /\ t.pc = "act_card"
          /\ FinReq(w) => Goto(w, "fin_card")
          /\ FinCard(w) => Goto(w, "fin_act")
      BY <2>3, <3>1 DEF ActCard, FinReq, FinCard, CardPasses, Finalisable, At, t
    <3> QED
      BY <1>5, <1>a, <1>c, <2>3, <3>1, <3>3 DEF Saves
  <2> QED
    BY <1>0, <2>1, <2>2, <2>3, ReadersSave
<1>6. CASE FinAct(w)
  <2>1. /\ UNCHANGED figures /\ UNCHANGED <<req, card>> /\ t.pc = "fin_act"
        /\ From["scorecard-approve"] = "PendingScorecard"
    BY <1>6 DEF FinAct, At, records, t, From, Actions, Verifying
  <2>2. \/ n = Acting("scorecard-approve", t.r, req[t.r])
        \/ req[t.r].status # "PendingScorecard" /\ n.pc = "idle"
    BY <1>0, <1>6, <1>b, <2>1 DEF FinAct, t, n
  <2>3. n.pc # "ins_card"
    BY <2>2, ActingShape
  <2>4. ASSUME NEW r \in Reqs, Saves(t, r), Finalisable(r) PROVE Saves(n, r)
    BY <2>2, <2>4, ActingShape DEF Saves, Finalisable
  <2> QED
    BY <1>0, <2>1, <2>3, <2>4, ReadersSave
<1>7. CASE ActCas(w)
  <2>1. t.r \in Reqs /\ t.pc = "act_cas" /\ req[t.r] \in ReqDoc
    BY <1>0, <1>7 DEF ActCas, At, WellFormed, t
  <2>2. UNCHANGED figures /\ UNCHANGED <<jd, card>> /\ n.pc # "ins_card"
    BY <1>7, <1>a, <1>b, <1>c DEF ActCas
  <2>3. t.op = "scorecard-approve" => t.to = "Approved" /\ From[t.op] = "PendingScorecard"
    BY <1>0, <2>1 DEF Routed, NextStatus, To, From, Actions, Verifying
  <2>4. CASE Matches(t)
    <3>1. /\ req' = [req EXCEPT ![t.r] = Acted(t, req[t.r])]
          /\ CASE CoDecides(t.to) -> Goto(w, "act_jd")
               [] Finalises(t.to) -> Goto(w, "fin_req")
               [] OTHER -> Finish(w)
      BY <1>7, <2>4 DEF ActCas, t
    <3>2. /\ req'[t.r].status = t.to
          /\ \A r \in Reqs \ {t.r} : req'[r] = req[r]
      BY <1>0, <2>1, <3>1, ActedStatus
    <3>3. /\ t.to = "Approved" => n.pc = "act_jd" /\ n.r = t.r /\ n.to = t.to
          /\ t.to = "PendingScorecard" => n.pc = "fin_req" /\ n.r = t.r
      BY <1>a, <1>c, <3>1 DEF CoDecides, Finalises
    <3> QED
      BY <2>1, <2>2, <2>3, <3>2, <3>3 DEF SaveStep, Saves, Deciding
  <2>5. CASE ~Matches(t)
    <3>1. UNCHANGED req
      BY <1>7, <2>5 DEF ActCas, t
    <3>2. \A r \in Reqs : ~(Saves(t, r) /\ Finalisable(r))
      BY <2>1, <2>3, <2>5 DEF Saves, Finalisable, Matches
    <3> QED
      BY <1>0, <2>1, <2>2, <3>1, <3>2, ReadersSave
  <2> QED
    BY <2>4, <2>5
<1>8. CASE ActJd(w)
  <2>1. /\ t.pc = "act_jd" /\ t.r \in Reqs /\ UNCHANGED figures /\ UNCHANGED <<req, card>>
        /\ n.pc = "idle"
    BY <1>0, <1>8, <1>b DEF ActJd, At, WellFormed, t
  <2>2. jd[t.r].status = "Absent" \/ jd'[t.r].status = t.to
    BY <1>0, <1>8, <2>1 DEF ActJd, JdDoc, t
  <2> QED
    BY <2>1, <2>2 DEF SaveStep, Saves, Deciding
<1>9. CASE InsertCard(w) \/ BackWrite(w) \/ EditWrite(w)
  <2>1. /\ t.pc \in {"ins_card", "back_write", "edit_write"} /\ t.r \in Reqs
        /\ UNCHANGED figures /\ UNCHANGED <<req, jd>> /\ n.pc = "idle"
    BY <1>0, <1>9, <1>b DEF InsertCard, BackWrite, EditWrite, At, WellFormed, t
  <2>2. t.pc = "ins_card" => t.card.status = "Pending"
    BY DEF Attended, Drafts, t
  <2>3. ASSUME NEW c \in CardDoc, Edited(t, c).status = "Approved"
        PROVE  c.status = "Approved"
    BY <2>3 DEF Edited, Unsigned, CardDoc
  <2>4. ASSUME NEW c \in CardDoc PROVE Unsigned(c, "Rejected").status = "Rejected"
    BY DEF Unsigned, CardDoc
  <2>5. \A r \in Reqs : card'[r].status = "Approved" => card[r].status = "Approved"
    <3>1. CASE InsertCard(w)
      BY <1>0, <2>1, <2>2, <3>1 DEF InsertCard, At, t
    <3>2. CASE BackWrite(w)
      BY <1>0, <2>1, <2>4, <3>2 DEF BackWrite, t
    <3>3. CASE EditWrite(w)
      BY <1>0, <2>1, <2>3, <3>3 DEF EditWrite, t
    <3> QED
      BY <1>9, <3>1, <3>2, <3>3
  <2> QED
    BY <2>1, <2>5 DEF SaveStep, Saves, Deciding
<1>10. CASE SignWrite(w)
  <2>1. /\ t.pc = "sign_write" /\ t.r \in Reqs /\ UNCHANGED figures /\ UNCHANGED <<req, jd>>
    BY <1>0, <1>10 DEF SignWrite, At, WellFormed, t
  <2>2. n.pc # "ins_card"
    BY <1>10, <1>a, <1>b, <1>c DEF SignWrite
  <2>3. ASSUME NEW r \in Reqs, card'[r].status = "Approved", card[r].status # "Approved"
        PROVE  Saves(n, r)
    <3>1. /\ SameApprovals(t) /\ card' = [card EXCEPT ![t.r] = Signed(t, card[t.r])]
          /\ IF Completes(t) THEN Goto(w, "fin_req") ELSE Finish(w)
      BY <1>10, <2>3 DEF SignWrite, t
    <3>2. r = t.r /\ Signed(t, card[r]).status = "Approved"
      BY <1>0, <2>1, <2>3, <3>1
    <3>3. card[r] \in CardDoc
      BY <1>0
    <3>4. Completes(t)
      BY <2>3, <3>2, <3>3 DEF Signed, CardDoc
    <3> QED
      BY <1>a, <1>c, <3>1, <3>2, <3>4 DEF Saves
  <2> QED
    BY <2>1, <2>2, <2>3 DEF SaveStep, Saves, Deciding
<1> QED
  BY <1>1, <1>2, <1>3, <1>4, <1>5, <1>6, <1>7, <1>8, <1>9, <1>10 DEF Continue

\* A handler that begins will insert an unsigned card, or sign the one it has read.
LEMMA StartDrafts ==
    ASSUME Typed, NEW w \in Workers, Start(w)
    PROVE  /\ UNCHANGED <<req, jd, card, crashes>> /\ task[w] = Idle
           /\ task' = [task EXCEPT ![w] = task'[w]]
           /\ Holds(task'[w])
<1>1. /\ UNCHANGED <<req, jd, card>> /\ task[w] = Idle
      /\ \E n \in Task : task' = [task EXCEPT ![w] = n]
  BY StartShape
<1>2. task' = [task EXCEPT ![w] = task'[w]] /\ task \in [Workers -> Task]
  BY <1>1 DEF Typed, TypeOK
<1> PICK r \in Reqs :
        \/ Raise(w, r) \/ StartUpdate(w, r) \/ StartDelete(w, r)
        \/ \E a \in Actions : StartAct(w, a, r)
        \/ StartDraft(w, r) \/ StartSendBack(w, r) \/ StartEditJd(w, r)
        \/ \E u \in Users : StartSign(w, r, u)
        \/ \E e \in CardEdits : StartEditCard(w, e, r)
  BY DEF Start
<1>3. UNCHANGED crashes
  BY DEF Raise, StartUpdate, StartDelete, StartAct, StartDraft, StartSendBack, StartEditJd,
         StartSign, StartEditCard, figures
<1>4. Holds(task'[w])
  <2>1. CASE StartDraft(w, r)
    <3> PICK managerial \in BOOLEAN :
           Begin(w, "draft", [Idle EXCEPT !.pc = "ins_card", !.r = r,
                                          !.card = [NoCard EXCEPT !.status = "Pending",
                                                                  !.managerial = managerial]])
      BY <2>1 DEF StartDraft
    <3> QED
      BY <1>2 DEF Begin, Idle, NoCard, Holds
  <2>2. CASE Raise(w, r)
    <3> PICK v \in 1..MaxVacancy, over \in Snapshots :
           Begin(w, "raise",
                 [Idle EXCEPT !.pc = "insert_jd", !.r = r,
                              !.doc = [NoReq EXCEPT !.status = "PendingHr",
                                                    !.vacancy = v, !.over = over]])
      BY <2>2 DEF Raise, SnapshotFor, Snapshots
    <3> QED
      BY <1>2 DEF Begin, Idle, Holds
  <2>3. CASE StartUpdate(w, r)
    <3> PICK v \in 1..MaxVacancy :
           Begin(w, "update", [Idle EXCEPT !.pc = "update_eval", !.r = r,
                                           !.doc = [req[r] EXCEPT !.vacancy = v]])
      BY <2>3 DEF StartUpdate
    <3> QED
      BY <1>2 DEF Begin, Idle, Holds
  <2>4. CASE \E a \in Actions : StartAct(w, a, r)
    <3> PICK a \in Actions : Begin(w, a, Acting(a, r, req[r]))
      BY <2>4 DEF StartAct
    <3> QED
      BY <1>2 DEF Begin, Acting, Idle, Holds
  <2>5. CASE StartDelete(w, r) \/ StartSendBack(w, r) \/ StartEditJd(w, r)
    <3>1. CASE StartDelete(w, r)
      BY <1>2, <3>1 DEF StartDelete, Begin, Idle, Holds
    <3>2. CASE StartSendBack(w, r)
      BY <1>2, <3>2 DEF StartSendBack, Begin, Idle, Holds
    <3>3. CASE StartEditJd(w, r)
      BY <1>2, <3>3 DEF StartEditJd, Begin, Idle, Holds
    <3> QED
      BY <2>5, <3>1, <3>2, <3>3
  <2>6. CASE \E u \in Users : StartSign(w, r, u)
    <3> PICK u \in Users :
           Begin(w, "sign", [Idle EXCEPT !.pc = "sign_write", !.r = r, !.by = u,
                                         !.card = card[r], !.stamp = signs'])
      BY <2>6 DEF StartSign
    <3> QED
      BY <1>2 DEF Begin, Idle, Holds
  <2>7. CASE \E e \in CardEdits : StartEditCard(w, e, r)
    <3> PICK e \in CardEdits :
           Begin(w, e, [Idle EXCEPT !.pc = "edit_write", !.r = r, !.card = card[r]])
      BY <2>7 DEF StartEditCard
    <3> QED
      BY <1>2 DEF Begin, Idle, Holds
  <2> QED
    BY <2>1, <2>2, <2>3, <2>4, <2>5, <2>6, <2>7
<1> QED
  BY <1>1, <1>2, <1>3, <1>4

LEMMA ContinueAttended ==
    ASSUME Attended, OnRoute', Decided', NEW w \in Workers, Continue(w)
    PROVE  Attended'
<1> DEFINE t == task[w]
           n == task'[w]
<1>0. /\ Typed /\ task \in [Workers -> Task] /\ t.r \in Reqs
      /\ UNCHANGED crashes /\ SaveStep(t, n) /\ n.pc # "ins_card" /\ JdStep(t)
      /\ \E m \in Task : task' = [task EXCEPT ![w] = m] /\ PcStep(t, m)
  BY ContinueShape, ContinueSaves
     DEF Attended, Decided, Paired, Typed, TypeOK, WellFormed, figures
<1>1. \A v \in Workers \ {w} : task'[v] = task[v]
  BY <1>0
<1>2. Drafts'
  BY <1>0, <1>1 DEF Attended, Drafts
<1>3. ASSUME crashes = 0, NEW r \in Reqs, Finalisable(r)'
      PROVE  \E v \in Workers : Saves(task'[v], r)
  <2>0. card'[r].status = "Approved" /\ req'[r].status = "PendingScorecard"
    BY <1>3 DEF Finalisable
  <2>1. CASE Saves(n, r)
    BY <2>1
  <2>2. CASE ~Saves(n, r)
    <3>1. Finalisable(r)
      BY <1>0, <2>0, <2>2 DEF SaveStep, Finalisable
    <3> PICK v \in Workers : Saves(task[v], r)
      BY <1>3, <3>1 DEF Attended
    <3>2. v # w
      BY <1>0, <2>0, <2>2, <3>1 DEF SaveStep
    <3> QED
      BY <1>1, <3>2
  <2> QED
    BY <2>1, <2>2
<1>4. ASSUME crashes = 0, NEW r \in Reqs, req'[r].status = "Approved",
             jd'[r].status # "Approved"
      PROVE  \E v \in Workers : Deciding(task'[v], r)
  <2>1. CASE req[r].status # "Approved"
    BY <1>0, <1>4, <2>1 DEF SaveStep
  <2>2. CASE req[r].status = "Approved"
    \* Nothing takes the verdict of the JD of an approved requisition back.
    <3>1. jd[r].status # "Approved" /\ jd[r].status # "Absent"
      <4>1. jd[r].status # "Absent"
        BY <2>2 DEF Attended, Decided, Paired, EveryReqHasJd, Exists
      <4>2. r = t.r => t.pc \notin {"insert_jd", "undo_jd", "del_jd"}
        BY <2>2 DEF Attended, Decided, Paired, CreatedAlone, Creating, JdFirst
      <4>3. r = t.r /\ t.pc = "act_jd" => t.to = "Approved"
        BY <2>2 DEF Attended, Decided, VerdictFirst
      <4> QED
        BY <1>0, <1>4, <4>1, <4>2, <4>3 DEF JdStep
    <3> PICK v \in Workers : Deciding(task[v], r)
      BY <1>4, <2>2, <3>1 DEF Attended
    <3>2. v # w
      BY <1>0, <1>4, <3>1 DEF SaveStep
    <3> QED
      BY <1>1, <3>2
  <2> QED
    BY <2>1, <2>2
<1> QED
  BY <1>0, <1>2, <1>3, <1>4 DEF Attended

LEMMA NextAttended == Attended /\ [Next]_vars => Attended'
<1> SUFFICES ASSUME Attended, [Next]_vars PROVE Attended'
  OBVIOUS
<1>0. /\ OnRoute' /\ Decided' /\ Typed
      /\ task \in [Workers -> Task] /\ req \in [Reqs -> ReqDoc]
  BY NextOnRoute, NextDecided DEF Attended, Decided, Paired, Typed, TypeOK
\* A call that finishes nothing and moves no status keeps whoever attends.
<1>1. ASSUME UNCHANGED <<jd, card, crashes>>, Drafts',
             \A r \in Reqs : req'[r].status = req[r].status,
             \A v \in Workers : task[v].pc # "idle" => task'[v] = task[v]
      PROVE  Attended'
  <2>1. \A v \in Workers, r \in Reqs : /\ Saves(task[v], r) => Saves(task'[v], r)
                                       /\ Deciding(task[v], r) => Deciding(task'[v], r)
    BY <1>1 DEF Saves, Deciding
  <2>2. \A r \in Reqs : Finalisable(r)' => Finalisable(r)
    BY <1>1 DEF Finalisable
  <2> QED
    BY <1>0, <1>1, <2>1, <2>2 DEF Attended
<1>2. ASSUME NEW w \in Workers, Start(w) PROVE Attended'
  <2>1. /\ UNCHANGED <<req, jd, card, crashes>>
        /\ \A v \in Workers : task[v].pc # "idle" => task'[v] = task[v]
    BY <1>0, <1>2, StartDrafts DEF Idle
  <2>2. Drafts'
    BY <1>0, <1>2, StartDrafts DEF Attended, Drafts, Holds
  <2> QED
    BY <1>1, <2>1, <2>2
<1>3. ASSUME NEW w \in Workers, Continue(w) PROVE Attended'
  BY <1>0, <1>3, ContinueAttended
<1>4. ASSUME UNCHANGED <<jd, card, crashes, task>>,
             \A r \in Reqs : req'[r].status = req[r].status
      PROVE  Attended'
  <2>1. Drafts'
    BY <1>4 DEF Attended, Drafts
  <2> QED
    BY <1>1, <1>4, <2>1
<1>5. ASSUME NEW r \in Reqs, CloseRequisition(r) PROVE Attended'
  <2>1. \A q \in Reqs : req'[q].status = req[q].status
    BY <1>0, <1>5 DEF CloseRequisition, ReqDoc
  <2> QED
    BY <1>4, <1>5, <2>1 DEF CloseRequisition, figures
<1>6. CASE SetSanction \/ HeadcountMoves \/ UNCHANGED vars
  BY <1>4, <1>6 DEF SetSanction, HeadcountMoves, vars, records
<1>7. CASE Crash
  <2>1. crashes' # 0 /\ Drafts'
    BY <1>7 DEF Crash, Drafts, Idle, Attended, Decided, Paired, Typed, TypeOK
  <2> QED
    BY <1>0, <2>1 DEF Attended
<1> QED
  BY <1>2, <1>3, <1>5, <1>6, <1>7 DEF Next

\* Until a restart loses a handler, no requisition waits behind a signed-off
\* scorecard when every handler has ended, and no approved one keeps an
\* undecided JD: whichever of the last approval and the last signature lands
\* second carries the requisition through, for any number of handlers.
THEOREM NobodyStranded == Spec => []NoneStranded
<1>1. Attended => NoneStranded
  <2> SUFFICES ASSUME Attended, crashes = 0, Quiet, NEW r \in Reqs
               PROVE  /\ ~Finalisable(r)
                      /\ req[r].status = "Approved" => jd[r].status = "Approved"
    BY DEF NoneStranded
  <2>1. \A w \in Workers : ~Saves(task[w], r) /\ ~Deciding(task[w], r)
    BY DEF Quiet, Saves, Deciding, Idle
  <2> QED
    BY <2>1 DEF Attended
<1> QED
  BY InitAttended, NextAttended, <1>1, PTL DEF Spec

-----------------------------------------------------------------------------
(* The signed bar                                                            *)

\* One request at a time: a request begins when the last one has ended.
OneRequest == \A v, w \in Workers : v = w

\* The signers of a card have read the criteria it has, and no other; the
\* handler about to sign it holds the card as it is.
SignedAsRead ==
    /\ Typed
    /\ \A r \in Reqs : /\ card[r].seen \subseteq {card[r].ver}
                       /\ card[r].status = "Approved" => card[r].seen # {}
    /\ \A w \in Workers : Holds(task[w])

LEMMA InitSigned == Init => SignedAsRead
<1> SUFFICES ASSUME Init PROVE SignedAsRead
  OBVIOUS
<1>1. \A r \in Reqs : card[r].seen = {} /\ card[r].status = "Absent"
  BY DEF Init, NoCard
<1>2. \A w \in Workers : Holds(task[w])
  BY DEF Init, Holds, Idle
<1> QED
  BY <1>1, <1>2, InitTyped DEF SignedAsRead

\* What one call makes of a card whose signers have read its criteria.
LEMMA ContinueSigned ==
    ASSUME OneRequest, SignedAsRead, NEW w \in Workers, Continue(w)
    PROVE  SignedAsRead'
<1> DEFINE t == task[w]
           n == task'[w]
           Read(c) == /\ c.seen \subseteq {c.ver}
                      /\ c.status = "Approved" => c.seen # {}
<1>0. /\ t \in Task /\ WellFormed(t) /\ Typed'
      /\ task \in [Workers -> Task] /\ task' \in [Workers -> Task]
      /\ card \in [Reqs -> CardDoc] /\ Holds(t)
  BY ContinueTyped DEF SignedAsRead, Typed, TypeOK
<1>1. n.pc \notin {"ins_card", "sign_write"}
  <2> PICK m \in Task : task' = [task EXCEPT ![w] = m] /\ PcStep(t, m)
    BY ContinueShape DEF SignedAsRead
  <2>1. m.pc \notin {"ins_card", "sign_write"}
    BY <1>0, ActingShape DEF PcStep, Idle, Task
  <2> QED
    BY <1>0, <2>1
<1>2. \A v \in Workers : Holds(task[v])'
  BY <1>1 DEF OneRequest, Holds
<1>3. ASSUME NEW r \in Reqs PROVE Read(card[r])
  BY DEF SignedAsRead
<1>4. \A r \in Reqs : Read(card'[r])
  <2>1. CASE UNCHANGED card
    BY <1>3, <2>1
  <2>2. CASE InsertCard(w)
    <3>1. t.pc = "ins_card" /\ t.r \in Reqs /\ Read(t.card)
      BY <1>0, <2>2 DEF InsertCard, At, WellFormed, Holds
    <3> HIDE DEF Read
    <3>2. card' = card \/ card' = [card EXCEPT ![t.r] = t.card]
      BY <2>2 DEF InsertCard
    <3> QED
      BY <1>0, <1>3, <3>1, <3>2
  <2>3. CASE SignWrite(w)
    <3>1. t.r \in Reqs /\ t.card = card[t.r] /\ t.stamp \in Nat
      BY <1>0, <2>3 DEF SignWrite, At, WellFormed, Holds, Task
    <3>2. ASSUME NEW c \in CardDoc, c = t.card, Read(c) PROVE Read(Signed(t, c))
      <4>1. /\ Signed(t, c).seen = c.seen \cup {c.ver} /\ Signed(t, c).ver = c.ver
        BY <3>2 DEF Signed, CardDoc
      <4> QED
        BY <3>2, <4>1
    <3> HIDE DEF Read
    <3>3. Read(Signed(t, card[t.r]))
      BY <1>0, <1>3, <3>1, <3>2
    <3>4. card' = card \/ card' = [card EXCEPT ![t.r] = Signed(t, card[t.r])]
      BY <2>3 DEF SignWrite
    <3> QED
      BY <1>0, <1>3, <3>1, <3>3, <3>4
  <2>4. CASE BackWrite(w)
    <3>1. t.r \in Reqs
      BY <1>0, <2>4 DEF BackWrite, At, WellFormed
    <3>2. ASSUME NEW c \in CardDoc PROVE Read(Unsigned(c, "Rejected"))
      BY DEF Unsigned, CardDoc
    <3> HIDE DEF Read
    <3>3. card' = [card EXCEPT ![t.r] = Unsigned(card[t.r], "Rejected")]
      BY <2>4 DEF BackWrite
    <3> QED
      BY <1>0, <1>3, <3>1, <3>2, <3>3
  <2>5. CASE EditWrite(w)
    <3>1. t.r \in Reqs
      BY <1>0, <2>5 DEF EditWrite, At, WellFormed
    <3>2. ASSUME NEW c \in CardDoc, Read(c) PROVE Read(Edited(t, c))
      BY <3>2 DEF Edited, Unsigned, CardDoc
    <3> HIDE DEF Read
    <3>3. card' = [card EXCEPT ![t.r] = Edited(t, card[t.r])]
      BY <2>5 DEF EditWrite
    <3> QED
      BY <1>0, <1>3, <3>1, <3>2, <3>3
  <2> QED
    <3>1. UNCHANGED card \/ InsertCard(w) \/ SignWrite(w) \/ BackWrite(w) \/ EditWrite(w)
      BY DEF Continue, InsertJd, InsertReq, UndoJd, UpdateEval, UpdateWrite, DeleteReq,
             DeleteJd, ActEval, ActCard, ActCas, ActJd, FinReq, FinCard, FinAct, JdGate,
             JdWrite, records
    <3> QED
      BY <2>1, <2>2, <2>3, <2>4, <2>5, <3>1
<1> QED
  BY <1>0, <1>2, <1>4 DEF SignedAsRead

LEMMA NextSigned == OneRequest /\ SignedAsRead /\ [Next]_vars => SignedAsRead'
<1> SUFFICES ASSUME OneRequest, SignedAsRead, [Next]_vars PROVE SignedAsRead'
  OBVIOUS
<1>0. Typed /\ Typed' /\ task' \in [Workers -> Task]
  BY NextTyped DEF SignedAsRead, Typed, TypeOK
<1>1. ASSUME NEW w \in Workers, Start(w) PROVE SignedAsRead'
  <2>1. UNCHANGED card /\ Holds(task'[w])
    BY <1>0, <1>1, StartDrafts
  <2>2. \A v \in Workers : Holds(task[v])'
    BY <2>1 DEF OneRequest, Holds
  <2> QED
    BY <1>0, <2>1, <2>2 DEF SignedAsRead
<1>2. ASSUME NEW w \in Workers, Continue(w) PROVE SignedAsRead'
  BY <1>2, ContinueSigned
<1>3. ASSUME UNCHANGED <<card, task>> PROVE SignedAsRead'
  BY <1>0, <1>3 DEF SignedAsRead, Holds
<1>4. ASSUME NEW r \in Reqs, CloseRequisition(r) PROVE SignedAsRead'
  BY <1>3, <1>4 DEF CloseRequisition
<1>5. CASE SetSanction \/ HeadcountMoves \/ UNCHANGED vars
  BY <1>3, <1>5 DEF SetSanction, HeadcountMoves, vars, records
<1>6. CASE Crash
  BY <1>0, <1>6 DEF Crash, records, SignedAsRead, Holds, Idle
<1> QED
  BY <1>1, <1>2, <1>4, <1>5, <1>6 DEF Next

\* Requests that do not overlap never approve a bar other than the one its
\* signers have read: every change of the criteria, of who signs, and every
\* send-back clears the signatures, and a signature adds the criteria it read.
THEOREM BarSigned == ASSUME OneRequest PROVE Spec => []ApprovedBarIsSignedBar
<1>1. SignedAsRead => ApprovedBarIsSignedBar
  BY DEF SignedAsRead, ApprovedBarIsSignedBar
<1>2. SignedAsRead /\ [Next]_vars => SignedAsRead'
  BY NextSigned
<1> QED
  BY InitSigned, <1>1, <1>2, PTL DEF Spec

=============================================================================
