---------------------------- MODULE PayrollProofs ----------------------------
(***************************************************************************)
(* Proofs about payroll, for any months, people, approval matrices and     *)
(* restarts: documents and requests have their types, and, when requests   *)
(* come one at a time, whoever prepared an approved run is none of those   *)
(* who passed it, however the matrix changed in between, and the advance,  *)
(* the variable pay and the adjustments agree with the locked payslips.    *)
(***************************************************************************)
EXTENDS Payroll, FiniteSetTheorems, TLAPS

-----------------------------------------------------------------------------
(* Types                                                                    *)

PolicyTyped == policy \in Policies
AttTyped == att \in [Periods -> [locked: BOOLEAN, stamp: 0..MaxStamp]]
RunTyped == /\ run \in [Periods -> Run]
            /\ \A p \in Periods : run[p].status = "Submitted" => run[p].stage = 0 /\ run[p].approvers = {}
RecordTyped == record \in [Periods -> Record]
DuesTyped == /\ advance \in Advance
             /\ quarter \in {"None", "Draft", "Calculated", "Approved"}
             /\ vp \in Vp
             /\ holds \in 0..MaxHolds
             /\ carry \in [Carries -> Carry]

DocsTyped == PolicyTyped /\ AttTyped /\ RunTyped /\ RecordTyped /\ DuesTyped /\ crashes \in Nat

\* The steps that are not about one month.
Elsewhere == {"idle", "advance_insert", "advance_decide", "vp_save", "vp_record", "vp_quarter",
              "vp_decide", "vp_approve", "vp_hold"}
Calculating == {"calc_lock", "calc_carry", "calc_delete", "calc_advance", "calc_vp", "calc_insert",
                "calc_mark", "calc_write"}
Submitting == {"submit_lock", "submit_lines", "submit_write"}
Signing == {"sign_read", "sign_write"}
Correcting == {"carry_target", "carry_insert"}

\* What a request in flight carries.
Fit(t) ==
    /\ t \in Task
    /\ t.pc \notin Elsewhere => t.p \in Periods
    /\ t.pc \in Submitting \cup Signing => t.who \in People
    /\ t.pc = "sign_write" => ~Refused(t, t.r)
    /\ t.pc \in Correcting => t.c \in Carries

Tasks ==
    /\ DOMAIN task = Workers /\ task = [w \in Workers |-> task[w]]
    /\ \A w \in Workers : Fit(task[w])

Typed == DocsTyped /\ Tasks

LEMMA TypedIsTypeOK == Typed => TypeOK
<1> SUFFICES ASSUME Typed PROVE TypeOK
  OBVIOUS
<1>1. task \in [Workers -> Task]
  BY DEF Typed, Tasks, Fit
<1> QED
  BY <1>1 DEF TypeOK, Typed, DocsTyped, PolicyTyped, AttTyped, RunTyped, RecordTyped, DuesTyped

LEMMA NoRunFits == NoRun \in Run /\ NoRun.status = "None"
BY PayrollAssumption DEF NoRun, Run, RunStatus, Who

LEMMA NoRecordFits == NoRecord \in Record /\ NoRecord.line = NoLine /\ NoLine \in Line
BY DEF NoRecord, Record, NoLine, Line, Who

LEMMA IdleFits == Fit(Idle) /\ Idle \in Task /\ Idle.pc = "idle"
<1>1. Idle.pc = "idle"
  BY DEF Idle
<1>2. [stages |-> 0, checker |-> TRUE, distinct |-> TRUE] \in Policy
  BY DEF Policy
<1>3. "idle" \in PCs /\ "none" \in Ops /\ "none" \in Who
  BY DEF PCs, Ops, Who
<1>4. Idle \in Task
  BY <1>2, <1>3, NoRunFits, NoRecordFits DEF Idle, Task
<1> QED
  BY <1>1, <1>4 DEF Fit, Elsewhere, Submitting, Signing, Correcting

LEMMA Carried == ASSUME Typed, NEW w \in Workers PROVE Fit(task[w]) /\ task[w] \in Task
  BY DEF Typed, Tasks, Fit

LEMMA Moved ==
    ASSUME Typed, DocsTyped', NEW w \in Workers, NEW u, task' = [task EXCEPT ![w] = u], Fit(u)
    PROVE  Typed'
<1>1. \A v \in Workers : Fit(task'[v])
  BY DEF Typed, Tasks
<1>2. DOMAIN task' = Workers /\ task' = [v \in Workers |-> task'[v]]
  BY DEF Typed, Tasks
<1> QED
  BY <1>1, <1>2 DEF Typed, Tasks

LEMMA Finished == ASSUME Typed, DocsTyped', NEW w \in Workers, Finish(w) PROVE Typed'
BY IdleFits, Moved DEF Finish

\* A request goes on to its next step with what it has.
LEMMA WentTo ==
    ASSUME Typed, DocsTyped', NEW w \in Workers, NEW pc \in PCs \ {"sign_write"}, Goto(w, pc),
           pc \notin Elsewhere => task[w].p \in Periods,
           pc \in Submitting \cup Signing => task[w].who \in People,
           pc \in Correcting => task[w].c \in Carries
    PROVE  Typed'
<1> DEFINE u == [task[w] EXCEPT !.pc = pc]
<1>1. task' = [task EXCEPT ![w] = u]
  BY DEF Goto, Typed, Tasks
<1>2. task[w] \in Task
  BY Carried
<1>3. u \in Task /\ u.pc = pc /\ u.p = task[w].p /\ u.who = task[w].who /\ u.c = task[w].c
  BY <1>2 DEF Task
<1> HIDE DEF u
<1>4. Fit(u)
  BY <1>3 DEF Fit
<1> QED
  BY <1>1, <1>4, Moved

LEMMA Kept ==
    ASSUME Typed
    PROVE  /\ policy' = policy => PolicyTyped'
           /\ att' = att => AttTyped'
           /\ run' = run => RunTyped'
           /\ record' = record => RecordTyped'
           /\ dues' = dues => DuesTyped'
           /\ crashes' = crashes => crashes' \in Nat
BY DEF Typed, DocsTyped, PolicyTyped, AttTyped, RunTyped, RecordTyped, DuesTyped, dues

LEMMA ReadOnlyTyped == ASSUME Typed, ReadOnly PROVE DocsTyped'
BY Kept DEF ReadOnly, DocsTyped

-----------------------------------------------------------------------------
(* What a request has read, against the runs q and the records c it read    *)

Stands(t, q, c) ==
    /\ t.pc \in Calculating \cup {"line_write"} => q[t.p].status \in Editable
    /\ t.pc \in Submitting => q[t.p].status = "Calculated"
    /\ t.pc = "submit_write" => c[t.p].line.status # "Pending"
    /\ t.pc \in Signing => q[t.p].status \in {"Submitted", "Checked"}
    /\ t.pc = "sign_write" => t.r = q[t.p]
    /\ t.pc = "lock_write" => q[t.p].status = "Approved"

-----------------------------------------------------------------------------
(* A request begins                                                         *)

LEMMA Begun ==
    ASSUME Typed, NEW w \in Workers, NEW op \in Ops, NEW t, Begin(w, op, t),
           Fit(t), Stands(t, run, record), t.pc # "sign_write"
    PROVE  Typed' /\ run' = run /\ record' = record /\ Stands(task'[w], run, record)
<1> DEFINE u == [t EXCEPT !.op = op]
<1>1. DocsTyped' /\ task' = [task EXCEPT ![w] = u] /\ run' = run /\ record' = record
  BY Kept DEF Begin, DocsTyped
<1>2. u \in Task /\ u.pc = t.pc /\ u.p = t.p /\ u.who = t.who /\ u.c = t.c
  BY DEF Fit, Task
<1> HIDE DEF u
<1>3. Fit(u) /\ Stands(u, run, record)
  BY <1>2 DEF Fit, Stands
<1>4. Typed' /\ task'[w] = u
  BY <1>1, <1>3, Moved DEF Typed, Tasks
<1> QED
  BY <1>1, <1>3, <1>4

Starts(w) ==
    \/ StartCreate(w) \/ StartCalculate(w) \/ StartLine(w) \/ StartApproveLine(w) \/ StartSubmit(w)
    \/ StartSign(w) \/ StartLock(w) \/ StartPostLock(w) \/ StartLockMonth(w) \/ StartUnlockMonth(w)
    \/ StartAdvance(w) \/ StartActAdvance(w) \/ StartSaveVp(w) \/ StartCalculateVp(w) \/ StartDecideVp(w)

Read(w) == Typed' /\ run' = run /\ record' = record /\ Stands(task'[w], run, record)

LEMMA OpsAre ==
    {"create", "calculate", "line", "approve-line", "submit", "check", "decide", "lock", "post-lock",
     "lock-month", "unlock-month", "advance", "act-advance", "save-vp", "calculate-vp",
     "decide-vp"} \subseteq Ops
BY DEF Ops

LEMMA StartsTyped == ASSUME Typed, NEW w \in Workers, Starts(w) PROVE Read(w)
<1> USE OpsAre
<1>1. /\ run \in [Periods -> Run] /\ record \in [Periods -> Record]
      /\ policy \in Policy
  BY PayrollAssumption DEF Typed, DocsTyped, RunTyped, RecordTyped, PolicyTyped
<1>2. CASE StartCreate(w)
  <2>1. PICK p \in Periods : Begin(w, "create", [Idle EXCEPT !.pc = "create_write", !.p = p])
    BY <1>2 DEF StartCreate
  <2> DEFINE t == [Idle EXCEPT !.pc = "create_write", !.p = p]
  <2>3. t \in Task /\ t.pc = "create_write" /\ t.p = p
    BY IdleFits DEF Task, PCs
  <2> HIDE DEF t
  <2>4. Fit(t) /\ Stands(t, run, record)
    BY <2>1, <2>3 DEF Fit, Stands, Elsewhere, Calculating, Submitting, Signing, Correcting
  <2> QED
    BY <2>1, <2>3, <2>4, Begun DEF t, Read
<1>3. CASE StartCalculate(w)
  <2>1. PICK p \in Periods :
            run[p].status \in Editable /\ Begin(w, "calculate", [Idle EXCEPT !.pc = "calc_lock", !.p = p])
    BY <1>3 DEF StartCalculate
  <2> DEFINE t == [Idle EXCEPT !.pc = "calc_lock", !.p = p]
  <2>3. t \in Task /\ t.pc = "calc_lock" /\ t.p = p
    BY IdleFits DEF Task, PCs
  <2> HIDE DEF t
  <2>4. Fit(t) /\ Stands(t, run, record)
    BY <2>1, <2>3 DEF Fit, Stands, Elsewhere, Calculating, Submitting, Signing, Correcting
  <2> QED
    BY <2>1, <2>3, <2>4, Begun DEF t, Read
<1>4. CASE StartSubmit(w)
  <2>1. PICK p \in Periods, who \in People :
            run[p].status = "Calculated" /\ Begin(w, "submit", [Idle EXCEPT !.pc = "submit_lock", !.p = p, !.who = who, !.r = run[p]])
    BY <1>4 DEF StartSubmit
  <2> DEFINE t == [Idle EXCEPT !.pc = "submit_lock", !.p = p, !.who = who, !.r = run[p]]
  <2>3. t \in Task /\ t.pc = "submit_lock" /\ t.p = p /\ t.who = who
    BY <1>1, IdleFits DEF Task, PCs, Who
  <2> HIDE DEF t
  <2>4. Fit(t) /\ Stands(t, run, record)
    BY <2>1, <2>3 DEF Fit, Stands, Elsewhere, Calculating, Submitting, Signing, Correcting
  <2> QED
    BY <2>1, <2>3, <2>4, Begun DEF t, Read
<1>5. CASE StartSign(w)
  <2>1. PICK op \in {"check", "decide"}, p \in Periods, who \in People, pass \in BOOLEAN :
            run[p].status \in {"Submitted", "Checked"} /\ Begin(w, op, [Idle EXCEPT !.pc = "sign_read", !.p = p, !.who = who, !.ok = pass, !.rule = policy])
    BY <1>5 DEF StartSign
  <2> DEFINE t == [Idle EXCEPT !.pc = "sign_read", !.p = p, !.who = who, !.ok = pass, !.rule = policy]
  <2>3. t \in Task /\ t.pc = "sign_read" /\ t.p = p /\ t.who = who
    BY <1>1, IdleFits DEF Task, PCs, Who
  <2> HIDE DEF t
  <2>4. Fit(t) /\ Stands(t, run, record)
    BY <2>1, <2>3 DEF Fit, Stands, Elsewhere, Calculating, Submitting, Signing, Correcting
  <2> QED
    BY <2>1, <2>3, <2>4, Begun DEF t, Read
<1>6. CASE StartLock(w)
  <2>1. PICK p \in Periods :
            run[p].status = "Approved" /\ Begin(w, "lock", [Idle EXCEPT !.pc = "lock_write", !.p = p])
    BY <1>6 DEF StartLock
  <2> DEFINE t == [Idle EXCEPT !.pc = "lock_write", !.p = p]
  <2>3. t \in Task /\ t.pc = "lock_write" /\ t.p = p
    BY IdleFits DEF Task, PCs
  <2> HIDE DEF t
  <2>4. Fit(t) /\ Stands(t, run, record)
    BY <2>1, <2>3 DEF Fit, Stands, Elsewhere, Calculating, Submitting, Signing, Correcting
  <2> QED
    BY <2>1, <2>3, <2>4, Begun DEF t, Read
<1>7. CASE StartPostLock(w)
  <2>1. PICK p, target \in Periods, c \in Carries : Begin(w, "post-lock", [Idle EXCEPT !.pc = "carry_target", !.p = target, !.c = c])
    BY <1>7 DEF StartPostLock
  <2> DEFINE t == [Idle EXCEPT !.pc = "carry_target", !.p = target, !.c = c]
  <2>3. t \in Task /\ t.pc = "carry_target" /\ t.p = target /\ t.c = c
    BY IdleFits DEF Task, PCs
  <2> HIDE DEF t
  <2>4. Fit(t) /\ Stands(t, run, record)
    BY <2>1, <2>3 DEF Fit, Stands, Elsewhere, Calculating, Submitting, Signing, Correcting
  <2> QED
    BY <2>1, <2>3, <2>4, Begun DEF t, Read
<1>8. CASE StartLockMonth(w)
  <2>1. PICK p \in Periods : Begin(w, "lock-month", [Idle EXCEPT !.pc = "attendance_write", !.p = p, !.ok = TRUE])
    BY <1>8 DEF StartLockMonth
  <2> DEFINE t == [Idle EXCEPT !.pc = "attendance_write", !.p = p, !.ok = TRUE]
  <2>3. t \in Task /\ t.pc = "attendance_write" /\ t.p = p
    BY IdleFits DEF Task, PCs
  <2> HIDE DEF t
  <2>4. Fit(t) /\ Stands(t, run, record)
    BY <2>1, <2>3 DEF Fit, Stands, Elsewhere, Calculating, Submitting, Signing, Correcting
  <2> QED
    BY <2>1, <2>3, <2>4, Begun DEF t, Read
<1>9. CASE StartUnlockMonth(w)
  <2>1. PICK p \in Periods : Begin(w, "unlock-month", [Idle EXCEPT !.pc = "attendance_run", !.p = p])
    BY <1>9 DEF StartUnlockMonth
  <2> DEFINE t == [Idle EXCEPT !.pc = "attendance_run", !.p = p]
  <2>3. t \in Task /\ t.pc = "attendance_run" /\ t.p = p
    BY IdleFits DEF Task, PCs
  <2> HIDE DEF t
  <2>4. Fit(t) /\ Stands(t, run, record)
    BY <2>1, <2>3 DEF Fit, Stands, Elsewhere, Calculating, Submitting, Signing, Correcting
  <2> QED
    BY <2>1, <2>3, <2>4, Begun DEF t, Read
<1>10. CASE StartAdvance(w)
  <2> DEFINE t == [Idle EXCEPT !.pc = "advance_insert"]
  <2>3. t \in Task /\ t.pc = "advance_insert"
    BY IdleFits DEF Task, PCs
  <2> HIDE DEF t
  <2>4. Fit(t) /\ Stands(t, run, record)
    BY <2>3 DEF Fit, Stands, Elsewhere, Calculating, Submitting, Signing, Correcting
  <2> QED
    BY <1>10, <2>3, <2>4, Begun DEF t, StartAdvance, Read
<1>11. CASE StartActAdvance(w)
  <2>1. PICK ok \in BOOLEAN : Begin(w, "act-advance", [Idle EXCEPT !.pc = "advance_decide", !.ok = ok])
    BY <1>11 DEF StartActAdvance
  <2> DEFINE t == [Idle EXCEPT !.pc = "advance_decide", !.ok = ok]
  <2>3. t \in Task /\ t.pc = "advance_decide"
    BY IdleFits DEF Task, PCs
  <2> HIDE DEF t
  <2>4. Fit(t) /\ Stands(t, run, record)
    BY <2>1, <2>3 DEF Fit, Stands, Elsewhere, Calculating, Submitting, Signing, Correcting
  <2> QED
    BY <2>1, <2>3, <2>4, Begun DEF t, Read
<1>12. CASE StartSaveVp(w)
  <2> DEFINE t == [Idle EXCEPT !.pc = "vp_save"]
  <2>3. t \in Task /\ t.pc = "vp_save"
    BY IdleFits DEF Task, PCs
  <2> HIDE DEF t
  <2>4. Fit(t) /\ Stands(t, run, record)
    BY <2>3 DEF Fit, Stands, Elsewhere, Calculating, Submitting, Signing, Correcting
  <2> QED
    BY <1>12, <2>3, <2>4, Begun DEF t, StartSaveVp, Read
<1>13. CASE StartCalculateVp(w)
  <2>1. PICK ok \in BOOLEAN : Begin(w, "calculate-vp", [Idle EXCEPT !.pc = "vp_record", !.ok = ok])
    BY <1>13 DEF StartCalculateVp
  <2> DEFINE t == [Idle EXCEPT !.pc = "vp_record", !.ok = ok]
  <2>3. t \in Task /\ t.pc = "vp_record"
    BY IdleFits DEF Task, PCs
  <2> HIDE DEF t
  <2>4. Fit(t) /\ Stands(t, run, record)
    BY <2>1, <2>3 DEF Fit, Stands, Elsewhere, Calculating, Submitting, Signing, Correcting
  <2> QED
    BY <2>1, <2>3, <2>4, Begun DEF t, Read
<1>14. CASE StartDecideVp(w)
  <2>1. PICK ok \in BOOLEAN : Begin(w, "decide-vp", [Idle EXCEPT !.pc = "vp_decide", !.ok = ok])
    BY <1>14 DEF StartDecideVp
  <2> DEFINE t == [Idle EXCEPT !.pc = "vp_decide", !.ok = ok]
  <2>3. t \in Task /\ t.pc = "vp_decide"
    BY IdleFits DEF Task, PCs
  <2> HIDE DEF t
  <2>4. Fit(t) /\ Stands(t, run, record)
    BY <2>1, <2>3 DEF Fit, Stands, Elsewhere, Calculating, Submitting, Signing, Correcting
  <2> QED
    BY <2>1, <2>3, <2>4, Begun DEF t, Read
<1>15. CASE StartApproveLine(w)
  <2>1. PICK p \in Periods :
            run[p].status \in Editable /\ Begin(w, "approve-line", [Idle EXCEPT !.pc = "line_write", !.p = p, !.rec.line = [record[p].line EXCEPT !.status = "Approved"]])
    BY <1>15 DEF StartApproveLine
  <2> DEFINE t == [Idle EXCEPT !.pc = "line_write", !.p = p, !.rec.line = [record[p].line EXCEPT !.status = "Approved"]]
  <2> DEFINE l == [record[p].line EXCEPT !.status = "Approved"]
  <2>2. l \in Line
    BY <1>1 DEF Record, Line
  <2> HIDE DEF l
  <2>3. t \in Task /\ t.pc = "line_write" /\ t.p = p
    BY <2>2, IdleFits DEF Task, PCs, Record, l
  <2> HIDE DEF t
  <2>4. Fit(t) /\ Stands(t, run, record)
    BY <2>1, <2>3 DEF Fit, Stands, Elsewhere, Calculating, Submitting, Signing, Correcting
  <2> QED
    BY <2>1, <2>3, <2>4, Begun DEF t, Read
<1>16. CASE StartLine(w)
  <2>1. PICK p \in Periods, who \in People, post \in {"none", "new", "same"} :
            run[p].status \in Editable /\ Begin(w, "line", [Idle EXCEPT !.pc = "line_write", !.p = p,
                !.rec.line = IF post = "none" THEN NoLine
                             ELSE [status |-> IF post = "same" /\ record[p].line.status = "Approved"
                                              THEN "Approved" ELSE "Pending",
                                   by |-> who]])
    BY <1>16 DEF StartLine
  <2> DEFINE t == [Idle EXCEPT !.pc = "line_write", !.p = p,
                !.rec.line = IF post = "none" THEN NoLine
                             ELSE [status |-> IF post = "same" /\ record[p].line.status = "Approved"
                                              THEN "Approved" ELSE "Pending",
                                   by |-> who]]
  <2> DEFINE l == IF post = "none" THEN NoLine
                  ELSE [status |-> IF post = "same" /\ record[p].line.status = "Approved"
                                   THEN "Approved" ELSE "Pending",
                        by |-> who]
  <2>2. l \in Line
    BY NoRecordFits DEF Line, Who
  <2> HIDE DEF l
  <2>3. t \in Task /\ t.pc = "line_write" /\ t.p = p
    BY <2>2, IdleFits DEF Task, PCs, Record, l
  <2> HIDE DEF t
  <2>4. Fit(t) /\ Stands(t, run, record)
    BY <2>1, <2>3 DEF Fit, Stands, Elsewhere, Calculating, Submitting, Signing, Correcting
  <2> QED
    BY <2>1, <2>3, <2>4, Begun DEF t, Read
<1> QED
  BY <1>2, <1>3, <1>4, <1>5, <1>6, <1>7, <1>8, <1>9, <1>10, <1>11, <1>12, <1>13, <1>14, <1>15, <1>16 DEF Starts

-----------------------------------------------------------------------------
(* A request goes on                                                        *)

\* The steps at which what was read of the run still matters.
Watched == Calculating \cup {"line_write", "lock_write"} \cup Submitting \cup Signing

LEMMA Unwatched == ASSUME NEW t, t.pc \notin Watched, NEW q, NEW c PROVE Stands(t, q, c)
BY DEF Stands, Watched, Submitting, Signing

\* The step leaves runs and records alone, and what was read still stands.
Keeps(w) ==
    /\ Typed' /\ run' = run /\ record' = record
    /\ Stands(task[w], run, record) => Stands(task'[w], run, record)

LEMMA TaskIs ==
    ASSUME Typed, NEW w \in Workers, NEW u, task' = [task EXCEPT ![w] = u] PROVE task'[w] = u
BY DEF Typed, Tasks

LEMMA GoneTo ==
    ASSUME Typed, NEW w \in Workers, NEW pc \in PCs, Goto(w, pc)
    PROVE  task'[w].pc = pc /\ task'[w].p = task[w].p /\ task'[w].r = task[w].r
<1>1. task[w] \in Task
  BY Carried
<1> QED
  BY <1>1 DEF Goto, Typed, Tasks, Task

LEMMA Ended ==
    ASSUME Typed, DocsTyped', NEW w \in Workers, Finish(w), run' = run, record' = record PROVE Keeps(w)
<1>1. task'[w].pc = "idle"
  BY IdleFits DEF Finish, Typed, Tasks
<1>2. "idle" \notin Watched
  BY DEF Watched, Calculating, Submitting, Signing
<1> QED
  BY <1>1, <1>2, Finished, Unwatched DEF Keeps

\* Steps on the advance, the variable pay, the adjustments and the attendance
\* lock.
LEMMA Ahead ==
    ASSUME Typed, DocsTyped', NEW w \in Workers, run' = run, record' = record,
           NEW pc \in PCs \ Watched, Finish(w) \/ Goto(w, pc),
           pc \notin Elsewhere => task[w].p \in Periods,
           pc \in Correcting => task[w].c \in Carries
    PROVE  Keeps(w)
<1>1. CASE Finish(w)
  BY <1>1, Ended
<1>2. CASE Goto(w, pc)
  <2>1. task'[w].pc = pc
    BY <1>2, GoneTo
  <2>2. pc # "sign_write" /\ pc \notin Submitting \cup Signing
    BY DEF Watched, Signing
  <2>3. Typed'
    BY <1>2, <2>2, WentTo
  <2> QED
    BY <2>1, <2>3, Unwatched DEF Keeps
<1> QED
  BY <1>1, <1>2

LEMMA DuesWritten ==
    ASSUME Typed, UNCHANGED <<policy, att, run, record, crashes>>, DuesTyped' PROVE DocsTyped'
BY Kept DEF DocsTyped

LEMMA DueSteps ==
    ASSUME Typed, NEW w \in Workers,
           \/ CalcMark(w) \/ AdvanceWrite(w) \/ VpPaid(w) \/ CarryApplied(w) \/ CarryInsert(w)
           \/ AdvanceInsert(w) \/ AdvanceDecide(w) \/ SaveVp(w) \/ VpRecord(w) \/ VpQuarter(w)
           \/ VpDecide(w) \/ VpApprove(w) \/ VpHold(w)
    PROVE  Keeps(w)
<1> DEFINE t == task[w]
<1>1. Fit(t) /\ t \in Task /\ DuesTyped
  BY Carried DEF Typed, DocsTyped
<1>2. {"vp_paid", "carry_applied", "vp_quarter", "vp_approve", "vp_hold"} \subseteq PCs \ Watched
  BY DEF PCs, Watched, Calculating, Submitting, Signing
<1>3. /\ UNCHANGED <<policy, att, run, record, crashes>>
  BY DEF CalcMark, AdvanceWrite, VpPaid, CarryApplied, CarryInsert, AdvanceInsert, AdvanceDecide, SaveVp,
     VpRecord, VpQuarter, VpDecide, VpApprove, VpHold
<1>4. ASSUME advance' \in Advance, UNCHANGED <<quarter, vp, holds, carry>> PROVE DocsTyped'
  BY <1>1, <1>3, <1>4, DuesWritten DEF DuesTyped
<1>5. ASSUME vp' \in Vp, quarter' \in {"None", "Draft", "Calculated", "Approved"},
             UNCHANGED <<advance, holds, carry>> PROVE DocsTyped'
  BY <1>1, <1>3, <1>5, DuesWritten DEF DuesTyped
<1>6. ASSUME carry' \in [Carries -> Carry], UNCHANGED <<advance, quarter, vp, holds>> PROVE DocsTyped'
  BY <1>1, <1>3, <1>6, DuesWritten DEF DuesTyped
<1>7. CASE CalcMark(w)
  <2>1. carry' \in [Carries -> Carry]
    BY <1>1, <1>7 DEF CalcMark, DuesTyped, Carry
  <2>2. DocsTyped' /\ t.pc = "calc_mark" /\ Goto(w, "calc_write")
    BY <1>6, <1>7, <2>1 DEF CalcMark, At
  <2>3. "calc_write" \in PCs \ {"sign_write"} /\ "calc_write" \notin Submitting \cup Signing \cup Correcting
    BY DEF PCs, Submitting, Signing, Correcting
  <2>4. t.p \in Periods
    BY <1>1, <2>2 DEF Fit, Elsewhere
  <2>5. Typed'
    BY <2>2, <2>3, <2>4, WentTo
  <2>6. task'[w].pc = "calc_write" /\ task'[w].p = t.p
    BY <2>2, <2>3, GoneTo
  <2>7. Stands(t, run, record) => Stands(task'[w], run, record)
    BY <2>2, <2>6 DEF Stands, Calculating, Submitting, Signing
  <2> QED
    BY <1>3, <2>5, <2>7 DEF Keeps
<1>8. CASE AdvanceWrite(w)
  <2>1. t.pc = "advance_write" /\ advance' \in Advance
    BY <1>1, <1>8 DEF AdvanceWrite, At, Advance, Task
  <2>2. t.p \in Periods
    BY <1>1, <2>1 DEF Fit, Elsewhere
  <2>3. DocsTyped' /\ Goto(w, "vp_paid")
    BY <1>4, <1>8, <2>1 DEF AdvanceWrite
  <2> QED
    BY <1>2, <1>3, <2>2, <2>3, Ahead DEF Correcting
<1>9. CASE VpPaid(w)
  <2>1. t.pc = "vp_paid" /\ Goto(w, "carry_applied")
    BY <1>9 DEF VpPaid, At
  <2>2. t.p \in Periods
    BY <1>1, <2>1 DEF Fit, Elsewhere
  <2>3. vp' \in Vp
    BY <1>1, <1>9, <2>2 DEF VpPaid, DuesTyped, Vp
  <2>4. DocsTyped'
    BY <1>1, <1>5, <1>9, <2>3 DEF VpPaid, DuesTyped
  <2> QED
    BY <1>2, <1>3, <2>1, <2>2, <2>4, Ahead DEF Correcting
<1>10. CASE CarryApplied(w)
  <2>1. carry' \in [Carries -> Carry]
    BY <1>1, <1>10 DEF CarryApplied, DuesTyped, Carry
  <2>2. DocsTyped' /\ Finish(w)
    BY <1>6, <1>10, <2>1 DEF CarryApplied
  <2> QED
    BY <1>3, <2>2, Ended
<1>11. CASE CarryInsert(w)
  <2>1. t.pc = "carry_insert" /\ Finish(w)
    BY <1>11 DEF CarryInsert, At
  <2>2. t.p \in Periods
    BY <1>1, <2>1 DEF Fit, Elsewhere
  <2>3. carry' \in [Carries -> Carry]
    BY <1>1, <1>11, <2>2 DEF CarryInsert, DuesTyped, Carry
  <2>4. DocsTyped'
    BY <1>6, <1>11, <2>3 DEF CarryInsert
  <2> QED
    BY <1>3, <2>1, <2>4, Ended
<1>12. CASE AdvanceInsert(w) \/ AdvanceDecide(w)
  <2>1. advance' \in Advance
    BY <1>1, <1>12 DEF AdvanceInsert, AdvanceDecide, DuesTyped, Advance
  <2>2. DocsTyped' /\ Finish(w)
    BY <1>4, <1>12, <2>1 DEF AdvanceInsert, AdvanceDecide
  <2> QED
    BY <1>3, <2>2, Ended
<1>13. CASE SaveVp(w) \/ VpQuarter(w)
  <2>1. vp' \in Vp
    <3>1. [status |-> "Draft", eligible |-> FALSE, paid |-> 0] \in Vp
      BY DEF Vp
    <3> QED
      BY <1>1, <1>13, <3>1 DEF SaveVp, VpQuarter, DuesTyped
  <2>2. DocsTyped' /\ Finish(w)
    BY <1>1, <1>5, <1>13, <2>1 DEF SaveVp, VpQuarter, DuesTyped
  <2> QED
    BY <1>3, <2>2, Ended
<1>14. CASE VpRecord(w) \/ VpApprove(w)
  <2>1. vp' \in Vp
    BY <1>1, <1>14 DEF VpRecord, VpApprove, DuesTyped, Vp, Task
  <2>2. DocsTyped' /\ (Goto(w, "vp_quarter") \/ Goto(w, "vp_hold"))
    BY <1>1, <1>5, <1>14, <2>1 DEF VpRecord, VpApprove, DuesTyped
  <2> QED
    BY <1>2, <1>3, <2>2, Ahead DEF Elsewhere, Correcting
<1>15. CASE VpDecide(w)
  <2>1. DocsTyped'
    BY <1>1, <1>5, <1>15 DEF VpDecide, DuesTyped
  <2>2. Finish(w) \/ Goto(w, "vp_approve")
    BY <1>15 DEF VpDecide
  <2> QED
    BY <1>2, <1>3, <2>1, <2>2, Ahead DEF Elsewhere, Correcting
<1>16. CASE VpHold(w)
  <2>1. DuesTyped'
    BY <1>1, <1>16, PayrollAssumption DEF VpHold, DuesTyped
  <2> QED
    BY <1>3, <1>16, <2>1, DuesWritten, Ended DEF VpHold
<1> QED
  BY <1>7, <1>8, <1>9, <1>10, <1>11, <1>12, <1>13, <1>14, <1>15, <1>16

LEMMA Fresh ==
    ASSUME NEW t \in Task, t.pc \notin Submitting \cup Signing \cup Correcting, t.p \in Periods
    PROVE  Fit(t)
BY DEF Fit, Signing

\* The rebuild of a month's records goes on with what it has read.
LEMMA Calculates ==
    ASSUME Typed, ReadOnly, NEW w \in Workers, NEW u \in Task, task' = [task EXCEPT ![w] = u],
           u.pc \in Calculating, u.p = task[w].p, task[w].pc \in Calculating
    PROVE  Keeps(w)
<1>1. DocsTyped' /\ run' = run /\ record' = record /\ task'[w] = u
  BY ReadOnlyTyped, TaskIs DEF ReadOnly
<1>2. u.p \in Periods
  BY Carried DEF Fit, Calculating, Elsewhere
<1>3. u.pc \notin Submitting \cup Signing \cup Correcting
  BY DEF Calculating, Submitting, Signing, Correcting
<1>4. Typed'
  BY <1>1, <1>2, <1>3, Fresh, Moved
<1>5. Stands(task[w], run, record) => Stands(u, run, record)
  BY <1>3 DEF Stands, Calculating, Submitting, Signing
<1> QED
  BY <1>1, <1>4, <1>5 DEF Keeps

LEMMA CalcSteps ==
    ASSUME Typed, NEW w \in Workers, CalcLock(w) \/ CalcCarry(w) \/ CalcAdvance(w) \/ CalcVp(w)
    PROVE  Keeps(w)
<1> DEFINE t == task[w]
<1>1. t \in Task /\ Fit(t) /\ AttTyped /\ RecordTyped /\ DOMAIN task = Workers
  BY Carried DEF Typed, DocsTyped, Tasks
<1>2. ReadOnly /\ t.pc \in Calculating \ {"calc_write"}
  BY DEF CalcLock, CalcCarry, CalcAdvance, CalcVp, At, Calculating
<1>3. t.p \in Periods
  BY <1>1, <1>2 DEF Fit, Elsewhere, Calculating
<1>4. {"calc_carry", "calc_delete", "calc_vp", "calc_insert"} \subseteq Calculating \cap PCs
  BY DEF Calculating, PCs
<1>5. CASE CalcLock(w)
  <2> DEFINE a == att[t.p]
             l == record[t.p].line
             u == [t EXCEPT !.pc = "calc_carry", !.r.basis = a.stamp, !.rec.line = l]
  <2>1. CASE a.locked
    <3>1. task' = [task EXCEPT ![w] = u]
      BY <1>1, <1>5, <2>1 DEF CalcLock
    <3>2. a.stamp \in 0..MaxStamp /\ l \in Line
      BY <1>1, <1>3 DEF AttTyped, RecordTyped, Record
    <3> HIDE DEF a, l
    <3>3. u \in Task /\ u.pc = "calc_carry" /\ u.p = t.p
      BY <1>1, <1>4, <3>2 DEF Task, Run, Record
    <3> HIDE DEF u
    <3> QED
      BY <1>2, <1>4, <3>1, <3>3, Calculates
  <2>2. CASE ~a.locked
    <3>1. Finish(w)
      BY <1>5, <2>2 DEF CalcLock
    <3> QED
      BY <1>2, <3>1, ReadOnlyTyped, Ended DEF ReadOnly
  <2> QED
    BY <2>1, <2>2
<1>6. CASE CalcCarry(w)
  <2> DEFINE cs == {c \in Carries : carry[c].target = t.p /\ carry[c].status \in {"Pending", "Included"}}
             u == [t EXCEPT !.pc = "calc_delete", !.carries = cs]
  <2>1. task' = [task EXCEPT ![w] = u]
    BY <1>1, <1>6 DEF CalcCarry
  <2>2. cs \in SUBSET Carries
    OBVIOUS
  <2> HIDE DEF cs
  <2>3. u \in Task /\ u.pc = "calc_delete" /\ u.p = t.p
    BY <1>1, <1>4, <2>2 DEF Task
  <2> HIDE DEF u
  <2> QED
    BY <1>2, <1>4, <2>1, <2>3, Calculates
<1>7. CASE CalcAdvance(w)
  <2> DEFINE n == IF advance.status = "Recovering" /\ advance.recovered = 0 THEN 1 ELSE 0
             u == [t EXCEPT !.pc = "calc_vp", !.rec.recovers = n]
  <2>1. task' = [task EXCEPT ![w] = u]
    BY <1>1, <1>7 DEF CalcAdvance
  <2>2. n \in {0, 1}
    OBVIOUS
  <2> HIDE DEF n
  <2>3. u \in Task /\ u.pc = "calc_vp" /\ u.p = t.p
    BY <1>1, <1>4, <2>2 DEF Task, Record
  <2> HIDE DEF u
  <2> QED
    BY <1>2, <1>4, <2>1, <2>3, Calculates
<1>8. CASE CalcVp(w)
  <2> DEFINE Paying(b) == [t EXCEPT !.pc = "calc_insert", !.rec.pays = b]
  <2>1. \E b \in BOOLEAN : task' = [task EXCEPT ![w] = Paying(b)]
    <3>1. (vp.status = "Approved" /\ vp.paid = 0) \in BOOLEAN
      OBVIOUS
    <3>2. task' = [task EXCEPT ![w] = Paying(vp.status = "Approved" /\ vp.paid = 0)]
      BY <1>1, <1>8 DEF CalcVp
    <3> QED
      BY <3>1, <3>2, Zenon
  <2>2. PICK b \in BOOLEAN : task' = [task EXCEPT ![w] = Paying(b)]
    BY <2>1
  <2>3. Paying(b) \in Task /\ Paying(b).pc = "calc_insert" /\ Paying(b).p = t.p
    BY <1>1, <1>4 DEF Task, Record
  <2> HIDE DEF Paying
  <2> QED
    BY <1>2, <1>4, <2>2, <2>3, Calculates
<1> QED
  BY <1>5, <1>6, <1>7, <1>8

LEMMA SubmitSteps ==
    ASSUME Typed, NEW w \in Workers, SubmitLock(w) \/ SubmitLines(w) PROVE Keeps(w)
<1> DEFINE t == task[w]
<1>1. ReadOnly /\ t.pc \in Submitting /\ Fit(t) /\ DocsTyped' /\ run' = run /\ record' = record
  BY Carried, ReadOnlyTyped DEF SubmitLock, SubmitLines, At, Submitting, ReadOnly
<1>2. CASE Finish(w)
  BY <1>1, <1>2, Ended
<1>3. ASSUME NEW pc \in {"submit_lines", "submit_write"}, Goto(w, pc),
             pc = "submit_write" => record[t.p].line.status # "Pending"
      PROVE  Keeps(w)
  <2>1. t.p \in Periods /\ t.who \in People
    BY <1>1 DEF Fit, Elsewhere, Submitting
  <2>2. pc \in PCs \ {"sign_write"} /\ pc \notin Correcting /\ pc \in Submitting
    BY DEF PCs, Correcting, Submitting
  <2>3. Typed' /\ task'[w].pc = pc /\ task'[w].p = t.p
    BY <1>1, <1>3, <2>1, <2>2, WentTo, GoneTo
  <2>4. pc \notin Calculating \cup Signing /\ pc # "line_write" /\ pc # "lock_write"
    BY DEF Calculating, Signing
  <2>5. Stands(t, run, record) => Stands(task'[w], run, record)
    BY <1>1, <1>3, <2>3, <2>4 DEF Stands, Signing
  <2> QED
    BY <1>1, <2>3, <2>5 DEF Keeps
<1>4. CASE SubmitLock(w)
  <2>1. Finish(w) \/ Goto(w, "submit_lines")
    BY <1>4 DEF SubmitLock
  <2> QED
    BY <1>2, <1>3, <2>1
<1>5. CASE SubmitLines(w)
  <2>1. Finish(w) \/ (Goto(w, "submit_write") /\ record[t.p].line.status # "Pending")
    BY <1>5 DEF SubmitLines
  <2> QED
    BY <1>2, <1>3, <2>1
<1> QED
  BY <1>4, <1>5

LEMMA SignReads == ASSUME Typed, NEW w \in Workers, SignRead(w) PROVE Keeps(w)
<1> DEFINE t == task[w]
           u == [t EXCEPT !.pc = "sign_write", !.r = run[t.p]]
<1>1. /\ t.pc = "sign_read" /\ t \in Task /\ Fit(t) /\ DocsTyped' /\ run' = run /\ record' = record
      /\ run \in [Periods -> Run] /\ DOMAIN task = Workers
  BY Carried, ReadOnlyTyped DEF SignRead, At, ReadOnly, Typed, DocsTyped, RunTyped, Tasks
<1>2. CASE Finish(w)
  BY <1>1, <1>2, Ended
<1>3. CASE ~Refused(t, run[t.p]) /\ task' = [task EXCEPT ![w] = u]
  <2>1. t.p \in Periods /\ t.who \in People
    BY <1>1 DEF Fit, Elsewhere, Signing
  <2>2. /\ u \in Task /\ u.pc = "sign_write" /\ u.p = t.p /\ u.who = t.who /\ u.r = run[t.p]
        /\ u.rule = t.rule /\ u.op = t.op
    BY <1>1, <2>1 DEF Task, PCs
  <2> HIDE DEF u
  <2>3. ~Refused(u, u.r)
    BY <1>3, <2>2 DEF Refused
  <2>4. Fit(u)
    BY <2>1, <2>2, <2>3 DEF Fit, Correcting
  <2>5. Typed' /\ task'[w] = u
    BY <1>1, <1>3, <2>4, Moved, TaskIs
  <2>6. Stands(t, run, record) => Stands(u, run, record)
    BY <1>1, <2>2 DEF Stands, Calculating, Submitting, Signing
  <2> QED
    BY <1>1, <2>5, <2>6 DEF Keeps
<1> QED
  <2>1. Finish(w) \/ (~Refused(t, run[t.p]) /\ task' = [task EXCEPT ![w] = u])
    BY <1>1 DEF SignRead
  <2> QED
    BY <1>2, <1>3, <2>1

LEMMA LockSteps ==
    ASSUME Typed, NEW w \in Workers, LockRecords(w) \/ AdvanceRead(w) PROVE Keeps(w)
<1> DEFINE t == task[w]
<1>1. /\ t \in Task /\ Fit(t) /\ DocsTyped' /\ run' = run /\ record' = record
      /\ record \in [Periods -> Record] /\ DOMAIN task = Workers /\ advance \in Advance
      /\ t.pc \in {"lock_records", "advance_read"}
  BY Carried, ReadOnlyTyped DEF LockRecords, AdvanceRead, At, ReadOnly, Typed, DocsTyped, RecordTyped, Tasks,
     DuesTyped
<1>2. t.p \in Periods
  BY <1>1 DEF Fit, Elsewhere
<1>3. ASSUME NEW u \in Task, task' = [task EXCEPT ![w] = u], u.p = t.p,
             u.pc \in {"advance_read", "vp_paid", "advance_write"}
      PROVE  Keeps(w)
  <2>1. u.pc \notin Watched \cup Correcting
    BY <1>3 DEF Watched, Calculating, Submitting, Signing, Correcting
  <2>2. Fit(u)
    BY <1>2, <1>3, <2>1, Fresh DEF Watched
  <2>3. Typed' /\ task'[w] = u
    BY <1>1, <1>3, <2>2, Moved, TaskIs
  <2> QED
    BY <1>1, <2>1, <2>3, Unwatched DEF Keeps
<1>4. CASE LockRecords(w)
  <2> DEFINE rec == record[t.p]
             pc == IF rec.recovers > 0 THEN "advance_read" ELSE "vp_paid"
             u == [t EXCEPT !.rec = rec, !.carries = rec.carried, !.pc = pc]
  <2>1. task' = [task EXCEPT ![w] = u]
    BY <1>1, <1>4 DEF LockRecords
  <2>2. rec \in Record /\ rec.carried \in SUBSET Carries /\ pc \in {"advance_read", "vp_paid"}
    BY <1>1, <1>2 DEF Record
  <2> HIDE DEF rec, pc
  <2>3. u \in Task /\ u.p = t.p /\ u.pc = pc
    BY <1>1, <2>2 DEF Task, PCs
  <2> HIDE DEF u
  <2> QED
    BY <1>3, <2>1, <2>2, <2>3
<1>5. CASE AdvanceRead(w)
  <2> DEFINE n == advance.recovered + t.rec.recovers
             u == [t EXCEPT !.pc = "advance_write", !.n = n]
  <2>1. task' = [task EXCEPT ![w] = u]
    BY <1>1, <1>5 DEF AdvanceRead
  <2>2. n \in Nat
    BY <1>1 DEF Advance, Task, Record
  <2> HIDE DEF n
  <2>3. u \in Task /\ u.p = t.p /\ u.pc = "advance_write"
    BY <1>1, <2>2 DEF Task, PCs
  <2> HIDE DEF u
  <2> QED
    BY <1>3, <2>1, <2>3
<1> QED
  BY <1>4, <1>5

LEMMA LookSteps ==
    ASSUME Typed, NEW w \in Workers, CarryTarget(w) \/ AttendanceRun(w) \/ AttendanceWrite(w)
    PROVE  Keeps(w)
<1> DEFINE t == task[w]
<1>1. t \in Task /\ Fit(t) /\ AttTyped
  BY Carried DEF Typed, DocsTyped
<1>2. t.pc \in {"carry_target", "attendance_run", "attendance_write"} /\ run' = run /\ record' = record
  BY DEF CarryTarget, AttendanceRun, AttendanceWrite, At, ReadOnly
<1>3. t.p \in Periods
  BY <1>1, <1>2 DEF Fit, Elsewhere
<1>4. {"carry_insert", "attendance_write"} \subseteq PCs \ Watched
  BY DEF PCs, Watched, Calculating, Submitting, Signing
<1>5. CASE CarryTarget(w)
  <2>1. (Finish(w) \/ Goto(w, "carry_insert")) /\ DocsTyped' /\ t.c \in Carries
    BY <1>1, <1>5, ReadOnlyTyped DEF CarryTarget, At, Fit, Correcting
  <2> QED
    BY <1>2, <1>3, <1>4, <2>1, Ahead
<1>6. CASE AttendanceRun(w)
  <2>1. (Finish(w) \/ Goto(w, "attendance_write")) /\ DocsTyped'
    BY <1>6, ReadOnlyTyped DEF AttendanceRun
  <2>2. "attendance_write" \notin Correcting
    BY DEF Correcting
  <2> QED
    BY <1>2, <1>3, <1>4, <2>1, <2>2, Ahead
<1>7. CASE AttendanceWrite(w)
  <2> DEFINE s == IF t.ok THEN att[t.p].stamp + 1 ELSE att[t.p].stamp
  <2>1. att' = [att EXCEPT ![t.p] = [locked |-> t.ok, stamp |-> s]]
        /\ Finish(w) /\ UNCHANGED <<policy, run, record, dues, crashes>>
    BY <1>7 DEF AttendanceWrite
  <2>2. att[t.p].stamp \in 0..MaxStamp /\ (t.ok => att[t.p].stamp < MaxStamp)
    BY <1>1, <1>3, <1>7 DEF AttTyped, AttendanceWrite
  <2>3. s \in 0..MaxStamp /\ t.ok \in BOOLEAN
    BY <1>1, <2>2, PayrollAssumption DEF Task
  <2> HIDE DEF s
  <2>4. AttTyped'
    BY <1>1, <2>1, <2>3 DEF AttTyped
  <2>5. DocsTyped'
    BY <2>1, <2>4, Kept DEF DocsTyped
  <2> QED
    BY <2>1, <2>5, Ended
<1> QED
  BY <1>5, <1>6, <1>7

-----------------------------------------------------------------------------
(* Who signed what: a run on its way has a maker who is none of its         *)
(* signers, and no line above the limit is still open.                      *)

OnItsWay == {"Submitted", "Checked", "Approved", "Locked"}

Book(r, rec) ==
    /\ r.status \in OnItsWay => /\ r.by # "none" /\ r.by \notin r.approvers
                                /\ rec.line.status # "Pending"
    /\ r.status \in {"Approved", "Locked"} => r.decided \notin {"none", r.by}

Books == \A p \in Periods : Book(run[p], record[p])

\* The step keeps the types, and the books of whoever's reading still stands.
Writes(w) ==
    /\ Typed'
    /\ Books /\ Stands(task[w], run, record) => Books' /\ Stands(task'[w], run', record')

LEMMA KeepsWrites == ASSUME NEW w \in Workers, Keeps(w) PROVE Writes(w)
BY DEF Keeps, Writes, Books

\* A write of one month's run, or of its records, that ends or goes on.
LEMMA Wrote ==
    ASSUME Typed, DocsTyped', NEW w \in Workers, NEW p \in Periods,
           \A q \in Periods \ {p} : run'[q] = run[q] /\ record'[q] = record[q],
           Books /\ Stands(task[w], run, record) => Book(run'[p], record'[p]),
           \/ Finish(w)
           \/ \E pc \in PCs \ {"sign_write"} :
                /\ Goto(w, pc) /\ task[w].p \in Periods
                /\ pc \notin Submitting \cup Signing \cup Correcting
                /\ \A u : u.pc = pc /\ u.p = task[w].p /\ Stands(task[w], run, record) => Stands(u, run', record')
    PROVE  Writes(w)
<1>1. Books /\ Stands(task[w], run, record) => Books'
  BY DEF Books
<1>2. CASE Finish(w)
  <2>1. task'[w].pc = "idle" /\ "idle" \notin Watched
    BY <1>2, IdleFits DEF Finish, Typed, Tasks, Watched, Calculating, Submitting, Signing
  <2>2. Stands(task'[w], run', record')
    BY <2>1, Unwatched
  <2> QED
    BY <1>1, <1>2, <2>2, Finished DEF Writes
<1>3. CASE ~Finish(w)
  <2>1. PICK pc \in PCs \ {"sign_write"} :
                /\ Goto(w, pc) /\ task[w].p \in Periods
                /\ pc \notin Submitting \cup Signing \cup Correcting
                /\ \A u : u.pc = pc /\ u.p = task[w].p /\ Stands(task[w], run, record) => Stands(u, run', record')
    BY <1>3
  <2>2. Typed' /\ task'[w].pc = pc /\ task'[w].p = task[w].p
    BY <2>1, WentTo, GoneTo
  <2> QED
    BY <1>1, <2>1, <2>2 DEF Writes
<1> QED
  BY <1>2, <1>3

LEMMA RunWritten ==
    ASSUME Typed, NEW p \in Periods, NEW d \in Run, run' = [run EXCEPT ![p] = d],
           d.status = "Submitted" => d.stage = 0 /\ d.approvers = {},
           UNCHANGED <<policy, att, record, dues, crashes>>
    PROVE  /\ DocsTyped' /\ run'[p] = d /\ record'[p] = record[p]
           /\ \A q \in Periods \ {p} : run'[q] = run[q] /\ record'[q] = record[q]
<1>1. RunTyped /\ run \in [Periods -> Run]
  BY DEF Typed, DocsTyped, RunTyped
<1>2. run'[p] = d /\ \A q \in Periods \ {p} : run'[q] = run[q]
  BY <1>1
<1>3. RunTyped'
  BY <1>1, <1>2 DEF RunTyped
<1> QED
  BY <1>2, <1>3, Kept DEF DocsTyped

LEMMA RecordWritten ==
    ASSUME Typed, NEW p \in Periods, NEW d \in Record, record' = [record EXCEPT ![p] = d],
           UNCHANGED <<policy, att, run, dues, crashes>>
    PROVE  /\ DocsTyped' /\ record'[p] = d /\ run' = run
           /\ \A q \in Periods \ {p} : run'[q] = run[q] /\ record'[q] = record[q]
<1>1. record \in [Periods -> Record]
  BY DEF Typed, DocsTyped, RecordTyped
<1>2. record'[p] = d /\ \A q \in Periods \ {p} : record'[q] = record[q]
  BY <1>1
<1>3. RecordTyped'
  BY <1>1 DEF RecordTyped
<1> QED
  BY <1>2, <1>3, Kept DEF DocsTyped

LEMMA RecordSteps ==
    ASSUME Typed, NEW w \in Workers, CalcDelete(w) \/ CalcInsert(w) \/ LineWrite(w) PROVE Writes(w)
<1> DEFINE t == task[w]
           p == t.p
<1>1. t \in Task /\ Fit(t) /\ record \in [Periods -> Record]
  BY Carried DEF Typed, DocsTyped, RecordTyped
<1>2. /\ t.pc \in {"calc_delete", "calc_insert", "line_write"}
      /\ UNCHANGED <<policy, att, run, dues, crashes>>
  BY DEF CalcDelete, CalcInsert, LineWrite, At
<1>3. p \in Periods
  BY <1>1, <1>2 DEF Fit, Elsewhere
<1>4. Stands(t, run, record) => run[p].status \in Editable
  BY <1>2 DEF Stands, Calculating
<1>5. \A rec : Stands(t, run, record) => Book(run[p], rec)
  BY <1>4 DEF Book, Editable, OnItsWay
<1>6. /\ {"calc_advance", "calc_mark"} \subseteq PCs \ {"sign_write"}
      /\ \A pc \in {"calc_advance", "calc_mark"} : pc \notin Submitting \cup Signing \cup Correcting
  BY DEF PCs, Submitting, Signing, Correcting
<1>7. \A u : u.pc \in {"calc_advance", "calc_mark"} /\ u.p = p /\ Stands(t, run, record)
               => Stands(u, run', record')
  BY <1>2, <1>4 DEF Stands, Submitting, Signing
<1>8. CASE CalcDelete(w)
  <2>1. record' = [record EXCEPT ![p] = NoRecord] /\ Goto(w, "calc_advance")
    BY <1>8 DEF CalcDelete
  <2>2. /\ DocsTyped' /\ run' = run
        /\ \A q \in Periods \ {p} : run'[q] = run[q] /\ record'[q] = record[q]
    BY <1>2, <1>3, <2>1, NoRecordFits, RecordWritten
  <2> QED
    BY <1>3, <1>5, <1>6, <1>7, <2>1, <2>2, Wrote
<1>9. CASE CalcInsert(w)
  <2> DEFINE d == [t.rec EXCEPT !.made = TRUE, !.carried = t.carries]
  <2>1. record' = [record EXCEPT ![p] = d] /\ Goto(w, "calc_mark")
    BY <1>9 DEF CalcInsert
  <2>2. d \in Record
    BY <1>1 DEF Task, Record
  <2> HIDE DEF d
  <2>3. /\ DocsTyped' /\ run' = run
        /\ \A q \in Periods \ {p} : run'[q] = run[q] /\ record'[q] = record[q]
    BY <1>2, <1>3, <2>1, <2>2, RecordWritten
  <2> QED
    BY <1>3, <1>5, <1>6, <1>7, <2>1, <2>3, Wrote
<1>10. CASE LineWrite(w)
  <2> DEFINE d == [record[p] EXCEPT !.line = t.rec.line]
  <2>1. record' = [record EXCEPT ![p] = d] /\ Finish(w)
    BY <1>10 DEF LineWrite
  <2>2. d \in Record
    BY <1>1, <1>3 DEF Task, Record
  <2> HIDE DEF d
  <2>3. /\ DocsTyped' /\ run' = run
        /\ \A q \in Periods \ {p} : run'[q] = run[q] /\ record'[q] = record[q]
    BY <1>2, <1>3, <2>1, <2>2, RecordWritten
  <2> QED
    BY <1>3, <1>5, <2>1, <2>3, Wrote
<1> QED
  BY <1>8, <1>9, <1>10

\* What submit_run makes of a run.
LEMMA SubmittedRun ==
    ASSUME NEW r \in Run, NEW who \in People
    PROVE  LET d == [r EXCEPT !.status = "Submitted", !.by = who, !.stage = 0, !.approvers = {}]
           IN  d \in Run /\ d.status = "Submitted" /\ d.by = who /\ d.stage = 0 /\ d.approvers = {}
<1> DEFINE a == [r EXCEPT !.status = "Submitted", !.by = who]
           d == [a EXCEPT !.stage = 0, !.approvers = {}]
<1>1. "Submitted" \in RunStatus /\ who \in Who
  BY DEF RunStatus, Who
<1>2. a \in Run /\ a.status = "Submitted" /\ a.by = who
  BY <1>1 DEF Run
<1>3. d = [r EXCEPT !.status = "Submitted", !.by = who, !.stage = 0, !.approvers = {}]
  OBVIOUS
<1> HIDE DEF a
<1>4. ASSUME NEW none \in SUBSET People, NEW f \in 0..3
      PROVE  LET b == [a EXCEPT !.stage = f, !.approvers = none]
             IN  b \in Run /\ b.status = a.status /\ b.by = a.by /\ b.stage = f /\ b.approvers = none
  BY <1>2, <1>4 DEF Run
<1>5. {} \in SUBSET People /\ 0 \in 0..3
  OBVIOUS
<1>6. d \in Run /\ d.status = a.status /\ d.by = a.by /\ d.stage = 0 /\ d.approvers = {}
  BY <1>4, <1>5
<1> HIDE DEF d
<1> QED
  BY <1>2, <1>3, <1>6

LEMMA RunSteps ==
    ASSUME Typed, NEW w \in Workers,
           CreateWrite(w) \/ CalcWrite(w) \/ SubmitWrite(w) \/ LockWrite(w)
    PROVE  Writes(w)
<1> DEFINE t == task[w]
           p == t.p
           r == run[p]
<1>1. t \in Task /\ Fit(t) /\ run \in [Periods -> Run]
  BY Carried DEF Typed, DocsTyped, RunTyped
<1>2. /\ t.pc \in {"create_write", "calc_write", "submit_write", "lock_write"}
      /\ UNCHANGED <<policy, att, record, dues, crashes>>
  BY DEF CreateWrite, CalcWrite, SubmitWrite, LockWrite, At
<1>3. p \in Periods /\ r \in Run
  BY <1>1, <1>2 DEF Fit, Elsewhere
<1>4. Books => Book(r, record[p])
  BY <1>3 DEF Books
<1>5. ASSUME NEW d \in Run, run' = [run EXCEPT ![p] = d],
             d.status = "Submitted" => d.stage = 0 /\ d.approvers = {}
      PROVE  /\ DocsTyped' /\ run'[p] = d /\ record'[p] = record[p]
             /\ \A q \in Periods \ {p} : run'[q] = run[q] /\ record'[q] = record[q]
  BY <1>2, <1>3, <1>5, RunWritten
<1>6. CASE CreateWrite(w)
  <2> DEFINE d == [r EXCEPT !.status = "Draft"]
  <2>1. run' = [run EXCEPT ![p] = d] /\ Finish(w)
    BY <1>6 DEF CreateWrite
  <2>2. d \in Run /\ d.status = "Draft"
    BY <1>3 DEF Run, RunStatus
  <2> HIDE DEF d
  <2>3. Book(d, record[p])
    BY <2>2 DEF Book, OnItsWay
  <2> QED
    BY <1>3, <1>5, <2>1, <2>2, <2>3, Wrote
<1>7. CASE CalcWrite(w)
  <2> DEFINE d == [r EXCEPT !.status = "Calculated", !.basis = t.r.basis]
  <2>1. run' = [run EXCEPT ![p] = d] /\ Finish(w)
    BY <1>7 DEF CalcWrite
  <2>2. d \in Run /\ d.status = "Calculated"
    BY <1>1, <1>3 DEF Run, RunStatus, Task
  <2> HIDE DEF d
  <2>3. Book(d, record[p])
    BY <2>2 DEF Book, OnItsWay
  <2> QED
    BY <1>3, <1>5, <2>1, <2>2, <2>3, Wrote
<1>8. CASE SubmitWrite(w)
  <2> DEFINE d == [r EXCEPT !.status = "Submitted", !.by = t.who, !.stage = 0, !.approvers = {}]
  <2>1. run' = [run EXCEPT ![p] = d] /\ Finish(w) /\ t.pc = "submit_write"
    BY <1>8 DEF SubmitWrite, At
  <2>2. t.who \in People /\ t.who # "none"
    BY <1>1, <2>1, PayrollAssumption DEF Fit, Submitting
  <2>3. d \in Run /\ d.status = "Submitted" /\ d.by = t.who /\ d.stage = 0 /\ d.approvers = {}
    BY <1>3, <2>2, SubmittedRun
  <2> HIDE DEF d
  <2>4. Stands(t, run, record) => Book(d, record[p])
    BY <2>1, <2>2, <2>3 DEF Book, OnItsWay, Stands
  <2> QED
    BY <1>3, <1>5, <2>1, <2>3, <2>4, Wrote
<1>9. CASE LockWrite(w)
  <2> DEFINE d == [r EXCEPT !.status = "Locked"]
  <2>1. run' = [run EXCEPT ![p] = d] /\ Goto(w, "lock_records") /\ t.pc = "lock_write"
    BY <1>9 DEF LockWrite, At
  <2>2. d \in Run /\ d.status = "Locked" /\ d.by = r.by /\ d.approvers = r.approvers /\ d.decided = r.decided
    BY <1>3 DEF Run, RunStatus
  <2> HIDE DEF d
  <2>3. Stands(t, run, record) /\ Books => Book(d, record[p])
    BY <1>4, <2>1, <2>2 DEF Book, OnItsWay, Stands
  <2>4. "lock_records" \in PCs \ {"sign_write"} /\ "lock_records" \notin Watched \cup Correcting
    BY DEF PCs, Watched, Calculating, Submitting, Signing, Correcting
  <2>5. \A u : u.pc = "lock_records" => Stands(u, run', record')
    BY <2>4, Unwatched
  <2> QED
    BY <1>3, <1>5, <2>1, <2>2, <2>3, <2>4, <2>5, Wrote DEF Watched
<1> QED
  BY <1>6, <1>7, <1>8, <1>9

\* A signature: refused to the maker, and added to those before it.
LEMMA SignWrites == ASSUME Typed, NEW w \in Workers, SignWrite(w) PROVE Writes(w)
<1> DEFINE t == task[w]
           p == t.p
           r == run[p]
           passes == t.rule.stages > 0 /\ t.ok
           st == IF ~t.ok THEN "Returned" ELSE IF Final(t, t.r) THEN "Approved" ELSE "Checked"
           dec == IF Decides(t, t.r) THEN t.who ELSE r.decided
           chk == IF Decides(t, t.r) THEN r.checked ELSE t.who
           stg == IF passes THEN Stage(t.r) + 1 ELSE r.stage
           app == IF passes THEN t.r.approvers \cup {t.who} ELSE r.approvers
           d == [r EXCEPT !.status = st, !.decided = dec, !.checked = chk, !.stage = stg, !.approvers = app]
<1>1. t \in Task /\ Fit(t) /\ run \in [Periods -> Run] /\ t.pc = "sign_write"
  BY Carried DEF Typed, DocsTyped, RunTyped, SignWrite, At
<1>2. p \in Periods /\ r \in Run /\ t.r \in Run /\ t.who \in People /\ t.rule \in Policy /\ ~Refused(t, t.r)
  BY <1>1 DEF Fit, Elsewhere, Signing, Task
<1>3. run' = [run EXCEPT ![p] = d] /\ Finish(w) /\ UNCHANGED <<policy, att, record, dues, crashes>>
  <2>1. run' = [run EXCEPT ![p] = d]
    BY DEF SignWrite
  <2> QED
    BY <2>1 DEF SignWrite
<1>4. Stage(t.r) \in 0..3 /\ t.rule.stages \in 0..3
  BY <1>2 DEF Stage, Run, Policy
<1>5. passes => Stage(t.r) < t.rule.stages
  BY <1>2, <1>4 DEF Refused
<1>6. stg \in 0..3
  BY <1>2, <1>4, <1>5 DEF Run
<1>7. st \in {"Returned", "Approved", "Checked"} /\ dec \in Who /\ chk \in Who /\ app \in SUBSET People
  BY <1>2 DEF Run, Who
<1>8. Stands(t, run, record) => t.r = r /\ r.status \in OnItsWay
  BY <1>1 DEF Stands, Signing, OnItsWay
<1>9. r.by = t.r.by => r.by # t.who
  BY <1>2 DEF Refused
<1>10. st = "Approved" => dec = t.who
  BY DEF Decides
<1>11. app \subseteq r.approvers \cup t.r.approvers \cup {t.who}
  OBVIOUS
<1>12. t.who # "none"
  BY <1>2, PayrollAssumption
<1> HIDE DEF st, dec, chk, stg, app
<1>13. d \in Run /\ d.status = st /\ d.by = r.by /\ d.decided = dec /\ d.approvers = app
  BY <1>2, <1>6, <1>7 DEF Run, RunStatus
<1> HIDE DEF d
<1>14. Books => Book(r, record[p])
  BY <1>2 DEF Books
<1>15. Books /\ Stands(t, run, record) => Book(d, record[p])
  BY <1>7, <1>8, <1>9, <1>10, <1>11, <1>12, <1>13, <1>14 DEF Book, OnItsWay
<1>16. /\ DocsTyped' /\ run'[p] = d /\ record'[p] = record[p]
       /\ \A q \in Periods \ {p} : run'[q] = run[q] /\ record'[q] = record[q]
  BY <1>2, <1>3, <1>7, <1>13, RunWritten
<1> QED
  BY <1>2, <1>3, <1>15, <1>16, Wrote

-----------------------------------------------------------------------------
(* The theorems                                                             *)

LEMMA StepWrites == ASSUME Typed, NEW w \in Workers, Step(w) PROVE Writes(w) \/ Read(w)
BY StartsTyped, DueSteps, CalcSteps, SubmitSteps, SignReads, LockSteps, LookSteps, KeepsWrites,
   RecordSteps, RunSteps, SignWrites DEF Step, Starts

LEMMA InitTyped == Init => Typed
<1> SUFFICES ASSUME Init PROVE Typed
  OBVIOUS
<1>1. PolicyTyped /\ AttTyped /\ RecordTyped /\ crashes \in Nat
  BY PayrollAssumption, NoRecordFits DEF Init, PolicyTyped, AttTyped, RecordTyped
<1>2. RunTyped
  BY NoRunFits DEF Init, RunTyped
<1>3. DuesTyped
  <2>1. [status |-> "None", eligible |-> FALSE, paid |-> 0] \in Vp
    BY DEF Vp
  <2> QED
    BY <2>1, PayrollAssumption DEF Init, DuesTyped, Advance, Carry
<1>4. Tasks
  BY IdleFits DEF Init, Tasks
<1> QED
  BY <1>1, <1>2, <1>3, <1>4 DEF Typed, DocsTyped

LEMMA PolicyChanged == ASSUME Typed, NewPolicy PROVE Typed' /\ UNCHANGED <<run, record, task>>
BY Kept DEF NewPolicy, Typed, DocsTyped, PolicyTyped, Tasks

LEMMA Crashed ==
    ASSUME Typed, Crash
    PROVE  Typed' /\ run' = run /\ record' = record /\ \A w \in Workers : task'[w].pc = "idle"
<1>1. /\ policy' = policy /\ att' = att /\ run' = run /\ record' = record /\ dues' = dues
      /\ crashes' \in Nat /\ task' = [w \in Workers |-> Idle]
  BY DEF Crash, Typed, DocsTyped
<1>2. DocsTyped'
  BY <1>1, Kept DEF DocsTyped
<1>3. Tasks'
  BY <1>1, IdleFits DEF Tasks
<1> QED
  BY <1>1, <1>2, <1>3, IdleFits DEF Typed

LEMMA Rests == ASSUME Typed, UNCHANGED vars PROVE Typed' /\ UNCHANGED <<run, record, task>>
BY Kept DEF vars, Typed, DocsTyped, Tasks

LEMMA NextTyped == Typed /\ [Next]_vars => Typed'
BY StepWrites, PolicyChanged, Crashed, Rests DEF Next, Writes, Read

\* Every document and every request has its type, whatever the requests do to
\* each other (hrms_payroll_service, hrms_salary_advance_service,
\* hrms_variable_pay_service).
THEOREM TypeCorrect == Spec => []TypeOK
BY InitTyped, NextTyped, TypedIsTypeOK, PTL DEF Spec

\* One request at a time, and the process may die between any two of its calls.
OneRequest == \A v, w \in Workers : v = w

Audited == Typed /\ Books /\ \A w \in Workers : Stands(task[w], run, record)

LEMMA AuditedNext == ASSUME OneRequest, Audited, [Next]_vars PROVE Audited'
<1>1. CASE UNCHANGED vars
  BY <1>1, Rests DEF Audited, Books
<1>2. CASE NewPolicy
  BY <1>2, PolicyChanged DEF Audited, Books
<1>3. CASE Crash
  <2>1. "idle" \notin Watched
    BY DEF Watched, Calculating, Submitting, Signing
  <2> QED
    BY <1>3, <2>1, Crashed, Unwatched DEF Audited, Books
<1>4. ASSUME NEW w \in Workers, Step(w) PROVE Audited'
  <2>1. \A v \in Workers : v = w
    BY DEF OneRequest
  <2>2. CASE Writes(w)
    BY <2>1, <2>2 DEF Audited, Writes
  <2>3. CASE Read(w)
    BY <2>1, <2>3 DEF Audited, Read, Books
  <2> QED
    BY <1>4, <2>2, <2>3, StepWrites DEF Audited
<1> QED
  BY <1>1, <1>2, <1>3, <1>4 DEF Next

LEMMA InitAudited == Init => Audited
<1> SUFFICES ASSUME Init PROVE Audited
  OBVIOUS
<1>1. \A p \in Periods : Book(run[p], record[p])
  BY NoRunFits DEF Init, Book, OnItsWay
<1>2. "idle" \notin Watched
  BY DEF Watched, Calculating, Submitting, Signing
<1>3. \A w \in Workers : Stands(task[w], run, record)
  BY <1>2, IdleFits, Unwatched DEF Init
<1> QED
  BY <1>1, <1>3, InitTyped DEF Audited, Books

\* Segregation of duties, for any months, people and approval matrices: with
\* requests one at a time, restarts anywhere and the matrix changing between any
\* two signatures, whoever submitted an approved run is none of its signers
\* (submit_run, check_run, decide_run, act_on_stage, lock_run).
THEOREM DutiesSegregated == ASSUME OneRequest PROVE Spec => []MakerChecker
<1>1. Audited => MakerChecker
  BY DEF Audited, Books, Book, OnItsWay, MakerChecker
<1>2. Audited /\ [Next]_vars => Audited'
  BY AuditedNext
<1> QED
  BY <1>1, <1>2, InitAudited, PTL DEF Spec
-----------------------------------------------------------------------------
(* What is owed, against what the locked payslips settled.  A request is on *)
(* its way through lock_run, or through a rebuild, with what it read.       *)

Settling == {"lock_records", "advance_read", "advance_write", "vp_paid", "carry_applied"}
Gathered == {"calc_delete", "calc_advance", "calc_vp", "calc_insert", "calc_mark"}
Bearing == Settling \cup Gathered \cup Correcting \cup {"advance_insert", "advance_decide"}

\* An advance of which no payslip can have deducted anything.
Unpaid == {"None", "Pending", "Rejected"}

Taken(q, c) == {p \in Periods : q[p].status = "Locked" /\ c[p].recovers = 1}

\* What lock_run has still to add to the advance.
Due(t, c) == IF t.pc \in {"lock_records", "advance_read", "advance_write"} THEN c[t.p].recovers ELSE 0

\* What a request may rely on, against runs q, records c, the advance a and adjustments k.
Knows(t, q, c, a, k) ==
    /\ t.pc \in Settling => q[t.p].status = "Locked"
    /\ t.pc \in Settling \ {"lock_records"} => t.rec = c[t.p] /\ t.carries = c[t.p].carried
    /\ t.pc \in {"advance_read", "advance_write"} => c[t.p].recovers = 1
    /\ t.pc = "advance_write" => t.n = a.recovered + 1
    /\ t.pc \in {"calc_vp", "calc_insert"} /\ t.rec.recovers = 1 => a.status \notin Unpaid
    /\ t.pc = "advance_insert" => a.status \in {"None", "Rejected"}
    /\ t.pc = "advance_decide" => a.status = "Pending"
    /\ t.pc \in Gathered => \A d \in t.carries : k[d].target = t.p /\ k[d].status \in {"Pending", "Included"}
    /\ t.pc = "calc_mark" => c[t.p].carried = t.carries
    /\ t.pc \in Correcting => k[t.c].status = "None"

AdvanceBooked(t, q, c, a, x) ==
    /\ a.status \in Unpaid => a.recovered = 0 /\ \A p \in Periods : c[p].recovers = 0
    /\ a.recovered + Due(t, c) <= Cardinality(Taken(q, c))
    /\ x = 0 => a.recovered + Due(t, c) = Cardinality(Taken(q, c))

\* The adjustments of a month whose records are being rebuilt are marked after
\* them; those of a month being locked, after its run.
CarryBooked(t, q, c, k, x) ==
    \A d \in Carries, p \in Periods :
        /\ d \in c[p].carried => p = k[d].target /\ k[d].status # "None"
        /\ k[d].status = "Applied" /\ p = k[d].target => q[p].status = "Locked" /\ d \in c[p].carried
        /\ x = 0 /\ d \in c[p].carried =>
              \/ k[d].status = IF q[p].status = "Locked" THEN "Applied" ELSE "Included"
              \/ t.p = p /\ t.pc = "calc_mark"
              \/ t.p = p /\ t.pc \in Settling /\ k[d].status = "Included"

Agree(w) ==
    /\ Knows(task[w], run, record, advance, carry)
    /\ AdvanceBooked(task[w], run, record, advance, crashes)
    /\ VariablePaySettled
    /\ CarryBooked(task[w], run, record, carry, crashes)

LEMMA Groups ==
    /\ "idle" \notin Bearing /\ Settling \subseteq Bearing /\ Gathered \subseteq Bearing /\ Correcting \subseteq Bearing
    /\ {"lock_records", "advance_read", "advance_write"} \subseteq Settling
    /\ Settling \cap (Gathered \cup Correcting \cup {"advance_insert", "advance_decide"}) = {}
    /\ Gathered \cap (Correcting \cup {"advance_insert", "advance_decide"}) = {}
    /\ Correcting \cap {"advance_insert", "advance_decide"} = {}
    /\ {"calc_vp", "calc_insert", "calc_mark"} \subseteq Gathered
BY DEF Bearing, Settling, Gathered, Correcting

LEMMA Unbearing ==
    ASSUME NEW t, t.pc \notin Bearing, NEW q, NEW c, NEW a, NEW k PROVE Knows(t, q, c, a, k)
BY Groups DEF Knows, Bearing

LEMMA NothingDue == ASSUME NEW t, t.pc \notin Settling, NEW c PROVE Due(t, c) = 0
BY Groups DEF Due

\* A step that leaves what is settled and what is owed alone.
LEMMA Looked ==
    ASSUME NEW w, Agree(w), UNCHANGED <<run, record, advance, carry, crashes>>,
           VariablePaySettled', Knows(task'[w], run, record, advance, carry),
           Due(task'[w], record) = Due(task[w], record), task[w].pc # "calc_mark",
           task[w].pc \in Settling => task'[w].pc \in Settling /\ task'[w].p = task[w].p
    PROVE  Agree(w)'
<1>1. AdvanceBooked(task'[w], run, record, advance, crashes)
  BY DEF Agree, AdvanceBooked
<1>2. CarryBooked(task'[w], run, record, carry, crashes)
  BY DEF Agree, CarryBooked
<1> QED
  BY <1>1, <1>2 DEF Agree

LEMMA Aside ==
    ASSUME NEW w, Agree(w), UNCHANGED <<run, record, advance, carry, crashes>>,
           VariablePaySettled', task[w].pc \notin Settling \cup {"calc_mark"},
           task'[w].pc \notin Bearing
    PROVE  Agree(w)'
BY Groups, Unbearing, NothingDue, Looked

LEMMA SettledKept == ASSUME VariablePaySettled, UNCHANGED <<run, record, vp>> PROVE VariablePaySettled'
BY DEF VariablePaySettled, Locked

LEMMA GoneWith ==
    ASSUME Typed, NEW w \in Workers, NEW pc \in PCs, Goto(w, pc)
    PROVE  /\ task'[w].pc = pc /\ task'[w].p = task[w].p /\ task'[w].rec = task[w].rec
           /\ task'[w].carries = task[w].carries /\ task'[w].n = task[w].n /\ task'[w].c = task[w].c
<1>1. task[w] \in Task
  BY Carried
<1> QED
  BY <1>1 DEF Goto, Typed, Tasks, Task

LEMMA DoneWith == ASSUME Typed, NEW w \in Workers, Finish(w) PROVE task'[w].pc \notin Bearing
BY IdleFits, Groups DEF Finish, Typed, Tasks

\* A write to a run that is not locked, and is not locked by it.
LEMMA OpenRunWritten ==
    ASSUME Typed, NEW w \in Workers, Agree(w), NEW p \in Periods, NEW d, run' = [run EXCEPT ![p] = d],
           run[p].status # "Locked", d.status # "Locked",
           UNCHANGED <<record, advance, vp, carry, crashes>>,
           task[w].pc \notin Settling \cup {"calc_mark"}, task'[w].pc \notin Bearing
    PROVE  Agree(w)'
<1>1. \A q \in Periods : run'[q].status = "Locked" <=> run[q].status = "Locked"
  BY DEF Typed, DocsTyped, RunTyped
<1>2. Taken(run', record) = Taken(run, record)
  BY <1>1 DEF Taken
<1>3. Due(task'[w], record) = 0 /\ Due(task[w], record) = 0
  BY Groups, NothingDue
<1>4. AdvanceBooked(task'[w], run', record, advance, crashes)
  BY <1>2, <1>3 DEF Agree, AdvanceBooked
<1>5. CarryBooked(task'[w], run', record, carry, crashes)
  BY <1>1 DEF Agree, CarryBooked
<1>6. VariablePaySettled'
  BY <1>1 DEF Agree, VariablePaySettled, Locked, Typed, DocsTyped, DuesTyped, Vp
<1>7. Knows(task'[w], run', record, advance, carry)
  BY Unbearing
<1> QED
  BY <1>4, <1>5, <1>6, <1>7 DEF Agree

\* A write to the records of a month that is not locked.
LEMMA OpenRecordWritten ==
    ASSUME Typed, NEW w \in Workers, Agree(w), NEW p \in Periods, NEW d \in Record,
           record' = [record EXCEPT ![p] = d], run[p].status # "Locked",
           advance.status \in Unpaid => d.recovers = 0,
           \A c \in d.carried : /\ p = carry[c].target /\ carry[c].status # "None"
                                /\ \/ crashes = 0 => carry[c].status = "Included"
                                   \/ task'[w].p = p /\ task'[w].pc = "calc_mark",
           UNCHANGED <<run, advance, vp, carry, crashes>>,
           task[w].pc \notin Settling \cup {"calc_mark"}, task'[w].pc \notin Settling,
           Knows(task'[w], run, record', advance, carry)
    PROVE  Agree(w)'
<1>1. record'[p] = d /\ \A q \in Periods \ {p} : record'[q] = record[q]
  BY DEF Typed, DocsTyped, RecordTyped
<1>2. Taken(run, record') = Taken(run, record)
  BY <1>1 DEF Taken
<1>3. Due(task'[w], record') = 0 /\ Due(task[w], record) = 0
  BY NothingDue
<1>4. AdvanceBooked(task'[w], run, record', advance, crashes)
  BY <1>1, <1>2, <1>3 DEF Agree, AdvanceBooked
<1>5. CarryBooked(task'[w], run, record', carry, crashes)
  <2> SUFFICES ASSUME NEW c \in Carries, NEW q \in Periods
               PROVE  /\ c \in record'[q].carried => q = carry[c].target /\ carry[c].status # "None"
                      /\ carry[c].status = "Applied" /\ q = carry[c].target
                            => run[q].status = "Locked" /\ c \in record'[q].carried
                      /\ crashes = 0 /\ c \in record'[q].carried =>
                            \/ carry[c].status = IF run[q].status = "Locked" THEN "Applied" ELSE "Included"
                            \/ task'[w].p = q /\ task'[w].pc = "calc_mark"
                            \/ task'[w].p = q /\ task'[w].pc \in Settling /\ carry[c].status = "Included"
    BY DEF CarryBooked
  <2>1. CASE q = p
    BY <1>1, <2>1 DEF Agree, CarryBooked
  <2>2. CASE q # p
    BY <1>1, <2>2 DEF Agree, CarryBooked
  <2> QED
    BY <2>1, <2>2
<1>6. VariablePaySettled'
  BY <1>1 DEF Agree, VariablePaySettled, Locked, Typed, DocsTyped, DuesTyped, Vp
<1> QED
  BY <1>4, <1>5, <1>6 DEF Agree

\* A request begins: nothing to rely on yet, but for those that read a status.
LEMMA StartsAgree == ASSUME Typed, NEW w \in Workers, Agree(w), Starts(w) PROVE Agree(w)'
<1>1. Idle.pc \notin Settling \cup {"calc_mark"}
  BY IdleFits DEF Settling
<1>2. ASSUME NEW op \in Ops, NEW t \in Task, Begin(w, op, t)
      PROVE  /\ UNCHANGED <<run, record, advance, vp, carry, crashes>> /\ task[w] = Idle
             /\ task'[w].pc = t.pc /\ task'[w].c = t.c
  BY <1>2 DEF Begin, dues, Typed, Tasks, Task
<1>3. ASSUME NEW op \in Ops, NEW t \in Task, Begin(w, op, t), t.pc \notin Bearing PROVE Agree(w)'
  <2>1. VariablePaySettled'
    BY <1>2, <1>3, SettledKept DEF Agree
  <2> QED
    BY <1>1, <1>2, <1>3, <2>1, Aside
<1>4. ASSUME NEW op \in Ops, NEW t \in Task, Begin(w, op, t), t.pc \in {"carry_target", "advance_insert", "advance_decide"},
             t.pc = "carry_target" => carry[t.c].status = "None",
             t.pc = "advance_insert" => advance.status \in {"None", "Rejected"},
             t.pc = "advance_decide" => advance.status = "Pending"
      PROVE  Agree(w)'
  <2>1. VariablePaySettled'
    BY <1>2, <1>4, SettledKept DEF Agree
  <2>2. t.pc \notin Settling \cup Gathered
    BY <1>4 DEF Settling, Gathered
  <2>3. Knows(task'[w], run, record, advance, carry)
    BY <1>2, <1>4, <2>2, Groups DEF Knows
  <2>4. Due(task'[w], record) = Due(task[w], record)
    BY <1>1, <1>2, <1>4, <2>2, NothingDue
  <2> QED
    BY <1>1, <1>2, <1>4, <2>1, <2>3, <2>4, Looked
<1>5. /\ run \in [Periods -> Run] /\ record \in [Periods -> Record] /\ policy \in Policy
  BY PayrollAssumption DEF Typed, DocsTyped, RunTyped, RecordTyped, PolicyTyped
<1>6. {"create_write", "calc_lock", "line_write", "submit_lock", "sign_read", "lock_write",
       "attendance_write", "attendance_run", "vp_save", "vp_record", "vp_decide"} \subseteq PCs \ Bearing
  BY DEF PCs, Bearing, Settling, Gathered, Correcting
<1> USE OpsAre
<1>7. CASE StartCreate(w) \/ StartCalculate(w) \/ StartLock(w) \/ StartUnlockMonth(w)
  <2>1. PICK p \in Periods, pc \in {"create_write", "calc_lock", "lock_write", "attendance_run"},
             op \in {"create", "calculate", "lock", "unlock-month"} :
               Begin(w, op, [Idle EXCEPT !.pc = pc, !.p = p])
    BY <1>7 DEF StartCreate, StartCalculate, StartLock, StartUnlockMonth
  <2>2. [Idle EXCEPT !.pc = pc, !.p = p] \in Task /\ [Idle EXCEPT !.pc = pc, !.p = p].pc = pc
    BY <1>6, IdleFits DEF Task
  <2> QED
    BY <1>3, <1>6, <2>1, <2>2
<1>8. CASE StartLockMonth(w)
  <2>1. PICK p \in Periods : Begin(w, "lock-month", [Idle EXCEPT !.pc = "attendance_write", !.p = p, !.ok = TRUE])
    BY <1>8 DEF StartLockMonth
  <2> DEFINE t == [Idle EXCEPT !.pc = "attendance_write", !.p = p, !.ok = TRUE]
  <2>2. t \in Task /\ t.pc = "attendance_write"
    BY <1>6, IdleFits DEF Task
  <2> QED
    BY <1>3, <1>6, <2>1, <2>2
<1>9. CASE StartSaveVp(w)
  <2>1. [Idle EXCEPT !.pc = "vp_save"] \in Task /\ [Idle EXCEPT !.pc = "vp_save"].pc = "vp_save"
    BY <1>6, IdleFits DEF Task
  <2> QED
    BY <1>3, <1>6, <1>9, <2>1 DEF StartSaveVp
<1>10. CASE StartCalculateVp(w) \/ StartDecideVp(w)
  <2>1. PICK ok \in BOOLEAN, pc \in {"vp_record", "vp_decide"}, op \in {"calculate-vp", "decide-vp"} :
           Begin(w, op, [Idle EXCEPT !.pc = pc, !.ok = ok])
    BY <1>10 DEF StartCalculateVp, StartDecideVp
  <2>2. [Idle EXCEPT !.pc = pc, !.ok = ok] \in Task /\ [Idle EXCEPT !.pc = pc, !.ok = ok].pc = pc
    BY <1>6, IdleFits DEF Task
  <2> QED
    BY <1>3, <1>6, <2>1, <2>2
<1>11. CASE StartSubmit(w)
  <2>1. PICK p \in Periods, who \in People :
            Begin(w, "submit", [Idle EXCEPT !.pc = "submit_lock", !.p = p, !.who = who, !.r = run[p]])
    BY <1>11 DEF StartSubmit
  <2> DEFINE t == [Idle EXCEPT !.pc = "submit_lock", !.p = p, !.who = who, !.r = run[p]]
  <2>2. t \in Task /\ t.pc = "submit_lock"
    BY <1>5, <1>6, IdleFits DEF Task, Who
  <2> QED
    BY <1>3, <1>6, <2>1, <2>2
<1>12. CASE StartSign(w)
  <2>1. PICK op \in {"check", "decide"}, p \in Periods, who \in People, pass \in BOOLEAN :
            Begin(w, op, [Idle EXCEPT !.pc = "sign_read", !.p = p, !.who = who, !.ok = pass, !.rule = policy])
    BY <1>12 DEF StartSign
  <2> DEFINE t == [Idle EXCEPT !.pc = "sign_read", !.p = p, !.who = who, !.ok = pass, !.rule = policy]
  <2>2. t \in Task /\ t.pc = "sign_read"
    BY <1>5, <1>6, IdleFits DEF Task, Who
  <2> QED
    BY <1>3, <1>6, <2>1, <2>2
<1>13. ASSUME NEW p \in Periods, NEW l \in Line, NEW op \in Ops,
              Begin(w, op, [Idle EXCEPT !.pc = "line_write", !.p = p, !.rec.line = l])
       PROVE  Agree(w)'
  <2> DEFINE t == [Idle EXCEPT !.pc = "line_write", !.p = p, !.rec.line = l]
  <2>2. t \in Task /\ t.pc = "line_write"
    BY <1>6, IdleFits DEF Task, Record
  <2> QED
    BY <1>3, <1>6, <1>13, <2>2
<1>14. CASE StartApproveLine(w)
  <2>1. PICK p \in Periods :
            Begin(w, "approve-line", [Idle EXCEPT !.pc = "line_write", !.p = p, !.rec.line = [record[p].line EXCEPT !.status = "Approved"]])
    BY <1>14 DEF StartApproveLine
  <2>2. [record[p].line EXCEPT !.status = "Approved"] \in Line
    BY <1>5 DEF Record, Line
  <2> QED
    BY <1>13, <2>1, <2>2
<1>15. CASE StartLine(w)
  <2>1. PICK p \in Periods, who \in People, post \in {"none", "new", "same"} :
            Begin(w, "line", [Idle EXCEPT !.pc = "line_write", !.p = p,
                !.rec.line = IF post = "none" THEN NoLine
                             ELSE [status |-> IF post = "same" /\ record[p].line.status = "Approved"
                                              THEN "Approved" ELSE "Pending",
                                   by |-> who]])
    BY <1>15 DEF StartLine
  <2> DEFINE l == IF post = "none" THEN NoLine
                  ELSE [status |-> IF post = "same" /\ record[p].line.status = "Approved"
                                   THEN "Approved" ELSE "Pending",
                        by |-> who]
  <2>2. l \in Line
    BY NoRecordFits DEF Line, Who
  <2>3. Begin(w, "line", [Idle EXCEPT !.pc = "line_write", !.p = p, !.rec.line = l])
    BY <2>1
  <2> HIDE DEF l
  <2> QED
    BY <1>13, <2>2, <2>3
<1>16. CASE StartPostLock(w)
  <2>1. PICK target \in Periods, c \in Carries :
           /\ carry[c].status = "None"
           /\ Begin(w, "post-lock", [Idle EXCEPT !.pc = "carry_target", !.p = target, !.c = c])
    BY <1>16 DEF StartPostLock
  <2> DEFINE t == [Idle EXCEPT !.pc = "carry_target", !.p = target, !.c = c]
  <2>2. t \in Task /\ t.pc = "carry_target" /\ t.c = c
    BY IdleFits DEF Task, PCs
  <2> HIDE DEF t
  <2> QED
    BY <1>4, <2>1, <2>2 DEF t
<1>17. CASE StartAdvance(w)
  <2> DEFINE t == [Idle EXCEPT !.pc = "advance_insert"]
  <2>2. t \in Task /\ t.pc = "advance_insert"
    BY IdleFits DEF Task, PCs
  <2>3. advance.status \in {"None", "Rejected"} /\ Begin(w, "advance", t)
    BY <1>17 DEF StartAdvance
  <2> HIDE DEF t
  <2> QED
    BY <1>4, <2>2, <2>3
<1>18. CASE StartActAdvance(w)
  <2>1. PICK ok \in BOOLEAN : Begin(w, "act-advance", [Idle EXCEPT !.pc = "advance_decide", !.ok = ok])
    BY <1>18 DEF StartActAdvance
  <2> DEFINE t == [Idle EXCEPT !.pc = "advance_decide", !.ok = ok]
  <2>2. t \in Task /\ t.pc = "advance_decide"
    BY IdleFits DEF Task, PCs
  <2>3. advance.status = "Pending" /\ Begin(w, "act-advance", t)
    BY <1>18, <2>1 DEF StartActAdvance
  <2> HIDE DEF t
  <2> QED
    BY <1>4, <2>2, <2>3
<1> QED
  BY <1>7, <1>8, <1>9, <1>10, <1>11, <1>12, <1>14, <1>15, <1>16, <1>17, <1>18 DEF Starts

\* Steps that only look, or whose writes settle nothing.
LEMMA LooksAgree ==
    ASSUME Typed, NEW w \in Workers, Agree(w),
           \/ CalcLock(w) \/ SubmitLock(w) \/ SubmitLines(w) \/ SignRead(w) \/ AttendanceRun(w)
           \/ AttendanceWrite(w) \/ SaveVp(w) \/ VpRecord(w) \/ VpQuarter(w) \/ VpDecide(w)
           \/ VpApprove(w) \/ VpHold(w)
    PROVE  Agree(w)'
<1>1. task[w].pc \notin Settling \cup {"calc_mark"}
  BY DEF CalcLock, SubmitLock, SubmitLines, SignRead, AttendanceRun, AttendanceWrite, SaveVp, VpRecord,
         VpQuarter, VpDecide, VpApprove, VpHold, At, Settling
<1>2. UNCHANGED <<run, record, advance, carry, crashes>>
  BY DEF CalcLock, SubmitLock, SubmitLines, SignRead, AttendanceRun, AttendanceWrite, SaveVp, VpRecord,
         VpQuarter, VpDecide, VpApprove, VpHold, ReadOnly, dues
<1>3. {"calc_carry", "submit_lines", "submit_write", "sign_write", "attendance_write", "vp_quarter",
       "vp_approve", "vp_hold"} \subseteq PCs \ Bearing
  BY DEF PCs, Bearing, Settling, Gathered, Correcting
<1>4. CASE Finish(w) \/ \E pc \in PCs \ Bearing : Goto(w, pc)
  <2>1. task'[w].pc \notin Bearing
    BY <1>4, DoneWith, GoneWith
  <2>2. CASE vp'.paid \in {0, vp.paid}
    <3>1. VariablePaySettled'
      BY <1>2, <2>2 DEF Agree, VariablePaySettled, Locked
    <3> QED
      BY <1>1, <1>2, <2>1, <3>1, Aside
  <2>3. vp'.paid \in {0, vp.paid}
    <3>1. vp \in Vp
      BY DEF Typed, DocsTyped, DuesTyped
    <3>2. CASE SaveVp(w)
      BY <3>2 DEF SaveVp
    <3>3. CASE VpRecord(w)
      BY <3>1, <3>3 DEF VpRecord, Vp
    <3>4. CASE VpApprove(w)
      BY <3>1, <3>4 DEF VpApprove, Vp
    <3>5. CASE ~(SaveVp(w) \/ VpRecord(w) \/ VpApprove(w))
      <4>1. vp' = vp
        BY <3>5 DEF CalcLock, SubmitLock, SubmitLines, SignRead, AttendanceRun, AttendanceWrite, VpQuarter,
           VpDecide, VpHold, ReadOnly, dues
      <4> QED
        BY <4>1
    <3> QED
      BY <3>2, <3>3, <3>4, <3>5
  <2> QED
    BY <2>2, <2>3
<1>5. CASE ~(Finish(w) \/ \E pc \in PCs \ Bearing : Goto(w, pc))
  <2>1. CalcLock(w) \/ SignRead(w)
    BY <1>3, <1>5 DEF CalcLock, SubmitLock, SubmitLines, SignRead, AttendanceRun, AttendanceWrite, SaveVp, VpRecord,
         VpQuarter, VpDecide, VpApprove, VpHold
  <2>2. VariablePaySettled'
    BY <2>1, SettledKept DEF CalcLock, SignRead, ReadOnly, dues, Agree
  <2>3. task[w] \in Task /\ DOMAIN task = Workers
    BY Carried DEF Typed, Tasks
  <2>4. CASE CalcLock(w)
    <3>1. task' = [task EXCEPT ![w].pc = "calc_carry", ![w].r.basis = att[task[w].p].stamp,
                               ![w].rec.line = record[task[w].p].line]
      BY <1>5, <2>4 DEF CalcLock
    <3>2. task'[w].pc = "calc_carry"
      BY <2>3, <3>1 DEF Task
    <3> QED
      BY <1>1, <1>2, <1>3, <2>2, <3>2, Aside
  <2>5. CASE SignRead(w)
    <3>1. task' = [task EXCEPT ![w].pc = "sign_write", ![w].r = run[task[w].p]]
      BY <1>5, <2>5 DEF SignRead
    <3>2. task'[w].pc = "sign_write"
      BY <2>3, <3>1 DEF Task
    <3> QED
      BY <1>1, <1>2, <1>3, <2>2, <3>2, Aside
  <2> QED
    BY <2>1, <2>4, <2>5
<1> QED
  BY <1>4, <1>5

\* A rebuild reads what is owed, and relies on it until its records are marked.
LEMMA GathersAgree ==
    ASSUME Typed, NEW w \in Workers, Agree(w), CalcCarry(w) \/ CalcAdvance(w) \/ CalcVp(w)
    PROVE  Agree(w)'
<1> DEFINE t == task[w]
           u == task'[w]
<1>1. t \in Task /\ DOMAIN task = Workers /\ Knows(t, run, record, advance, carry)
  BY Carried DEF Typed, Tasks, Agree
<1>2. /\ t.pc \in {"calc_carry", "calc_advance", "calc_vp"} /\ ReadOnly
      /\ UNCHANGED <<run, record, advance, vp, carry, crashes>>
  BY DEF CalcCarry, CalcAdvance, CalcVp, At, ReadOnly, dues
<1>3. VariablePaySettled'
  BY <1>2, SettledKept DEF Agree
<1>4. t.pc \notin Settling /\ t.pc # "calc_mark"
  BY <1>2 DEF Settling
<1>5. ASSUME u.pc \in {"calc_delete", "calc_vp", "calc_insert"},
             \A c \in u.carries : carry[c].target = u.p /\ carry[c].status \in {"Pending", "Included"},
             u.pc \in {"calc_vp", "calc_insert"} /\ u.rec.recovers = 1 => advance.status \notin Unpaid
      PROVE  Agree(w)'
  <2>1. u.pc \notin Settling \cup Correcting
    BY <1>5 DEF Settling, Correcting
  <2>2. Knows(u, run, record, advance, carry)
    BY <1>5, <2>1, Groups DEF Knows
  <2>3. Due(u, record) = Due(t, record)
    BY <1>4, <2>1, NothingDue
  <2> QED
    BY <1>2, <1>3, <1>4, <2>2, <2>3, Looked
<1>6. CASE CalcCarry(w)
  <2> DEFINE cs == {c \in Carries : carry[c].target = t.p /\ carry[c].status \in {"Pending", "Included"}}
  <2>1. task' = [task EXCEPT ![w].pc = "calc_delete", ![w].carries = cs]
    BY <1>6 DEF CalcCarry
  <2>2. \A c \in cs : carry[c].target = t.p /\ carry[c].status \in {"Pending", "Included"}
    OBVIOUS
  <2> HIDE DEF cs
  <2>3. u.pc = "calc_delete" /\ u.p = t.p /\ u.carries = cs
    BY <1>1, <2>1 DEF Task
  <2> QED
    BY <1>5, <2>2, <2>3
<1>7. CASE CalcAdvance(w)
  <2> DEFINE n == IF advance.status = "Recovering" /\ advance.recovered = 0 THEN 1 ELSE 0
  <2>1. task' = [task EXCEPT ![w].pc = "calc_vp", ![w].rec.recovers = n]
    BY <1>7 DEF CalcAdvance
  <2>2. n = 1 => advance.status \notin Unpaid
    BY DEF Unpaid
  <2> HIDE DEF n
  <2>3. u.pc = "calc_vp" /\ u.p = t.p /\ u.carries = t.carries /\ u.rec.recovers = n
    BY <1>1, <2>1 DEF Task, Record
  <2>4. t.pc \in Gathered
    BY <1>7 DEF CalcAdvance, At, Gathered
  <2> QED
    BY <1>1, <1>5, <2>2, <2>3, <2>4 DEF Knows
<1>8. CASE CalcVp(w)
  <2>1. \E b \in BOOLEAN : task' = [task EXCEPT ![w].pc = "calc_insert", ![w].rec.pays = b]
    <3>1. (vp.status = "Approved" /\ vp.paid = 0) \in BOOLEAN
      OBVIOUS
    <3>2. task' = [task EXCEPT ![w].pc = "calc_insert", ![w].rec.pays = (vp.status = "Approved" /\ vp.paid = 0)]
      BY <1>8 DEF CalcVp
    <3> QED
      BY <3>1, <3>2, Zenon
  <2>2. PICK b \in BOOLEAN : task' = [task EXCEPT ![w].pc = "calc_insert", ![w].rec.pays = b]
    BY <2>1
  <2>3. u.pc = "calc_insert" /\ u.p = t.p /\ u.carries = t.carries /\ u.rec.recovers = t.rec.recovers
    BY <1>1, <2>2 DEF Task, Record
  <2>4. t.pc \in Gathered /\ t.pc = "calc_vp"
    BY <1>8 DEF CalcVp, At, Gathered
  <2> QED
    BY <1>1, <1>5, <2>3, <2>4 DEF Knows
<1> QED
  BY <1>6, <1>7, <1>8

LEMMA RecordsAgree ==
    ASSUME Typed, NEW w \in Workers, Agree(w), Stands(task[w], run, record),
           CalcDelete(w) \/ CalcInsert(w) \/ LineWrite(w)
    PROVE  Agree(w)'
<1> DEFINE t == task[w]
           u == task'[w]
           p == t.p
<1>1. t \in Task /\ Fit(t) /\ record \in [Periods -> Record] /\ Knows(t, run, record, advance, carry)
  BY Carried DEF Typed, DocsTyped, RecordTyped, Agree
<1>2. /\ t.pc \in {"calc_delete", "calc_insert", "line_write"}
      /\ UNCHANGED <<run, advance, vp, carry, crashes>>
  BY DEF CalcDelete, CalcInsert, LineWrite, At, dues
<1>3. p \in Periods /\ run[p].status # "Locked" /\ t.pc \notin Settling \cup {"calc_mark"}
  BY <1>1, <1>2 DEF Fit, Elsewhere, Stands, Calculating, Editable, Settling
<1>4. ASSUME NEW d \in Record, record' = [record EXCEPT ![p] = d],
             advance.status \in Unpaid => d.recovers = 0,
             \A c \in d.carried : /\ p = carry[c].target /\ carry[c].status # "None"
                                  /\ \/ crashes = 0 => carry[c].status = "Included"
                                     \/ u.p = p /\ u.pc = "calc_mark",
             u.pc \notin Settling, Knows(u, run, record', advance, carry)
      PROVE  Agree(w)'
  BY <1>2, <1>3, <1>4, OpenRecordWritten
<1>5. CASE CalcDelete(w)
  <2>1. record' = [record EXCEPT ![p] = NoRecord] /\ Goto(w, "calc_advance") /\ "calc_advance" \in PCs
    BY <1>5 DEF CalcDelete, PCs
  <2>2. u.pc = "calc_advance" /\ u.p = p /\ u.carries = t.carries
    BY <2>1, GoneWith
  <2>3. NoRecord.recovers = 0 /\ NoRecord.carried = {}
    BY DEF NoRecord
  <2>4. u.pc \notin Settling \cup Correcting /\ t.pc \in Gathered
    BY <1>5, <2>2 DEF Settling, Correcting, CalcDelete, At, Gathered
  <2>5. Knows(u, run, record', advance, carry)
    BY <1>1, <2>2, <2>4 DEF Knows
  <2> QED
    BY <1>4, <2>1, <2>3, <2>4, <2>5, NoRecordFits
<1>6. CASE CalcInsert(w)
  <2> DEFINE d == [t.rec EXCEPT !.made = TRUE, !.carried = t.carries]
  <2>1. record' = [record EXCEPT ![p] = d] /\ Goto(w, "calc_mark") /\ "calc_mark" \in PCs
    BY <1>6 DEF CalcInsert, PCs
  <2>2. d \in Record /\ d.recovers = t.rec.recovers /\ d.recovers \in {0, 1} /\ d.carried = t.carries
    BY <1>1 DEF Task, Record
  <2> HIDE DEF d
  <2>3. u.pc = "calc_mark" /\ u.p = p /\ u.carries = t.carries /\ record'[p] = d
    BY <1>1, <1>3, <2>1, GoneWith
  <2>4. u.pc \notin Settling \cup Correcting /\ t.pc \in Gathered /\ t.pc = "calc_insert"
    BY <1>6, <2>3 DEF Settling, Correcting, CalcInsert, At, Gathered
  <2>5. Knows(u, run, record', advance, carry)
    BY <1>1, <2>2, <2>3, <2>4 DEF Knows
  <2>6. advance.status \in Unpaid => d.recovers = 0
    BY <1>1, <2>2, <2>4 DEF Knows
  <2>7. \A c \in d.carried : p = carry[c].target /\ carry[c].status # "None"
    BY <1>1, <2>2, <2>4 DEF Knows
  <2> QED
    BY <1>4, <2>1, <2>2, <2>3, <2>4, <2>5, <2>6, <2>7
<1>7. CASE LineWrite(w)
  <2> DEFINE d == [record[p] EXCEPT !.line = t.rec.line]
  <2>1. record' = [record EXCEPT ![p] = d] /\ Finish(w) /\ t.pc = "line_write"
    BY <1>7 DEF LineWrite, At
  <2>2. d \in Record /\ d.recovers = record[p].recovers /\ d.carried = record[p].carried /\ d.carried \in SUBSET Carries
    BY <1>1, <1>3 DEF Task, Record
  <2> HIDE DEF d
  <2>3. u.pc \notin Bearing
    BY <2>1, DoneWith
  <2>4. Knows(u, run, record', advance, carry) /\ u.pc \notin Settling
    BY <2>3, Unbearing, Groups
  <2>5. advance.status \in Unpaid => d.recovers = 0
    BY <1>3, <2>2 DEF Agree, AdvanceBooked
  <2>6. \A c \in d.carried : /\ p = carry[c].target /\ carry[c].status # "None"
                             /\ crashes = 0 => carry[c].status = "Included"
    BY <1>3, <2>1, <2>2 DEF Agree, CarryBooked
  <2> QED
    BY <1>4, <2>1, <2>2, <2>4, <2>5, <2>6
<1> QED
  BY <1>2, <1>5, <1>6, <1>7

LEMMA RunsAgree ==
    ASSUME Typed, NEW w \in Workers, Agree(w), Stands(task[w], run, record),
           CreateWrite(w) \/ CalcWrite(w) \/ SubmitWrite(w) \/ SignWrite(w)
    PROVE  Agree(w)'
<1> DEFINE t == task[w]
           p == t.p
<1>1. Fit(t) /\ run \in [Periods -> Run]
  BY Carried DEF Typed, DocsTyped, RunTyped
<1>2. /\ t.pc \in {"create_write", "calc_write", "submit_write", "sign_write"} /\ Finish(w)
      /\ UNCHANGED <<record, advance, vp, carry, crashes>>
  BY DEF CreateWrite, CalcWrite, SubmitWrite, SignWrite, At, dues
<1>3. p \in Periods /\ t.pc \notin Settling \cup {"calc_mark"}
  BY <1>1, <1>2 DEF Fit, Elsewhere, Settling
<1>4. run[p] \in Run /\ run[p].status # "Locked"
  <2>1. CASE CreateWrite(w)
    BY <1>1, <1>3, <2>1 DEF CreateWrite
  <2>2. CASE ~CreateWrite(w)
    <3>1. t.pc \in Calculating \cup Submitting \cup Signing
      BY <2>2 DEF CalcWrite, SubmitWrite, SignWrite, At, Calculating, Submitting, Signing
    <3> QED
      BY <1>1, <1>3, <3>1 DEF Stands, Editable
  <2> QED
    BY <2>1, <2>2
<1>5. ASSUME NEW d, run' = [run EXCEPT ![p] = d], d.status # "Locked" PROVE Agree(w)'
  BY <1>2, <1>3, <1>4, <1>5, DoneWith, OpenRunWritten
<1>6. CASE CreateWrite(w)
  <2> DEFINE d == [run[p] EXCEPT !.status = "Draft"]
  <2>1. run' = [run EXCEPT ![p] = d]
    BY <1>6 DEF CreateWrite
  <2>2. d.status # "Locked"
    BY <1>4 DEF Run
  <2> HIDE DEF d
  <2> QED
    BY <1>5, <2>1, <2>2
<1>7. CASE CalcWrite(w)
  <2> DEFINE d == [run[p] EXCEPT !.status = "Calculated", !.basis = t.r.basis]
  <2>1. run' = [run EXCEPT ![p] = d]
    BY <1>7 DEF CalcWrite
  <2>2. d.status # "Locked"
    BY <1>4 DEF Run
  <2> HIDE DEF d
  <2> QED
    BY <1>5, <2>1, <2>2
<1>8. CASE SubmitWrite(w)
  <2> DEFINE d == [run[p] EXCEPT !.status = "Submitted", !.by = t.who, !.stage = 0, !.approvers = {}]
  <2>1. run' = [run EXCEPT ![p] = d]
    BY <1>8 DEF SubmitWrite
  <2>2. d.status # "Locked"
    BY <1>4 DEF Run
  <2> HIDE DEF d
  <2> QED
    BY <1>5, <2>1, <2>2
<1>9. CASE SignWrite(w)
  <2> DEFINE st == IF ~t.ok THEN "Returned" ELSE IF Final(t, t.r) THEN "Approved" ELSE "Checked"
             passes == t.rule.stages > 0 /\ t.ok
             dec == IF Decides(t, t.r) THEN t.who ELSE run[p].decided
             chk == IF Decides(t, t.r) THEN run[p].checked ELSE t.who
             stg == IF passes THEN Stage(t.r) + 1 ELSE run[p].stage
             app == IF passes THEN t.r.approvers \cup {t.who} ELSE run[p].approvers
             d == [run[p] EXCEPT !.status = st, !.decided = dec, !.checked = chk, !.stage = stg,
                                 !.approvers = app]
  <2>1. run' = [run EXCEPT ![p] = d]
    BY <1>9 DEF SignWrite
  <2>2. st # "Locked"
    OBVIOUS
  <2> HIDE DEF st, dec, chk, stg, app
  <2>3. d.status = st
    BY <1>4 DEF Run
  <2> HIDE DEF d
  <2> QED
    BY <1>5, <2>1, <2>2, <2>3
<1> QED
  BY <1>6, <1>7, <1>8, <1>9

\* lock_run: the lock puts the month's deduction among those taken, and it stays
\* due until it is added to the advance.
LEMMA TakenBy ==
    ASSUME Typed, NEW p \in Periods, run[p].status # "Locked", run'[p].status = "Locked",
           \A q \in Periods \ {p} : run'[q] = run[q], record[p].recovers \in {0, 1}
    PROVE  /\ Cardinality(Taken(run, record)) \in Nat
           /\ Cardinality(Taken(run', record)) = Cardinality(Taken(run, record)) + record[p].recovers
<1>1. IsFiniteSet(Taken(run, record))
  <2>1. Taken(run, record) \in SUBSET Periods
    BY DEF Taken
  <2> QED
    BY <2>1, PayrollAssumption, FS_Subset
<1>2. Cardinality(Taken(run, record)) \in Nat
  BY <1>1, FS_CardinalityType
<1>3. p \notin Taken(run, record)
  BY DEF Taken
<1>4. CASE record[p].recovers = 1
  <2>1. Taken(run', record) = Taken(run, record) \cup {p}
    BY <1>4 DEF Taken
  <2> QED
    BY <1>1, <1>2, <1>3, <1>4, <2>1, FS_AddElement
<1>5. CASE record[p].recovers = 0
  <2>1. Taken(run', record) = Taken(run, record)
    BY <1>5 DEF Taken
  <2> QED
    BY <1>2, <1>5, <2>1
<1> QED
  BY <1>2, <1>4, <1>5

LEMMA LockAgrees ==
    ASSUME Typed, NEW w \in Workers, Agree(w), Stands(task[w], run, record), LockWrite(w) PROVE Agree(w)'
<1> DEFINE t == task[w]
           u == task'[w]
           p == t.p
<1>1. /\ Fit(t) /\ run \in [Periods -> Run] /\ record \in [Periods -> Record] /\ t.pc = "lock_write"
      /\ advance \in Advance
  BY Carried DEF Typed, DocsTyped, RunTyped, RecordTyped, LockWrite, At, DuesTyped
<1>2. p \in Periods /\ run[p].status = "Approved" /\ run[p] \in Run /\ record[p].recovers \in {0, 1}
  BY <1>1 DEF Fit, Elsewhere, Stands, Record
<1>3. /\ run' = [run EXCEPT ![p].status = "Locked"] /\ Goto(w, "lock_records") /\ "lock_records" \in PCs
      /\ UNCHANGED <<record, advance, vp, carry, crashes>>
  BY DEF LockWrite, dues, PCs
<1>4. run'[p].status = "Locked" /\ \A q \in Periods \ {p} : run'[q] = run[q]
  BY <1>1, <1>2, <1>3 DEF Run
<1>5. u.pc = "lock_records" /\ u.p = p
  BY <1>3, GoneWith
<1>6. "lock_records" \in Settling /\ "lock_write" \notin Settling
  BY DEF Settling
<1>7. Due(t, record) = 0 /\ Due(u, record) = record[p].recovers
  BY <1>1, <1>5, <1>6, NothingDue DEF Due
<1>8. AdvanceBooked(u, run', record, advance, crashes)
  <2>1. /\ Cardinality(Taken(run, record)) \in Nat
        /\ Cardinality(Taken(run', record)) = Cardinality(Taken(run, record)) + record[p].recovers
    BY <1>2, <1>4, TakenBy
  <2>2. advance.recovered \in Nat
    BY <1>1 DEF Advance
  <2>3. AdvanceBooked(t, run, record, advance, crashes)
    BY DEF Agree
  <2> QED
    BY <1>2, <1>7, <2>1, <2>2, <2>3 DEF AdvanceBooked
<1>9. CarryBooked(u, run', record, carry, crashes)
  <2> SUFFICES ASSUME NEW c \in Carries, NEW q \in Periods
               PROVE  /\ c \in record[q].carried => q = carry[c].target /\ carry[c].status # "None"
                      /\ carry[c].status = "Applied" /\ q = carry[c].target
                            => run'[q].status = "Locked" /\ c \in record[q].carried
                      /\ crashes = 0 /\ c \in record[q].carried =>
                            \/ carry[c].status = IF run'[q].status = "Locked" THEN "Applied" ELSE "Included"
                            \/ u.p = q /\ u.pc = "calc_mark"
                            \/ u.p = q /\ u.pc \in Settling /\ carry[c].status = "Included"
    BY DEF CarryBooked
  <2>1. CASE q = p
    BY <1>1, <1>2, <1>4, <1>5, <1>6, <2>1 DEF Agree, CarryBooked
  <2>2. CASE q # p
    BY <1>1, <1>4, <1>6, <2>2 DEF Agree, CarryBooked
  <2> QED
    BY <2>1, <2>2
<1>10. VariablePaySettled'
  BY <1>2, <1>3, <1>4 DEF Agree, VariablePaySettled, Locked, Typed, DocsTyped, DuesTyped, Vp
<1>11. u.pc \notin Gathered \cup Correcting
  BY <1>5 DEF Gathered, Correcting
<1>12. Knows(u, run', record, advance, carry)
  BY <1>4, <1>5, <1>11 DEF Knows
<1> QED
  BY <1>3, <1>8, <1>9, <1>10, <1>12 DEF Agree

LEMMA SettlesAgree ==
    ASSUME Typed, NEW w \in Workers, Agree(w), LockRecords(w) \/ AdvanceRead(w) \/ VpPaid(w)
    PROVE  Agree(w)'
<1> DEFINE t == task[w]
           u == task'[w]
           p == t.p
<1>1. /\ t \in Task /\ Fit(t) /\ record \in [Periods -> Record] /\ DOMAIN task = Workers
      /\ Knows(t, run, record, advance, carry) /\ t.pc \in {"lock_records", "advance_read", "vp_paid"}
  BY Carried DEF Typed, DocsTyped, RecordTyped, Tasks, Agree, LockRecords, AdvanceRead, VpPaid, At
<1>2. p \in Periods /\ record[p] \in Record /\ t.pc \in Settling /\ run[p].status = "Locked" /\ t.pc # "calc_mark"
  BY <1>1 DEF Fit, Elsewhere, Settling, Knows
<1>3. UNCHANGED <<run, record, advance, carry, crashes>>
  BY DEF LockRecords, AdvanceRead, VpPaid, ReadOnly, dues
<1>4. ASSUME u.pc \in {"advance_read", "advance_write", "vp_paid", "carry_applied"}, u.p = p, u.rec = record[p],
             u.carries = record[p].carried, u.pc \in {"advance_read", "advance_write"} => record[p].recovers = 1,
             u.pc = "advance_write" => u.n = advance.recovered + 1, VariablePaySettled',
             Due(u, record) = Due(t, record)
      PROVE  Agree(w)'
  <2>1. u.pc \in Settling /\ u.pc \notin Gathered \cup Correcting
    BY <1>4 DEF Settling, Gathered, Correcting
  <2>2. Knows(u, run, record, advance, carry)
    BY <1>2, <1>4, <2>1 DEF Knows
  <2> QED
    BY <1>2, <1>3, <1>4, <2>1, <2>2, Looked
<1>5. CASE LockRecords(w)
  <2> DEFINE pc == IF record[p].recovers > 0 THEN "advance_read" ELSE "vp_paid"
  <2>1. task' = [task EXCEPT ![w].rec = record[p], ![w].carries = record[p].carried, ![w].pc = pc]
    BY <1>5 DEF LockRecords
  <2>2. /\ pc \in {"advance_read", "vp_paid"} /\ record[p].recovers \in {0, 1}
        /\ pc = "advance_read" <=> record[p].recovers = 1
    BY <1>2 DEF Record
  <2> HIDE DEF pc
  <2>3. u.pc = pc /\ u.p = p /\ u.rec = record[p] /\ u.carries = record[p].carried
    BY <1>1, <2>1 DEF Task
  <2>4. VariablePaySettled'
    BY <1>5, SettledKept DEF LockRecords, ReadOnly, dues, Agree
  <2>5. t.pc = "lock_records"
    BY <1>5 DEF LockRecords, At
  <2>6. Due(u, record) = Due(t, record)
    BY <2>2, <2>3, <2>5 DEF Due
  <2> QED
    BY <1>4, <2>2, <2>3, <2>4, <2>6
<1>6. CASE AdvanceRead(w)
  <2>1. task' = [task EXCEPT ![w].pc = "advance_write", ![w].n = advance.recovered + t.rec.recovers]
    BY <1>6 DEF AdvanceRead
  <2>2. t.pc = "advance_read"
    BY <1>6 DEF AdvanceRead, At
  <2>3. t.rec = record[p] /\ t.carries = record[p].carried /\ record[p].recovers = 1
    BY <1>1, <1>2, <2>2 DEF Knows
  <2>4. /\ u.pc = "advance_write" /\ u.p = p /\ u.rec = record[p] /\ u.carries = record[p].carried
        /\ u.n = advance.recovered + 1
    BY <1>1, <2>1, <2>3 DEF Task
  <2>5. VariablePaySettled'
    BY <1>6, SettledKept DEF AdvanceRead, ReadOnly, dues, Agree
  <2>6. Due(u, record) = Due(t, record)
    BY <2>2, <2>4 DEF Due
  <2> QED
    BY <1>4, <2>3, <2>4, <2>5, <2>6
<1>7. CASE VpPaid(w)
  <2>1. t.pc = "vp_paid" /\ Goto(w, "carry_applied") /\ "carry_applied" \in PCs
    BY <1>7 DEF VpPaid, At, PCs
  <2>2. t.rec = record[p] /\ t.carries = record[p].carried
    BY <1>1, <1>2, <2>1 DEF Knows
  <2>3. u.pc = "carry_applied" /\ u.p = p /\ u.rec = record[p] /\ u.carries = record[p].carried
    BY <2>1, <2>2, GoneWith
  <2>4. VariablePaySettled'
    <3>1. vp \in Vp /\ VariablePaySettled
      BY DEF Typed, DocsTyped, DuesTyped, Agree
    <3>2. CASE record[p].pays
      <4>1. vp' = [vp EXCEPT !.paid = p]
        BY <1>7, <2>2, <3>2 DEF VpPaid
      <4>2. vp'.paid = p
        BY <3>1, <4>1 DEF Vp
      <4> QED
        BY <1>2, <1>3, <3>2, <4>2 DEF VariablePaySettled, Locked
    <3>3. CASE ~record[p].pays
      <4>1. vp' = vp
        BY <1>7, <2>2, <3>3 DEF VpPaid
      <4> QED
        BY <1>3, <3>1, <4>1, SettledKept
    <3> QED
      BY <3>2, <3>3
  <2>5. Due(u, record) = Due(t, record)
    BY <2>1, <2>3 DEF Due
  <2> QED
    BY <1>4, <2>3, <2>4, <2>5
<1> QED
  BY <1>5, <1>6, <1>7

LEMMA AdvancesAgree ==
    ASSUME Typed, NEW w \in Workers, Agree(w), AdvanceWrite(w) \/ AdvanceInsert(w) \/ AdvanceDecide(w)
    PROVE  Agree(w)'
<1> DEFINE t == task[w]
           u == task'[w]
           p == t.p
<1>1. /\ Fit(t) /\ t \in Task /\ record \in [Periods -> Record] /\ advance \in Advance
      /\ Knows(t, run, record, advance, carry) /\ AdvanceBooked(t, run, record, advance, crashes)
  BY Carried DEF Typed, DocsTyped, RecordTyped, DuesTyped, Agree
<1>2. UNCHANGED <<run, record, vp, carry, crashes>>
  BY DEF AdvanceWrite, AdvanceInsert, AdvanceDecide
<1>3. VariablePaySettled'
  BY <1>2, SettledKept DEF Agree
<1>4. t.pc \in {"advance_write", "advance_insert", "advance_decide"}
  BY DEF AdvanceWrite, AdvanceInsert, AdvanceDecide, At
<1>5. ASSUME t.pc \in Settling => u.pc \in Settling /\ u.p = p PROVE CarryBooked(u, run, record, carry, crashes)
  BY <1>4, <1>5 DEF Agree, CarryBooked
<1>6. CASE AdvanceWrite(w)
  <2>1. /\ t.pc = "advance_write" /\ Goto(w, "vp_paid") /\ "vp_paid" \in PCs
        /\ advance' = [status |-> IF t.n >= 1 THEN "Closed" ELSE "Recovering", recovered |-> t.n]
    BY <1>6 DEF AdvanceWrite, At, PCs
  <2>2. p \in Periods /\ t.pc \in Settling
    BY <1>1, <2>1 DEF Fit, Elsewhere, Settling
  <2>3. /\ t.n = advance.recovered + 1 /\ record[p].recovers = 1 /\ run[p].status = "Locked"
        /\ t.rec = record[p] /\ t.carries = record[p].carried
    BY <1>1, <2>1, <2>2 DEF Knows
  <2>4. advance.recovered \in Nat
    BY <1>1 DEF Advance
  <2>5. advance'.status = "Closed" /\ advance'.recovered = advance.recovered + 1
    BY <2>1, <2>3, <2>4
  <2>6. /\ u.pc = "vp_paid" /\ u.p = p /\ u.rec = record[p] /\ u.carries = record[p].carried
    BY <2>1, <2>3, GoneWith
  <2>7. u.pc \in Settling /\ u.pc \notin Gathered \cup Correcting
    BY <2>6 DEF Settling, Gathered, Correcting
  <2>8. Knows(u, run, record, advance', carry)
    BY <2>3, <2>6, <2>7 DEF Knows
  <2>9. Due(u, record) = 0 /\ Due(t, record) = 1
    BY <2>1, <2>3, <2>6 DEF Due
  <2>10. AdvanceBooked(u, run, record, advance', crashes)
    BY <1>1, <2>4, <2>5, <2>9 DEF AdvanceBooked, Unpaid
  <2> QED
    BY <1>2, <1>3, <1>5, <2>6, <2>7, <2>8, <2>10 DEF Agree
<1>7. CASE AdvanceInsert(w) \/ AdvanceDecide(w)
  <2>1. t.pc \in {"advance_insert", "advance_decide"} /\ Finish(w)
    BY <1>7 DEF AdvanceInsert, AdvanceDecide, At
  <2>2. t.pc \notin Settling /\ u.pc \notin Bearing
    BY <2>1, DoneWith DEF Settling
  <2>3. Due(t, record) = 0 /\ Due(u, record) = 0 /\ Knows(u, run, record, advance', carry)
    BY <2>2, NothingDue, Unbearing, Groups
  <2>4. advance.status \in Unpaid
    BY <1>1, <2>1 DEF Knows, Unpaid
  <2>5. advance'.recovered = 0
    BY <1>1, <1>7, <2>4 DEF AdvanceInsert, AdvanceDecide, AdvanceBooked, Advance
  <2>6. AdvanceBooked(u, run, record, advance', crashes)
    BY <1>1, <2>3, <2>4, <2>5 DEF AdvanceBooked
  <2> QED
    BY <1>2, <1>3, <1>5, <2>2, <2>3, <2>6 DEF Agree
<1> QED
  BY <1>6, <1>7

\* An adjustment is raised, put on the payslips of its month, and settled.
LEMMA CarriesAgree ==
    ASSUME Typed, NEW w \in Workers, Agree(w), Stands(task[w], run, record),
           CalcMark(w) \/ CarryApplied(w) \/ CarryTarget(w) \/ CarryInsert(w)
    PROVE  Agree(w)'
<1> DEFINE t == task[w]
           u == task'[w]
           p == t.p
<1>1. /\ Fit(t) /\ record \in [Periods -> Record] /\ carry \in [Carries -> Carry]
      /\ Knows(t, run, record, advance, carry) /\ AdvanceBooked(t, run, record, advance, crashes)
      /\ CarryBooked(t, run, record, carry, crashes)
  BY Carried DEF Typed, DocsTyped, RecordTyped, DuesTyped, Agree
<1>2. UNCHANGED <<run, record, advance, vp, crashes>>
  BY DEF CalcMark, CarryApplied, CarryTarget, CarryInsert, ReadOnly, dues
<1>3. t.pc \in {"calc_mark", "carry_applied", "carry_target", "carry_insert"}
  BY DEF CalcMark, CarryApplied, CarryTarget, CarryInsert, At
<1>4. p \in Periods
  BY <1>1, <1>3 DEF Fit, Elsewhere
<1>5. VariablePaySettled'
  BY <1>2, SettledKept DEF Agree
<1>6. Due(t, record) = 0
  BY <1>3 DEF Due
<1>7. ASSUME u.pc \notin Bearing, CarryBooked(u, run, record, carry', crashes) PROVE Agree(w)'
  <2>1. Due(u, record) = 0 /\ Knows(u, run, record, advance, carry')
    BY <1>7, NothingDue, Unbearing, Groups
  <2>2. AdvanceBooked(u, run, record, advance, crashes)
    BY <1>1, <1>6, <2>1 DEF AdvanceBooked
  <2> QED
    BY <1>2, <1>5, <1>7, <2>1, <2>2 DEF Agree
<1>8. ASSUME NEW mark \in {"Included", "Applied"}, u.pc \notin Bearing,
             carry' = [c \in Carries |-> IF c \in t.carries THEN [carry[c] EXCEPT !.status = mark] ELSE carry[c]],
             t.pc \in {"calc_mark", "carry_applied"}, record[p].carried = t.carries,
             mark = IF run[p].status = "Locked" THEN "Applied" ELSE "Included"
      PROVE  Agree(w)'
  <2>1. \A c \in Carries : carry'[c] = IF c \in t.carries THEN [carry[c] EXCEPT !.status = mark] ELSE carry[c]
    BY <1>8
  <2>2. \A c \in Carries : /\ carry'[c].target = carry[c].target
                           /\ carry'[c].status = IF c \in t.carries THEN mark ELSE carry[c].status
    BY <1>1, <2>1 DEF Carry
  <2>3. CarryBooked(u, run, record, carry', crashes)
    <3> SUFFICES ASSUME NEW c \in Carries, NEW q \in Periods
                 PROVE  /\ c \in record[q].carried => q = carry'[c].target /\ carry'[c].status # "None"
                        /\ carry'[c].status = "Applied" /\ q = carry'[c].target
                              => run[q].status = "Locked" /\ c \in record[q].carried
                        /\ crashes = 0 /\ c \in record[q].carried =>
                              carry'[c].status = IF run[q].status = "Locked" THEN "Applied" ELSE "Included"
      BY DEF CarryBooked
    <3>1. CASE c \in t.carries
      <4>1. p = carry[c].target
        BY <1>1, <1>4, <1>8, <3>1 DEF CarryBooked
      <4>2. c \in record[q].carried => q = p
        BY <1>1, <4>1 DEF CarryBooked
      <4> QED
        BY <1>8, <2>2, <3>1, <4>1, <4>2
    <3>2. CASE c \notin t.carries
      <4>1. c \in record[q].carried => q # p
        BY <1>8, <3>2
      <4> QED
        BY <1>1, <2>2, <3>2, <4>1 DEF CarryBooked
    <3> QED
      BY <3>1, <3>2
  <2> QED
    BY <1>7, <1>8, <2>3
<1>9. CASE CalcMark(w)
  <2>1. /\ t.pc = "calc_mark" /\ Goto(w, "calc_write") /\ "calc_write" \in PCs \ Bearing
        /\ carry' = [c \in Carries |-> IF c \in t.carries THEN [carry[c] EXCEPT !.status = "Included"] ELSE carry[c]]
    BY <1>9 DEF CalcMark, At, PCs, Bearing, Settling, Gathered, Correcting
  <2>2. run[p].status # "Locked" /\ record[p].carried = t.carries
    BY <1>1, <2>1 DEF Stands, Calculating, Editable, Knows
  <2> QED
    BY <1>8, <2>1, <2>2, GoneWith
<1>10. CASE CarryApplied(w)
  <2>1. /\ t.pc = "carry_applied" /\ Finish(w) /\ t.pc \in Settling \ {"lock_records"}
        /\ carry' = [c \in Carries |-> IF c \in t.carries THEN [carry[c] EXCEPT !.status = "Applied"] ELSE carry[c]]
    BY <1>10 DEF CarryApplied, At, Settling
  <2>2. run[p].status = "Locked" /\ record[p].carried = t.carries
    BY <1>1, <2>1 DEF Knows
  <2> QED
    BY <1>8, <2>1, <2>2, DoneWith
<1>11. CASE CarryTarget(w)
  <2>1. carry' = carry /\ t.pc = "carry_target" /\ t.pc \notin Settling /\ t.pc \in Correcting
    BY <1>11 DEF CarryTarget, ReadOnly, dues, At, Settling, Correcting
  <2>2. CASE Finish(w)
    BY <1>2, <1>5, <2>1, <2>2, DoneWith, Aside
  <2>3. CASE Goto(w, "carry_insert")
    <3>1. u.pc = "carry_insert" /\ u.c = t.c
      BY <2>3, GoneWith DEF PCs
    <3>2. u.pc \notin Settling \cup Gathered
      BY <3>1 DEF Settling, Gathered
    <3>3. Knows(u, run, record, advance, carry) /\ Due(u, record) = 0
      BY <1>1, <2>1, <3>1, <3>2, Groups, NothingDue DEF Knows
    <3> QED
      BY <1>2, <1>5, <1>6, <2>1, <3>3, Looked
  <2> QED
    BY <1>11, <2>2, <2>3 DEF CarryTarget
<1>12. CASE CarryInsert(w)
  <2>1. /\ t.pc = "carry_insert" /\ Finish(w) /\ t.pc \in Correcting
        /\ carry' = [carry EXCEPT ![t.c] = [status |-> "Pending", target |-> p]]
    BY <1>12 DEF CarryInsert, At, Correcting
  <2>2. t.c \in Carries /\ carry[t.c].status = "None" /\ t.pc \notin Settling
    BY <1>1, <2>1 DEF Fit, Knows, Settling
  <2>3. \A q \in Periods : t.c \notin record[q].carried
    BY <1>1, <2>2 DEF CarryBooked
  <2>4. carry'[t.c].status = "Pending" /\ \A c \in Carries \ {t.c} : carry'[c] = carry[c]
    BY <1>1, <2>1, <2>2
  <2>5. CarryBooked(u, run, record, carry', crashes)
    BY <1>1, <2>1, <2>2, <2>3, <2>4 DEF CarryBooked
  <2> QED
    BY <1>7, <2>1, <2>5, DoneWith
<1> QED
  BY <1>9, <1>10, <1>11, <1>12

LEMMA StepAgrees ==
    ASSUME Typed, NEW w \in Workers, Agree(w), Stands(task[w], run, record), Step(w) PROVE Agree(w)'
BY StartsAgree, LooksAgree, GathersAgree, RecordsAgree, RunsAgree, LockAgrees, SettlesAgree, AdvancesAgree,
   CarriesAgree DEF Step, Starts

\* What is in flight agrees with the books; when nothing can be, nothing is owed.
Settled == /\ \A w \in Workers : Agree(w)
           /\ Workers = {} => SettledAsRecorded

LEMMA AgreedIsSettled == ASSUME Audited, Settled PROVE SettledAsRecorded
<1>1. ASSUME NEW w \in Workers PROVE SettledAsRecorded
  <2>1. Agree(w) /\ advance.recovered \in Nat /\ record \in [Periods -> Record]
    BY DEF Settled, Audited, Typed, DocsTyped, DuesTyped, Advance, RecordTyped
  <2>2. Recovered = Cardinality(Taken(run, record))
    BY DEF Recovered, Taken, Locked
  <2>3. Due(task[w], record) \in {0, 1}
    <3>1. Fit(task[w])
      BY Carried DEF Audited
    <3>2. task[w].pc \in {"lock_records", "advance_read", "advance_write"} => task[w].p \in Periods
      BY <3>1 DEF Fit, Elsewhere
    <3> QED
      BY <2>1, <3>2 DEF Due, Record
  <2>4. Quiet => task[w] = Idle /\ Idle.pc \notin Settling \cup {"calc_mark"}
    BY IdleFits DEF Quiet, Settling
  <2>5. IsFiniteSet(Taken(run, record))
    <3>1. Taken(run, record) \in SUBSET Periods
      BY DEF Taken
    <3> QED
      BY <3>1, PayrollAssumption, FS_Subset
  <2>6. AdvanceSettled
    <3>1. Quiet => Due(task[w], record) = 0
      BY <2>4, NothingDue
    <3>2. Cardinality(Taken(run, record)) \in Nat
      BY <2>5, FS_CardinalityType
    <3> QED
      BY <2>1, <2>2, <2>3, <3>1, <3>2 DEF AdvanceSettled, Agree, AdvanceBooked
  <2>7. CarrySettled
    BY <2>1, <2>4 DEF CarrySettled, Agree, CarryBooked, Locked
  <2> QED
    BY <2>1, <2>6, <2>7 DEF Agree, SettledAsRecorded
<1> QED
  BY <1>1 DEF Settled

LEMMA SettledKeptBy ==
    ASSUME Settled, UNCHANGED <<run, record, dues, crashes, task>> PROVE Settled'
<1>1. \A w \in Workers : Agree(w)'
  BY DEF Settled, Agree, VariablePaySettled, Locked, dues
<1>2. SettledAsRecorded => SettledAsRecorded'
  BY DEF SettledAsRecorded, AdvanceSettled, VariablePaySettled, CarrySettled, Recovered, Quiet, Locked, dues
<1> QED
  BY <1>1, <1>2 DEF Settled

LEMMA SettledNext == ASSUME OneRequest, Audited, Settled, [Next]_vars PROVE Settled'
<1>1. CASE UNCHANGED vars
  BY <1>1, SettledKeptBy DEF vars
<1>2. CASE NewPolicy
  BY <1>2, SettledKeptBy DEF NewPolicy
<1>3. CASE Crash
  <2>1. /\ UNCHANGED <<run, record, dues>> /\ crashes \in Nat /\ crashes' = crashes + 1
        /\ Workers # {} /\ task' = [w \in Workers |-> Idle]
    BY <1>3 DEF Crash, Audited, Typed, DocsTyped
  <2>2. ASSUME NEW w \in Workers PROVE Agree(w)'
    <3>1. task'[w] = Idle /\ Idle.pc \notin Bearing /\ UNCHANGED <<run, record, advance, vp, carry>>
      BY <2>1, IdleFits, Groups DEF dues
    <3>2. Knows(task'[w], run, record, advance, carry) /\ Due(task'[w], record) = 0
      BY <3>1, Unbearing, NothingDue, Groups
    <3>3. /\ AdvanceBooked(task[w], run, record, advance, crashes) /\ VariablePaySettled
          /\ CarryBooked(task[w], run, record, carry, crashes)
      BY DEF Settled, Agree
    <3>4. crashes' # 0
      BY <2>1
    <3>5. Due(task[w], record) \in {0, 1}
      <4>1. Fit(task[w]) /\ record \in [Periods -> Record]
        BY Carried DEF Audited, Typed, DocsTyped, RecordTyped
      <4>2. task[w].pc \in {"lock_records", "advance_read", "advance_write"} => task[w].p \in Periods
        BY <4>1 DEF Fit, Elsewhere
      <4> QED
        BY <4>1, <4>2 DEF Due, Record
    <3>6. advance.recovered \in Nat /\ Cardinality(Taken(run, record)) \in Nat
      <4>1. Taken(run, record) \in SUBSET Periods
        BY DEF Taken
      <4> QED
        BY <4>1, PayrollAssumption, FS_Subset, FS_CardinalityType
           DEF Audited, Typed, DocsTyped, DuesTyped, Advance
    <3>7. AdvanceBooked(task'[w], run, record, advance, crashes')
      BY <3>2, <3>3, <3>4, <3>5, <3>6 DEF AdvanceBooked
    <3>8. CarryBooked(task'[w], run, record, carry, crashes')
      BY <3>3, <3>4 DEF CarryBooked
    <3>9. VariablePaySettled'
      BY <3>1, <3>3, SettledKept
    <3> QED
      BY <3>1, <3>2, <3>7, <3>8, <3>9 DEF Agree
  <2> QED
    BY <2>1, <2>2 DEF Settled
<1>4. ASSUME NEW w \in Workers, Step(w) PROVE Settled'
  <2>1. Agree(w)'
    BY <1>4, StepAgrees DEF Audited, Settled
  <2>2. Workers # {} /\ \A v \in Workers : v = w
    BY DEF OneRequest
  <2> QED
    BY <2>1, <2>2 DEF Settled
<1> QED
  BY <1>1, <1>2, <1>3, <1>4 DEF Next

LEMMA InitSettled == ASSUME Init PROVE Settled
<1>1. \A p \in Periods : run[p].status # "Locked" /\ record[p].recovers = 0 /\ record[p].carried = {}
  BY NoRunFits DEF Init, NoRecord
<1>2. Taken(run, record) = {} /\ Cardinality(Taken(run, record)) = 0
  BY <1>1, FS_EmptySet DEF Taken
<1>3. VariablePaySettled /\ advance.recovered = 0 /\ advance.status = "None"
  BY DEF Init, VariablePaySettled
<1>4. \A c \in Carries : carry[c].status = "None"
  BY DEF Init
<1>5. ASSUME NEW w \in Workers PROVE Agree(w)
  <2>1. task[w] = Idle /\ Idle.pc \notin Bearing
    BY IdleFits, Groups DEF Init
  <2>2. Knows(task[w], run, record, advance, carry) /\ Due(task[w], record) = 0
    BY <2>1, Unbearing, NothingDue, Groups
  <2>3. AdvanceBooked(task[w], run, record, advance, crashes)
    BY <1>1, <1>2, <1>3, <2>2 DEF AdvanceBooked
  <2>4. CarryBooked(task[w], run, record, carry, crashes)
    BY <1>1, <1>4 DEF CarryBooked
  <2> QED
    BY <1>3, <2>2, <2>3, <2>4 DEF Agree
<1>6. Recovered = 0
  BY <1>2 DEF Recovered, Taken, Locked
<1>7. SettledAsRecorded
  BY <1>1, <1>3, <1>4, <1>6 DEF SettledAsRecorded, AdvanceSettled, CarrySettled
<1> QED
  BY <1>5, <1>7 DEF Settled

\* The ledgers agree with the payslips, for any months, people, matrices and
\* adjustments: with requests one at a time and restarts anywhere, the advance has
\* been recovered by no more than the locked payslips deducted, and by exactly that
\* when nothing was cut short; a variable pay is settled only by a locked payslip
\* that pays it; an adjustment is on the payslip of its own month and applied when
\* that is locked (calculate_payroll, lock_run, create_post_lock_adjustment).
THEOREM DuesSettled == ASSUME OneRequest PROVE Spec => []SettledAsRecorded
<1>1. Audited /\ Settled => SettledAsRecorded
  BY AgreedIsSettled
<1>2. Audited /\ Settled /\ [Next]_vars => Audited' /\ Settled'
  BY AuditedNext, SettledNext
<1>3. Init => Audited /\ Settled
  BY InitAudited, InitSettled
<1> QED
  BY <1>1, <1>2, <1>3, PTL DEF Spec
=============================================================================
