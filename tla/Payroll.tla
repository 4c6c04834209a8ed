------------------------------- MODULE Payroll -------------------------------
(***************************************************************************)
(* The monthly payroll of one employee (hrms_payroll_service): the runs    *)
(* that the maker calculates and submits, the people who check, approve    *)
(* and lock them under a configurable matrix, and what a locked run        *)
(* settles: the salary advance it recovers (hrms_salary_advance_service),  *)
(* the variable pay it pays out (hrms_variable_pay_service) and the        *)
(* post-lock adjustments carried into it.  It rests on the attendance lock *)
(* of the same month.                                                      *)
(*                                                                         *)
(* A database call is one step.  A run is calculated from what is owed at  *)
(* that moment and settles it when it is locked, several requests later.   *)
(***************************************************************************)
EXTENDS Integers, FiniteSets

CONSTANTS
    Periods,    \* consecutive months, in order
    People,     \* those who process, check and approve payroll
    Policies,   \* the approval matrices a company may have in force
    Carries,    \* post-lock adjustments
    Workers,    \* requests in flight at once
    Offered,    \* the entry points this instance exercises
    MaxStamp,   \* bound: times a month's attendance is locked
    MaxHolds,   \* bound: hold-ledger entries
    MaxCrashes  \* bound: process restarts

\* An approval matrix: the number of configured stages (0: Maker, Checker,
\* Finance), checker_required and approver_distinct_from_checker.
Policy == [stages: 0..3, checker: BOOLEAN, distinct: BOOLEAN]

ASSUME PayrollAssumption ==
    /\ Periods \subseteq Nat \ {0} /\ IsFiniteSet(Periods)
    /\ Policies \subseteq Policy
    /\ "none" \notin People \cup Carries
    /\ MaxStamp \in Nat /\ MaxHolds \in Nat /\ MaxCrashes \in Nat

VARIABLES
    policy,     \* the payroll policy in force
    att,        \* hrms_attendance_locks: status, and locked_at as a stamp
    run,        \* hrms_payroll_runs
    record,     \* hrms_payroll_records
    advance,    \* the employee's salary advance, of one unit
    quarter,    \* hrms_variable_pay_quarters: status
    vp,         \* the employee's variable pay record of the quarter
    holds,      \* hrms_variable_pay_hold_ledger: entries of that record
    carry,      \* hrms_payroll_carry_forwards
    crashes,    \* restarts of the process so far
    task        \* the request handlers in flight

dues == <<advance, quarter, vp, holds, carry>>
vars == <<policy, att, run, record, dues, crashes, task>>

-----------------------------------------------------------------------------
(* The documents                                                            *)

\* "Locked" stands for Locked, Paid and Closed, which only Disbursal tells
\* apart; "Returned" for Returned and Rejected.
RunStatus == {"None", "Draft", "Calculated", "Submitted", "Checked", "Approved", "Locked",
              "Returned"}
Editable == {"Draft", "Calculated", "Returned"}      \* PAYROLL_EDITABLE_STATUSES

Who == People \cup {"none"}

\* basis is the attendance stamp the run was calculated on.
Run == [status: RunStatus, by: Who, checked: Who, decided: Who, stage: 0..3,
        approvers: SUBSET People, basis: 0..MaxStamp]
NoRun == [status |-> "None", by |-> "none", checked |-> "none", decided |-> "none", stage |-> 0,
          approvers |-> {}, basis |-> 0]

\* A one-off line above the policy's amount waits for a second person.
Line == [status: {"None", "Pending", "Approved"}, by: Who]
NoLine == [status |-> "None", by |-> "none"]

Record == [made: BOOLEAN, recovers: {0, 1}, pays: BOOLEAN, carried: SUBSET Carries, line: Line]
NoRecord == [made |-> FALSE, recovers |-> 0, pays |-> FALSE, carried |-> {}, line |-> NoLine]

Advance == [status: {"None", "Pending", "Recovering", "Rejected", "Closed"}, recovered: Nat]
Vp == [status: {"None", "Draft", "Calculated", "Approved"}, eligible: BOOLEAN,
       paid: Periods \cup {0}]
Carry == [status: {"None", "Pending", "Included", "Applied"}, target: Periods \cup {0}]

Ops == {"none", "create", "calculate", "line", "approve-line", "submit", "check", "decide",
        "lock", "post-lock", "lock-month", "unlock-month", "policy", "advance", "act-advance", "save-vp",
        "calculate-vp", "decide-vp"}
PCs == {"idle", "create_write", "calc_lock", "calc_carry", "calc_delete", "calc_advance",
        "calc_vp", "calc_insert", "calc_mark", "calc_write", "line_write", "submit_lock",
        "submit_lines", "submit_write", "sign_read", "sign_write", "lock_write", "lock_records",
        "advance_read", "advance_write", "vp_paid", "carry_applied", "carry_target",
        "carry_insert", "attendance_run", "attendance_write", "advance_insert", "advance_decide",
        "vp_save", "vp_record", "vp_quarter", "vp_decide", "vp_approve", "vp_hold"}

\* r is the run or record as read or to be written; rule the policy it read.
Task == [pc: PCs, op: Ops, p: Periods \cup {0}, who: Who, rule: Policy, r: Run, rec: Record,
         carries: SUBSET Carries, n: Nat, ok: BOOLEAN, c: Carries \cup {"none"}]
Idle == [pc |-> "idle", op |-> "none", p |-> 0, who |-> "none",
         rule |-> [stages |-> 0, checker |-> TRUE, distinct |-> TRUE], r |-> NoRun,
         rec |-> NoRecord, carries |-> {}, n |-> 0, ok |-> FALSE, c |-> "none"]

TypeOK ==
    /\ policy \in Policies
    /\ att \in [Periods -> [locked: BOOLEAN, stamp: 0..MaxStamp]]
    /\ run \in [Periods -> Run]
    /\ \A p \in Periods : run[p].status = "Submitted" => run[p].stage = 0 /\ run[p].approvers = {}
    /\ record \in [Periods -> Record]
    /\ advance \in Advance
    /\ quarter \in {"None", "Draft", "Calculated", "Approved"}
    /\ vp \in Vp
    /\ holds \in 0..MaxHolds
    /\ carry \in [Carries -> Carry]
    /\ crashes \in Nat
    /\ task \in [Workers -> Task]

Init ==
    /\ policy \in Policies
    /\ att = [p \in Periods |-> [locked |-> FALSE, stamp |-> 0]]
    /\ run = [p \in Periods |-> NoRun]
    /\ record = [p \in Periods |-> NoRecord]
    /\ advance = [status |-> "None", recovered |-> 0]
    /\ quarter = "None"
    /\ vp = [status |-> "None", eligible |-> FALSE, paid |-> 0]
    /\ holds = 0
    /\ carry = [c \in Carries |-> [status |-> "None", target |-> 0]]
    /\ crashes = 0
    /\ task = [w \in Workers |-> Idle]

Begin(w, op, t) ==
    /\ op \in Offered
    /\ task[w] = Idle
    /\ task' = [task EXCEPT ![w] = [t EXCEPT !.op = op]]
    /\ UNCHANGED <<policy, att, run, record, dues, crashes>>

At(w, pc) == task[w].pc = pc
Goto(w, pc) == task' = [task EXCEPT ![w].pc = pc]
Finish(w) == task' = [task EXCEPT ![w] = Idle]

\* A read, or a step that only decides where the handler goes next.
ReadOnly == UNCHANGED <<policy, att, run, record, dues, crashes>>

-----------------------------------------------------------------------------
(* create_run and calculate_payroll                                         *)

StartCreate(w) == \E p \in Periods :
    /\ run[p].status = "None"
    /\ Begin(w, "create", [Idle EXCEPT !.pc = "create_write", !.p = p])

CreateWrite(w) ==
    /\ At(w, "create_write")
    /\ run[task[w].p].status = "None"
    /\ run' = [run EXCEPT ![task[w].p].status = "Draft"]
    /\ Finish(w)
    /\ UNCHANGED <<policy, att, record, dues, crashes>>

StartCalculate(w) == \E p \in Periods :
    /\ run[p].status \in Editable
    /\ Begin(w, "calculate", [Idle EXCEPT !.pc = "calc_lock", !.p = p])

\* require_attendance_lock: the month is locked, and its stamp is the basis.
CalcLock(w) ==
    LET a == att[task[w].p]
    IN  /\ At(w, "calc_lock")
        /\ IF a.locked
           THEN task' = [task EXCEPT ![w].pc = "calc_carry", ![w].r.basis = a.stamp,
                                     ![w].rec.line = record[task[w].p].line]
           ELSE Finish(w)
        /\ ReadOnly

CalcCarry(w) ==
    /\ At(w, "calc_carry")
    /\ task' = [task EXCEPT ![w].pc = "calc_delete",
                            ![w].carries = {c \in Carries : carry[c].target = task[w].p
                                              /\ carry[c].status \in {"Pending", "Included"}}]
    /\ ReadOnly

\* delete_many, then one record rebuilt at a time; a manual line is carried over.
CalcDelete(w) ==
    /\ At(w, "calc_delete")
    /\ record' = [record EXCEPT ![task[w].p] = NoRecord]
    /\ Goto(w, "calc_advance")
    /\ UNCHANGED <<policy, att, run, dues, crashes>>

\* The advance still recovering, less what has been recovered.
CalcAdvance(w) ==
    /\ At(w, "calc_advance")
    /\ task' = [task EXCEPT ![w].pc = "calc_vp",
                  ![w].rec.recovers = IF advance.status = "Recovering" /\ advance.recovered = 0
                                      THEN 1 ELSE 0]
    /\ ReadOnly

\* Variable pay that is approved and not yet paid.
CalcVp(w) ==
    /\ At(w, "calc_vp")
    /\ task' = [task EXCEPT ![w].pc = "calc_insert",
                            ![w].rec.pays = vp.status = "Approved" /\ vp.paid = 0]
    /\ ReadOnly

CalcInsert(w) ==
    /\ At(w, "calc_insert")
    /\ record' = [record EXCEPT ![task[w].p] = [task[w].rec EXCEPT !.made = TRUE,
                                                                  !.carried = task[w].carries]]
    /\ Goto(w, "calc_mark")
    /\ UNCHANGED <<policy, att, run, dues, crashes>>

CalcMark(w) ==
    /\ At(w, "calc_mark")
    /\ carry' = [c \in Carries |-> IF c \in task[w].carries
                                   THEN [carry[c] EXCEPT !.status = "Included"] ELSE carry[c]]
    /\ Goto(w, "calc_write")
    /\ UNCHANGED <<policy, att, run, record, advance, quarter, vp, holds, crashes>>

\* Unconditional, whatever the run has become meanwhile.
CalcWrite(w) ==
    /\ At(w, "calc_write")
    /\ run' = [run EXCEPT ![task[w].p] = [@ EXCEPT !.status = "Calculated",
                                                   !.basis = task[w].r.basis]]
    /\ Finish(w)
    /\ UNCHANGED <<policy, att, record, dues, crashes>>

-----------------------------------------------------------------------------
(* set_adjustments and approve_adjustment: a line above the limit           *)

\* The lines are posted as a whole, in the poster's name; one that was approved
\* and is posted again unchanged keeps its approval.
StartLine(w) == \E p \in Periods, who \in People, post \in {"none", "new", "same"} :
    /\ run[p].status \in Editable /\ record[p].made
    /\ Begin(w, "line", [Idle EXCEPT !.pc = "line_write", !.p = p,
                !.rec.line = IF post = "none" THEN NoLine
                             ELSE [status |-> IF post = "same" /\ record[p].line.status = "Approved"
                                              THEN "Approved" ELSE "Pending",
                                   by |-> who]])

\* Never the person who entered it.
StartApproveLine(w) == \E p \in Periods, who \in People :
    /\ run[p].status \in Editable /\ record[p].made
    /\ record[p].line.status = "Pending" /\ record[p].line.by # who
    /\ Begin(w, "approve-line", [Idle EXCEPT !.pc = "line_write", !.p = p,
                                   !.rec.line = [record[p].line EXCEPT !.status = "Approved"]])

LineWrite(w) ==
    /\ At(w, "line_write")
    /\ record' = [record EXCEPT ![task[w].p].line = task[w].rec.line]
    /\ Finish(w)
    /\ UNCHANGED <<policy, att, run, dues, crashes>>

-----------------------------------------------------------------------------
(* submit_run                                                               *)

StartSubmit(w) == \E p \in Periods, who \in People :
    /\ run[p].status = "Calculated"
    /\ Begin(w, "submit", [Idle EXCEPT !.pc = "submit_lock", !.p = p, !.who = who, !.r = run[p]])

\* attendance_basis_moved.
SubmitLock(w) ==
    LET a == att[task[w].p]
    IN  /\ At(w, "submit_lock")
        /\ IF a.locked /\ a.stamp = task[w].r.basis THEN Goto(w, "submit_lines") ELSE Finish(w)
        /\ ReadOnly

SubmitLines(w) ==
    /\ At(w, "submit_lines")
    /\ IF record[task[w].p].line.status = "Pending" THEN Finish(w) ELSE Goto(w, "submit_write")
    /\ ReadOnly

SubmitWriteMutant(w) ==
    /\ At(w, "submit_write")
    /\ run' = [run EXCEPT ![task[w].p] = [@ EXCEPT !.status = "Submitted", !.by = task[w].who]]
    /\ Finish(w)
    /\ UNCHANGED <<policy, att, record, dues, crashes>>

\* A resubmitted run starts the chain again; checked_by is left as it was.
SubmitWrite(w) ==
    /\ At(w, "submit_write")
    /\ run' = [run EXCEPT ![task[w].p] = [@ EXCEPT !.status = "Submitted", !.by = task[w].who,
                                                   !.stage = 0, !.approvers = {}]]
    /\ Finish(w)
    /\ UNCHANGED <<policy, att, record, dues, crashes>>

-----------------------------------------------------------------------------
(* check_run, decide_run and act_on_stage: one read of the policy, one of   *)
(* the run, one unconditional write.                                        *)

StartSign(w) == \E op \in {"check", "decide"}, p \in Periods, who \in People, pass \in BOOLEAN :
    /\ run[p].status \in {"Submitted", "Checked"}
    /\ Begin(w, op, [Idle EXCEPT !.pc = "sign_read", !.p = p, !.who = who, !.ok = pass,
                                 !.rule = policy])

\* _stage_index; a run checked before the chain was configured has passed one.
Stage(r) == CASE r.status = "Submitted" -> 0
              [] r.status = "Checked" -> IF r.stage = 0 THEN 1 ELSE r.stage
              [] OTHER -> 3

RefusedMutant(t, r) ==
    IF t.rule.stages > 0
    THEN \/ Stage(r) >= t.rule.stages
         \/ t.who \in r.approvers
         \/ Stage(r) > 0 /\ r.approvers = {} /\ r.checked = t.who
    ELSE \/ r.by = t.who
         \/ IF t.op = "check" THEN r.status # "Submitted"
            ELSE \/ r.status # "Checked" /\ (r.status # "Submitted" \/ t.rule.checker)
                 \/ t.rule.distinct /\ r.checked = t.who

\* What each of the three handlers refuses, given the run it read.
Refused(t, r) ==
    \/ r.by = t.who
    \/ IF t.rule.stages > 0
       THEN \/ Stage(r) >= t.rule.stages
            \/ t.who \in r.approvers
            \/ Stage(r) > 0 /\ r.approvers = {} /\ r.checked = t.who
       ELSE IF t.op = "check" THEN r.status # "Submitted"
       ELSE \/ r.status # "Checked" /\ (r.status # "Submitted" \/ t.rule.checker)
            \/ t.rule.distinct /\ r.checked = t.who

\* The signature that approves the run, or under a chain sends it back.
Final(t, r) == IF t.rule.stages > 0 THEN Stage(r) = t.rule.stages - 1 ELSE t.op = "decide"
Decides(t, r) == Final(t, r) \/ (t.rule.stages > 0 /\ ~t.ok)

SignRead(w) ==
    LET r == run[task[w].p]
    IN  /\ At(w, "sign_read")
        /\ IF Refused(task[w], r) THEN Finish(w)
           ELSE task' = [task EXCEPT ![w].pc = "sign_write", ![w].r = r]
        /\ ReadOnly

\* Passed on or sent back to the maker, by whom, and how far a chain has come.
SignWrite(w) ==
    LET t == task[w]
        r == run[t.p]
        passes == t.rule.stages > 0 /\ t.ok
    IN  /\ At(w, "sign_write")
        /\ run' = [run EXCEPT ![t.p] = [r EXCEPT
                      !.status = IF ~t.ok THEN "Returned"
                                 ELSE IF Final(t, t.r) THEN "Approved" ELSE "Checked",
                      !.decided = IF Decides(t, t.r) THEN t.who ELSE r.decided,
                      !.checked = IF Decides(t, t.r) THEN r.checked ELSE t.who,
                      !.stage = IF passes THEN Stage(t.r) + 1 ELSE r.stage,
                      !.approvers = IF passes THEN t.r.approvers \cup {t.who} ELSE r.approvers]]
        /\ Finish(w)
        /\ UNCHANGED <<policy, att, record, dues, crashes>>

-----------------------------------------------------------------------------
(* lock_run: the status first, then what the payslip settles                *)

StartLock(w) == \E p \in Periods :
    /\ run[p].status = "Approved"
    /\ Begin(w, "lock", [Idle EXCEPT !.pc = "lock_write", !.p = p])

LockWrite(w) ==
    /\ At(w, "lock_write")
    /\ run' = [run EXCEPT ![task[w].p].status = "Locked"]
    /\ Goto(w, "lock_records")
    /\ UNCHANGED <<policy, att, record, dues, crashes>>

LockRecords(w) ==
    LET rec == record[task[w].p]
    IN  /\ At(w, "lock_records")
        /\ task' = [task EXCEPT ![w].rec = rec, ![w].carries = rec.carried,
                                ![w].pc = IF rec.recovers > 0 THEN "advance_read" ELSE "vp_paid"]
        /\ ReadOnly

\* _apply_advance_recovery adds to the figure it read.
AdvanceRead(w) ==
    /\ At(w, "advance_read")
    /\ task' = [task EXCEPT ![w].pc = "advance_write",
                            ![w].n = advance.recovered + task[w].rec.recovers]
    /\ ReadOnly

AdvanceWriteMutant(w) ==
    /\ At(w, "advance_write")
    /\ advance' = [advance EXCEPT !.status = "Closed"]
    /\ Goto(w, "vp_paid")
    /\ UNCHANGED <<policy, att, run, record, quarter, vp, holds, carry, crashes>>

AdvanceWrite(w) ==
    /\ At(w, "advance_write")
    /\ advance' = [status |-> IF task[w].n >= 1 THEN "Closed" ELSE "Recovering",
                   recovered |-> task[w].n]
    /\ Goto(w, "vp_paid")
    /\ UNCHANGED <<policy, att, run, record, quarter, vp, holds, carry, crashes>>

VpPaid(w) ==
    /\ At(w, "vp_paid")
    /\ vp' = IF task[w].rec.pays THEN [vp EXCEPT !.paid = task[w].p] ELSE vp
    /\ Goto(w, "carry_applied")
    /\ UNCHANGED <<policy, att, run, record, advance, quarter, holds, carry, crashes>>

CarryApplied(w) ==
    /\ At(w, "carry_applied")
    /\ carry' = [c \in Carries |-> IF c \in task[w].carries
                                   THEN [carry[c] EXCEPT !.status = "Applied"] ELSE carry[c]]
    /\ Finish(w)
    /\ UNCHANGED <<policy, att, run, record, advance, quarter, vp, holds, crashes>>

-----------------------------------------------------------------------------
(* create_post_lock_adjustment: a correction lands in a later period        *)

StartPostLock(w) == \E p, target \in Periods, c \in Carries :
    /\ carry[c].status = "None"
    /\ run[p].status = "Locked" /\ record[p].made
    /\ target > p
    /\ Begin(w, "post-lock", [Idle EXCEPT !.pc = "carry_target", !.p = target, !.c = c])

CarryTarget(w) ==
    /\ At(w, "carry_target")
    /\ IF run[task[w].p].status \in Editable \cup {"None"} THEN Goto(w, "carry_insert")
       ELSE Finish(w)
    /\ ReadOnly

CarryInsert(w) ==
    /\ At(w, "carry_insert")
    /\ carry' = [carry EXCEPT ![task[w].c] = [status |-> "Pending", target |-> task[w].p]]
    /\ Finish(w)
    /\ UNCHANGED <<policy, att, run, record, advance, quarter, vp, holds, crashes>>

-----------------------------------------------------------------------------
(* The month's attendance lock, and the policy in force                     *)

StartLockMonth(w) == \E p \in Periods :
    /\ ~att[p].locked /\ att[p].stamp < MaxStamp
    /\ Begin(w, "lock-month", [Idle EXCEPT !.pc = "attendance_write", !.p = p, !.ok = TRUE])

\* unlock_period is refused once payroll has locked on the month.
StartUnlockMonth(w) == \E p \in Periods :
    /\ att[p].locked
    /\ Begin(w, "unlock-month", [Idle EXCEPT !.pc = "attendance_run", !.p = p])

AttendanceRun(w) ==
    /\ At(w, "attendance_run")
    /\ IF run[task[w].p].status = "Locked" THEN Finish(w) ELSE Goto(w, "attendance_write")
    /\ ReadOnly

AttendanceWrite(w) ==
    /\ At(w, "attendance_write") /\ (task[w].ok => att[task[w].p].stamp < MaxStamp)
    /\ att' = [att EXCEPT ![task[w].p] = [locked |-> task[w].ok,
                                          stamp |-> IF task[w].ok THEN @.stamp + 1 ELSE @.stamp]]
    /\ Finish(w)
    /\ UNCHANGED <<policy, run, record, dues, crashes>>

\* Another version of the policy is activated.
NewPolicy ==
    /\ "policy" \in Offered
    /\ policy' \in Policies \ {policy}
    /\ UNCHANGED <<att, run, record, dues, crashes, task>>

-----------------------------------------------------------------------------
(* Salary advance and variable pay                                          *)

StartAdvance(w) ==
    /\ advance.status \in {"None", "Rejected"}
    /\ Begin(w, "advance", [Idle EXCEPT !.pc = "advance_insert"])

AdvanceInsert(w) ==
    /\ At(w, "advance_insert")
    /\ advance' = [status |-> "Pending", recovered |-> 0]
    /\ Finish(w)
    /\ UNCHANGED <<policy, att, run, record, quarter, vp, holds, carry, crashes>>

StartActAdvance(w) == \E ok \in BOOLEAN :
    /\ advance.status = "Pending"
    /\ Begin(w, "act-advance", [Idle EXCEPT !.pc = "advance_decide", !.ok = ok])

AdvanceDecide(w) ==
    /\ At(w, "advance_decide")
    /\ advance' = [advance EXCEPT !.status = IF task[w].ok THEN "Recovering" ELSE "Rejected"]
    /\ Finish(w)
    /\ UNCHANGED <<policy, att, run, record, quarter, vp, holds, carry, crashes>>

\* save_record: only while the quarter is in Draft; the row starts again.
StartSaveVp(w) ==
    /\ quarter \in {"None", "Draft"}
    /\ Begin(w, "save-vp", [Idle EXCEPT !.pc = "vp_save"])

SaveVp(w) ==
    /\ At(w, "vp_save")
    /\ quarter' = IF quarter = "None" THEN "Draft" ELSE quarter
    /\ vp' = [status |-> "Draft", eligible |-> FALSE, paid |-> 0]
    /\ Finish(w)
    /\ UNCHANGED <<policy, att, run, record, advance, holds, carry, crashes>>

\* calculate_quarter asks nothing of the quarter's status.
StartCalculateVp(w) == \E ok \in BOOLEAN :
    /\ quarter # "None"
    /\ Begin(w, "calculate-vp", [Idle EXCEPT !.pc = "vp_record", !.ok = ok])

VpRecord(w) ==
    /\ At(w, "vp_record")
    /\ vp' = [vp EXCEPT !.status = "Calculated", !.eligible = task[w].ok]
    /\ Goto(w, "vp_quarter")
    /\ UNCHANGED <<policy, att, run, record, advance, quarter, holds, carry, crashes>>

VpQuarter(w) ==
    /\ At(w, "vp_quarter")
    /\ quarter' = "Calculated"
    /\ Finish(w)
    /\ UNCHANGED <<policy, att, run, record, advance, vp, holds, carry, crashes>>

StartDecideVp(w) == \E ok \in BOOLEAN :
    /\ quarter = "Calculated"
    /\ Begin(w, "decide-vp", [Idle EXCEPT !.pc = "vp_decide", !.ok = ok])

VpDecide(w) ==
    /\ At(w, "vp_decide")
    /\ quarter' = IF task[w].ok THEN "Approved" ELSE "Draft"
    /\ IF task[w].ok /\ vp.eligible THEN Goto(w, "vp_approve") ELSE Finish(w)
    /\ UNCHANGED <<policy, att, run, record, advance, vp, holds, carry, crashes>>

VpApprove(w) ==
    /\ At(w, "vp_approve")
    /\ vp' = IF vp.eligible THEN [vp EXCEPT !.status = "Approved"] ELSE vp
    /\ Goto(w, "vp_hold")
    /\ UNCHANGED <<policy, att, run, record, advance, quarter, holds, carry, crashes>>

\* The held portion opens an entry of its own.
VpHold(w) ==
    /\ At(w, "vp_hold") /\ holds < MaxHolds
    /\ holds' = holds + 1
    /\ Finish(w)
    /\ UNCHANGED <<policy, att, run, record, advance, quarter, vp, carry, crashes>>

-----------------------------------------------------------------------------
Crash ==
    /\ crashes < MaxCrashes
    /\ \E w \in Workers : task[w] # Idle
    /\ crashes' = crashes + 1
    /\ task' = [w \in Workers |-> Idle]
    /\ UNCHANGED <<policy, att, run, record, dues>>

Step(w) ==
    \/ StartCreate(w) \/ CreateWrite(w)
    \/ StartCalculate(w) \/ CalcLock(w) \/ CalcCarry(w) \/ CalcDelete(w) \/ CalcAdvance(w)
    \/ CalcVp(w) \/ CalcInsert(w) \/ CalcMark(w) \/ CalcWrite(w)
    \/ StartLine(w) \/ StartApproveLine(w) \/ LineWrite(w)
    \/ StartSubmit(w) \/ SubmitLock(w) \/ SubmitLines(w) \/ SubmitWrite(w)
    \/ StartSign(w) \/ SignRead(w) \/ SignWrite(w)
    \/ StartLock(w) \/ LockWrite(w) \/ LockRecords(w) \/ AdvanceRead(w) \/ AdvanceWrite(w)
    \/ VpPaid(w) \/ CarryApplied(w)
    \/ StartPostLock(w) \/ CarryTarget(w) \/ CarryInsert(w)
    \/ StartLockMonth(w) \/ StartUnlockMonth(w) \/ AttendanceRun(w) \/ AttendanceWrite(w)
    \/ StartAdvance(w) \/ AdvanceInsert(w) \/ StartActAdvance(w) \/ AdvanceDecide(w)
    \/ StartSaveVp(w) \/ SaveVp(w) \/ StartCalculateVp(w) \/ VpRecord(w) \/ VpQuarter(w)
    \/ StartDecideVp(w) \/ VpDecide(w) \/ VpApprove(w) \/ VpHold(w)

Next == (\E w \in Workers : Step(w)) \/ NewPolicy \/ Crash

Spec == Init /\ [][Next]_vars

-----------------------------------------------------------------------------
(* Properties                                                               *)

Locked(p) == run[p].status = "Locked"

\* Segregation of duties: whoever submitted an approved or locked run is none of
\* those who passed it, however the matrix in force changed between the signatures
\* and however often the run came back, and no line above the limit is left that a
\* second person has not approved (submit_run, check_run, decide_run, act_on_stage).
MakerChecker ==
    \A p \in Periods : run[p].status \in {"Approved", "Locked"} =>
        /\ run[p].by # "none"
        /\ run[p].decided \notin {"none", run[p].by}
        /\ run[p].by \notin run[p].approvers
        /\ record[p].line.status # "Pending"

Quiet == \A w \in Workers : task[w] = Idle

\* What the locked payslips took from the employee.
Recovered ==
    LET by == {p \in Periods : Locked(p) /\ record[p].recovers = 1} IN Cardinality(by)

\* The advance is recovered by exactly what the locked payslips deducted, and never by
\* more even if the process dies inside lock_run.
AdvanceSettled ==
    /\ advance.recovered <= Recovered
    /\ Quiet /\ crashes = 0 => advance.recovered = Recovered

\* The period a variable pay was paid in has a locked payslip paying it.
VariablePaySettled == vp.paid # 0 => Locked(vp.paid) /\ record[vp.paid].pays

\* A post-lock adjustment is paid on one payslip, that of its target period: Applied
\* when that run is locked, Included while the run that carries it is still open.
CarrySettled ==
    Quiet => \A c \in Carries, p \in Periods :
        /\ c \in record[p].carried => p = carry[c].target
        /\ carry[c].status = "Applied" /\ p = carry[c].target => Locked(p) /\ c \in record[p].carried
        /\ crashes = 0 /\ c \in record[p].carried =>
              carry[c].status = IF Locked(p) THEN "Applied" ELSE "Included"

\* The ledgers and the payslips agree, several requests and months after a run was
\* calculated from them (calculate_payroll, lock_run, create_post_lock_adjustment).
SettledAsRecorded == AdvanceSettled /\ VariablePaySettled /\ CarrySettled
=============================================================================
