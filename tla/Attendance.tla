----------------------------- MODULE Attendance -----------------------------
(***************************************************************************)
(* One employee's month of attendance: the day rows, what HR marks, the    *)
(* employee punches and the biometric file says of them, the corrections,  *)
(* outdoor duties and flexible hours that rewrite them, and the monthly    *)
(* lock that is to freeze them for payroll (hrms_attendance_service,       *)
(* hrms_self_punch_service, hrms_attendance_rules_service).  Leave extends *)
(* it with the requests that write the same rows.                          *)
(*                                                                         *)
(* A database call is one step.  The lock is kept twice, on the period and *)
(* on each existing row; a writer asks for the one, the other or both      *)
(* before an await and writes after it.                                    *)
(***************************************************************************)
EXTENDS Integers, FiniteSetsExt

CONSTANTS
    Dates,      \* the dates of the month
    Marks,      \* the statuses a day can be recorded or recalculated as
    Leaves,     \* leave numbers next_business_id can hand out
    Regs,       \* regularisation requests
    Ods,        \* outdoor-duty requests
    RegLevels,  \* the approval levels a policy may ask of a regularisation,
    OdLevels,   \* and of an outdoor duty; 0 where it is unset
    Workers,    \* requests in flight at once
    Offered,    \* the entry points this instance exercises
    MaxActs,    \* bound: requests served, and restarts
    MaxCrashes  \* bound: process restarts

ASSUME AttendanceAssumption ==
    /\ Dates \subseteq Nat /\ IsFiniteSet(Dates)
    /\ RegLevels \subseteq {0, 1, 2} /\ OdLevels \subseteq {0, 1, 2}
    /\ MaxActs \in Nat
    /\ MaxCrashes \in Nat
    /\ IsFiniteSet(Leaves) /\ "none" \notin Leaves \cup Regs \cup Ods
    /\ Leaves \cap (Regs \cup Ods) = {} /\ Regs \cap Ods = {}

VARIABLES
    row,        \* hrms_attendance
    lock,       \* hrms_attendance_locks: status of the month
    reg, od,    \* hrms_attendance_corrections, hrms_od_requests
    applied,    \* history: the requests whose effect reached the day row
    acts,       \* requests begun, and restarts, so far
    crashes,    \* restarts of the process so far
    late,       \* history: workers whose request was in flight when the month was locked
    task        \* the request handlers in flight

requests == <<reg, od, applied>>
traffic == <<acts, crashes, late>>
attendanceVars == <<row, lock, requests, traffic, task>>

-----------------------------------------------------------------------------
(* The documents                                                            *)

DayStatus == Marks \cup {"None", "OnLeave", "OnOD"}

\* ref is leave_ref, and pre is pre_leave_status.
Row == [status: DayStatus, locked: BOOLEAN, ref: Leaves \cup {"none"}, pre: DayStatus]
NoRow == [status |-> "None", locked |-> FALSE, ref |-> "none", pre |-> "None"]
Exists(r) == r.status # "None"

\* update_one with upsert: an existing row keeps every field the $set does not name.
Marked(r, status) == [r EXCEPT !.status = status]

\* The upsert of a marked, punched or imported day writes locked: False, whatever the
\* row holds by now.
Recorded(r, status) == [Marked(r, status) EXCEPT !.locked = FALSE]

\* "Refused" is Rejected or Returned: nothing here tells them apart.
RequestStatus == {"None", "Pending", "ManagerApproved", "Approved", "Refused"}
OpenRequest == {"Pending", "ManagerApproved"}
Request == [status: RequestStatus, day: Dates \cup {0}, levels: {0, 1, 2}]
NoRequest == [status |-> "None", day |-> 0, levels |-> 0]

AttendanceOps == {"mark", "punch", "import", "act-flexi", "request-reg", "act-reg", "request-od",
                  "act-od", "lock", "unlock"}
AttendancePCs == {"idle", "month_check", "mark_write", "punch_write", "import_read",
                  "import_month", "import_write", "rejudge", "reg_insert", "reg_unlocked",
                  "reg_apply", "reg_write", "od_insert", "od_lock", "od_write", "od_apply",
                  "lock_write", "lock_rows", "unlock_write", "unlock_rows"}

\* What every handler of the month keeps between two database calls.
Blank == [pc |-> "idle", op |-> "none", x |-> "none", to |-> "None", d |-> 0, levels |-> 0,
          todo |-> {}]

At(w, pc) == task[w].pc = pc
Goto(w, pc) == task' = [task EXCEPT ![w].pc = pc]

DayTypeOK ==
    /\ row \in [Dates -> Row]
    /\ lock \in {"Open", "Locked"}
    /\ reg \in [Regs -> Request]
    /\ od \in [Ods -> Request]
    /\ applied \subseteq Leaves \cup Regs \cup Ods
    /\ acts \in Nat /\ crashes \in Nat /\ late \subseteq Workers

DayInit ==
    /\ row = [d \in Dates |-> NoRow]
    /\ lock = "Open"
    /\ reg = [r \in Regs |-> NoRequest]
    /\ od = [o \in Ods |-> NoRequest]
    /\ applied = {}
    /\ acts = 0 /\ crashes = 0 /\ late = {}

\* idle is the state of a worker between requests, which Leave widens.
Begin(w, idle, op, t) ==
    /\ op \in Offered
    /\ task[w] = idle
    /\ acts < MaxActs
    /\ acts' = acts + 1
    /\ late' = late \ {w}
    /\ task' = [task EXCEPT ![w] = [t EXCEPT !.op = op]]
    /\ UNCHANGED <<row, lock, requests, crashes>>

-----------------------------------------------------------------------------
(* mark_attendance and request_regularization: both refuse a locked row,    *)
(* then a locked month.                                                     *)

StartMark(w, idle) == \E d \in Dates, s \in Marks :
    /\ ~row[d].locked
    /\ Begin(w, idle, "mark", [idle EXCEPT !.pc = "month_check", !.d = d, !.to = s])

StartRequestReg(w, idle) == \E r \in Regs, d \in Dates, n \in RegLevels :
    /\ reg[r] = NoRequest
    /\ ~row[d].locked
    /\ Begin(w, idle, "request-reg",
             [idle EXCEPT !.pc = "month_check", !.x = r, !.d = d, !.levels = n])

MonthCheck(w, idle) ==
    /\ At(w, "month_check")
    /\ IF lock = "Locked" THEN task' = [task EXCEPT ![w] = idle]
       ELSE Goto(w, IF task[w].op = "mark" THEN "mark_write" ELSE "reg_insert")
    /\ UNCHANGED <<row, lock, requests, traffic>>

MarkWrite(w, idle) ==
    /\ At(w, "mark_write")
    /\ row' = [row EXCEPT ![task[w].d] = Recorded(@, task[w].to)]
    /\ task' = [task EXCEPT ![w] = idle]
    /\ UNCHANGED <<lock, requests, traffic>>

\* The approval levels are frozen on the request.
RegInsert(w, idle) ==
    /\ At(w, "reg_insert")
    /\ reg[task[w].x] = NoRequest
    /\ reg' = [reg EXCEPT ![task[w].x] =
                 [status |-> "Pending", day |-> task[w].d, levels |-> task[w].levels]]
    /\ task' = [task EXCEPT ![w] = idle]
    /\ UNCHANGED <<row, lock, od, applied, traffic>>

-----------------------------------------------------------------------------
(* punch, import_biometric and _rejudge_range: the days' own clock.  What   *)
(* the punches make of a day is any of its marks.                           *)

\* A check-in or check-out refuses a locked row, and does not ask about the month.
StartPunchMutant(w, idle) == \E d \in Dates :
    Begin(w, idle, "punch", [idle EXCEPT !.pc = "punch_write", !.d = d])

StartPunch(w, idle) == \E d \in Dates :
    /\ ~row[d].locked
    /\ Begin(w, idle, "punch", [idle EXCEPT !.pc = "punch_write", !.d = d])

PunchWrite(w, idle) == \E s \in Marks :
    /\ At(w, "punch_write")
    /\ row' = [row EXCEPT ![task[w].d] = Recorded(@, s)]
    /\ task' = [task EXCEPT ![w] = idle]
    /\ UNCHANGED <<lock, requests, traffic>>

\* The days of a list, one by one: back to pc until none is left.
Proceed(w, idle, pc, left) ==
    task' = [task EXCEPT ![w] = IF left = {} THEN idle ELSE [@ EXCEPT !.pc = pc, !.todo = left]]

StartImport(w, idle) == \E days \in SUBSET Dates \ {{}} :
    Begin(w, idle, "import", [idle EXCEPT !.pc = "import_read", !.todo = days])

Protected(r) == r.status \in {"OnLeave", "OnOD"}

\* A locked or protected row is skipped, as is one whose source is protected; only a
\* day with no row has the month asked about.
ImportRead(w, idle) ==
    LET d == Min(task[w].todo)
    IN  /\ At(w, "import_read")
        /\ \/ /\ Exists(row[d])
              /\ Proceed(w, idle, "import_read", task[w].todo \ {d})
           \/ /\ ~row[d].locked /\ ~Protected(row[d])
              /\ Goto(w, IF Exists(row[d]) THEN "import_write" ELSE "import_month")
        /\ UNCHANGED <<row, lock, requests, traffic>>

ImportMonth(w, idle) ==
    /\ At(w, "import_month")
    /\ IF lock = "Locked" THEN Proceed(w, idle, "import_read", task[w].todo \ {Min(task[w].todo)})
       ELSE Goto(w, "import_write")
    /\ UNCHANGED <<row, lock, requests, traffic>>

ImportWrite(w, idle) == \E s \in Marks :
    LET d == Min(task[w].todo)
    IN  /\ At(w, "import_write")
        /\ row' = [row EXCEPT ![d] = Recorded(@, s)]
        /\ Proceed(w, idle, "import_read", task[w].todo \ {d})
        /\ UNCHANGED <<lock, requests, traffic>>

\* Approved hours re-judge the days listed once, those that have a check-in.
StartRejudge(w, idle) == \E days \in SUBSET Dates \ {{}} :
    /\ \A d \in days : Exists(row[d]) /\ ~row[d].locked /\ ~Protected(row[d])
    /\ Begin(w, idle, "act-flexi", [idle EXCEPT !.pc = "rejudge", !.todo = days])

\* update_one with no upsert: a row deleted meanwhile stays deleted.
Rejudge(w, idle) == \E d \in task[w].todo, s \in Marks :
    /\ At(w, "rejudge")
    /\ row' = [row EXCEPT ![d] = IF Exists(@) THEN Marked(@, s) ELSE @]
    /\ Proceed(w, idle, "rejudge", task[w].todo \ {d})
    /\ UNCHANGED <<lock, requests, traffic>>

-----------------------------------------------------------------------------
(* act_on_regularization: two levels unless the policy asked for one        *)

\* A manager's approval closes a one-level request; otherwise HR's does.
FinalMutant(q, to) == to = "Approved"
Final(q, to) == to = IF q.levels = 1 THEN "ManagerApproved" ELSE "Approved"

StartActReg(w, idle) == \E r \in Regs, to \in RequestStatus \ {"None", "Pending"} :
    LET q == reg[r]
    IN  /\ q.status \in OpenRequest
        /\ to = "ManagerApproved" => q.status = "Pending"
        /\ to = "Approved" => q.levels # 1 /\ q.status = "ManagerApproved"
        /\ Begin(w, idle, "act-reg",
                 [idle EXCEPT !.x = r, !.d = q.day,
                              !.pc = IF Final(q, to) THEN "reg_unlocked" ELSE "reg_write",
                              !.to = IF Final(q, to) THEN "Approved" ELSE to])

RegUnlocked(w, idle) ==
    /\ At(w, "reg_unlocked")
    /\ IF lock = "Locked" THEN task' = [task EXCEPT ![w] = idle] ELSE Goto(w, "reg_apply")
    /\ UNCHANGED <<row, lock, requests, traffic>>

\* The recalculated day replaces the row's status; its lock flag stays.
RegApply(w) == \E s \in Marks :
    /\ At(w, "reg_apply")
    /\ row' = [row EXCEPT ![task[w].d] = Marked(@, s)]
    /\ applied' = applied \cup {task[w].x}
    /\ Goto(w, "reg_write")
    /\ UNCHANGED <<lock, reg, od, traffic>>

RegWrite(w, idle) ==
    /\ At(w, "reg_write")
    /\ reg' = [reg EXCEPT ![task[w].x].status = task[w].to]
    /\ task' = [task EXCEPT ![w] = idle]
    /\ UNCHANGED <<row, lock, od, applied, traffic>>

-----------------------------------------------------------------------------
(* request_od and act_on_od: one level unless the policy asked for two      *)

StartRequestOd(w, idle) == \E o \in Ods, d \in Dates, n \in OdLevels :
    /\ od[o] = NoRequest
    /\ Begin(w, idle, "request-od",
             [idle EXCEPT !.pc = "od_insert", !.x = o, !.d = d, !.levels = n])

OdInsert(w, idle) ==
    /\ At(w, "od_insert")
    /\ od[task[w].x] = NoRequest
    /\ od' = [od EXCEPT ![task[w].x] =
                [status |-> "Pending", day |-> task[w].d, levels |-> task[w].levels]]
    /\ task' = [task EXCEPT ![w] = idle]
    /\ UNCHANGED <<row, lock, reg, applied, traffic>>

\* An approval of two levels stops first at the manager's step, which writes no day.
StartActOd(w, idle) == \E o \in Ods, approved \in BOOLEAN :
    LET q == od[o]
        first == q.levels = 2 /\ q.status = "Pending"
    IN  /\ q.status \in OpenRequest
        /\ Begin(w, idle, "act-od",
                 [idle EXCEPT !.x = o, !.d = q.day,
                              !.pc = IF approved /\ ~first THEN "od_lock" ELSE "od_write",
                              !.to = CASE ~approved -> "Refused"
                                       [] approved /\ first -> "ManagerApproved"
                                       [] OTHER -> "Approved"])

OdLock(w, idle) ==
    /\ At(w, "od_lock")
    /\ IF lock = "Locked" THEN task' = [task EXCEPT ![w] = idle] ELSE Goto(w, "od_write")
    /\ UNCHANGED <<row, lock, requests, traffic>>

\* The request is decided before the day is written.
OdWrite(w, idle) ==
    /\ At(w, "od_write")
    /\ od' = [od EXCEPT ![task[w].x].status = task[w].to]
    /\ IF task[w].to = "Approved" THEN Goto(w, "od_apply") ELSE task' = [task EXCEPT ![w] = idle]
    /\ UNCHANGED <<row, lock, reg, applied, traffic>>

OdApply(w, idle) ==
    /\ At(w, "od_apply")
    /\ row' = [row EXCEPT ![task[w].d] = Marked(@, "OnOD")]
    /\ applied' = applied \cup {task[w].x}
    /\ task' = [task EXCEPT ![w] = idle]
    /\ UNCHANGED <<lock, reg, od, traffic>>

-----------------------------------------------------------------------------
(* lock_period and unlock_period: the period first, then its rows.  The     *)
(* lock authority may lock over open requests with a reason, so what the    *)
(* dashboard counts does not guard the lock.                                *)

StartLock(w, idle) ==
    /\ lock = "Open"
    /\ Begin(w, idle, "lock", [idle EXCEPT !.pc = "lock_write"])

StartUnlock(w, idle) ==
    /\ lock = "Locked"
    /\ Begin(w, idle, "unlock", [idle EXCEPT !.pc = "unlock_write"])

\* The other requests in flight at either write of a lock may have asked before it.
Overtake(w, idle) == late' = late \cup {v \in Workers \ {w} : task[v] # idle}

LockWrite(w, idle) ==
    /\ At(w, "lock_write") /\ lock' = "Locked" /\ Goto(w, "lock_rows")
    /\ Overtake(w, idle)
    /\ UNCHANGED <<row, requests, acts, crashes>>

UnlockWrite(w) ==
    /\ At(w, "unlock_write") /\ lock' = "Open" /\ Goto(w, "unlock_rows")
    /\ UNCHANGED <<row, requests, traffic>>

\* update_many over the month's existing rows.
Rows(locked) == [d \in Dates |-> IF Exists(row[d]) THEN [row[d] EXCEPT !.locked = locked]
                                                  ELSE row[d]]

LockRows(w, idle) ==
    /\ At(w, "lock_rows")
    /\ row' = Rows(TRUE)
    /\ task' = [task EXCEPT ![w] = idle]
    /\ Overtake(w, idle)
    /\ UNCHANGED <<lock, requests, acts, crashes>>

UnlockRows(w, idle) ==
    /\ At(w, "unlock_rows")
    /\ row' = Rows(FALSE)
    /\ task' = [task EXCEPT ![w] = idle]
    /\ UNCHANGED <<lock, requests, traffic>>

-----------------------------------------------------------------------------
\* The process restarts: every handler in flight is lost.
Restart(idle) ==
    /\ crashes < MaxCrashes /\ acts < MaxActs
    /\ \E w \in Workers : task[w] # idle
    /\ crashes' = crashes + 1 /\ acts' = acts + 1 /\ late' = {}
    /\ task' = [w \in Workers |-> idle]
    /\ UNCHANGED <<row, lock, requests>>

AttendanceStep(w, idle) ==
    \/ StartMark(w, idle) \/ StartRequestReg(w, idle) \/ MonthCheck(w, idle)
    \/ MarkWrite(w, idle) \/ RegInsert(w, idle)
    \/ StartPunch(w, idle) \/ PunchWrite(w, idle)
    \/ StartImport(w, idle) \/ ImportRead(w, idle) \/ ImportMonth(w, idle) \/ ImportWrite(w, idle)
    \/ StartRejudge(w, idle) \/ Rejudge(w, idle)
    \/ StartActReg(w, idle) \/ RegUnlocked(w, idle) \/ RegApply(w) \/ RegWrite(w, idle)
    \/ StartRequestOd(w, idle) \/ OdInsert(w, idle)
    \/ StartActOd(w, idle) \/ OdLock(w, idle) \/ OdWrite(w, idle) \/ OdApply(w, idle)
    \/ StartLock(w, idle) \/ LockWrite(w, idle) \/ LockRows(w, idle)
    \/ StartUnlock(w, idle) \/ UnlockWrite(w) \/ UnlockRows(w, idle)
=============================================================================
