-------------------------------- MODULE Leave --------------------------------
(***************************************************************************)
(* One employee's leave (hrms_leave_service): the requests, the yearly     *)
(* balance and the compensatory-off batches they draw on, and the          *)
(* attendance days they mark.  Extends Attendance, whose handlers write    *)
(* the same rows.  Day counts are in half days.                            *)
(*                                                                         *)
(* An approval debits first, marks the calendar next and records the       *)
(* decision last; a cancellation records first and gives back last.        *)
(* Neither is a transaction.                                               *)
(***************************************************************************)
EXTENDS Attendance

CONSTANTS
    Deciders,   \* who may decide this employee's requests
    Off,        \* the dates that are a weekend or a company holiday
    Batches,    \* C-Off claims: the dates worked, in order of expiry
    MaxGrant    \* bound: the largest balance an adjustment reaches, in half days

ASSUME LeaveAssumption ==
    /\ Off \subseteq Dates
    /\ Batches \subseteq Nat \ {0} /\ IsFiniteSet(Batches)
    /\ MaxGrant \in Nat
    /\ "none" \notin Deciders

VARIABLES
    leave,      \* hrms_leaves
    granted,    \* opening + carried_forward_in + accrued + adjusted - encashed
    used,       \* the balance's used
    coff,       \* hrms_coff_ledger
    expired,    \* the C-Off batches up to this one are past their expiry_date
    stuck       \* history: days a cancellation left alone because they were locked

books == <<granted, used, coff, expired>>
leaveVars == <<leave, books, stuck>>
vars == <<attendanceVars, leaveVars>>

-----------------------------------------------------------------------------
(* The documents                                                            *)

LeaveStatus == {"None", "Pending", "ManagerApproved", "Approved", "Refused", "Cancelled"}
OpenLeave == {"Pending", "ManagerApproved"}
Draw == [Batches -> 0..2]
Nothing == [b \in Batches |-> 0]

\* mgr is manager_action_by, and took is coff_usage: what the leave drew from each batch.
LeaveDoc == [status: LeaveStatus, kind: {"EL", "C-Off"}, from: Dates \cup {0}, to: Dates \cup {0},
             half: BOOLEAN, mgr: Deciders \cup {"none"}, took: Draw]
NoLeave == [status |-> "None", kind |-> "EL", from |-> 0, to |-> 0, half |-> FALSE,
            mgr |-> "none", took |-> Nothing]

Batch == [status: {"None", "PendingApproval", "Available", "Used", "Refused"}, left: 0..2]
NoBatch == [status |-> "None", left |-> 0]

\* leave_dates: a leave is charged for its working days only.
WorkingDays(from, to) == {d \in Dates \ Off : from <= d /\ d <= to}
Days(v) == WorkingDays(v.from, v.to)
Count(v) == IF v.half THEN 1 ELSE 2 * Cardinality(Days(v))

\* The sum of f over S, of figures that are never negative: as many as there are
\* units to tell apart in it.
Total(f, S) == Cardinality(UNION {{x} \X (1..f[x]) : x \in S})
Cost == [l \in Leaves |-> Count(leave[l])]
Left == [b \in Batches |-> coff[b].left]

\* _closing, _pending_days and _coff_available_balance.
Closing == granted - used
PendingDays(kind) ==
    Total(Cost, {l \in Leaves : leave[l].status \in OpenLeave /\ leave[l].kind = kind})
Usable(b) == coff[b].status = "Available" /\ b > expired
CoffAvailable == Total(Left, {b \in Batches : Usable(b)})

LeaveOps == {"apply", "act", "cancel", "claim", "act-claim", "adjust"}
LeavePCs == {"apply_balance", "apply_pending", "apply_insert", "debit_read", "debit_inc",
             "coff_read", "coff_take", "day_read", "day_write", "act_write",
             "cancel_write", "undo_read", "undo_row", "give_back", "claim_insert", "claim_write",
             "adjust_inc"}

\* v: the leave as read or proposed.  n: the balance it read.  todo: the days
\* still to write.  saw: the rows it read.  plan, base: what it will draw from
\* each batch, and what it read on it.
Task == [pc: AttendancePCs \cup LeavePCs, op: {"none"} \cup AttendanceOps \cup LeaveOps,
         x: {"none"} \cup Leaves \cup Regs \cup Ods, to: DayStatus \cup RequestStatus \cup LeaveStatus,
         d: Dates \cup {0}, levels: {0, 1, 2}, who: Deciders \cup {"none"}, v: LeaveDoc, n: Int,
         todo: SUBSET Dates, saw: [Dates -> Row], b: Batches \cup {0}, plan: Draw,
         base: Draw]

Idle == [pc |-> "idle", op |-> "none", x |-> "none", to |-> "None", d |-> 0, levels |-> 0,
         who |-> "none", v |-> NoLeave, n |-> 0, todo |-> {}, saw |-> [d \in Dates |-> NoRow],
         b |-> 0, plan |-> Nothing, base |-> Nothing]

TypeOK ==
    /\ DayTypeOK
    /\ task \in [Workers -> Task]
    /\ leave \in [Leaves -> LeaveDoc]
    /\ granted \in 0..MaxGrant /\ used \in Int
    /\ coff \in [Batches -> Batch]
    /\ expired \in Batches \cup {0}
    /\ stuck \subseteq Leaves \X Dates

Init ==
    /\ DayInit
    /\ task = [w \in Workers |-> Idle]
    /\ leave = [l \in Leaves |-> NoLeave]
    /\ granted = MaxGrant /\ used = 0
    /\ coff \in [Batches -> {NoBatch, [status |-> "Available", left |-> 2]}]
    /\ expired = 0
    /\ stuck = {}

Finish(w) == task' = [task EXCEPT ![w] = Idle]
Start(w, op, t) == Begin(w, Idle, op, t) /\ UNCHANGED leaveVars

-----------------------------------------------------------------------------
(* apply_leave                                                              *)

\* _overlapping_leave: an open or approved leave sharing a calendar date.
Overlaps(from, to) == \E l \in Leaves :
    /\ leave[l].status \in OpenLeave \cup {"Approved"}
    /\ leave[l].from <= to /\ leave[l].to >= from

StartApply(w) ==
    \E l \in Leaves, kind \in {"EL", "C-Off"}, from, to \in Dates, half \in BOOLEAN :
        /\ leave[l] = NoLeave
        /\ from <= to /\ (half => from = to)
        /\ WorkingDays(from, to) # {}
        /\ ~Overlaps(from, to)
        /\ Start(w, "apply",
                 [Idle EXCEPT !.pc = "apply_balance", !.x = l,
                    !.v = [NoLeave EXCEPT !.status = "Pending", !.kind = kind, !.from = from,
                                          !.to = to, !.half = half]])

ApplyBalance(w) ==
    /\ At(w, "apply_balance")
    /\ task' = [task EXCEPT ![w].pc = "apply_pending",
                            ![w].n = IF task[w].v.kind = "C-Off" THEN CoffAvailable ELSE Closing]
    /\ UNCHANGED <<row, lock, requests, traffic, leaveVars>>

\* What is left once the requests still waiting are counted.
ApplyPendingMutant(w) ==
    /\ At(w, "apply_pending")
    /\ IF Count(task[w].v) <= task[w].n THEN Goto(w, "apply_insert") ELSE Finish(w)
    /\ UNCHANGED <<row, lock, requests, traffic, leaveVars>>

ApplyPending(w) ==
    /\ At(w, "apply_pending")
    /\ IF Count(task[w].v) <= task[w].n - PendingDays(task[w].v.kind)
       THEN Goto(w, "apply_insert") ELSE Finish(w)
    /\ UNCHANGED <<row, lock, requests, traffic, leaveVars>>

ApplyInsert(w) ==
    /\ At(w, "apply_insert")
    /\ leave[task[w].x] = NoLeave
    /\ leave' = [leave EXCEPT ![task[w].x] = task[w].v]
    /\ Finish(w)
    /\ UNCHANGED <<row, lock, requests, traffic, books, stuck>>

-----------------------------------------------------------------------------
(* act_on_leave                                                             *)

\* A rejection or a first approval is only recorded; a final one is charged first.
ActFrom(v, to) == IF to # "Approved" THEN "act_write"
                  ELSE IF v.kind = "C-Off" THEN "coff_read" ELSE "debit_read"

\* The two approvals are given by two people, in order.
StartAct(w) == \E l \in Leaves, who \in Deciders, to \in LeaveStatus \ {"None", "Pending", "Cancelled"} :
    LET v == leave[l]
    IN  /\ v.status \in OpenLeave
        /\ to = "ManagerApproved" => v.status = "Pending"
        /\ to = "Approved" => v.status = "ManagerApproved" /\ v.mgr # who
        /\ Start(w, "act", [Idle EXCEPT !.x = l, !.who = who, !.to = to, !.v = v,
                                        !.pc = ActFrom(v, to)])

\* _debit_on_approval checks the balance again, since it may have moved.
DebitRead(w) ==
    /\ At(w, "debit_read")
    /\ IF Count(task[w].v) > Closing THEN Finish(w) ELSE Goto(w, "debit_inc")
    /\ UNCHANGED <<row, lock, requests, traffic, leaveVars>>

MarkDays(w) == [task EXCEPT ![w].pc = "day_read", ![w].todo = Days(task[w].v)]

DebitInc(w) ==
    /\ At(w, "debit_inc")
    /\ used' = used + Count(task[w].v)
    /\ task' = MarkDays(w)
    /\ UNCHANGED <<row, lock, requests, traffic, leave, granted, coff, expired, stuck>>

\* _debit_coff plans over the batches it read, soonest expiry first.
Plan(n) == [b \in Batches |->
    LET earlier == {e \in Batches : Usable(e) /\ e < b}
        before == Total(Left, earlier)
    IN  IF Usable(b) /\ before < n
        THEN (IF coff[b].left < n - before THEN coff[b].left ELSE n - before)
        ELSE 0]

CoffRead(w) ==
    /\ At(w, "coff_read")
    /\ IF CoffAvailable < Count(task[w].v) THEN Finish(w)
       ELSE task' = [task EXCEPT ![w].pc = "coff_take", ![w].plan = Plan(Count(task[w].v)),
                                 ![w].base = [b \in Batches |-> coff[b].left]]
    /\ UNCHANGED <<row, lock, requests, traffic, leaveVars>>

\* The batches of the plan, from the first; b is the last one written.
Rest(w) == {b \in Batches : task[w].plan[b] > 0 /\ b > task[w].b}

\* remaining_days is written as a figure, not a decrement.
CoffTake(w) ==
    /\ At(w, "coff_take") /\ Rest(w) # {}
    /\ LET b == Min(Rest(w))
           left == task[w].base[b] - task[w].plan[b]
       IN  /\ coff' = [coff EXCEPT ![b] = [status |-> IF left = 0 THEN "Used" ELSE "Available",
                                           left |-> left]]
           /\ task' = [task EXCEPT ![w].b = b]
    /\ UNCHANGED <<row, lock, requests, traffic, leave, granted, used, expired, stuck>>

CoffNote(w) ==
    /\ At(w, "coff_take") /\ Rest(w) = {}
    /\ leave' = [leave EXCEPT ![task[w].x].took = task[w].plan]
    /\ task' = MarkDays(w)
    /\ UNCHANGED <<row, lock, requests, traffic, books, stuck>>

\* A locked row is skipped; a locked month with no row is not noticed.
DayRead(w) ==
    /\ At(w, "day_read") /\ task[w].todo # {}
    /\ LET d == Min(task[w].todo)
       IN  IF row[d].locked
           THEN task' = [task EXCEPT ![w].todo = @ \ {d}]
           ELSE task' = [task EXCEPT ![w].saw[d] = row[d], ![w].pc = "day_write"]
    /\ UNCHANGED <<row, lock, requests, traffic, leaveVars>>

\* The status the day had is kept, unless it already was this leave's.
DayWrite(w) ==
    /\ At(w, "day_write")
    /\ LET d == Min(task[w].todo)
           seen == task[w].saw[d]
           pre == IF Exists(seen) /\ seen.ref # task[w].x THEN seen.status ELSE row[d].pre
       IN  /\ row' = [row EXCEPT ![d] = [@ EXCEPT !.status = "OnLeave", !.ref = task[w].x,
                                                  !.pre = pre]]
           /\ task' = [task EXCEPT ![w].todo = @ \ {d}, ![w].pc = "day_read"]
    /\ UNCHANGED <<lock, requests, traffic, leaveVars>>

DaysDone(w) ==
    /\ At(w, "day_read") /\ task[w].todo = {}
    /\ applied' = applied \cup {task[w].x}
    /\ Goto(w, "act_write")
    /\ UNCHANGED <<row, lock, reg, od, traffic, leaveVars>>

Decided(v, to, who) ==
    [v EXCEPT !.status = to, !.mgr = IF to = "ManagerApproved" THEN who ELSE @]

ActWrite(w) ==
    /\ At(w, "act_write")
    /\ leave' = [leave EXCEPT ![task[w].x] = Decided(@, task[w].to, task[w].who)]
    /\ Finish(w)
    /\ UNCHANGED <<row, lock, requests, traffic, books, stuck>>

-----------------------------------------------------------------------------
(* cancel_leave                                                             *)

StartCancel(w) == \E l \in Leaves :
    /\ leave[l].status \in OpenLeave \cup {"Approved"}
    /\ Start(w, "cancel", [Idle EXCEPT !.pc = "cancel_write", !.x = l, !.v = leave[l]])

CancelWrite(w) ==
    /\ At(w, "cancel_write")
    /\ leave' = [leave EXCEPT ![task[w].x].status = "Cancelled"]
    /\ IF task[w].v.status = "Approved" THEN Goto(w, "undo_read") ELSE Finish(w)
    /\ UNCHANGED <<row, lock, requests, traffic, books, stuck>>

\* _undo_leave_attendance: the rows that name this leave, but not the locked ones.
UndoRead(w) ==
    LET mine == {d \in Dates : row[d].ref = task[w].x}
    IN  /\ At(w, "undo_read")
        /\ task' = [task EXCEPT ![w].pc = "undo_row", ![w].saw = row,
                                ![w].todo = {d \in mine : ~row[d].locked}]
        /\ stuck' = stuck \cup ({task[w].x} \X {d \in mine : row[d].locked})
        /\ UNCHANGED <<row, lock, requests, traffic, leave, books>>

\* A day with no earlier status was made by the leave, and is deleted.
UndoRow(w) ==
    /\ At(w, "undo_row") /\ task[w].todo # {}
    /\ LET d == Min(task[w].todo)
           pre == task[w].saw[d].pre
       IN  /\ row' = [row EXCEPT ![d] =
                        IF pre = "None" \/ ~Exists(@) THEN NoRow
                        ELSE [@ EXCEPT !.status = pre, !.ref = "none", !.pre = "None"]]
           /\ task' = [task EXCEPT ![w].todo = @ \ {d}]
    /\ UNCHANGED <<lock, requests, traffic, leaveVars>>

UndoDone(w) ==
    /\ At(w, "undo_row") /\ task[w].todo = {}
    /\ task' = [task EXCEPT ![w].pc = "give_back", ![w].plan = task[w].v.took]
    /\ UNCHANGED <<row, lock, requests, traffic, leaveVars>>

\* Exactly what the leave took from each batch, one $inc at a time.
GiveBackCoffMutant(w) ==
    /\ At(w, "give_back") /\ task[w].v.kind = "C-Off" /\ Rest(w) # {}
    /\ LET b == Min(Rest(w))
       IN  /\ coff' = [coff EXCEPT ![b] = [status |-> "Available", left |-> @.left + 2]]
           /\ IF Rest(w) = {b} THEN Finish(w) ELSE task' = [task EXCEPT ![w].b = b]
    /\ UNCHANGED <<row, lock, requests, traffic, leave, granted, used, expired, stuck>>

GiveBackCoff(w) ==
    /\ At(w, "give_back") /\ task[w].v.kind = "C-Off" /\ Rest(w) # {}
    /\ LET b == Min(Rest(w))
       IN  /\ coff' = [coff EXCEPT ![b] = [status |-> "Available",
                                           left |-> @.left + task[w].plan[b]]]
           /\ IF Rest(w) = {b} THEN Finish(w) ELSE task' = [task EXCEPT ![w].b = b]
    /\ UNCHANGED <<row, lock, requests, traffic, leave, granted, used, expired, stuck>>

GiveBackMutant(w) ==
    /\ At(w, "give_back") /\ task[w].v.kind = "EL"
    /\ used' = used - 2 * Cardinality(Days(task[w].v))
    /\ Finish(w)
    /\ UNCHANGED <<row, lock, requests, traffic, leave, granted, coff, expired, stuck>>

GiveBack(w) ==
    /\ At(w, "give_back") /\ task[w].v.kind = "EL"
    /\ used' = used - Count(task[w].v)
    /\ Finish(w)
    /\ UNCHANGED <<row, lock, requests, traffic, leave, granted, coff, expired, stuck>>

-----------------------------------------------------------------------------
(* C-Off claims, adjustments and the calendar                               *)

\* One claim for a date worked that has not been rejected.
StartClaim(w) == \E b \in Batches :
    /\ coff[b].status \in {"None", "Refused"}
    /\ Start(w, "claim", [Idle EXCEPT !.pc = "claim_insert", !.b = b])

ClaimInsert(w) ==
    /\ At(w, "claim_insert")
    /\ coff' = [coff EXCEPT ![task[w].b] = [status |-> "PendingApproval", left |-> 0]]
    /\ Finish(w)
    /\ UNCHANGED <<row, lock, requests, traffic, leave, granted, used, expired, stuck>>

StartActClaim(w) == \E b \in Batches, to \in {"Approved", "Refused"} :
    /\ coff[b].status = "PendingApproval"
    /\ Start(w, "act-claim", [Idle EXCEPT !.pc = "claim_write", !.b = b, !.to = to])

ClaimWrite(w) ==
    /\ At(w, "claim_write")
    /\ coff' = [coff EXCEPT ![task[w].b] =
                  IF task[w].to = "Approved" THEN [status |-> "Available", left |-> 2]
                  ELSE [status |-> "Refused", left |-> 0]]
    /\ Finish(w)
    /\ UNCHANGED <<row, lock, requests, traffic, leave, granted, used, expired, stuck>>

\* adjust_leave_balance: one $inc of adjusted, here a day up or down.
StartAdjust(w) == Start(w, "adjust", [Idle EXCEPT !.pc = "adjust_inc"])

AdjustInc(w) == \E by \in {-2, 2} :
    /\ At(w, "adjust_inc")
    /\ granted + by \in 0..MaxGrant
    /\ granted' = granted + by
    /\ Finish(w)
    /\ UNCHANGED <<row, lock, requests, traffic, leave, used, coff, expired, stuck>>

\* A day passes: the next batch expires.
Expire ==
    /\ "expire" \in Offered
    /\ {b \in Batches : b > expired} # {}
    /\ expired' = Min({b \in Batches : b > expired})
    /\ UNCHANGED <<attendanceVars, leave, granted, used, coff, stuck>>

Crash == Restart(Idle) /\ UNCHANGED leaveVars

-----------------------------------------------------------------------------
LeaveStep(w) ==
    \/ StartApply(w) \/ ApplyBalance(w) \/ ApplyPending(w) \/ ApplyInsert(w)
    \/ StartAct(w) \/ DebitRead(w) \/ DebitInc(w) \/ CoffRead(w) \/ CoffTake(w) \/ CoffNote(w)
    \/ DayRead(w) \/ DayWrite(w) \/ DaysDone(w) \/ ActWrite(w)
    \/ StartCancel(w) \/ CancelWrite(w) \/ UndoRead(w) \/ UndoRow(w) \/ UndoDone(w)
    \/ GiveBackCoff(w) \/ GiveBack(w)
    \/ StartClaim(w) \/ ClaimInsert(w) \/ StartActClaim(w) \/ ClaimWrite(w)
    \/ StartAdjust(w) \/ AdjustInc(w)

Next ==
    \/ \E w \in Workers : LeaveStep(w) \/ (AttendanceStep(w, Idle) /\ UNCHANGED leaveVars)
    \/ Expire \/ Crash

Spec == Init /\ [][Next]_vars

-----------------------------------------------------------------------------
(* Properties.  The books are stated of requests served one after another,  *)
(* the only schedule their services are written for, and the lock of any.   *)

Quiet == \A w \in Workers : task[w] = Idle
ApprovedOf(kind) == {l \in Leaves : leave[l].status = "Approved" /\ leave[l].kind = kind}
Drawn(b) == Total([l \in Leaves |-> leave[l].took[b]], ApprovedOf("C-Off"))
Taken == Total(Cost, ApprovedOf("EL"))

\* Between requests the books agree with the approved leaves: the balance is
\* charged for each of them once, and each C-Off batch holds its day less what
\* they drew (_debit_on_approval, cancel_leave).  A crash in between can only
\* leave the employee charged too much, never too little.
BooksBalance ==
    Quiet => /\ used >= Taken
             /\ \A b \in Batches : coff[b].left + Drawn(b) <= 2
             /\ crashes = 0 =>
                  /\ used = Taken
                  /\ \A b \in Batches :
                       coff[b].status \in {"Available", "Used"} => coff[b].left + Drawn(b) = 2

\* A leave already charged, whose approval is still to be recorded.
Charging(l) == \E w \in Workers :
    /\ task[w].x = l /\ task[w].op = "act" /\ task[w].to = "Approved"
    /\ task[w].pc \in {"day_read", "day_write", "act_write"}
Promised == {l \in Leaves : leave[l].status \in OpenLeave /\ leave[l].kind = "EL" /\ ~Charging(l)}
Headroom == Closing - Total(Cost, Promised)

\* Days asked for and not yet decided are never promised twice: only an
\* adjustment by HR can take what is left below the requests that wait for it
\* (_pending_days: counted one by one, "approving both took the balance to -6").
PromisesCovered ==
    [][granted' = granted /\ crashes' = 0 => Headroom' >= 0 \/ Headroom' >= Headroom]_vars

\* Part of DecisionsTakeEffect.  A day shown On Leave is a working day of an approved
\* leave, unless the leave was cancelled while that day was locked
\* (_undo_leave_attendance).
LeaveDaysShown ==
    Quiet /\ crashes = 0 => \A d \in Dates :
        row[d].status = "OnLeave" =>
            \/ \E l \in Leaves : /\ row[d].ref = l /\ leave[l].status = "Approved"
                                 /\ d \in Days(leave[l])
            \/ \E l \in Leaves : <<l, d>> \in stuck

\* Whatever other requests do meanwhile, a locked day of a locked month is changed only
\* by a request that was already running when the month was locked: none that starts
\* afterwards writes it, whichever of the two locks it asks for (lock_period, and the
\* eight handlers that write day rows).
LockedDaysFrozen ==
    [][\A d \in Dates : lock = "Locked" /\ row[d].locked /\ row'[d] # row[d] =>
           \E w \in late : task'[w] # task[w]]_vars

\* No day is added to a locked month by a request that starts after the lock: "a new row
\* in a locked month would slip past the lock (only existing rows carry `locked`), so
\* writers check the period itself too" (_month_locked).
NoNewDayUnderLock ==
    [][\A d \in Dates : lock = "Locked" /\ Exists(row'[d]) /\ ~Exists(row[d]) =>
           \E w \in late : task'[w] # task[w]]_vars

\* The day shows what was decided about it: an approved correction or outdoor duty
\* has reached the day, and none other has; a request of one level never waits for a
\* second approver (act_on_regularization, act_on_od); and a day on leave belongs to
\* an approved leave.
DecisionsTakeEffect ==
    LeaveDaysShown /\ (Quiet /\ crashes = 0 =>
        /\ \A r \in Regs : /\ reg[r].status = "Approved" <=> r \in applied
                           /\ reg[r].levels = 1 => reg[r].status # "ManagerApproved"
        /\ \A o \in Ods : /\ od[o].status = "Approved" <=> o \in applied
                          /\ od[o].levels # 2 => od[o].status # "ManagerApproved")
=============================================================================
