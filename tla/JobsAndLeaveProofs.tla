-------------------------- MODULE JobsAndLeaveProofs --------------------------
(***************************************************************************)
(* Proofs about Leave and about Scheduler, two components that share no    *)
(* state and no name.                                                      *)
(*                                                                         *)
(* Leave, for any dates, leaves, requests and batches, one request at a    *)
(* time and with a restart at any moment.  Its properties speak of the     *)
(* state between requests, so none is inductive.  Inv says what holds in   *)
(* between: what the request being served has read still stands (Sees...), *)
(* what it has charged or drawn and not recorded, or no longer (Charged,   *)
(* Held), is what the books differ from the approved leaves by, and which  *)
(* day it has marked for whom (Owned).  That locked days stay as they are  *)
(* is proved of any number of requests at once: Guarded says that what a   *)
(* request is about to write, its handler has found unlocked, unless a     *)
(* lock has overtaken it since.                                            *)
(*                                                                         *)
(* Scheduler, for any processes, jobs, days and number of crashes and      *)
(* failures.  OneRunner is not inductive: that a process may start a run   *)
(* depends on what the claim says.  JobsSafe ties the three together for   *)
(* every pair that is not excused: whoever holds a job has its claim       *)
(* running, only an excused claim lapses (and so is taken over), and a job *)
(* that has run keeps its claim, with at most its runner still to say so.  *)
(***************************************************************************)
EXTENDS Leave, Scheduler, FiniteSetTheorems, WellFoundedInduction, TLAPS

-----------------------------------------------------------------------------
(* Sums and minima                                                          *)

\* Of initial segments of the numbers, strict inclusion is well-founded; so are the
\* numbers, and a set of them has a least one.
LEMMA MinFound ==
    ASSUME NEW S \in SUBSET Nat, S # {}
    PROVE  Min(S) \in S /\ \A y \in S : Min(S) <= y
<1> DEFINE T == {0..n : n \in S}
<1>1. T # {} /\ T \subseteq FiniteSubsetsOf(Nat)
  <2>1. \A n \in S : IsFiniteSet(0..n) /\ 0..n \in SUBSET Nat
    <3> TAKE n \in S
    <3>1. n \in Int /\ 0 \in Int
      OBVIOUS
    <3> QED
      BY <3>1, FS_Interval
  <2> QED
    BY <2>1 DEF FiniteSubsetsOf
<1>2. PICK s \in T : \A t \in T : <<t, s>> \notin StrictSubsetOrdering(Nat)
  <2> HIDE DEF T
  <2> QED
    BY <1>1, FS_StrictSubsetOrderingWellFounded, WFMin
<1>3. PICK x \in S : s = 0..x
  BY <1>2
<1>4. \A y \in S : x <= y
  <2> SUFFICES ASSUME NEW y \in S, y < x PROVE FALSE
    OBVIOUS
  <2>1. 0..y \in T /\ 0..y \in SUBSET Nat /\ 0..x \in SUBSET Nat
    OBVIOUS
  <2>2. 0..y \subseteq 0..x /\ x \in 0..x /\ x \notin 0..y
    OBVIOUS
  <2> HIDE DEF T
  <2> QED
    BY <1>2, <1>3, <2>1, <2>2 DEF StrictSubsetOrdering
<1> QED
  BY <1>4 DEF Min

\* The numbers from 1 to n are n.
LEMMA CountTo == ASSUME NEW n \in Nat PROVE IsFiniteSet(1..n) /\ Cardinality(1..n) = n
<1>1. 1 \in Int /\ n \in Int
  OBVIOUS
<1>2. IsFiniteSet(1..n) /\ Cardinality(1..n) = IF 1 > n THEN 0 ELSE n - 1 + 1
  BY <1>1, FS_Interval
<1> QED
  BY <1>2

Units(f, S) == UNION {{x} \X (1..f[x]) : x \in S}

\* The units a sum counts are finitely many.
LEMMA UnitsFinite ==
    ASSUME NEW f, NEW S, IsFiniteSet(S), \A x \in S : f[x] \in Nat
    PROVE  IsFiniteSet(Units(f, S))
<1> DEFINE U == {{x} \X (1..f[x]) : x \in S}
<1>1. IsFiniteSet(U)
  <2> DEFINE g == [x \in S |-> {x} \X (1..f[x])]
  <2>1. g \in Surjection(S, U)
    BY DEF Surjection
  <2> QED
    BY <2>1, FS_Surjection
<1>2. \A T \in U : IsFiniteSet(T)
  <2> TAKE T \in U
  <2>1. PICK x \in S : T = {x} \X (1..f[x])
    OBVIOUS
  <2>2. IsFiniteSet({x}) /\ IsFiniteSet(1..f[x])
    BY FS_Singleton, CountTo
  <2> QED
    BY <2>1, <2>2, FS_Product
<1> QED
  BY <1>1, <1>2, FS_UNION DEF Units

\* A sum of natural numbers is one.
LEMMA TotalIsNat ==
    ASSUME NEW f, NEW S, IsFiniteSet(S), \A x \in S : f[x] \in Nat
    PROVE  Total(f, S) \in Nat
BY UnitsFinite, FS_CardinalityType DEF Total, Units

\* A sum grows by what is added to the set.
LEMMA TotalAdded ==
    ASSUME NEW f, NEW S, IsFiniteSet(S), NEW x, x \notin S, \A y \in S \cup {x} : f[y] \in Nat
    PROVE  Total(f, S \cup {x}) = Total(f, S) + f[x]
<1> DEFINE own == {x} \X (1..f[x])
<1>1. IsFiniteSet(Units(f, S))
  BY UnitsFinite
<1>2. IsFiniteSet(own) /\ Cardinality(own) = f[x]
  <2>1. IsFiniteSet({x}) /\ IsFiniteSet(1..f[x])
    BY FS_Singleton, CountTo
  <2>2. Cardinality({x}) = 1 /\ Cardinality(1..f[x]) = f[x]
    BY FS_Singleton, CountTo
  <2>3. IsFiniteSet(own) /\ Cardinality(own) = 1 * f[x]
    BY <2>1, <2>2, FS_Product
  <2> QED
    BY <2>3
<1>3. Units(f, S \cup {x}) = Units(f, S) \cup own
  BY DEF Units
<1>4. Units(f, S) \cap own = {}
  BY DEF Units
<1>5. Cardinality(Units(f, S)) \in Nat
  BY <1>1, FS_CardinalityType
<1> HIDE DEF own
<1>6. Cardinality(Units(f, S) \cup own) = Cardinality(Units(f, S)) + Cardinality(own) - Cardinality({})
  BY <1>1, <1>2, <1>4, FS_Union
<1>7. Cardinality({}) = 0 /\ f[x] \in Nat
  BY FS_EmptySet
<1>8. Total(f, S) = Cardinality(Units(f, S)) /\ Total(f, S \cup {x}) = Cardinality(Units(f, S \cup {x}))
  BY DEF Total, Units
<1>9. Total(f, S \cup {x}) = Total(f, S) + f[x] - 0 /\ Total(f, S) \in Nat
  BY <1>2, <1>3, <1>5, <1>6, <1>7, <1>8
<1> QED
  BY <1>7, <1>9

\* It falls by what is taken out of the set.
LEMMA TotalRemoved ==
    ASSUME NEW f, NEW S, IsFiniteSet(S), NEW x \in S, \A y \in S : f[y] \in Nat
    PROVE  Total(f, S \ {x}) = Total(f, S) - f[x]
<1>1. IsFiniteSet(S \ {x}) /\ x \notin S \ {x} /\ (S \ {x}) \cup {x} = S
  BY FS_RemoveElement
<1>2. Total(f, S) = Total(f, S \ {x}) + f[x]
  <2> DEFINE T == S \ {x}
  <2> HIDE DEF T
  <2>1. IsFiniteSet(T) /\ x \notin T /\ T \cup {x} = S
    BY <1>1 DEF T
  <2>2. Total(f, T \cup {x}) = Total(f, T) + f[x]
    BY <2>1, TotalAdded
  <2> QED
    BY <2>1, <2>2 DEF T
<1>3. Total(f, S \ {x}) \in Nat /\ f[x] \in Nat
  BY <1>1, TotalIsNat
<1> QED
  BY <1>2, <1>3

\* It depends on f over the set only.
LEMMA TotalSame ==
    ASSUME NEW f, NEW g, NEW S, \A x \in S : f[x] = g[x]
    PROVE  Total(f, S) = Total(g, S)
<1>1. Units(f, S) = Units(g, S)
  BY DEF Units
<1> QED
  BY <1>1 DEF Total, Units

\* Of nothing it is 0.
LEMMA TotalEmpty == ASSUME NEW f PROVE Total(f, {}) = 0
<1>1. UNION {{x} \X (1..f[x]) : x \in {}} = {}
  OBVIOUS
<1> QED
  BY <1>1, FS_EmptySet DEF Total

\* One request is served at a time, the only schedule these services are written for.
OneRequest == \E w \in Workers : Workers = {w}

ActPCs == {"debit_read", "debit_inc", "coff_read", "coff_take", "day_read", "day_write", "act_write"}
MarkPCs == {"day_read", "day_write", "act_write"}
UndoPCs == {"undo_read", "undo_row", "give_back"}
Live == OpenLeave \cup {"Approved"}

\* The days of t's leave are being marked, its charge made; and being taken back.
Marking(t) == t.pc \in MarkPCs /\ t.to = "Approved"
Undoing(t) == t.pc \in UndoPCs

-----------------------------------------------------------------------------
\* What a request carries fits its step.
FitDay(t) ==
    /\ t.pc = "month_check" => IF t.op = "mark" THEN t.to \in Marks ELSE t.x \in Regs
    /\ t.pc = "mark_write" => t.to \in Marks
    /\ t.pc \in {"reg_insert", "reg_unlocked", "reg_apply", "reg_write"} => t.x \in Regs
    /\ t.pc \in {"reg_unlocked", "reg_apply"} => t.to = "Approved"
    /\ t.pc = "reg_write" => t.to \in RequestStatus
    /\ t.pc \in {"od_insert", "od_lock", "od_write", "od_apply"} => t.x \in Ods
    /\ t.pc \in {"od_lock", "od_apply"} => t.to = "Approved"
    /\ t.pc = "od_write" => t.to \in RequestStatus

FitLeave(t) ==
    /\ t.pc \in LeavePCs \ {"claim_insert", "claim_write", "adjust_inc"} => t.x \in Leaves
    /\ t.pc \in ActPCs \ {"act_write"} => t.to = "Approved"
    /\ t.pc = "act_write" => t.to \in {"ManagerApproved", "Approved", "Refused"}
    /\ t.pc \in {"debit_read", "debit_inc"} => t.v.kind = "EL"
    /\ t.pc \in {"coff_read", "coff_take"} => t.v.kind = "C-Off"
    /\ t.pc \in {"claim_insert", "claim_write"} => t.b \in Batches
    /\ t.pc = "claim_write" => t.to \in {"Approved", "Refused"}
    /\ t.pc \in {"coff_read", "cancel_write", "undo_read", "undo_row"} => t.b = 0

Fit(t) ==
    /\ t.pc = "idle" => t = Idle
    /\ t.op = "act" <=> t.pc \in ActPCs
    /\ FitDay(t) /\ FitLeave(t)

-----------------------------------------------------------------------------
\* What a request read of the day rows still stands.
SeesMonth(t) ==
    /\ t.pc = "day_write" => t.todo # {} /\ t.saw[Min(t.todo)] = row[Min(t.todo)]
    /\ t.pc = "undo_row" => \A d \in t.todo : t.saw[d] = row[d] /\ row[d].ref = t.x

\* And of the corrections and duties.
SeesRequests(t) ==
    /\ t.pc \in {"reg_unlocked", "reg_apply", "reg_write"} => reg[t.x].status \in OpenRequest
    /\ t.pc = "reg_write" /\ t.to = "ManagerApproved" => reg[t.x].levels # 1
    /\ t.pc \in {"od_lock", "od_write"} => od[t.x].status \in OpenRequest
    /\ t.pc = "od_write" /\ t.to = "ManagerApproved" => od[t.x].levels = 2
    /\ t.pc = "od_apply" => od[t.x].status = "Approved"

\* And of the leave it is about.
SeesLeave(t) ==
    /\ t.pc \in {"apply_balance", "apply_pending", "apply_insert"} =>
         t.v.status = "Pending" /\ ~Overlaps(t.v.from, t.v.to)
    /\ t.pc \in ActPCs =>
         /\ leave[t.x].status \in OpenLeave
         /\ leave[t.x] = [t.v EXCEPT !.took = leave[t.x].took]
    /\ Marking(t) => /\ t.v.kind = "C-Off" => leave[t.x].took = t.plan
                     /\ t.todo \subseteq Days(t.v)
    /\ t.pc = "cancel_write" => leave[t.x] = t.v /\ t.v.status \in Live
    /\ Undoing(t) => /\ t.v.status = "Approved"
                     /\ leave[t.x] = [t.v EXCEPT !.status = "Cancelled"]

\* And of the books.
SeesBooks(t) ==
    /\ t.pc = "apply_pending" /\ t.v.kind = "EL" => t.n = Closing
    /\ t.pc = "apply_insert" /\ t.v.kind = "EL" => Count(t.v) <= Closing - PendingDays("EL")
    /\ t.pc = "coff_take" => \A b \in Batches :
         /\ t.plan[b] <= t.base[b]
         /\ b > t.b /\ t.plan[b] > 0 => coff[b].status = "Available" /\ t.base[b] = coff[b].left
    /\ t.pc = "claim_insert" => coff[t.b].status \in {"None", "Refused"}
    /\ t.pc = "claim_write" => coff[t.b].status = "PendingApproval"

-----------------------------------------------------------------------------
\* What t has drawn from batch b and the leave does not show as drawn: not yet, or no longer.
Held(t, b) ==
    IF \/ t.pc = "coff_take" /\ b <= t.b
       \/ Marking(t) /\ t.v.kind = "C-Off"
       \/ t.pc = "give_back" /\ t.v.kind = "C-Off" /\ b > t.b
    THEN t.plan[b]
    ELSE IF t.pc \in {"undo_read", "undo_row"} /\ t.v.kind = "C-Off" THEN t.v.took[b] ELSE 0

\* What t has charged to the balance, likewise.
Charged(t) == IF t.v.kind = "EL" /\ (Marking(t) \/ Undoing(t)) THEN Count(t.v) ELSE 0

BalanceHolds(t) ==
    /\ used >= Taken + Charged(t)
    /\ crashes = 0 => used = Taken + Charged(t)

BatchesHold(t) == \A b \in Batches :
    LET all == coff[b].left + Drawn(b) + Held(t, b)
    IN  IF coff[b].status \in {"Available", "Used"} THEN all <= 2 /\ (crashes = 0 => all = 2)
                                                    ELSE all = 0

-----------------------------------------------------------------------------
\* Two leaves that are open or approved share no date.
Apart == \A k, l \in Leaves : k # l /\ leave[k].status \in Live /\ leave[l].status \in Live =>
    leave[k].to < leave[l].from \/ leave[l].to < leave[k].from

\* A cancellation met day d when it was locked.
Kept(d) == \E l \in Leaves : <<l, d>> \in stuck

\* Whose leave day d is: approved, on its way to be, or being taken back.
Owned(t, d) ==
    /\ row[d].ref \in Leaves /\ d \in Days(leave[row[d].ref])
    /\ \/ leave[row[d].ref].status = "Approved"
       \/ t.x = row[d].ref /\ (Marking(t) \/ t.pc = "undo_read" \/ (t.pc = "undo_row" /\ d \in t.todo))

DaysOwned(t) == crashes = 0 => \A d \in Dates :
    /\ row[d].pre = "OnLeave" => Kept(d)
    /\ row[d].status = "OnLeave" => Kept(d) \/ Owned(t, d)

\* A correction counts once its day is written, and a duty's day follows its decision.
RequestsDone(t) ==
    /\ \A r \in Regs : reg[r].levels = 1 => reg[r].status # "ManagerApproved"
    /\ \A o \in Ods : od[o].levels # 2 => od[o].status # "ManagerApproved"
    /\ crashes = 0 =>
         /\ \A r \in Regs : r \in applied <=>
              reg[r].status = "Approved" \/ (t.pc = "reg_write" /\ t.to = "Approved" /\ t.x = r)
         /\ \A o \in Ods : o \in applied <=>
              od[o].status = "Approved" /\ ~(t.pc = "od_apply" /\ t.x = o)

\* What holds of the state and of the request being served, between any two steps.
Sound(t) ==
    /\ Fit(t)
    /\ SeesMonth(t) /\ SeesRequests(t) /\ SeesLeave(t) /\ SeesBooks(t)
    /\ BalanceHolds(t) /\ BatchesHold(t) /\ RequestsDone(t)

Inv == TypeOK /\ Apart /\ \A w \in Workers : Sound(task[w])
AllOwned == \A w \in Workers : DaysOwned(task[w])

-----------------------------------------------------------------------------
(* Typing                                                                   *)

TaskPCs == AttendancePCs \cup LeavePCs

LEMMA IdleTyped ==
    /\ NoRow \in Row /\ NoRequest \in Request /\ NoLeave \in LeaveDoc /\ Nothing \in Draw
    /\ NoBatch \in Batch /\ Idle \in Task
    /\ Idle.pc = "idle" /\ Idle.op = "none" /\ Fit(Idle)
<1>1. NoRow \in Row /\ NoRequest \in Request /\ Nothing \in Draw /\ NoBatch \in Batch
  BY DEF NoRow, Row, DayStatus, NoRequest, Request, RequestStatus, Nothing, Draw, NoBatch, Batch
<1>2. NoLeave \in LeaveDoc
  BY <1>1 DEF NoLeave, LeaveDoc, LeaveStatus
<1>3. Idle \in Task
  BY <1>1, <1>2 DEF Idle, Task, AttendancePCs, RequestStatus
<1>4. Idle.pc = "idle" /\ Idle.op = "none"
  BY DEF Idle
<1>5. Fit(Idle)
  BY <1>4 DEF Fit, FitDay, FitLeave, ActPCs, LeavePCs
<1> QED
  BY <1>1, <1>2, <1>3, <1>4, <1>5

\* What a step keeps when it only moves on.
LEMMA Moved ==
    ASSUME NEW t \in Task, NEW nxt \in TaskPCs, NEW u, u = [t EXCEPT !.pc = nxt]
    PROVE  /\ u \in Task /\ u.pc = nxt
           /\ u.op = t.op /\ u.x = t.x /\ u.to = t.to /\ u.d = t.d /\ u.levels = t.levels
           /\ u.who = t.who /\ u.v = t.v /\ u.n = t.n /\ u.todo = t.todo /\ u.saw = t.saw
           /\ u.b = t.b /\ u.plan = t.plan /\ u.base = t.base
BY DEF Task, TaskPCs

LEMMA MarksTyped ==
    ASSUME NEW r \in Row, NEW s \in DayStatus
    PROVE  /\ Marked(r, s) \in Row
           /\ Marked(r, s).status = s /\ Marked(r, s).ref = r.ref /\ Marked(r, s).pre = r.pre
           /\ Marked(r, s).locked = r.locked
           /\ \A b \in BOOLEAN : [r EXCEPT !.locked = b] \in Row
BY DEF Marked, Row

\* Punches, the biometric file and approved hours.
ClockStep(w) ==
    \/ StartPunch(w, Idle) \/ PunchWrite(w, Idle)
    \/ StartImport(w, Idle) \/ ImportRead(w, Idle) \/ ImportMonth(w, Idle) \/ ImportWrite(w, Idle)
    \/ StartRejudge(w, Idle) \/ Rejudge(w, Idle)
ClockPCs == {"punch_write", "import_read", "import_month", "import_write", "rejudge"}

\* Day d is written, with a status, and whose leave it is stays.
StatusOnly(d, s, r) ==
    /\ row' = [row EXCEPT ![d] = r]
    /\ r.status = s /\ r.ref = row[d].ref /\ r.pre = row[d].pre

\* They write the status of a day or its lock, and nothing else of the month.
LEMMA ClockSteps ==
    ASSUME TypeOK, NEW w \in Workers, Fit(task[w]), ClockStep(w)
    PROVE  /\ task[w].pc \in ClockPCs \cup {"idle"} /\ task'[w].pc \in ClockPCs \cup {"idle"}
           /\ task'[w] \in Task /\ Fit(task'[w]) /\ task' = [task EXCEPT ![w] = task'[w]]
           /\ UNCHANGED <<lock, requests, crashes>> /\ acts' \in Nat /\ late' \subseteq Workers
           /\ row' = row \/ \E d \in Dates, s \in Marks, r \in Row : StatusOnly(d, s, r)
<1> DEFINE t == task[w]
           u == task'[w]
           Counted == acts' \in Nat /\ late' \subseteq Workers
           Wrote == row' = row \/ \E d \in Dates, s \in Marks, r \in Row : StatusOnly(d, s, r)
           Fine == /\ t.pc \in ClockPCs \cup {"idle"} /\ u.pc \in ClockPCs \cup {"idle"}
                   /\ u \in Task /\ Fit(u) /\ task' = [task EXCEPT ![w] = u]
                   /\ UNCHANGED <<lock, requests, crashes>> /\ Counted /\ Wrote
<1>0. /\ t \in Task /\ task \in [Workers -> Task] /\ Fit(t) /\ row \in [Dates -> Row]
      /\ acts \in Nat /\ late \subseteq Workers
      /\ Idle \in Task /\ Fit(Idle) /\ Idle.pc = "idle" /\ Idle.op = "none"
  BY IdleTyped DEF TypeOK, DayTypeOK
<1>a. \A v : task' = [task EXCEPT ![w] = v] => u = v
  BY <1>0
<1>b. \A nxt : [task EXCEPT ![w].pc = nxt] = [task EXCEPT ![w] = [t EXCEPT !.pc = nxt]]
  BY <1>0
<1>c. ASSUME NEW v \in Task, v.pc \in ClockPCs, v.op # "act" PROVE Fit(v)
  BY <1>c DEF Fit, FitDay, FitLeave, ClockPCs, ActPCs, LeavePCs
<1>d. t.pc \in ClockPCs => t.op # "act"
  BY <1>0 DEF Fit, ClockPCs, ActPCs
\* A request of theirs begins.
<1>e. ASSUME NEW op \in {"punch", "import", "act-flexi"}, NEW v \in Task, v.pc \in ClockPCs,
             Begin(w, Idle, op, v)
      PROVE  Fine
  <2>1. /\ t = Idle /\ acts' = acts + 1 /\ late' = late \ {w} /\ UNCHANGED <<row, lock, requests, crashes>>
        /\ task' = [task EXCEPT ![w] = [v EXCEPT !.op = op]]
    BY <1>e DEF Begin, t
  <2>2. u = [v EXCEPT !.op = op]
    BY <1>a, <2>1
  <2> HIDE DEF u
  <2>3. op \in AttendanceOps
    BY DEF AttendanceOps
  <2>4. u \in Task /\ u.pc = v.pc /\ u.op = op
    BY <2>2, <2>3 DEF Task
  <2>5. Fit(u)
    BY <1>c, <1>e, <2>4
  <2>6. task' = [task EXCEPT ![w] = u] /\ Counted
    BY <1>0, <2>1, <2>2
  <2> QED
    BY <1>0, <1>e, <2>1, <2>4, <2>5, <2>6
\* One of theirs goes on, its counts as they were.
<1>f. ASSUME t.pc \in ClockPCs, UNCHANGED <<lock, requests, traffic>>, Wrote,
             \/ task' = [task EXCEPT ![w] = Idle]
             \/ \E nxt \in ClockPCs : Goto(w, nxt)
             \/ \E nxt \in ClockPCs, left \in SUBSET Dates : Proceed(w, Idle, nxt, left)
      PROVE  Fine
  <2>0. UNCHANGED <<lock, requests, crashes>> /\ Counted
    BY <1>0, <1>f DEF traffic
  <2>1. CASE task' = [task EXCEPT ![w] = Idle]
    <3>1. u = Idle
      BY <1>a, <2>1
    <3> QED
      BY <1>0, <1>f, <2>0, <2>1, <3>1
  <2>2. ASSUME NEW nxt \in ClockPCs, NEW v \in Task, task' = [task EXCEPT ![w] = v], v.pc = nxt, v.op = t.op
        PROVE  Fine
    <3>1. u = v /\ Fit(v)
      BY <1>a, <1>c, <1>d, <1>f, <2>2
    <3> QED
      BY <1>0, <1>f, <2>0, <2>2, <3>1
  <2>3. ASSUME NEW nxt \in ClockPCs, Goto(w, nxt) PROVE Fine
    <3>1. [t EXCEPT !.pc = nxt] \in Task /\ [t EXCEPT !.pc = nxt].pc = nxt /\ [t EXCEPT !.pc = nxt].op = t.op
      BY <1>0, Moved DEF ClockPCs, TaskPCs, AttendancePCs
    <3>2. task' = [task EXCEPT ![w] = [t EXCEPT !.pc = nxt]]
      BY <1>b, <2>3 DEF Goto
    <3> QED
      BY <2>2, <3>1, <3>2
  <2>4. ASSUME NEW nxt \in ClockPCs, NEW left \in SUBSET Dates, Proceed(w, Idle, nxt, left) PROVE Fine
    <3>1. CASE left = {}
      BY <2>1, <2>4, <3>1 DEF Proceed
    <3>2. CASE left # {}
      <4> DEFINE v == [t EXCEPT !.pc = nxt, !.todo = left]
      <4>1. nxt \in TaskPCs /\ v = [t EXCEPT !.pc = nxt, !.todo = left]
        BY DEF ClockPCs, AttendancePCs, TaskPCs
      <4>2. task' = [task EXCEPT ![w] = v]
        BY <1>0, <2>4, <3>2 DEF Proceed, t
      <4> HIDE DEF v
      <4>3. v \in Task /\ v.pc = nxt /\ v.op = t.op
        BY <1>0, <4>1 DEF Task, TaskPCs
      <4> QED
        BY <2>2, <4>2, <4>3
    <3> QED
      BY <3>1, <3>2
  <2> QED
    BY <1>f, <2>1, <2>3, <2>4
\* A recorded day.
<1>g. ASSUME NEW d, NEW s \in Marks, row' = [row EXCEPT ![d] = Recorded(@, s)] PROVE Wrote
  <2>1. CASE d \in Dates
    <3>1. Recorded(row[d], s) \in Row /\ StatusOnly(d, s, Recorded(row[d], s))
      BY <1>0, <1>g, <2>1 DEF Recorded, Marked, Row, StatusOnly, DayStatus
    <3> QED
      BY <2>1, <3>1
  <2>2. CASE d \notin Dates
    BY <1>0, <1>g, <2>2
  <2> QED
    BY <2>1, <2>2
<1>h. \A d : t.todo \ {d} \in SUBSET Dates
  BY <1>0 DEF Task
<1> SUFFICES Fine
  OBVIOUS
<1> HIDE DEF t, u, Fine, Wrote, Counted
<1>1. CASE StartPunch(w, Idle)
  <2>1. PICK d \in Dates : Begin(w, Idle, "punch", [Idle EXCEPT !.pc = "punch_write", !.d = d])
    BY <1>1 DEF StartPunch
  <2> DEFINE v == [Idle EXCEPT !.pc = "punch_write", !.d = d]
  <2>2. v = [Idle EXCEPT !.pc = "punch_write", !.d = d] /\ "punch_write" \in ClockPCs /\ "punch_write" \in TaskPCs
    BY DEF ClockPCs, TaskPCs, AttendancePCs
  <2> HIDE DEF v
  <2>3. v \in Task /\ v.pc \in ClockPCs
    BY <1>0, <2>2 DEF Task, TaskPCs
  <2> QED
    BY <1>e, <2>1, <2>2, <2>3
<1>2. CASE PunchWrite(w, Idle)
  <2>1. PICK s \in Marks :
          /\ t.pc = "punch_write" /\ row' = [row EXCEPT ![t.d] = Recorded(@, s)]
          /\ task' = [task EXCEPT ![w] = Idle] /\ UNCHANGED <<lock, requests, traffic>>
    BY <1>2 DEF PunchWrite, At, t
  <2> QED
    BY <1>f, <1>g, <2>1 DEF ClockPCs
<1>3. CASE StartImport(w, Idle)
  <2>1. PICK days \in SUBSET Dates : Begin(w, Idle, "import", [Idle EXCEPT !.pc = "import_read", !.todo = days])
    BY <1>3 DEF StartImport
  <2> DEFINE v == [Idle EXCEPT !.pc = "import_read", !.todo = days]
  <2>2. v = [Idle EXCEPT !.pc = "import_read", !.todo = days] /\ "import_read" \in ClockPCs /\ "import_read" \in TaskPCs
    BY DEF ClockPCs, TaskPCs, AttendancePCs
  <2> HIDE DEF v
  <2>3. v \in Task /\ v.pc \in ClockPCs
    BY <1>0, <2>2 DEF Task, TaskPCs
  <2> QED
    BY <1>e, <2>1, <2>2, <2>3
<1>4. CASE ImportRead(w, Idle)
  <2>1. /\ t.pc = "import_read" /\ UNCHANGED <<row, lock, requests, traffic>>
        /\ \/ Proceed(w, Idle, "import_read", t.todo \ {Min(t.todo)})
           \/ Goto(w, IF Exists(row[Min(t.todo)]) THEN "import_write" ELSE "import_month")
    BY <1>4 DEF ImportRead, At, t
  <2>2. Wrote
    BY <2>1 DEF Wrote
  <2> QED
    BY <1>f, <1>h, <2>1, <2>2 DEF ClockPCs
<1>5. CASE ImportMonth(w, Idle)
  <2>1. /\ t.pc = "import_month" /\ UNCHANGED <<row, lock, requests, traffic>>
        /\ \/ Proceed(w, Idle, "import_read", t.todo \ {Min(t.todo)})
           \/ Goto(w, "import_write")
    BY <1>5 DEF ImportMonth, At, t
  <2>2. Wrote
    BY <2>1 DEF Wrote
  <2> QED
    BY <1>f, <1>h, <2>1, <2>2 DEF ClockPCs
<1>6. CASE ImportWrite(w, Idle)
  <2>1. PICK s \in Marks :
          /\ t.pc = "import_write" /\ row' = [row EXCEPT ![Min(t.todo)] = Recorded(@, s)]
          /\ Proceed(w, Idle, "import_read", t.todo \ {Min(t.todo)})
          /\ UNCHANGED <<lock, requests, traffic>>
    BY <1>6 DEF ImportWrite, At, t
  <2> QED
    BY <1>f, <1>g, <1>h, <2>1 DEF ClockPCs
<1>7. CASE StartRejudge(w, Idle)
  <2>1. PICK days \in SUBSET Dates : Begin(w, Idle, "act-flexi", [Idle EXCEPT !.pc = "rejudge", !.todo = days])
    BY <1>7 DEF StartRejudge
  <2> DEFINE v == [Idle EXCEPT !.pc = "rejudge", !.todo = days]
  <2>2. v = [Idle EXCEPT !.pc = "rejudge", !.todo = days] /\ "rejudge" \in ClockPCs /\ "rejudge" \in TaskPCs
    BY DEF ClockPCs, TaskPCs, AttendancePCs
  <2> HIDE DEF v
  <2>3. v \in Task /\ v.pc \in ClockPCs
    BY <1>0, <2>2 DEF Task, TaskPCs
  <2> QED
    BY <1>e, <2>1, <2>2, <2>3
<1>8. CASE Rejudge(w, Idle)
  <2>1. PICK d \in t.todo, s \in Marks :
          /\ t.pc = "rejudge" /\ row' = [row EXCEPT ![d] = IF Exists(@) THEN Marked(@, s) ELSE @]
          /\ Proceed(w, Idle, "rejudge", t.todo \ {d}) /\ UNCHANGED <<lock, requests, traffic>>
    BY <1>8 DEF Rejudge, At, t
  <2>2. d \in Dates
    BY <1>0 DEF Task
  <2>3. Wrote
    <3>1. CASE ~Exists(row[d])
      BY <1>0, <2>1, <2>2, <3>1 DEF Wrote
    <3>2. CASE Exists(row[d])
      <4>1. row' = [row EXCEPT ![d] = Marked(row[d], s)]
        BY <1>0, <2>1, <2>2, <3>2
      <4>2. Marked(row[d], s) \in Row /\ StatusOnly(d, s, Marked(row[d], s))
        BY <1>0, <2>2, <4>1 DEF Marked, Row, StatusOnly, DayStatus
      <4> QED
        BY <2>2, <4>2 DEF Wrote
    <3> QED
      BY <3>1, <3>2
  <2> QED
    BY <1>f, <1>h, <2>1, <2>3 DEF ClockPCs
<1> QED
  BY <1>1, <1>2, <1>3, <1>4, <1>5, <1>6, <1>7, <1>8 DEF ClockStep

\* The steps of the month's handlers: leave and its books are not theirs.
LEMMA AttendanceTyped ==
    ASSUME TypeOK, NEW w \in Workers, Fit(task[w]), AttendanceStep(w, Idle), UNCHANGED leaveVars
    PROVE  /\ TypeOK' /\ Fit(task'[w])
           /\ task[w].pc \in AttendancePCs /\ task'[w].pc \in AttendancePCs
           /\ task' = [task EXCEPT ![w] = task'[w]]
           /\ crashes' = crashes
<1> DEFINE t == task[w]
           u == task'[w]
           Done == /\ DayTypeOK' /\ u \in Task /\ Fit(u)
                   /\ t.pc \in AttendancePCs /\ u.pc \in AttendancePCs
                   /\ task' = [task EXCEPT ![w] = u] /\ crashes' = crashes
<1>0. /\ t \in Task /\ task \in [Workers -> Task] /\ DayTypeOK /\ Fit(t)
      /\ task[w] = Idle => t.pc = "idle"
  BY IdleTyped DEF TypeOK
<1>a. \A nxt : [task EXCEPT ![w].pc = nxt] = [task EXCEPT ![w] = [t EXCEPT !.pc = nxt]]
  BY <1>0
<1>b. \A v : task' = [task EXCEPT ![w] = v] => u = v
  BY <1>0
<1> SUFFICES Done
  BY DEF TypeOK, leaveVars, books
<1> HIDE DEF t, u
<1>1. CASE StartMark(w, Idle)
  <2>1. PICK d \in Dates, s \in Marks :
          Begin(w, Idle, "mark", [Idle EXCEPT !.pc = "month_check", !.d = d, !.to = s])
    BY <1>1 DEF StartMark
  <2>2. /\ u = [Idle EXCEPT !.pc = "month_check", !.d = d, !.to = s, !.op = "mark"]
        /\ task' = [task EXCEPT ![w] = u]
    BY <2>1, <1>b DEF Begin, Idle
  <2>3. /\ u \in Task /\ u.pc = "month_check" /\ u.op = "mark" /\ u.to = s
    BY <2>2, IdleTyped DEF Task, DayStatus, AttendancePCs, AttendanceOps
  <2>4. Fit(u)
    BY <2>3 DEF Fit, FitDay, FitLeave, ActPCs, LeavePCs
  <2> QED
    BY <1>0, <2>1, <2>2, <2>3, <2>4 DEF Begin, t, DayTypeOK, AttendancePCs, requests
<1>3. CASE MonthCheck(w, Idle)
  <2>1. CASE u = Idle /\ task' = [task EXCEPT ![w] = u]
    BY <1>0, <1>3, <2>1, IdleTyped DEF MonthCheck, At, t, DayTypeOK, AttendancePCs, requests,
       traffic
  <2>2. CASE task' = [task EXCEPT ![w].pc = IF t.op = "mark" THEN "mark_write" ELSE "reg_insert"]
    <3>1. u = [t EXCEPT !.pc = IF t.op = "mark" THEN "mark_write" ELSE "reg_insert"]
          /\ task' = [task EXCEPT ![w] = u]
      BY <2>2, <1>a, <1>b
    <3>2. /\ u \in Task /\ u.op = t.op /\ u.x = t.x /\ u.to = t.to
          /\ u.pc = IF t.op = "mark" THEN "mark_write" ELSE "reg_insert"
      BY <3>1, <1>0, Moved DEF TaskPCs, AttendancePCs
    <3>3. Fit(u)
      BY <1>0, <1>3, <3>2 DEF MonthCheck, At, t, Fit, FitDay, FitLeave, ActPCs, LeavePCs
    <3> QED
      BY <1>0, <1>3, <3>1, <3>2, <3>3 DEF MonthCheck, At, t, DayTypeOK, AttendancePCs, requests,
         traffic
  <2> QED
    BY <1>3, <2>1, <2>2, <1>b DEF MonthCheck, Goto, t
<1>4. CASE MarkWrite(w, Idle)
  <2>1. u = Idle /\ task' = [task EXCEPT ![w] = u]
    BY <1>4, <1>b DEF MarkWrite
  <2>2. t.to \in DayStatus
    BY <1>0, <1>4 DEF MarkWrite, At, t, Fit, FitDay, DayStatus
  <2>3. \A r \in Row : Recorded(r, t.to) \in Row
    BY <2>2, MarksTyped DEF Recorded
  <2>4. row' \in [Dates -> Row]
    BY <1>0, <1>4, <2>3 DEF MarkWrite, t, DayTypeOK
  <2> QED
    BY <1>0, <1>4, <2>1, <2>4, IdleTyped DEF MarkWrite, At, t, DayTypeOK, AttendancePCs, requests,
       traffic
<1>2. CASE StartRequestReg(w, Idle)
  <2>1. PICK r \in Regs, d \in Dates, n \in RegLevels :
          Begin(w, Idle, "request-reg", [Idle EXCEPT !.pc = "month_check", !.x = r, !.d = d, !.levels = n])
    BY <1>2 DEF StartRequestReg
  <2>2. /\ u = [Idle EXCEPT !.pc = "month_check", !.x = r, !.d = d, !.levels = n, !.op = "request-reg"]
        /\ task' = [task EXCEPT ![w] = u]
    BY <2>1, <1>b DEF Begin, Idle
  <2>3. u \in Task /\ u.pc = "month_check" /\ u.op = "request-reg" /\ u.x \in Regs
    BY <2>2, IdleTyped, AttendanceAssumption DEF Task, DayStatus, AttendancePCs, AttendanceOps
  <2>4. Fit(u)
    BY <2>3 DEF Fit, FitDay, FitLeave, ActPCs, LeavePCs
  <2> QED
    BY <1>0, <2>1, <2>2, <2>3, <2>4 DEF Begin, t, DayTypeOK, AttendancePCs, requests
<1>5. CASE RegInsert(w, Idle)
  <2>1. u = Idle /\ task' = [task EXCEPT ![w] = u] /\ t.pc = "reg_insert"
    BY <1>5, <1>b DEF RegInsert, At, t
  <2>2. [status |-> "Pending", day |-> t.d, levels |-> t.levels] \in Request
    BY <1>0 DEF Task, Request, RequestStatus
  <2>3. reg' \in [Regs -> Request]
    BY <1>0, <1>5, <2>2 DEF RegInsert, t, DayTypeOK
  <2> QED
    BY <1>0, <1>5, <2>1, <2>3, IdleTyped DEF RegInsert, t, DayTypeOK, AttendancePCs, requests,
       traffic
<1>6. CASE StartActReg(w, Idle)
  <2>1. PICK r \in Regs, to \in RequestStatus \ {"None", "Pending"} :
          Begin(w, Idle, "act-reg",
                [Idle EXCEPT !.x = r, !.d = reg[r].day,
                             !.pc = IF Final(reg[r], to) THEN "reg_unlocked" ELSE "reg_write",
                             !.to = IF Final(reg[r], to) THEN "Approved" ELSE to])
    BY <1>6 DEF StartActReg
  <2> DEFINE nxt == IF Final(reg[r], to) THEN "reg_unlocked" ELSE "reg_write"
             res == IF Final(reg[r], to) THEN "Approved" ELSE to
  <2>2. /\ u = [Idle EXCEPT !.x = r, !.d = reg[r].day, !.pc = nxt, !.to = res, !.op = "act-reg"]
        /\ task' = [task EXCEPT ![w] = u]
    BY <2>1, <1>b DEF Begin, Idle
  <2>3. nxt \in {"reg_unlocked", "reg_write"} /\ res \in RequestStatus /\ (nxt = "reg_unlocked" => res = "Approved")
    BY DEF RequestStatus
  <2>4. reg[r].day \in Dates \cup {0}
    BY <1>0 DEF DayTypeOK, Request
  <2> HIDE DEF nxt, res
  <2>5. u \in Task /\ u.pc = nxt /\ u.op = "act-reg" /\ u.x = r /\ u.to = res
    BY <2>2, <2>3, <2>4, IdleTyped DEF Task, AttendancePCs, AttendanceOps
  <2>6. Fit(u)
    BY <2>3, <2>5 DEF Fit, FitDay, FitLeave, ActPCs, LeavePCs
  <2>7. /\ task[w] = Idle /\ acts' = acts + 1 /\ late' = late \ {w}
        /\ UNCHANGED <<row, lock, requests, crashes>>
    BY <2>1 DEF Begin
  <2> QED
    BY <1>0, <2>2, <2>3, <2>5, <2>6, <2>7 DEF t, DayTypeOK, AttendancePCs, requests
<1>7. CASE RegUnlocked(w, Idle)
  <2>0. t.pc = "reg_unlocked"
    BY <1>7 DEF RegUnlocked, At, t
  <2>1. CASE u = Idle /\ task' = [task EXCEPT ![w] = u]
    BY <1>0, <1>7, <2>0, <2>1, IdleTyped DEF RegUnlocked, DayTypeOK, AttendancePCs, requests,
       traffic
  <2>2. CASE task' = [task EXCEPT ![w].pc = "reg_apply"]
    <3>1. u = [t EXCEPT !.pc = "reg_apply"] /\ task' = [task EXCEPT ![w] = u]
      BY <2>2, <1>a, <1>b
    <3>2. u \in Task /\ u.pc = "reg_apply" /\ u.op = t.op /\ u.x = t.x /\ u.to = t.to
      BY <3>1, <1>0, Moved DEF TaskPCs, AttendancePCs
    <3>3. Fit(u)
      BY <1>0, <2>0, <3>2 DEF Fit, FitDay, FitLeave, ActPCs, LeavePCs
    <3> QED
      BY <1>0, <1>7, <2>0, <3>1, <3>2, <3>3 DEF RegUnlocked, DayTypeOK, AttendancePCs, requests,
         traffic
  <2> QED
    BY <1>7, <2>1, <2>2, <1>b DEF RegUnlocked, Goto
<1>8. CASE RegApply(w)
  <2>1. u = [t EXCEPT !.pc = "reg_write"] /\ task' = [task EXCEPT ![w] = u]
    BY <1>8, <1>a, <1>b DEF RegApply, Goto
  <2>2. u \in Task /\ u.pc = "reg_write" /\ u.op = t.op /\ u.x = t.x /\ u.to = t.to
    BY <2>1, <1>0, Moved DEF TaskPCs, AttendancePCs
  <2>3. Fit(u) /\ t.pc = "reg_apply"
    BY <1>0, <1>8, <2>2 DEF RegApply, At, t, Fit, FitDay, FitLeave, ActPCs, LeavePCs, RequestStatus
  <2>4. row' \in [Dates -> Row] /\ applied' \subseteq Leaves \cup Regs \cup Ods
    <3>1. \A m \in Marks, r \in Row : Marked(r, m) \in Row
      BY MarksTyped DEF DayStatus
    <3>2. t.x \in Regs
      BY <1>0, <2>3 DEF Fit, FitDay
    <3>3. PICK m \in Marks : row' = [row EXCEPT ![t.d] = Marked(@, m)] /\ applied' = applied \cup {t.x}
      BY <1>8 DEF RegApply, t
    <3> QED
      BY <1>0, <3>1, <3>2, <3>3 DEF DayTypeOK
  <2> QED
    BY <1>0, <1>8, <2>1, <2>2, <2>3, <2>4 DEF RegApply, DayTypeOK, AttendancePCs, requests, traffic
<1>9. CASE RegWrite(w, Idle)
  <2>1. u = Idle /\ task' = [task EXCEPT ![w] = u] /\ t.pc = "reg_write"
    BY <1>9, <1>b DEF RegWrite, At, t
  <2>2. t.to \in RequestStatus
    BY <1>0, <2>1 DEF Fit, FitDay
  <2>3. \A q \in Request : [q EXCEPT !.status = t.to] \in Request
    BY <2>2 DEF Request
  <2>4. reg' \in [Regs -> Request]
    BY <1>0, <1>9, <2>3 DEF RegWrite, t, DayTypeOK
  <2> QED
    BY <1>0, <1>9, <2>1, <2>4, IdleTyped DEF RegWrite, t, DayTypeOK, AttendancePCs, requests,
       traffic
<1>10. CASE StartRequestOd(w, Idle)
  <2>1. PICK o \in Ods, d \in Dates, n \in OdLevels :
          Begin(w, Idle, "request-od", [Idle EXCEPT !.pc = "od_insert", !.x = o, !.d = d, !.levels = n])
    BY <1>10 DEF StartRequestOd
  <2>2. /\ u = [Idle EXCEPT !.pc = "od_insert", !.x = o, !.d = d, !.levels = n, !.op = "request-od"]
        /\ task' = [task EXCEPT ![w] = u]
    BY <2>1, <1>b DEF Begin, Idle
  <2>3. u \in Task /\ u.pc = "od_insert" /\ u.op = "request-od" /\ u.x \in Ods
    BY <2>2, IdleTyped, AttendanceAssumption DEF Task, DayStatus, AttendancePCs, AttendanceOps
  <2>4. Fit(u)
    BY <2>3 DEF Fit, FitDay, FitLeave, ActPCs, LeavePCs
  <2> QED
    BY <1>0, <2>1, <2>2, <2>3, <2>4 DEF Begin, t, DayTypeOK, AttendancePCs, requests
<1>11. CASE OdInsert(w, Idle)
  <2>1. u = Idle /\ task' = [task EXCEPT ![w] = u] /\ t.pc = "od_insert"
    BY <1>11, <1>b DEF OdInsert, At, t
  <2>2. [status |-> "Pending", day |-> t.d, levels |-> t.levels] \in Request
    BY <1>0 DEF Task, Request, RequestStatus
  <2>3. od' \in [Ods -> Request]
    BY <1>0, <1>11, <2>2 DEF OdInsert, t, DayTypeOK
  <2> QED
    BY <1>0, <1>11, <2>1, <2>3, IdleTyped DEF OdInsert, t, DayTypeOK, AttendancePCs, requests,
       traffic
<1>12. CASE StartActOd(w, Idle)
  <2>1. PICK o \in Ods, approved \in BOOLEAN :
          LET first == od[o].levels = 2 /\ od[o].status = "Pending"
          IN  Begin(w, Idle, "act-od",
                [Idle EXCEPT !.x = o, !.d = od[o].day,
                             !.pc = IF approved /\ ~first THEN "od_lock" ELSE "od_write",
                             !.to = CASE ~approved -> "Refused"
                                      [] approved /\ first -> "ManagerApproved"
                                      [] OTHER -> "Approved"])
    BY <1>12 DEF StartActOd
  <2> DEFINE first == od[o].levels = 2 /\ od[o].status = "Pending"
             nxt == IF approved /\ ~first THEN "od_lock" ELSE "od_write"
             res == CASE ~approved -> "Refused" [] approved /\ first -> "ManagerApproved" [] OTHER -> "Approved"
  <2>2. /\ u = [Idle EXCEPT !.x = o, !.d = od[o].day, !.pc = nxt, !.to = res, !.op = "act-od"]
        /\ task' = [task EXCEPT ![w] = u]
    BY <2>1, <1>b DEF Begin, Idle
  <2>3. nxt \in {"od_lock", "od_write"} /\ res \in RequestStatus /\ (nxt = "od_lock" => res = "Approved")
    BY DEF RequestStatus
  <2>4. od[o].day \in Dates \cup {0}
    BY <1>0 DEF DayTypeOK, Request
  <2> HIDE DEF nxt, res
  <2>5. u \in Task /\ u.pc = nxt /\ u.op = "act-od" /\ u.x = o /\ u.to = res
    BY <2>2, <2>3, <2>4, IdleTyped DEF Task, AttendancePCs, AttendanceOps
  <2>6. Fit(u)
    BY <2>3, <2>5 DEF Fit, FitDay, FitLeave, ActPCs, LeavePCs
  <2>7. /\ task[w] = Idle /\ acts' = acts + 1 /\ late' = late \ {w}
        /\ UNCHANGED <<row, lock, requests, crashes>>
    BY <2>1 DEF Begin
  <2> QED
    BY <1>0, <2>2, <2>3, <2>5, <2>6, <2>7 DEF t, DayTypeOK, AttendancePCs, requests
<1>13. CASE OdLock(w, Idle)
  <2>0. t.pc = "od_lock"
    BY <1>13 DEF OdLock, At, t
  <2>1. CASE u = Idle /\ task' = [task EXCEPT ![w] = u]
    BY <1>0, <1>13, <2>0, <2>1, IdleTyped DEF OdLock, DayTypeOK, AttendancePCs, requests, traffic
  <2>2. CASE task' = [task EXCEPT ![w].pc = "od_write"]
    <3>1. u = [t EXCEPT !.pc = "od_write"] /\ task' = [task EXCEPT ![w] = u]
      BY <2>2, <1>a, <1>b
    <3>2. u \in Task /\ u.pc = "od_write" /\ u.op = t.op /\ u.x = t.x /\ u.to = t.to
      BY <3>1, <1>0, Moved DEF TaskPCs, AttendancePCs
    <3>3. Fit(u)
      BY <1>0, <2>0, <3>2 DEF Fit, FitDay, FitLeave, ActPCs, LeavePCs, RequestStatus
    <3> QED
      BY <1>0, <1>13, <2>0, <3>1, <3>2, <3>3 DEF OdLock, DayTypeOK, AttendancePCs, requests,
         traffic
  <2> QED
    BY <1>13, <2>1, <2>2, <1>b DEF OdLock, Goto
<1>14. CASE OdWrite(w, Idle)
  <2>0. t.pc = "od_write" /\ t.to \in RequestStatus
    BY <1>0, <1>14 DEF OdWrite, At, t, Fit, FitDay
  <2>1. od' \in [Ods -> Request]
    <3>1. \A q \in Request : [q EXCEPT !.status = t.to] \in Request
      BY <2>0 DEF Request
    <3> QED
      BY <1>0, <1>14, <3>1 DEF OdWrite, t, DayTypeOK
  <2>2. CASE t.to = "Approved"
    <3>1. u = [t EXCEPT !.pc = "od_apply"] /\ task' = [task EXCEPT ![w] = u]
      BY <1>14, <2>2, <1>a, <1>b DEF OdWrite, Goto, t
    <3>2. u \in Task /\ u.pc = "od_apply" /\ u.op = t.op /\ u.x = t.x /\ u.to = t.to
      BY <3>1, <1>0, Moved DEF TaskPCs, AttendancePCs
    <3>3. Fit(u)
      BY <1>0, <2>0, <2>2, <3>2 DEF Fit, FitDay, FitLeave, ActPCs, LeavePCs
    <3> QED
      BY <1>0, <1>14, <2>0, <2>1, <3>1, <3>2, <3>3 DEF OdWrite, DayTypeOK, AttendancePCs, traffic
  <2>3. CASE t.to # "Approved"
    <3>1. u = Idle /\ task' = [task EXCEPT ![w] = u]
      BY <1>14, <2>3, <1>b DEF OdWrite, t
    <3> QED
      BY <1>0, <1>14, <2>0, <2>1, <3>1, IdleTyped DEF OdWrite, DayTypeOK, AttendancePCs, traffic
  <2> QED
    BY <2>2, <2>3
<1>15. CASE OdApply(w, Idle)
  <2>1. u = Idle /\ task' = [task EXCEPT ![w] = u] /\ t.pc = "od_apply"
    BY <1>15, <1>b DEF OdApply, At, t
  <2>2. row' \in [Dates -> Row]
    <3>1. \A r \in Row : Marked(r, "OnOD") \in Row
      BY MarksTyped DEF DayStatus
    <3> QED
      BY <1>0, <1>15, <3>1 DEF OdApply, t, DayTypeOK
  <2>3. applied' \subseteq Leaves \cup Regs \cup Ods
    BY <1>0, <1>15, <2>1 DEF OdApply, t, DayTypeOK, Fit, FitDay
  <2> QED
    BY <1>0, <1>15, <2>1, <2>2, <2>3, IdleTyped DEF OdApply, t, DayTypeOK, AttendancePCs,
       requests, traffic
<1>16. CASE StartLock(w, Idle)
  <2>1. Begin(w, Idle, "lock", [Idle EXCEPT !.pc = "lock_write"])
    BY <1>16 DEF StartLock
  <2>2. /\ u = [Idle EXCEPT !.pc = "lock_write", !.op = "lock"]
        /\ task' = [task EXCEPT ![w] = u]
    BY <2>1, <1>b DEF Begin, Idle
  <2>3. u \in Task /\ u.pc = "lock_write" /\ u.op = "lock"
    BY <2>2, IdleTyped DEF Task, AttendancePCs, AttendanceOps
  <2>4. Fit(u)
    BY <2>3 DEF Fit, FitDay, FitLeave, ActPCs, LeavePCs
  <2> QED
    BY <1>0, <2>1, <2>2, <2>3, <2>4 DEF Begin, t, DayTypeOK, AttendancePCs, requests
<1>17. CASE LockWrite(w, Idle)
  <2>1. u = [t EXCEPT !.pc = "lock_rows"] /\ task' = [task EXCEPT ![w] = u]
    BY <1>17, <1>a, <1>b DEF LockWrite, Goto
  <2>2. u \in Task /\ u.pc = "lock_rows" /\ u.op = t.op /\ u.x = t.x /\ u.to = t.to
    BY <2>1, <1>0, Moved DEF TaskPCs, AttendancePCs
  <2>3. Fit(u) /\ t.pc = "lock_write"
    BY <1>0, <1>17, <2>2 DEF LockWrite, At, t, Fit, FitDay, FitLeave, ActPCs, LeavePCs
  <2> QED
    BY <1>0, <1>17, <2>1, <2>2, <2>3 DEF LockWrite, Overtake, DayTypeOK, AttendancePCs, requests
<1>18. CASE LockRows(w, Idle)
  <2>1. u = Idle /\ task' = [task EXCEPT ![w] = u] /\ t.pc = "lock_rows"
    BY <1>18, <1>b DEF LockRows, At, t
  <2>2. row' \in [Dates -> Row]
    <3>1. \A d \in Dates : row[d] \in Row /\ [row[d] EXCEPT !.locked = TRUE] \in Row
      BY <1>0 DEF DayTypeOK, Row
    <3> QED
      BY <1>18, <3>1 DEF LockRows, Rows
  <2> QED
    BY <1>0, <1>18, <2>1, <2>2, IdleTyped DEF LockRows, Overtake, t, DayTypeOK, AttendancePCs,
       requests
<1>19. CASE StartUnlock(w, Idle)
  <2>1. Begin(w, Idle, "unlock", [Idle EXCEPT !.pc = "unlock_write"])
    BY <1>19 DEF StartUnlock
  <2>2. /\ u = [Idle EXCEPT !.pc = "unlock_write", !.op = "unlock"]
        /\ task' = [task EXCEPT ![w] = u]
    BY <2>1, <1>b DEF Begin, Idle
  <2>3. u \in Task /\ u.pc = "unlock_write" /\ u.op = "unlock"
    BY <2>2, IdleTyped DEF Task, AttendancePCs, AttendanceOps
  <2>4. Fit(u)
    BY <2>3 DEF Fit, FitDay, FitLeave, ActPCs, LeavePCs
  <2> QED
    BY <1>0, <2>1, <2>2, <2>3, <2>4 DEF Begin, t, DayTypeOK, AttendancePCs, requests
<1>20. CASE UnlockWrite(w)
  <2>1. u = [t EXCEPT !.pc = "unlock_rows"] /\ task' = [task EXCEPT ![w] = u]
    BY <1>20, <1>a, <1>b DEF UnlockWrite, Goto
  <2>2. u \in Task /\ u.pc = "unlock_rows" /\ u.op = t.op /\ u.x = t.x /\ u.to = t.to
    BY <2>1, <1>0, Moved DEF TaskPCs, AttendancePCs
  <2>3. Fit(u) /\ t.pc = "unlock_write"
    BY <1>0, <1>20, <2>2 DEF UnlockWrite, At, t, Fit, FitDay, FitLeave, ActPCs, LeavePCs
  <2> QED
    BY <1>0, <1>20, <2>1, <2>2, <2>3 DEF UnlockWrite, DayTypeOK, AttendancePCs, requests, traffic
<1>21. CASE UnlockRows(w, Idle)
  <2>1. u = Idle /\ task' = [task EXCEPT ![w] = u] /\ t.pc = "unlock_rows"
    BY <1>21, <1>b DEF UnlockRows, At, t
  <2>2. row' \in [Dates -> Row]
    <3>1. \A d \in Dates : row[d] \in Row /\ [row[d] EXCEPT !.locked = FALSE] \in Row
      BY <1>0 DEF DayTypeOK, Row
    <3> QED
      BY <1>21, <3>1 DEF UnlockRows, Rows
  <2> QED
    BY <1>0, <1>21, <2>1, <2>2, IdleTyped DEF UnlockRows, t, DayTypeOK, AttendancePCs, requests,
       traffic
<1>22. CASE ClockStep(w)
  <2>1. /\ t.pc \in ClockPCs \cup {"idle"} /\ u.pc \in ClockPCs \cup {"idle"}
        /\ u \in Task /\ Fit(u) /\ task' = [task EXCEPT ![w] = u]
        /\ UNCHANGED <<lock, requests, crashes>> /\ acts' \in Nat /\ late' \subseteq Workers
        /\ row' = row \/ \E d \in Dates, s \in Marks, r \in Row : StatusOnly(d, s, r)
    BY <1>0, <1>22, ClockSteps DEF t, u
  <2>2. row' \in [Dates -> Row]
    BY <1>0, <2>1 DEF StatusOnly, DayTypeOK
  <2> QED
    BY <1>0, <2>1, <2>2 DEF DayTypeOK, requests, ClockPCs, AttendancePCs
<1> QED
  BY <1>1, <1>2, <1>3, <1>4, <1>5, <1>6, <1>7, <1>8, <1>9, <1>10, <1>11, <1>12, <1>13, <1>14,
     <1>15, <1>16, <1>17, <1>18, <1>19, <1>20, <1>21, <1>22 DEF AttendanceStep, ClockStep

LEMMA CountTyped ==
    ASSUME NEW v \in LeaveDoc PROVE Days(v) \in SUBSET Dates /\ IsFiniteSet(Days(v)) /\ Count(v) \in Nat
<1>1. Days(v) \in SUBSET Dates
  BY DEF Days, WorkingDays
<1>2. IsFiniteSet(Days(v)) /\ Cardinality(Days(v)) \in Nat
  BY <1>1, AttendanceAssumption, FS_Subset, FS_CardinalityType
<1> QED
  BY <1>1, <1>2 DEF Count

LEMMA DatesTyped ==
    ASSUME NEW v \in LeaveDoc PROVE v.from \in Nat /\ v.to \in Nat
<1>1. ASSUME NEW d \in Dates \cup {0} PROVE d \in Nat
  <2>1. CASE d \in Dates
    BY <2>1, AttendanceAssumption
  <2>2. CASE d = 0
    BY <2>2
  <2> QED
    BY <1>1, <2>1, <2>2
<1>2. v.from \in Dates \cup {0} /\ v.to \in Dates \cup {0}
  BY DEF LeaveDoc
<1> QED
  BY <1>1, <1>2

\* What leaves cost is a count of half days, one by one and together.
LEMMA CostTyped ==
    ASSUME leave \in [Leaves -> LeaveDoc]
    PROVE  /\ Cost \in [Leaves -> Nat]
           /\ \A S \in SUBSET Leaves : IsFiniteSet(S) /\ Total(Cost, S) \in Nat
<1>1. Cost \in [Leaves -> Nat]
  BY CountTyped DEF Cost
<1>2. \A S \in SUBSET Leaves : IsFiniteSet(S)
  BY AttendanceAssumption, FS_Subset
<1> QED
  BY <1>1, <1>2, TotalIsNat

LEMMA LeftTyped ==
    ASSUME coff \in [Batches -> Batch]
    PROVE  /\ \A S \in SUBSET Batches : Total(Left, S) \in Nat
           /\ CoffAvailable \in Nat
<1>1. Left \in [Batches -> Nat]
  BY DEF Left, Batch
<1>2. ASSUME NEW S \in SUBSET Batches PROVE Total(Left, S) \in Nat
  <2>1. IsFiniteSet(S)
    BY LeaveAssumption, FS_Subset
  <2> QED
    BY <1>1, <2>1, TotalIsNat
<1> QED
  BY <1>2 DEF CoffAvailable

\* The plan takes from a batch no more than it has, and nothing from one that is not usable.
LEMMA PlanTyped ==
    ASSUME coff \in [Batches -> Batch], NEW n \in Nat
    PROVE  /\ Plan(n) \in Draw
           /\ \A b \in Batches : /\ Plan(n)[b] <= coff[b].left
                                 /\ Plan(n)[b] > 0 => coff[b].status = "Available"
<1>1. ASSUME NEW b \in Batches
      PROVE  /\ Plan(n)[b] \in 0..2 /\ Plan(n)[b] <= coff[b].left
             /\ Plan(n)[b] > 0 => coff[b].status = "Available"
  <2> DEFINE before == Total(Left, {e \in Batches : Usable(e) /\ e < b})
  <2>1. before \in Nat
    BY LeftTyped
  <2>2. coff[b].left \in 0..2
    BY DEF Batch
  <2>3. Plan(n)[b] = IF Usable(b) /\ before < n
                     THEN (IF coff[b].left < n - before THEN coff[b].left ELSE n - before)
                     ELSE 0
    BY DEF Plan
  <2> HIDE DEF before
  <2> QED
    BY <2>1, <2>2, <2>3 DEF Usable
<1> QED
  BY <1>1 DEF Draw, Plan

\* A recovered batch has room for what is given back to it.
LEMMA RoomToGiveBack ==
    ASSUME leave \in [Leaves -> LeaveDoc], coff \in [Batches -> Batch], NEW t \in Task, NEW b \in Batches,
           BatchesHold(t), t.pc = "give_back", t.v.kind = "C-Off", b > t.b
    PROVE  coff[b].left + t.plan[b] \in 0..2
<1>1. Drawn(b) \in Nat
  <2>1. ApprovedOf("C-Off") \in SUBSET Leaves /\ IsFiniteSet(ApprovedOf("C-Off"))
    BY AttendanceAssumption, FS_Subset DEF ApprovedOf
  <2>2. \A l \in Leaves : [k \in Leaves |-> leave[k].took[b]][l] \in Nat
    BY DEF LeaveDoc, Draw
  <2> QED
    BY <2>1, <2>2, TotalIsNat DEF Drawn
<1>2. coff[b].left \in 0..2 /\ t.plan[b] \in 0..2
  BY DEF Batch, Task, Draw
<1>3. Held(t, b) = t.plan[b]
  BY DEF Held
<1> QED
  BY <1>1, <1>2, <1>3 DEF BatchesHold

\* The steps of the leave handlers: the month's lock and its requests are not theirs.
LEMMA LeaveTyped ==
    ASSUME TypeOK, NEW w \in Workers, Fit(task[w]), SeesBooks(task[w]), BatchesHold(task[w]), LeaveStep(w)
    PROVE  /\ TypeOK' /\ Fit(task'[w])
           /\ task' = [task EXCEPT ![w] = task'[w]]
           /\ crashes' = crashes
<1> DEFINE t == task[w]
           u == task'[w]
           Done == /\ TypeOK' /\ Fit(u) /\ task' = [task EXCEPT ![w] = u] /\ crashes' = crashes
           DocsOK == /\ DayTypeOK' /\ leave' \in [Leaves -> LeaveDoc] /\ granted' \in 0..MaxGrant /\ used' \in Int
                     /\ coff' \in [Batches -> Batch] /\ expired' \in Batches \cup {0}
                     /\ stuck' \subseteq Leaves \X Dates
<1>0. /\ t \in Task /\ task \in [Workers -> Task] /\ Fit(t)
      /\ task[w] = Idle => t.pc = "idle"
  BY IdleTyped DEF TypeOK
<1>a. \A nxt : [task EXCEPT ![w].pc = nxt] = [task EXCEPT ![w] = [t EXCEPT !.pc = nxt]]
  BY <1>0
<1>b. \A v : task' = [task EXCEPT ![w] = v] => u = v
  BY <1>0
<1>c. t.v \in LeaveDoc /\ t.plan \in Draw /\ t.base \in Draw /\ t.todo \in SUBSET Dates /\ t.saw \in [Dates -> Row]
  BY <1>0 DEF Task
<1>d. SeesBooks(t) /\ BatchesHold(t)
  OBVIOUS
<1> SUFFICES Done
  OBVIOUS
<1>e. ASSUME u \in Task, Fit(u), task' = [task EXCEPT ![w] = u], DocsOK, crashes' = crashes PROVE Done
  BY <1>0, <1>e DEF TypeOK
<1>f. ASSUME UNCHANGED <<row, lock, requests, traffic, leaveVars>> PROVE DocsOK /\ crashes' = crashes
  BY <1>f DEF TypeOK, DayTypeOK, requests, traffic, leaveVars, books
<1>g. ASSUME UNCHANGED <<row, lock, requests, traffic>> PROVE DayTypeOK' /\ crashes' = crashes
  BY <1>g DEF TypeOK, DayTypeOK, requests, traffic
<1>h. ASSUME NEW op, NEW v, Start(w, op, v) PROVE DocsOK /\ crashes' = crashes /\ t.pc = "idle"
  BY <1>0, <1>h DEF Start, Begin, TypeOK, DayTypeOK, requests, leaveVars, books
<1> HIDE DEF t, u, Done, DocsOK
<1>1. CASE StartApply(w)
  <2>1. PICK l \in Leaves, kind \in {"EL", "C-Off"}, from \in Dates, to \in Dates, half \in BOOLEAN :
          Start(w, "apply",
                [Idle EXCEPT !.pc = "apply_balance", !.x = l,
                   !.v = [NoLeave EXCEPT !.status = "Pending", !.kind = kind, !.from = from,
                                         !.to = to, !.half = half]])
    BY <1>1 DEF StartApply
  <2> DEFINE v == [NoLeave EXCEPT !.status = "Pending", !.kind = kind, !.from = from,
                                  !.to = to, !.half = half]
  <2>2. v \in LeaveDoc
    BY IdleTyped DEF LeaveDoc, LeaveStatus
  <2> HIDE DEF v
  <2>3. u = [Idle EXCEPT !.pc = "apply_balance", !.x = l, !.v = v, !.op = "apply"]
        /\ task' = [task EXCEPT ![w] = u]
    BY <2>1, <1>b DEF Start, Begin, Idle, v
  <2>4. u \in Task /\ u.op = "apply" /\ u.pc = "apply_balance" /\ u.x = l
    BY <2>2, <2>3, IdleTyped DEF Task, LeavePCs, LeaveOps
  <2>5. Fit(u)
    BY <2>4 DEF Fit, FitDay, FitLeave, ActPCs, LeavePCs
  <2> QED
    BY <2>1, <2>3, <2>4, <2>5, <1>e, <1>h
<1>2. CASE ApplyBalance(w)
  <2> DEFINE new == IF t.v.kind = "C-Off" THEN CoffAvailable ELSE Closing
  <2>0. new \in Int
    BY LeftTyped DEF TypeOK, Closing
  <2>1. task' = [task EXCEPT ![w].pc = "apply_pending", ![w].n = new]
    BY <1>2 DEF ApplyBalance, t
  <2> HIDE DEF new
  <2>2. u = [t EXCEPT !.pc = "apply_pending", !.n = new] /\ task' = [task EXCEPT ![w] = u]
    BY <1>0, <2>1, <1>b DEF t
  <2>3. u \in Task /\ u.op = t.op /\ u.x = t.x /\ u.to = t.to /\ u.pc = "apply_pending"
    BY <1>0, <2>0, <2>2 DEF Task, LeavePCs
  <2>4. Fit(u)
    BY <1>0, <1>2, <2>3 DEF ApplyBalance, At, t, Fit, FitDay, FitLeave, ActPCs, MarkPCs, LeavePCs
  <2>5. DocsOK /\ crashes' = crashes
    BY <1>2, <1>f DEF ApplyBalance
  <2> QED
    BY <2>2, <2>3, <2>4, <2>5, <1>e
<1>3. CASE ApplyPending(w)
  <2>0. t.pc = "apply_pending"
    BY <1>3 DEF ApplyPending, At, t
  <2>1. DocsOK /\ crashes' = crashes
    BY <1>3, <1>f DEF ApplyPending
  <2>2. CASE u = Idle /\ task' = [task EXCEPT ![w] = u]
    BY <2>1, <2>2, <1>e, IdleTyped
  <2>3. CASE task' = [task EXCEPT ![w].pc = "apply_insert"]
    <3>1. u = [t EXCEPT !.pc = "apply_insert"] /\ task' = [task EXCEPT ![w] = u]
      BY <2>3, <1>a, <1>b
    <3>2. u \in Task /\ u.pc = "apply_insert" /\ u.op = t.op /\ u.x = t.x /\ u.to = t.to /\ u.b = t.b /\ u.v = t.v
      BY <3>1, <1>0, Moved DEF TaskPCs, LeavePCs
    <3>3. Fit(u)
      BY <1>0, <2>0, <3>2 DEF Fit, FitDay, FitLeave, ActPCs, MarkPCs, LeavePCs
    <3> QED
      BY <2>1, <3>1, <3>2, <3>3, <1>e
  <2> QED
    BY <1>3, <2>2, <2>3, <1>b DEF ApplyPending, Goto, Finish
<1>4. CASE ApplyInsert(w)
  <2>1. u = Idle /\ task' = [task EXCEPT ![w] = u]
    BY <1>4, <1>b DEF ApplyInsert, Finish
  <2>4. DocsOK /\ crashes' = crashes
    BY <1>4, <1>c, <1>g DEF ApplyInsert, TypeOK, DocsOK, books, t
  <2> QED
    BY <2>1, <2>4, <1>e, IdleTyped
<1>5. CASE StartAct(w)
  <2>1. PICK l \in Leaves, who \in Deciders, to \in LeaveStatus \ {"None", "Pending", "Cancelled"} :
          Start(w, "act", [Idle EXCEPT !.x = l, !.who = who, !.to = to, !.v = leave[l],
                             !.pc = ActFrom(leave[l], to)])
    BY <1>5 DEF StartAct
  <2> DEFINE v == leave[l]
             nxt == ActFrom(v, to)
  <2>2. v \in LeaveDoc /\ v.kind \in {"EL", "C-Off"}
    BY DEF TypeOK, LeaveDoc
  <2>3. /\ to # "Approved" => nxt = "act_write"
        /\ to = "Approved" => nxt = IF v.kind = "C-Off" THEN "coff_read" ELSE "debit_read"
        /\ to \in {"ManagerApproved", "Approved", "Refused"}
    BY DEF LeaveStatus, ActFrom
  <2> HIDE DEF v, nxt
  <2>4. u = [Idle EXCEPT !.x = l, !.who = who, !.to = to, !.v = v, !.pc = nxt, !.op = "act"]
        /\ task' = [task EXCEPT ![w] = u]
    BY <2>1, <1>b DEF Start, Begin, Idle, v, nxt
  <2>5. u \in Task /\ u.op = "act" /\ u.pc = nxt /\ u.x = l /\ u.to = to /\ u.v = v
    BY <2>2, <2>3, <2>4, IdleTyped DEF Task, LeavePCs, LeaveOps, LeaveStatus
  <2>a. u.b = 0
    BY <2>4 DEF Idle
  <2>6. Fit(u)
    BY <2>2, <2>3, <2>5, <2>a DEF Fit, FitDay, FitLeave, ActPCs, LeavePCs
  <2> QED
    BY <2>1, <2>4, <2>5, <2>6, <1>e, <1>h
<1>6. CASE DebitRead(w)
  <2>0. t.pc = "debit_read"
    BY <1>6 DEF DebitRead, At, t
  <2>1. DocsOK /\ crashes' = crashes
    BY <1>6, <1>f DEF DebitRead
  <2>2. CASE u = Idle /\ task' = [task EXCEPT ![w] = u]
    BY <2>1, <2>2, <1>e, IdleTyped
  <2>3. CASE task' = [task EXCEPT ![w].pc = "debit_inc"]
    <3>1. u = [t EXCEPT !.pc = "debit_inc"] /\ task' = [task EXCEPT ![w] = u]
      BY <2>3, <1>a, <1>b
    <3>2. u \in Task /\ u.pc = "debit_inc" /\ u.op = t.op /\ u.x = t.x /\ u.to = t.to /\ u.b = t.b /\ u.v = t.v
      BY <3>1, <1>0, Moved DEF TaskPCs, LeavePCs
    <3>3. Fit(u)
      BY <1>0, <2>0, <3>2 DEF Fit, FitDay, FitLeave, ActPCs, MarkPCs, LeavePCs
    <3> QED
      BY <2>1, <3>1, <3>2, <3>3, <1>e
  <2> QED
    BY <1>6, <2>2, <2>3, <1>b DEF DebitRead, Goto, Finish
<1>7. CASE DebitInc(w)
  <2>1. u = [t EXCEPT !.pc = "day_read", !.todo = Days(t.v)] /\ task' = [task EXCEPT ![w] = u]
    BY <1>0, <1>7, <1>b DEF DebitInc, MarkDays, t
  <2>2. u \in Task /\ u.op = t.op /\ u.x = t.x /\ u.to = t.to /\ u.pc = "day_read" /\ u.b = t.b /\ u.v = t.v
    BY <2>1, <1>0, <1>c, CountTyped DEF Task, LeavePCs
  <2>3. Fit(u)
    BY <1>0, <1>7, <2>2 DEF DebitInc, At, t, Fit, FitDay, FitLeave, ActPCs, MarkPCs, LeavePCs
  <2>4. DocsOK /\ crashes' = crashes
    BY <1>7, <1>c, <1>g, CountTyped DEF DebitInc, TypeOK, DocsOK, t
  <2> QED
    BY <2>1, <2>2, <2>3, <2>4, <1>e
<1>8. CASE CoffRead(w)
  <2>0. t.pc = "coff_read" /\ DocsOK /\ crashes' = crashes
    BY <1>8, <1>f DEF CoffRead, At, t
  <2>1. CASE u = Idle /\ task' = [task EXCEPT ![w] = u]
    BY <2>0, <2>1, <1>e, IdleTyped
  <2>2. CASE task' = [task EXCEPT ![w].pc = "coff_take", ![w].plan = Plan(Count(t.v)),
                                  ![w].base = [b \in Batches |-> coff[b].left]]
    <3> DEFINE base == [b \in Batches |-> coff[b].left]
    <3>1. base \in Draw /\ Plan(Count(t.v)) \in Draw
      BY <1>c, PlanTyped, CountTyped DEF TypeOK, Batch, Draw
    <3> HIDE DEF base
    <3>2. u = [t EXCEPT !.pc = "coff_take", !.plan = Plan(Count(t.v)), !.base = base]
          /\ task' = [task EXCEPT ![w] = u]
      BY <1>0, <2>2, <1>b DEF t, base
    <3>3. u \in Task /\ u.op = t.op /\ u.x = t.x /\ u.to = t.to /\ u.pc = "coff_take" /\ u.v = t.v
      BY <1>0, <3>1, <3>2 DEF Task, LeavePCs
    <3>4. Fit(u)
      BY <1>0, <2>0, <3>3 DEF Fit, FitDay, FitLeave, ActPCs, MarkPCs, LeavePCs
    <3> QED
      BY <2>0, <3>2, <3>3, <3>4, <1>e
  <2> QED
    BY <1>8, <2>1, <2>2, <1>b DEF CoffRead, Finish, t
<1>9. CASE CoffTake(w)
  <2>0. Min(Rest(w)) \in Rest(w) /\ Rest(w) \subseteq Batches
    BY <1>9, MinFound, LeaveAssumption DEF CoffTake, Rest
  <2>1. u = [t EXCEPT !.b = Min(Rest(w))] /\ task' = [task EXCEPT ![w] = u]
    BY <1>0, <1>9, <1>b DEF CoffTake, MarkDays, t
  <2>2. u \in Task /\ u.op = t.op /\ u.x = t.x /\ u.to = t.to /\ u.pc = t.pc /\ u.v = t.v
    BY <2>1, <1>0, <1>c, <2>0 DEF Task, LeavePCs
  <2>3. Fit(u)
    BY <1>0, <1>9, <2>2 DEF CoffTake, At, t, Fit, FitDay, FitLeave, ActPCs, MarkPCs, LeavePCs
  <2>4. DocsOK /\ crashes' = crashes
    <3> DEFINE b == Min(Rest(w))
               left == t.base[b] - t.plan[b]
    <3>1. b \in Batches /\ left \in 0..2
      BY <1>c, <1>d, <1>9, <2>0 DEF CoffTake, At, SeesBooks, Draw, t
    <3>2. coff' = [coff EXCEPT ![b] = [status |-> IF left = 0 THEN "Used" ELSE "Available", left |-> left]]
      BY <1>9 DEF CoffTake, t
    <3> HIDE DEF b, left
    <3>3. coff' \in [Batches -> Batch]
      BY <3>1, <3>2 DEF TypeOK, Batch
    <3> QED
      BY <1>9, <1>g, <3>3 DEF CoffTake, TypeOK, DocsOK
  <2> QED
    BY <2>1, <2>2, <2>3, <2>4, <1>e
<1>10. CASE CoffNote(w)
  <2>1. u = [t EXCEPT !.pc = "day_read", !.todo = Days(t.v)] /\ task' = [task EXCEPT ![w] = u]
    BY <1>0, <1>10, <1>b DEF CoffNote, MarkDays, t
  <2>2. u \in Task /\ u.op = t.op /\ u.x = t.x /\ u.to = t.to /\ u.pc = "day_read" /\ u.b = t.b /\ u.v = t.v
    BY <2>1, <1>0, <1>c, CountTyped DEF Task, LeavePCs
  <2>3. Fit(u)
    BY <1>0, <1>10, <2>2 DEF CoffNote, At, t, Fit, FitDay, FitLeave, ActPCs, MarkPCs, LeavePCs
  <2>4. DocsOK /\ crashes' = crashes
    <3>1. leave' \in [Leaves -> LeaveDoc]
      BY <1>c, <1>10 DEF CoffNote, TypeOK, LeaveDoc, t
    <3> QED
      BY <1>10, <1>g, <3>1 DEF CoffNote, TypeOK, DocsOK, books
  <2> QED
    BY <2>1, <2>2, <2>3, <2>4, <1>e
<1>11. CASE DayRead(w)
  <2>0. t.pc = "day_read" /\ DocsOK /\ crashes' = crashes
    BY <1>11, <1>f DEF DayRead, At, t
  <2> DEFINE d == Min(t.todo)
  <2> HIDE DEF d
  <2>1. CASE task' = [task EXCEPT ![w].todo = @ \ {d}]
    <3>1. u = [t EXCEPT !.todo = t.todo \ {d}] /\ task' = [task EXCEPT ![w] = u]
      BY <1>0, <2>1, <1>b DEF t
    <3>2. u \in Task /\ u.op = t.op /\ u.x = t.x /\ u.to = t.to /\ u.pc = t.pc /\ u.b = t.b /\ u.v = t.v
      BY <1>0, <1>c, <3>1 DEF Task
    <3>3. Fit(u)
      BY <1>0, <2>0, <3>2 DEF Fit, FitDay, FitLeave, ActPCs, MarkPCs, LeavePCs
    <3> QED
      BY <2>0, <3>1, <3>2, <3>3, <1>e
  <2>2. CASE task' = [task EXCEPT ![w].saw[d] = row[d], ![w].pc = "day_write"]
    <3> DEFINE saw == [t.saw EXCEPT ![d] = row[d]]
    <3>1. saw \in [Dates -> Row]
      BY <1>c DEF TypeOK, DayTypeOK
    <3>2. u = [t EXCEPT !.saw = saw, !.pc = "day_write"] /\ task' = [task EXCEPT ![w] = u]
      BY <1>0, <2>2, <1>b DEF t
    <3> HIDE DEF saw
    <3>3. u \in Task /\ u.op = t.op /\ u.x = t.x /\ u.to = t.to /\ u.pc = "day_write" /\ u.b = t.b /\ u.v = t.v
      BY <1>0, <3>1, <3>2 DEF Task, LeavePCs
    <3>4. Fit(u)
      BY <1>0, <2>0, <3>3 DEF Fit, FitDay, FitLeave, ActPCs, MarkPCs, LeavePCs
    <3> QED
      BY <2>0, <3>2, <3>3, <3>4, <1>e
  <2> QED
    BY <1>11, <2>1, <2>2 DEF DayRead, t, d
<1>12. CASE DayWrite(w)
  <2>1. u = [t EXCEPT !.todo = t.todo \ {Min(t.todo)}, !.pc = "day_read"] /\ task' = [task EXCEPT ![w] = u]
    BY <1>0, <1>12, <1>b DEF DayWrite, MarkDays, t
  <2>2. u \in Task /\ u.op = t.op /\ u.x = t.x /\ u.to = t.to /\ u.pc = "day_read" /\ u.b = t.b /\ u.v = t.v
    BY <2>1, <1>0, <1>c DEF Task, LeavePCs
  <2>3. Fit(u)
    BY <1>0, <1>12, <2>2 DEF DayWrite, At, t, Fit, FitDay, FitLeave, ActPCs, MarkPCs, LeavePCs
  <2>4. DocsOK /\ crashes' = crashes
    <3> DEFINE d == Min(t.todo)
               pre == IF Exists(t.saw[d]) /\ t.saw[d].ref # t.x THEN t.saw[d].status ELSE row[d].pre
    <3>1. row' = [row EXCEPT ![d] = [@ EXCEPT !.status = "OnLeave", !.ref = t.x, !.pre = pre]]
      BY <1>12 DEF DayWrite, t
    <3>2. d \in Dates => pre \in DayStatus
      BY <1>c DEF TypeOK, DayTypeOK, Row
    <3>3. t.x \in Leaves
      BY <1>0, <1>12 DEF DayWrite, At, t, Fit, FitLeave, LeavePCs
    <3> HIDE DEF d, pre
    <3>4. ASSUME NEW r \in Row, d \in Dates
          PROVE  [r EXCEPT !.status = "OnLeave", !.ref = t.x, !.pre = pre] \in Row
      BY <3>2, <3>3, <3>4 DEF Row, DayStatus
    <3>5. row' \in [Dates -> Row]
      BY <3>1, <3>4 DEF TypeOK, DayTypeOK
    <3> QED
      BY <1>12, <3>5 DEF DayWrite, TypeOK, DayTypeOK, DocsOK, requests, traffic, leaveVars, books
  <2> QED
    BY <2>1, <2>2, <2>3, <2>4, <1>e
<1>13. CASE DaysDone(w)
  <2>1. u = [t EXCEPT !.pc = "act_write"] /\ task' = [task EXCEPT ![w] = u]
    BY <1>13, <1>a, <1>b DEF DaysDone, Goto
  <2>2. u \in Task /\ u.pc = "act_write" /\ u.op = t.op /\ u.x = t.x /\ u.to = t.to /\ u.b = t.b /\ u.v = t.v
    BY <2>1, <1>0, Moved DEF TaskPCs, LeavePCs
  <2>3. Fit(u)
    BY <1>0, <1>13, <2>2 DEF DaysDone, At, t, Fit, FitDay, FitLeave, ActPCs, MarkPCs, LeavePCs
  <2>4. DocsOK /\ crashes' = crashes
    <3>1. applied' \subseteq Leaves \cup Regs \cup Ods
      BY <1>0, <1>13 DEF DaysDone, At, t, Fit, FitLeave, LeavePCs, TypeOK, DayTypeOK
    <3> QED
      BY <1>13, <3>1 DEF DaysDone, TypeOK, DayTypeOK, DocsOK, traffic, leaveVars, books
  <2> QED
    BY <2>1, <2>2, <2>3, <2>4, <1>e
<1>14. CASE ActWrite(w)
  <2>1. u = Idle /\ task' = [task EXCEPT ![w] = u]
    BY <1>14, <1>b DEF ActWrite, Finish
  <2>4. DocsOK /\ crashes' = crashes
    <3>1. t.to \in LeaveStatus /\ t.who \in Deciders \cup {"none"}
      BY <1>0, <1>14 DEF ActWrite, At, t, Fit, FitLeave, LeaveStatus, Task
    <3>2. \A v \in LeaveDoc : Decided(v, t.to, t.who) \in LeaveDoc
      BY <3>1 DEF LeaveDoc, Decided
    <3>3. leave' = [leave EXCEPT ![t.x] = Decided(@, t.to, t.who)]
      BY <1>14 DEF ActWrite, t
    <3>4. leave' \in [Leaves -> LeaveDoc]
      BY <3>2, <3>3 DEF TypeOK
    <3> QED
      BY <1>14, <1>g, <3>4 DEF ActWrite, TypeOK, DocsOK, books
  <2> QED
    BY <2>1, <2>4, <1>e, IdleTyped
<1>15. CASE StartCancel(w)
  <2>1. PICK l \in Leaves :
          Start(w, "cancel", [Idle EXCEPT !.pc = "cancel_write", !.x = l, !.v = leave[l]])
    BY <1>15 DEF StartCancel
  <2>2. u = [Idle EXCEPT !.pc = "cancel_write", !.x = l, !.v = leave[l], !.op = "cancel"] /\ task' = [task EXCEPT ![w] = u]
    BY <2>1, <1>b DEF Start, Begin, Idle
  <2>3. u \in Task /\ u.op = "cancel" /\ u.pc = "cancel_write" /\ u.x = l
    BY <2>2, IdleTyped DEF Task, LeavePCs, LeaveOps, TypeOK
  <2>a. u.b = 0
    BY <2>2 DEF Idle
  <2>4. Fit(u)
    BY <2>3, <2>a DEF Fit, FitDay, FitLeave, ActPCs, MarkPCs, LeavePCs
  <2> QED
    BY <2>1, <2>2, <2>3, <2>4, <1>e, <1>h
<1>16. CASE CancelWrite(w)
  <2>0. t.pc = "cancel_write"
    BY <1>16 DEF CancelWrite, At, t
  <2>1. DocsOK /\ crashes' = crashes
    <3>0. \A v \in LeaveDoc : [v EXCEPT !.status = "Cancelled"] \in LeaveDoc
      BY DEF LeaveDoc, LeaveStatus
    <3>1. leave' \in [Leaves -> LeaveDoc]
      BY <1>16, <3>0 DEF CancelWrite, TypeOK
    <3> QED
      BY <1>16, <1>g, <3>1 DEF CancelWrite, TypeOK, DocsOK, books
  <2>2. CASE u = Idle /\ task' = [task EXCEPT ![w] = u]
    BY <2>1, <2>2, <1>e, IdleTyped
  <2>3. CASE task' = [task EXCEPT ![w].pc = "undo_read"]
    <3>1. u = [t EXCEPT !.pc = "undo_read"] /\ task' = [task EXCEPT ![w] = u]
      BY <2>3, <1>a, <1>b
    <3>2. u \in Task /\ u.pc = "undo_read" /\ u.op = t.op /\ u.x = t.x /\ u.to = t.to /\ u.b = t.b /\ u.v = t.v
      BY <3>1, <1>0, Moved DEF TaskPCs, LeavePCs
    <3>3. Fit(u)
      BY <1>0, <2>0, <3>2 DEF Fit, FitDay, FitLeave, ActPCs, MarkPCs, LeavePCs
    <3> QED
      BY <2>1, <3>1, <3>2, <3>3, <1>e
  <2> QED
    BY <1>16, <2>2, <2>3, <1>b DEF CancelWrite, Goto, Finish
<1>17. CASE UndoRead(w)
  <2>1. u = [t EXCEPT !.pc = "undo_row", !.saw = row, !.todo = {d \in {e \in Dates : row[e].ref = t.x} : ~row[d].locked}] /\ task' = [task EXCEPT ![w] = u]
    BY <1>0, <1>17, <1>b DEF UndoRead, MarkDays, t
  <2>2. u \in Task /\ u.op = t.op /\ u.x = t.x /\ u.to = t.to /\ u.pc = "undo_row" /\ u.b = t.b /\ u.v = t.v
    BY <2>1, <1>0, <1>c DEF Task, LeavePCs, TypeOK, DayTypeOK
  <2>3. Fit(u)
    BY <1>0, <1>17, <2>2 DEF UndoRead, At, t, Fit, FitDay, FitLeave, ActPCs, MarkPCs, LeavePCs
  <2>4. DocsOK /\ crashes' = crashes
    <3>1. t.x \in Leaves
      BY <1>0, <1>17 DEF UndoRead, At, t, Fit, FitLeave, LeavePCs
    <3>2. stuck' \subseteq Leaves \X Dates
      BY <1>17, <3>1 DEF UndoRead, TypeOK, t
    <3> QED
      BY <1>17, <1>g, <3>2 DEF UndoRead, TypeOK, DocsOK, books
  <2> QED
    BY <2>1, <2>2, <2>3, <2>4, <1>e
<1>18. CASE UndoRow(w)
  <2>1. u = [t EXCEPT !.todo = t.todo \ {Min(t.todo)}] /\ task' = [task EXCEPT ![w] = u]
    BY <1>0, <1>18, <1>b DEF UndoRow, MarkDays, t
  <2>2. u \in Task /\ u.op = t.op /\ u.x = t.x /\ u.to = t.to /\ u.pc = t.pc /\ u.b = t.b /\ u.v = t.v
    BY <2>1, <1>0, <1>c DEF Task, LeavePCs
  <2>3. Fit(u)
    BY <1>0, <1>18, <2>2 DEF UndoRow, At, t, Fit, FitDay, FitLeave, ActPCs, MarkPCs, LeavePCs
  <2>4. DocsOK /\ crashes' = crashes
    <3> DEFINE d == Min(t.todo)
               pre == t.saw[d].pre
    <3>1. row' = [row EXCEPT ![d] = IF pre = "None" \/ ~Exists(@) THEN NoRow
                                    ELSE [@ EXCEPT !.status = pre, !.ref = "none", !.pre = "None"]]
      BY <1>18 DEF UndoRow, t
    <3>2. d \in Dates => pre \in DayStatus
      BY <1>c DEF Row
    <3> HIDE DEF d, pre
    <3>3. ASSUME NEW r \in Row, d \in Dates
          PROVE  [r EXCEPT !.status = pre, !.ref = "none", !.pre = "None"] \in Row
      BY <3>2, <3>3 DEF Row, DayStatus
    <3>4. row' \in [Dates -> Row]
      BY <3>1, <3>3, IdleTyped DEF TypeOK, DayTypeOK
    <3> QED
      BY <1>18, <3>4 DEF UndoRow, TypeOK, DayTypeOK, DocsOK, requests, traffic, leaveVars, books
  <2> QED
    BY <2>1, <2>2, <2>3, <2>4, <1>e
<1>19. CASE UndoDone(w)
  <2>1. u = [t EXCEPT !.pc = "give_back", !.plan = t.v.took] /\ task' = [task EXCEPT ![w] = u]
    BY <1>0, <1>19, <1>b DEF UndoDone, MarkDays, t
  <2>2. u \in Task /\ u.op = t.op /\ u.x = t.x /\ u.to = t.to /\ u.pc = "give_back" /\ u.b = t.b /\ u.v = t.v
    BY <2>1, <1>0, <1>c DEF Task, LeavePCs, LeaveDoc
  <2>3. Fit(u)
    BY <1>0, <1>19, <2>2 DEF UndoDone, At, t, Fit, FitDay, FitLeave, ActPCs, MarkPCs, LeavePCs
  <2>4. DocsOK /\ crashes' = crashes
    BY <1>19, <1>f DEF UndoDone
  <2> QED
    BY <2>1, <2>2, <2>3, <2>4, <1>e
<1>20. CASE GiveBackCoff(w)
  <2>0. /\ t.pc = "give_back" /\ t.v.kind = "C-Off"
        /\ Min(Rest(w)) \in Rest(w) /\ Rest(w) \subseteq Batches
    BY <1>20, MinFound, LeaveAssumption DEF GiveBackCoff, At, Rest, t
  <2>1. DocsOK /\ crashes' = crashes
    <3> DEFINE b == Min(Rest(w))
    <3>1. b \in Batches /\ coff[b].left + t.plan[b] \in 0..2
      BY <1>0, <1>d, <2>0, RoomToGiveBack DEF Rest, TypeOK, t
    <3>2. coff' = [coff EXCEPT ![b] = [status |-> "Available", left |-> coff[b].left + t.plan[b]]]
      BY <1>20, <3>1 DEF GiveBackCoff, TypeOK, t
    <3> HIDE DEF b
    <3>3. coff' \in [Batches -> Batch]
      BY <3>1, <3>2 DEF TypeOK, Batch
    <3> QED
      BY <1>20, <1>g, <3>3 DEF GiveBackCoff, TypeOK, DocsOK
  <2>2. CASE u = Idle /\ task' = [task EXCEPT ![w] = u]
    BY <2>1, <2>2, <1>e, IdleTyped
  <2>3. CASE task' = [task EXCEPT ![w].b = Min(Rest(w))]
    <3>1. u = [t EXCEPT !.b = Min(Rest(w))] /\ task' = [task EXCEPT ![w] = u]
      BY <1>0, <2>3, <1>b DEF t
    <3>2. u \in Task /\ u.op = t.op /\ u.x = t.x /\ u.to = t.to /\ u.pc = t.pc /\ u.v = t.v
      BY <1>0, <2>0, <3>1 DEF Task
    <3>3. Fit(u)
      BY <1>0, <2>0, <3>2 DEF Fit, FitDay, FitLeave, ActPCs, MarkPCs, LeavePCs
    <3> QED
      BY <2>1, <3>1, <3>2, <3>3, <1>e
  <2> QED
    BY <1>20, <2>2, <2>3, <1>b DEF GiveBackCoff, Finish
<1>21. CASE GiveBack(w)
  <2>1. u = Idle /\ task' = [task EXCEPT ![w] = u]
    BY <1>21, <1>b DEF GiveBack, Finish
  <2>4. DocsOK /\ crashes' = crashes
    BY <1>21, <1>c, <1>g, CountTyped DEF GiveBack, TypeOK, DocsOK, t
  <2> QED
    BY <2>1, <2>4, <1>e, IdleTyped
<1>22. CASE StartClaim(w)
  <2>1. PICK b \in Batches :
          Start(w, "claim", [Idle EXCEPT !.pc = "claim_insert", !.b = b])
    BY <1>22 DEF StartClaim
  <2>2. u = [Idle EXCEPT !.pc = "claim_insert", !.b = b, !.op = "claim"] /\ task' = [task EXCEPT ![w] = u]
    BY <2>1, <1>b DEF Start, Begin, Idle
  <2>3. u \in Task /\ u.op = "claim" /\ u.pc = "claim_insert" /\ u.b = b
    BY <2>2, IdleTyped DEF Task, LeavePCs, LeaveOps
  <2>4. Fit(u)
    BY <2>3 DEF Fit, FitDay, FitLeave, ActPCs, MarkPCs, LeavePCs
  <2> QED
    BY <2>1, <2>2, <2>3, <2>4, <1>e, <1>h
<1>23. CASE ClaimInsert(w)
  <2>1. u = Idle /\ task' = [task EXCEPT ![w] = u]
    BY <1>23, <1>b DEF ClaimInsert, Finish
  <2>4. DocsOK /\ crashes' = crashes
    <3>0. /\ [status |-> "PendingApproval", left |-> 0] \in Batch
          /\ [status |-> "Available", left |-> 2] \in Batch
          /\ [status |-> "Refused", left |-> 0] \in Batch
      BY DEF Batch
    <3>1. coff' \in [Batches -> Batch]
      BY <1>23, <3>0 DEF ClaimInsert, TypeOK
    <3> QED
      BY <1>23, <1>g, <3>1 DEF ClaimInsert, TypeOK, DocsOK
  <2> QED
    BY <2>1, <2>4, <1>e, IdleTyped
<1>24. CASE StartActClaim(w)
  <2>1. PICK b \in Batches, to \in {"Approved", "Refused"} :
          Start(w, "act-claim", [Idle EXCEPT !.pc = "claim_write", !.b = b, !.to = to])
    BY <1>24 DEF StartActClaim
  <2>2. u = [Idle EXCEPT !.pc = "claim_write", !.b = b, !.to = to, !.op = "act-claim"] /\ task' = [task EXCEPT ![w] = u]
    BY <2>1, <1>b DEF Start, Begin, Idle
  <2>3. u \in Task /\ u.op = "act-claim" /\ u.pc = "claim_write" /\ u.b = b /\ u.to = to
    BY <2>2, IdleTyped DEF Task, LeavePCs, LeaveOps, LeaveStatus
  <2>4. Fit(u)
    BY <2>3 DEF Fit, FitDay, FitLeave, ActPCs, MarkPCs, LeavePCs
  <2> QED
    BY <2>1, <2>2, <2>3, <2>4, <1>e, <1>h
<1>25. CASE ClaimWrite(w)
  <2>1. u = Idle /\ task' = [task EXCEPT ![w] = u]
    BY <1>25, <1>b DEF ClaimWrite, Finish
  <2>4. DocsOK /\ crashes' = crashes
    <3>0. /\ [status |-> "PendingApproval", left |-> 0] \in Batch
          /\ [status |-> "Available", left |-> 2] \in Batch
          /\ [status |-> "Refused", left |-> 0] \in Batch
      BY DEF Batch
    <3>1. coff' \in [Batches -> Batch]
      BY <1>25, <3>0 DEF ClaimWrite, TypeOK
    <3> QED
      BY <1>25, <1>g, <3>1 DEF ClaimWrite, TypeOK, DocsOK
  <2> QED
    BY <2>1, <2>4, <1>e, IdleTyped
<1>26. CASE StartAdjust(w)
  <2>1. Start(w, "adjust", [Idle EXCEPT !.pc = "adjust_inc"])
    BY <1>26 DEF StartAdjust
  <2>2. u = [Idle EXCEPT !.pc = "adjust_inc", !.op = "adjust"] /\ task' = [task EXCEPT ![w] = u]
    BY <2>1, <1>b DEF Start, Begin, Idle
  <2>3. u \in Task /\ u.op = "adjust" /\ u.pc = "adjust_inc"
    BY <2>2, IdleTyped DEF Task, LeavePCs, LeaveOps
  <2>4. Fit(u)
    BY <2>3 DEF Fit, FitDay, FitLeave, ActPCs, MarkPCs, LeavePCs
  <2> QED
    BY <2>1, <2>2, <2>3, <2>4, <1>e, <1>h
<1>27. CASE AdjustInc(w)
  <2>1. u = Idle /\ task' = [task EXCEPT ![w] = u]
    BY <1>27, <1>b DEF AdjustInc, Finish
  <2>4. DocsOK /\ crashes' = crashes
    BY <1>27, <1>g DEF AdjustInc, TypeOK, DocsOK
  <2> QED
    BY <2>1, <2>4, <1>e, IdleTyped
<1> QED
  BY <1>1, <1>2, <1>3, <1>4, <1>5, <1>6, <1>7, <1>8, <1>9, <1>10, <1>11, <1>12, <1>13, <1>14,
     <1>15, <1>16, <1>17, <1>18, <1>19, <1>20, <1>21, <1>22, <1>23, <1>24, <1>25, <1>26, <1>27
     DEF LeaveStep

-----------------------------------------------------------------------------
(* What the approved leaves took                                            *)

Granted(ls, kind) == {l \in Leaves : ls[l].status = "Approved" /\ ls[l].kind = kind}
TakenIn(ls) == Total([l \in Leaves |-> Count(ls[l])], Granted(ls, "EL"))
DrawnIn(ls, b) == Total([l \in Leaves |-> ls[l].took[b]], Granted(ls, "C-Off"))

\* Taken and Drawn as functions of the leaves.
LEMMA TakenAndDrawn ==
    /\ Taken = TakenIn(leave) /\ Taken' = TakenIn(leave')
    /\ \A b \in Batches : Drawn(b) = DrawnIn(leave, b) /\ Drawn(b)' = DrawnIn(leave', b)
BY DEF Taken, TakenIn, Drawn, DrawnIn, ApprovedOf, Granted, Cost

LEMMA InTyped ==
    ASSUME NEW ls \in [Leaves -> LeaveDoc]
    PROVE  /\ \A kind : Granted(ls, kind) \in SUBSET Leaves /\ IsFiniteSet(Granted(ls, kind))
           /\ \A l \in Leaves : Count(ls[l]) \in Nat /\ \A b \in Batches : ls[l].took[b] \in Nat
           /\ TakenIn(ls) \in Nat /\ \A b \in Batches : DrawnIn(ls, b) \in Nat
<1>1. \A kind : Granted(ls, kind) \in SUBSET Leaves /\ IsFiniteSet(Granted(ls, kind))
  <2> TAKE kind
  <2>1. Granted(ls, kind) \in SUBSET Leaves
    BY DEF Granted
  <2> QED
    BY <2>1, AttendanceAssumption, FS_Subset
<1>2. \A l \in Leaves : Count(ls[l]) \in Nat /\ \A b \in Batches : ls[l].took[b] \in Nat
  BY CountTyped DEF LeaveDoc, Draw
<1>3. TakenIn(ls) \in Nat
  BY <1>1, <1>2, TotalIsNat DEF TakenIn
<1>4. \A b \in Batches : DrawnIn(ls, b) \in Nat
  BY <1>1, <1>2, TotalIsNat DEF DrawnIn
<1> QED
  BY <1>1, <1>2, <1>3, <1>4

\* Only the approved leaves are counted.
LEMMA InSame ==
    ASSUME NEW ls \in [Leaves -> LeaveDoc], NEW ks \in [Leaves -> LeaveDoc],
           \A l \in Leaves : /\ ls[l].status = "Approved" <=> ks[l].status = "Approved"
                             /\ ls[l].status = "Approved" => ls[l] = ks[l]
    PROVE  TakenIn(ks) = TakenIn(ls) /\ \A b \in Batches : DrawnIn(ks, b) = DrawnIn(ls, b)
<1>1. \A kind : Granted(ls, kind) = Granted(ks, kind)
  BY DEF Granted
<1>2. ASSUME NEW f, NEW g, NEW kind, \A l \in Leaves : ls[l] = ks[l] => f[l] = g[l]
      PROVE  Total(f, Granted(ls, kind)) = Total(g, Granted(ks, kind))
  <2>1. \A l \in Granted(ls, kind) : f[l] = g[l]
    BY <1>2 DEF Granted
  <2> QED
    BY <1>1, <2>1, TotalSame
<1>3. TakenIn(ks) = TakenIn(ls)
  <2> DEFINE f == [l \in Leaves |-> Count(ls[l])]
             g == [l \in Leaves |-> Count(ks[l])]
  <2>1. \A l \in Leaves : ls[l] = ks[l] => f[l] = g[l]
    OBVIOUS
  <2>2. TakenIn(ls) = Total(f, Granted(ls, "EL")) /\ TakenIn(ks) = Total(g, Granted(ks, "EL"))
    BY DEF TakenIn
  <2> HIDE DEF f, g
  <2> QED
    BY <1>2, <2>1, <2>2
<1>4. ASSUME NEW b \in Batches PROVE DrawnIn(ks, b) = DrawnIn(ls, b)
  <2> DEFINE f == [l \in Leaves |-> ls[l].took[b]]
             g == [l \in Leaves |-> ks[l].took[b]]
  <2>1. \A l \in Leaves : ls[l] = ks[l] => f[l] = g[l]
    OBVIOUS
  <2>2. DrawnIn(ls, b) = Total(f, Granted(ls, "C-Off")) /\ DrawnIn(ks, b) = Total(g, Granted(ks, "C-Off"))
    BY DEF DrawnIn
  <2> HIDE DEF f, g
  <2> QED
    BY <1>2, <2>1, <2>2
<1> QED
  BY <1>3, <1>4

\* What the approval of leave x adds, and its cancellation takes off again.
LEMMA InAdded ==
    ASSUME NEW ls \in [Leaves -> LeaveDoc], NEW ks \in [Leaves -> LeaveDoc], NEW x \in Leaves,
           ls[x].status # "Approved", ks[x].status = "Approved",
           \A l \in Leaves \ {x} : ks[l] = ls[l]
    PROVE  /\ TakenIn(ks) = IF ks[x].kind = "EL" THEN TakenIn(ls) + Count(ks[x]) ELSE TakenIn(ls)
           /\ \A b \in Batches : DrawnIn(ks, b) = IF ks[x].kind = "C-Off" THEN DrawnIn(ls, b) + ks[x].took[b]
                                                                        ELSE DrawnIn(ls, b)
<1>1. \A kind : /\ Granted(ks, kind) = IF ks[x].kind = kind THEN Granted(ls, kind) \cup {x} ELSE Granted(ls, kind)
                /\ x \notin Granted(ls, kind)
  BY DEF Granted
<1>2. ASSUME NEW f, NEW g, NEW kind, f \in [Leaves -> Nat], g \in [Leaves -> Nat], \A l \in Leaves \ {x} : g[l] = f[l]
      PROVE  Total(g, Granted(ks, kind)) = IF ks[x].kind = kind THEN Total(f, Granted(ls, kind)) + g[x]
                                                               ELSE Total(f, Granted(ls, kind))
  <2> DEFINE S == Granted(ls, kind)
  <2>1. S \in SUBSET Leaves /\ IsFiniteSet(S) /\ x \notin S
    BY <1>1, InTyped
  <2>2. Granted(ks, kind) = IF ks[x].kind = kind THEN S \cup {x} ELSE S
    BY <1>1
  <2> HIDE DEF S
  <2>3. Total(g, S) = Total(f, S)
    BY <1>2, <2>1, TotalSame
  <2>4. Total(g, S \cup {x}) = Total(g, S) + g[x]
    BY <1>2, <2>1, TotalAdded
  <2> QED
    BY <2>2, <2>3, <2>4 DEF S
<1>3. TakenIn(ks) = IF ks[x].kind = "EL" THEN TakenIn(ls) + Count(ks[x]) ELSE TakenIn(ls)
  <2> DEFINE f == [l \in Leaves |-> Count(ls[l])]
             g == [l \in Leaves |-> Count(ks[l])]
  <2>1. f \in [Leaves -> Nat] /\ g \in [Leaves -> Nat] /\ (\A l \in Leaves \ {x} : g[l] = f[l]) /\ g[x] = Count(ks[x])
    BY InTyped
  <2>2. TakenIn(ls) = Total(f, Granted(ls, "EL")) /\ TakenIn(ks) = Total(g, Granted(ks, "EL"))
    BY DEF TakenIn
  <2> HIDE DEF f, g
  <2> QED
    BY <1>2, <2>1, <2>2
<1>4. ASSUME NEW b \in Batches
      PROVE  DrawnIn(ks, b) = IF ks[x].kind = "C-Off" THEN DrawnIn(ls, b) + ks[x].took[b] ELSE DrawnIn(ls, b)
  <2> DEFINE f == [l \in Leaves |-> ls[l].took[b]]
             g == [l \in Leaves |-> ks[l].took[b]]
  <2>1. f \in [Leaves -> Nat] /\ g \in [Leaves -> Nat] /\ (\A l \in Leaves \ {x} : g[l] = f[l]) /\ g[x] = ks[x].took[b]
    BY InTyped
  <2>2. DrawnIn(ls, b) = Total(f, Granted(ls, "C-Off")) /\ DrawnIn(ks, b) = Total(g, Granted(ks, "C-Off"))
    BY DEF DrawnIn
  <2> HIDE DEF f, g
  <2> QED
    BY <1>2, <2>1, <2>2
<1> QED
  BY <1>3, <1>4

-----------------------------------------------------------------------------
(* The leave handlers, step by step                                         *)

\* What a request goes on with, and a step that only reads.
Keeps(t, u) == u.x = t.x /\ u.to = t.to /\ u.v = t.v /\ u.who = t.who
ReadOnly == UNCHANGED <<row, lock, requests, crashes, leaveVars>>
DaysKept == UNCHANGED <<row, lock, requests, crashes>>

\* The batches of the plan still to be written.
ToWrite(t) == {b \in Batches : t.plan[b] > 0 /\ b > t.b}

\* apply_leave.
LEMMA ApplySteps ==
    ASSUME TypeOK, NEW w \in Workers, Fit(task[w])
    PROVE  /\ StartApply(w) =>
               /\ ReadOnly /\ task[w].pc = "idle" /\ task'[w].pc = "apply_balance"
               /\ task'[w].v.status = "Pending" /\ ~Overlaps(task'[w].v.from, task'[w].v.to)
           /\ ApplyBalance(w) =>
               /\ ReadOnly /\ task[w].pc = "apply_balance" /\ task'[w].pc = "apply_pending" /\ Keeps(task[w], task'[w])
               /\ task[w].v.kind = "EL" => task'[w].n = Closing
           /\ ApplyPending(w) =>
               /\ ReadOnly /\ task[w].pc = "apply_pending"
               /\ task'[w] = Idle \/ (/\ task'[w].pc = "apply_insert" /\ Keeps(task[w], task'[w])
                             /\ Count(task[w].v) <= task[w].n - PendingDays(task[w].v.kind))
           /\ ApplyInsert(w) =>
               /\ DaysKept /\ task[w].pc = "apply_insert" /\ task'[w] = Idle
               /\ leave[task[w].x] = NoLeave /\ leave' = [leave EXCEPT ![task[w].x] = task[w].v]
               /\ UNCHANGED <<books, stuck>>
<1> DEFINE t == task[w]
           u == task'[w]
<1>0. /\ t \in Task /\ task \in [Workers -> Task] /\ Fit(t)
      /\ task[w] = Idle => t.pc = "idle"
  BY IdleTyped DEF TypeOK
<1>a. \A v : task' = [task EXCEPT ![w] = v] => u = v
  BY <1>0
<1>b. \A nxt : task' = [task EXCEPT ![w].pc = nxt] => u = [t EXCEPT !.pc = nxt]
  BY <1>0
<1>c. \A v \in Task, nxt \in TaskPCs : LET z == [v EXCEPT !.pc = nxt]
                              IN  z.pc = nxt /\ Keeps(v, z) /\ z.n = v.n /\ z.todo = v.todo /\ z.saw = v.saw
                                  /\ z.b = v.b /\ z.plan = v.plan /\ z.base = v.base
  BY Moved DEF Keeps
<1> HIDE DEF t, u
<1>1. ASSUME StartApply(w)
      PROVE  /\ ReadOnly /\ t.pc = "idle" /\ u.pc = "apply_balance"
             /\ u.v.status = "Pending" /\ ~Overlaps(u.v.from, u.v.to)
  <2>1. PICK l \in Leaves, kind \in {"EL", "C-Off"}, from \in Dates, to \in Dates, half \in BOOLEAN :
          /\ ~Overlaps(from, to)
          /\ Start(w, "apply",
                   [Idle EXCEPT !.pc = "apply_balance", !.x = l,
                      !.v = [NoLeave EXCEPT !.status = "Pending", !.kind = kind, !.from = from,
                                            !.to = to, !.half = half]])
    BY <1>1 DEF StartApply
  <2> DEFINE v == [NoLeave EXCEPT !.status = "Pending", !.kind = kind, !.from = from,
                                  !.to = to, !.half = half]
  <2>2. v.status = "Pending" /\ v.from = from /\ v.to = to
    BY DEF NoLeave
  <2>3. u = [Idle EXCEPT !.pc = "apply_balance", !.x = l, !.v = v, !.op = "apply"] /\ t = Idle /\ ReadOnly
    BY <2>1, <1>a DEF Start, Begin, Idle, t, ReadOnly
  <2> HIDE DEF v
  <2>4. u.pc = "apply_balance" /\ u.v = v
    BY <2>3 DEF Idle
  <2> QED
    BY <1>0, <2>1, <2>2, <2>3, <2>4 DEF t
<1>2. ASSUME ApplyBalance(w)
      PROVE  /\ ReadOnly /\ t.pc = "apply_balance" /\ u.pc = "apply_pending" /\ Keeps(t, u)
             /\ t.v.kind = "EL" => u.n = Closing
  <2> DEFINE new == IF t.v.kind = "C-Off" THEN CoffAvailable ELSE Closing
  <2>0. t.v.kind = "EL" => new = Closing
    OBVIOUS
  <2>1. task' = [task EXCEPT ![w].pc = "apply_pending", ![w].n = new]
    BY <1>2 DEF ApplyBalance, t
  <2> HIDE DEF new
  <2>2. u = [t EXCEPT !.pc = "apply_pending", !.n = new]
    BY <1>0, <2>1 DEF t, u
  <2>3. u.pc = "apply_pending" /\ u.n = new /\ Keeps(t, u)
    BY <1>0, <2>2 DEF Task, Keeps
  <2> QED
    BY <1>2, <2>0, <2>3 DEF ApplyBalance, At, t, ReadOnly, traffic
<1>3. ASSUME ApplyPending(w)
      PROVE  /\ ReadOnly /\ t.pc = "apply_pending"
             /\ u = Idle \/ (/\ u.pc = "apply_insert" /\ Keeps(t, u)
                           /\ Count(t.v) <= t.n - PendingDays(t.v.kind))
  <2>1. ReadOnly /\ t.pc = "apply_pending"
    BY <1>3 DEF ApplyPending, At, t, ReadOnly, traffic
  <2>2. CASE Count(t.v) <= t.n - PendingDays(t.v.kind)
    <3>1. u = [t EXCEPT !.pc = "apply_insert"]
      BY <1>3, <1>b, <2>2 DEF ApplyPending, Goto, t
    <3> QED
      BY <1>0, <1>c, <2>1, <2>2, <3>1 DEF TaskPCs, LeavePCs
  <2>3. CASE ~(Count(t.v) <= t.n - PendingDays(t.v.kind))
    BY <1>3, <1>a, <2>1, <2>3 DEF ApplyPending, Finish, t
  <2> QED
    BY <2>2, <2>3
<1>4. ASSUME ApplyInsert(w)
      PROVE  /\ DaysKept /\ t.pc = "apply_insert" /\ u = Idle
             /\ leave[t.x] = NoLeave /\ leave' = [leave EXCEPT ![t.x] = t.v]
             /\ UNCHANGED <<books, stuck>>
  <2>1. u = Idle
    BY <1>4, <1>a DEF ApplyInsert, Finish
  <2> QED
    BY <1>4, <1>0, <2>1 DEF ApplyInsert, At, t, DaysKept, traffic
<1> QED
  BY <1>1, <1>2, <1>3, <1>4 DEF t, u

\* act_on_leave, up to the days it marks.
LEMMA ActSteps ==
    ASSUME TypeOK, NEW w \in Workers, Fit(task[w])
    PROVE  /\ StartAct(w) =>
               /\ ReadOnly /\ task[w].pc = "idle"
               /\ task'[w].x \in Leaves /\ task'[w].v = leave[task'[w].x] /\ task'[w].v.status \in OpenLeave
               /\ task'[w].pc = ActFrom(task'[w].v, task'[w].to)
           /\ DebitRead(w) =>
               /\ ReadOnly /\ task[w].pc = "debit_read"
               /\ task'[w] = Idle \/ (task'[w].pc = "debit_inc" /\ Keeps(task[w], task'[w]))
           /\ DebitInc(w) =>
               /\ DaysKept /\ task[w].pc = "debit_inc" /\ task'[w].pc = "day_read" /\ Keeps(task[w], task'[w]) /\ task'[w].todo = Days(task[w].v)
               /\ used' = used + Count(task[w].v)
               /\ UNCHANGED <<leave, granted, coff, expired, stuck>>
           /\ CoffRead(w) =>
               /\ ReadOnly /\ task[w].pc = "coff_read"
               /\ task'[w] = Idle \/ (/\ task'[w].pc = "coff_take" /\ Keeps(task[w], task'[w]) /\ task'[w].b = task[w].b
                             /\ task'[w].plan = Plan(Count(task[w].v)) /\ \A b \in Batches : task'[w].base[b] = coff[b].left)
           /\ CoffTake(w) =>
               /\ DaysKept /\ task[w].pc = "coff_take" /\ task'[w].pc = "coff_take" /\ Keeps(task[w], task'[w]) /\ task'[w].plan = task[w].plan /\ task'[w].base = task[w].base
               /\ task'[w].b \in ToWrite(task[w]) /\ \A c \in ToWrite(task[w]) : task'[w].b <= c
               /\ LET left == task[w].base[task'[w].b] - task[w].plan[task'[w].b]
                  IN  coff' = [coff EXCEPT ![task'[w].b] = [status |-> IF left = 0 THEN "Used" ELSE "Available", left |-> left]]
               /\ UNCHANGED <<leave, granted, used, expired, stuck>>
           /\ CoffNote(w) =>
               /\ DaysKept /\ task[w].pc = "coff_take" /\ task'[w].pc = "day_read" /\ Keeps(task[w], task'[w]) /\ task'[w].plan = task[w].plan /\ task'[w].todo = Days(task[w].v)
               /\ ToWrite(task[w]) = {} /\ leave' = [leave EXCEPT ![task[w].x].took = task[w].plan]
               /\ UNCHANGED <<books, stuck>>
<1> DEFINE t == task[w]
           u == task'[w]
<1>0. /\ t \in Task /\ task \in [Workers -> Task] /\ Fit(t)
      /\ task[w] = Idle => t.pc = "idle"
  BY IdleTyped DEF TypeOK
<1>a. \A v : task' = [task EXCEPT ![w] = v] => u = v
  BY <1>0
<1>b. \A nxt : task' = [task EXCEPT ![w].pc = nxt] => u = [t EXCEPT !.pc = nxt]
  BY <1>0
<1>c. \A v \in Task, nxt \in TaskPCs : LET z == [v EXCEPT !.pc = nxt]
                              IN  z.pc = nxt /\ Keeps(v, z) /\ z.n = v.n /\ z.todo = v.todo /\ z.saw = v.saw
                                  /\ z.b = v.b /\ z.plan = v.plan /\ z.base = v.base
  BY Moved DEF Keeps
<1> HIDE DEF t, u
<1>1. ASSUME StartAct(w)
      PROVE  /\ ReadOnly /\ t.pc = "idle"
             /\ u.x \in Leaves /\ u.v = leave[u.x] /\ u.v.status \in OpenLeave
             /\ u.pc = ActFrom(u.v, u.to)
  <2>1. PICK l \in Leaves, who \in Deciders, to \in LeaveStatus \ {"None", "Pending", "Cancelled"} :
          /\ leave[l].status \in OpenLeave
          /\ Start(w, "act", [Idle EXCEPT !.x = l, !.who = who, !.to = to, !.v = leave[l],
                                !.pc = ActFrom(leave[l], to)])
    BY <1>1 DEF StartAct
  <2>2. u = [Idle EXCEPT !.x = l, !.who = who, !.to = to, !.v = leave[l], !.pc = ActFrom(leave[l], to),
                         !.op = "act"] /\ t = Idle /\ ReadOnly
    BY <2>1, <1>a DEF Start, Begin, Idle, t, ReadOnly
  <2>3. u.x = l /\ u.to = to /\ u.v = leave[l] /\ u.pc = ActFrom(leave[l], to)
    BY <2>2 DEF Idle
  <2> QED
    BY <1>0, <2>1, <2>2, <2>3 DEF t
<1>2. ASSUME DebitRead(w)
      PROVE  /\ ReadOnly /\ t.pc = "debit_read"
             /\ u = Idle \/ (u.pc = "debit_inc" /\ Keeps(t, u))
  <2>1. ReadOnly /\ t.pc = "debit_read"
    BY <1>2 DEF DebitRead, At, t, ReadOnly, traffic
  <2>2. u = Idle \/ u = [t EXCEPT !.pc = "debit_inc"]
    BY <1>2, <1>a, <1>b DEF DebitRead, Goto, Finish
  <2>3. CASE u = [t EXCEPT !.pc = "debit_inc"]
    BY <1>0, <1>c, <2>1, <2>3 DEF TaskPCs, LeavePCs
  <2> QED
    BY <2>1, <2>2, <2>3
<1>3. ASSUME DebitInc(w)
      PROVE  /\ DaysKept /\ t.pc = "debit_inc" /\ u.pc = "day_read" /\ Keeps(t, u) /\ u.todo = Days(t.v)
             /\ used' = used + Count(t.v)
             /\ UNCHANGED <<leave, granted, coff, expired, stuck>>
  <2>1. u = [t EXCEPT !.pc = "day_read", !.todo = Days(t.v)]
    BY <1>3, <1>0 DEF DebitInc, MarkDays, t, u
  <2> QED
    BY <1>3, <1>0, <2>1 DEF DebitInc, At, t, Task, Keeps, ReadOnly, DaysKept, traffic
<1>4. ASSUME CoffRead(w)
      PROVE  /\ ReadOnly /\ t.pc = "coff_read"
             /\ u = Idle \/ (/\ u.pc = "coff_take" /\ Keeps(t, u) /\ u.b = t.b
                           /\ u.plan = Plan(Count(t.v)) /\ \A b \in Batches : u.base[b] = coff[b].left)
  <2>1. ReadOnly /\ t.pc = "coff_read"
    BY <1>4 DEF CoffRead, At, t, ReadOnly, traffic
  <2>2. CASE task' = [task EXCEPT ![w].pc = "coff_take", ![w].plan = Plan(Count(t.v)),
                                  ![w].base = [b \in Batches |-> coff[b].left]]
    <3> DEFINE base == [b \in Batches |-> coff[b].left]
    <3>1. \A b \in Batches : base[b] = coff[b].left
      OBVIOUS
    <3> HIDE DEF base
    <3>2. u = [t EXCEPT !.pc = "coff_take", !.plan = Plan(Count(t.v)), !.base = base]
      BY <1>0, <2>2 DEF t, u, base
    <3>3. u.pc = "coff_take" /\ Keeps(t, u) /\ u.b = t.b /\ u.plan = Plan(Count(t.v)) /\ u.base = base
      BY <1>0, <3>2 DEF Task, Keeps
    <3> QED
      BY <2>1, <3>1, <3>3
  <2> QED
    BY <1>4, <1>a, <2>1, <2>2 DEF CoffRead, Finish, t
<1>5. ASSUME CoffTake(w)
      PROVE  /\ DaysKept /\ t.pc = "coff_take" /\ u.pc = "coff_take" /\ Keeps(t, u) /\ u.plan = t.plan /\ u.base = t.base
             /\ u.b \in ToWrite(t) /\ \A c \in ToWrite(t) : u.b <= c
             /\ LET left == t.base[u.b] - t.plan[u.b]
                IN  coff' = [coff EXCEPT ![u.b] = [status |-> IF left = 0 THEN "Used" ELSE "Available", left |-> left]]
             /\ UNCHANGED <<leave, granted, used, expired, stuck>>
  <2> DEFINE m == Min(Rest(w))
  <2>1. m \in ToWrite(t) /\ \A c \in ToWrite(t) : m <= c
    <3>1. Rest(w) = ToWrite(t) /\ Rest(w) # {} /\ Rest(w) \in SUBSET Nat
      BY <1>5, LeaveAssumption DEF CoffTake, Rest, ToWrite, t
    <3> QED
      BY <3>1, MinFound
  <2>2. task' = [task EXCEPT ![w].b = m]
    BY <1>5 DEF CoffTake
  <2>3. LET left == t.base[m] - t.plan[m]
        IN  coff' = [coff EXCEPT ![m] = [status |-> IF left = 0 THEN "Used" ELSE "Available", left |-> left]]
    BY <1>5 DEF CoffTake, t
  <2> HIDE DEF m
  <2>4. u = [t EXCEPT !.b = m]
    BY <1>0, <2>2 DEF t, u
  <2>5. u.b = m /\ u.pc = t.pc /\ Keeps(t, u) /\ u.plan = t.plan /\ u.base = t.base
    BY <1>0, <2>4 DEF Task, Keeps
  <2> QED
    BY <1>5, <2>1, <2>3, <2>5 DEF CoffTake, At, t, DaysKept, traffic
<1>6. ASSUME CoffNote(w)
      PROVE  /\ DaysKept /\ t.pc = "coff_take" /\ u.pc = "day_read" /\ Keeps(t, u) /\ u.plan = t.plan /\ u.todo = Days(t.v)
             /\ ToWrite(t) = {} /\ leave' = [leave EXCEPT ![t.x].took = t.plan]
             /\ UNCHANGED <<books, stuck>>
  <2>1. u = [t EXCEPT !.pc = "day_read", !.todo = Days(t.v)]
    BY <1>6, <1>0 DEF CoffNote, MarkDays, t, u
  <2>2. u.pc = "day_read" /\ Keeps(t, u) /\ u.plan = t.plan /\ u.todo = Days(t.v)
    BY <1>0, <2>1 DEF Task, Keeps
  <2> QED
    BY <1>6, <2>2 DEF CoffNote, At, t, DaysKept, traffic, Rest, ToWrite
<1> QED
  BY <1>1, <1>2, <1>3, <1>4, <1>5, <1>6 DEF t, u

\* act_on_leave, from the days it marks.
LEMMA MarkSteps ==
    ASSUME TypeOK, NEW w \in Workers, Fit(task[w])
    PROVE  /\ DayRead(w) =>
               /\ ReadOnly /\ task[w].pc = "day_read" /\ task[w].todo # {} /\ Keeps(task[w], task'[w]) /\ task'[w].plan = task[w].plan
               /\ \/ /\ task'[w].pc = "day_read"
                     /\ task'[w].todo = task[w].todo \ {Min(task[w].todo)}
                  \/ /\ ~row[Min(task[w].todo)].locked /\ task'[w].pc = "day_write"
                     /\ task'[w].todo = task[w].todo /\ task'[w].saw[Min(task[w].todo)] = row[Min(task[w].todo)]
           /\ DayWrite(w) =>
               /\ UNCHANGED <<lock, requests, crashes, leaveVars>>
               /\ task[w].pc = "day_write" /\ task'[w].pc = "day_read" /\ Keeps(task[w], task'[w]) /\ task'[w].plan = task[w].plan
               /\ task'[w].todo = task[w].todo \ {Min(task[w].todo)}
               /\ \E pre :
                  /\ pre = "OnLeave" => \/ task[w].saw[Min(task[w].todo)].status = "OnLeave" /\ task[w].saw[Min(task[w].todo)].ref # task[w].x
                                       \/ row[Min(task[w].todo)].pre = "OnLeave"
                  /\ row' = [row EXCEPT ![Min(task[w].todo)] = [@ EXCEPT !.status = "OnLeave", !.ref = task[w].x, !.pre = pre]]
           /\ DaysDone(w) =>
               /\ task[w].pc = "day_read" /\ task[w].todo = {} /\ task'[w].pc = "act_write" /\ Keeps(task[w], task'[w]) /\ task'[w].plan = task[w].plan /\ task'[w].todo = task[w].todo
               /\ applied' = applied \cup {task[w].x} /\ UNCHANGED <<row, lock, reg, od, crashes, leaveVars>>
           /\ ActWrite(w) =>
               /\ DaysKept /\ task[w].pc = "act_write" /\ task'[w] = Idle
               /\ leave' = [leave EXCEPT ![task[w].x] = Decided(@, task[w].to, task[w].who)]
               /\ UNCHANGED <<books, stuck>>
<1> DEFINE t == task[w]
           u == task'[w]
<1>0. /\ t \in Task /\ task \in [Workers -> Task] /\ Fit(t)
      /\ task[w] = Idle => t.pc = "idle"
  BY IdleTyped DEF TypeOK
<1>a. \A v : task' = [task EXCEPT ![w] = v] => u = v
  BY <1>0
<1>b. \A nxt : task' = [task EXCEPT ![w].pc = nxt] => u = [t EXCEPT !.pc = nxt]
  BY <1>0
<1>c. \A v \in Task, nxt \in TaskPCs : LET z == [v EXCEPT !.pc = nxt]
                              IN  z.pc = nxt /\ Keeps(v, z) /\ z.n = v.n /\ z.todo = v.todo /\ z.saw = v.saw
                                  /\ z.b = v.b /\ z.plan = v.plan /\ z.base = v.base
  BY Moved DEF Keeps
<1> HIDE DEF t, u
<1>1. ASSUME DayRead(w)
      PROVE  /\ ReadOnly /\ t.pc = "day_read" /\ t.todo # {} /\ Keeps(t, u) /\ u.plan = t.plan
             /\ \/ /\ u.pc = "day_read"
                   /\ u.todo = t.todo \ {Min(t.todo)}
                \/ /\ ~row[Min(t.todo)].locked /\ u.pc = "day_write"
                   /\ u.todo = t.todo /\ u.saw[Min(t.todo)] = row[Min(t.todo)]
  <2> DEFINE d == Min(t.todo)
  <2>0. d \in t.todo /\ \A e \in t.todo : d <= e
    BY <1>1, <1>0, MinFound, AttendanceAssumption DEF DayRead, Task, t
  <2> HIDE DEF d
  <2>1. t.pc = "day_read" /\ t.todo # {} /\ ReadOnly /\ d \in Dates
    BY <1>1, <1>0, <2>0 DEF DayRead, At, t, ReadOnly, traffic, Task
  <2>2. CASE row[d].locked
    <3>1. u = [t EXCEPT !.todo = t.todo \ {d}]
      BY <1>1, <1>0, <2>2 DEF DayRead, t, u, d
    <3>2. u.pc = t.pc /\ u.todo = t.todo \ {d} /\ Keeps(t, u) /\ u.plan = t.plan
      BY <1>0, <3>1 DEF Task, Keeps
    <3> QED
      BY <2>1, <2>2, <3>2 DEF d
  <2>3. CASE ~row[d].locked
    <3>1. task' = [task EXCEPT ![w].saw[d] = row[d], ![w].pc = "day_write"]
      BY <1>1, <2>3 DEF DayRead, t, d
    <3>2. u = [t EXCEPT !.saw = [t.saw EXCEPT ![d] = row[d]], !.pc = "day_write"]
      BY <1>0, <3>1 DEF t, u
    <3> DEFINE saw == [t.saw EXCEPT ![d] = row[d]]
    <3>3. saw[d] = row[d]
      BY <1>0, <2>1 DEF Task
    <3> HIDE DEF saw
    <3>4. u.pc = "day_write" /\ u.todo = t.todo /\ Keeps(t, u) /\ u.plan = t.plan /\ u.saw = saw
      BY <1>0, <3>2 DEF Task, Keeps, saw
    <3> QED
      BY <2>1, <2>3, <3>3, <3>4 DEF d
  <2> QED
    BY <2>2, <2>3
<1>2. ASSUME DayWrite(w)
      PROVE  /\ UNCHANGED <<lock, requests, crashes, leaveVars>>
             /\ t.pc = "day_write" /\ u.pc = "day_read" /\ Keeps(t, u) /\ u.plan = t.plan
             /\ u.todo = t.todo \ {Min(t.todo)}
             /\ \E pre :
                /\ pre = "OnLeave" => \/ t.saw[Min(t.todo)].status = "OnLeave" /\ t.saw[Min(t.todo)].ref # t.x
                                     \/ row[Min(t.todo)].pre = "OnLeave"
                /\ row' = [row EXCEPT ![Min(t.todo)] = [@ EXCEPT !.status = "OnLeave", !.ref = t.x, !.pre = pre]]
  <2>1. u = [t EXCEPT !.todo = t.todo \ {Min(t.todo)}, !.pc = "day_read"]
    BY <1>2, <1>0 DEF DayWrite, t, u
  <2>2. u.pc = "day_read" /\ u.todo = t.todo \ {Min(t.todo)} /\ Keeps(t, u) /\ u.plan = t.plan
    BY <1>0, <2>1 DEF Task, Keeps
  <2> DEFINE d == Min(t.todo)
             pre == IF Exists(t.saw[d]) /\ t.saw[d].ref # t.x THEN t.saw[d].status ELSE row[d].pre
  <2>3. row' = [row EXCEPT ![d] = [@ EXCEPT !.status = "OnLeave", !.ref = t.x, !.pre = pre]]
    BY <1>2 DEF DayWrite, t
  <2>4. pre = "OnLeave" => (t.saw[d].status = "OnLeave" /\ t.saw[d].ref # t.x) \/ row[d].pre = "OnLeave"
    OBVIOUS
  <2> HIDE DEF pre
  <2> QED
    BY <1>2, <2>2, <2>3, <2>4 DEF DayWrite, At, t, traffic
<1>3. ASSUME DaysDone(w)
      PROVE  /\ t.pc = "day_read" /\ t.todo = {} /\ u.pc = "act_write" /\ Keeps(t, u) /\ u.plan = t.plan /\ u.todo = t.todo
             /\ applied' = applied \cup {t.x} /\ UNCHANGED <<row, lock, reg, od, crashes, leaveVars>>
  <2>1. u = [t EXCEPT !.pc = "act_write"]
    BY <1>3, <1>b DEF DaysDone, Goto
  <2>2. u.pc = "act_write" /\ Keeps(t, u) /\ u.plan = t.plan /\ u.todo = t.todo
    BY <1>0, <1>c, <2>1 DEF TaskPCs, LeavePCs
  <2> QED
    BY <1>3, <2>2 DEF DaysDone, At, t, traffic
<1>4. ASSUME ActWrite(w)
      PROVE  /\ DaysKept /\ t.pc = "act_write" /\ u = Idle
             /\ leave' = [leave EXCEPT ![t.x] = Decided(@, t.to, t.who)]
             /\ UNCHANGED <<books, stuck>>
  <2>1. u = Idle
    BY <1>4, <1>a DEF ActWrite, Finish
  <2> QED
    BY <1>4, <1>0, <2>1 DEF ActWrite, At, t, DaysKept, traffic
<1> QED
  BY <1>1, <1>2, <1>3, <1>4 DEF t, u

\* cancel_leave.
LEMMA CancelSteps ==
    ASSUME TypeOK, NEW w \in Workers, Fit(task[w])
    PROVE  /\ StartCancel(w) =>
               /\ ReadOnly /\ task[w].pc = "idle" /\ task'[w].pc = "cancel_write"
               /\ task'[w].x \in Leaves /\ task'[w].v = leave[task'[w].x] /\ task'[w].v.status \in Live
           /\ CancelWrite(w) =>
               /\ DaysKept /\ task[w].pc = "cancel_write"
               /\ leave' = [leave EXCEPT ![task[w].x].status = "Cancelled"] /\ UNCHANGED <<books, stuck>>
               /\ IF task[w].v.status = "Approved" THEN task'[w].pc = "undo_read" /\ Keeps(task[w], task'[w]) /\ task'[w].b = task[w].b ELSE task'[w] = Idle
           /\ UndoRead(w) =>
               /\ DaysKept /\ UNCHANGED <<leave, books>>
               /\ task[w].pc = "undo_read" /\ task'[w].pc = "undo_row" /\ Keeps(task[w], task'[w]) /\ task'[w].b = task[w].b /\ task'[w].saw = row
               /\ task'[w].todo = {d \in Dates : row[d].ref = task[w].x /\ ~row[d].locked}
               /\ stuck' = stuck \cup ({task[w].x} \X {d \in Dates : row[d].ref = task[w].x /\ row[d].locked})
           /\ UndoRow(w) =>
               /\ UNCHANGED <<lock, requests, crashes, leaveVars>>
               /\ task[w].pc = "undo_row" /\ task'[w].pc = "undo_row" /\ Keeps(task[w], task'[w]) /\ task'[w].b = task[w].b /\ task'[w].saw = task[w].saw
               /\ Min(task[w].todo) \in task[w].todo /\ task'[w].todo = task[w].todo \ {Min(task[w].todo)}
               /\ row' = [row EXCEPT ![Min(task[w].todo)] =
                            IF task[w].saw[Min(task[w].todo)].pre = "None" \/ ~Exists(@) THEN NoRow
                            ELSE [@ EXCEPT !.status = task[w].saw[Min(task[w].todo)].pre, !.ref = "none", !.pre = "None"]]
           /\ UndoDone(w) =>
               /\ ReadOnly /\ task[w].pc = "undo_row" /\ task'[w].pc = "give_back" /\ Keeps(task[w], task'[w]) /\ task'[w].b = task[w].b
               /\ task[w].todo = {} /\ task'[w].plan = task[w].v.took
           /\ GiveBackCoff(w) =>
               /\ DaysKept /\ task[w].pc = "give_back" /\ task[w].v.kind = "C-Off"
               /\ \E m \in ToWrite(task[w]) :
                  /\ \A c \in ToWrite(task[w]) : m <= c
                  /\ coff' = [coff EXCEPT ![m] = [status |-> "Available", left |-> coff[m].left + task[w].plan[m]]]
                  /\ \/ task'[w] = Idle /\ ToWrite(task[w]) = {m}
                     \/ task'[w].pc = "give_back" /\ Keeps(task[w], task'[w]) /\ task'[w].plan = task[w].plan /\ task'[w].b = m
               /\ UNCHANGED <<leave, granted, used, expired, stuck>>
           /\ GiveBack(w) =>
               /\ DaysKept /\ task[w].pc = "give_back" /\ task[w].v.kind = "EL" /\ task'[w] = Idle
               /\ used' = used - Count(task[w].v) /\ UNCHANGED <<leave, granted, coff, expired, stuck>>
<1> DEFINE t == task[w]
           u == task'[w]
<1>0. /\ t \in Task /\ task \in [Workers -> Task] /\ Fit(t)
      /\ task[w] = Idle => t.pc = "idle"
  BY IdleTyped DEF TypeOK
<1>a. \A v : task' = [task EXCEPT ![w] = v] => u = v
  BY <1>0
<1>b. \A nxt : task' = [task EXCEPT ![w].pc = nxt] => u = [t EXCEPT !.pc = nxt]
  BY <1>0
<1>c. \A v \in Task, nxt \in TaskPCs : LET z == [v EXCEPT !.pc = nxt]
                              IN  z.pc = nxt /\ Keeps(v, z) /\ z.n = v.n /\ z.todo = v.todo /\ z.saw = v.saw
                                  /\ z.b = v.b /\ z.plan = v.plan /\ z.base = v.base
  BY Moved DEF Keeps
<1> HIDE DEF t, u
<1>1. ASSUME StartCancel(w)
      PROVE  /\ ReadOnly /\ t.pc = "idle" /\ u.pc = "cancel_write"
             /\ u.x \in Leaves /\ u.v = leave[u.x] /\ u.v.status \in Live
  <2>1. PICK l \in Leaves :
          /\ leave[l].status \in Live
          /\ Start(w, "cancel", [Idle EXCEPT !.pc = "cancel_write", !.x = l, !.v = leave[l]])
    BY <1>1 DEF StartCancel, Live
  <2>2. u = [Idle EXCEPT !.pc = "cancel_write", !.x = l, !.v = leave[l], !.op = "cancel"] /\ t = Idle /\ ReadOnly
    BY <2>1, <1>a DEF Start, Begin, Idle, t, ReadOnly
  <2>3. u.x = l /\ u.v = leave[l] /\ u.pc = "cancel_write"
    BY <2>2 DEF Idle
  <2> QED
    BY <1>0, <2>1, <2>2, <2>3 DEF t
<1>2. ASSUME CancelWrite(w)
      PROVE  /\ DaysKept /\ t.pc = "cancel_write"
             /\ leave' = [leave EXCEPT ![t.x].status = "Cancelled"] /\ UNCHANGED <<books, stuck>>
             /\ IF t.v.status = "Approved" THEN u.pc = "undo_read" /\ Keeps(t, u) /\ u.b = t.b ELSE u = Idle
  <2>1. CASE t.v.status = "Approved"
    <3>1. u = [t EXCEPT !.pc = "undo_read"]
      BY <1>2, <1>b, <2>1 DEF CancelWrite, Goto, t
    <3>2. u.pc = "undo_read" /\ Keeps(t, u) /\ u.b = t.b
      BY <1>0, <1>c, <3>1 DEF TaskPCs, LeavePCs
    <3> QED
      BY <1>2, <2>1, <3>2 DEF CancelWrite, At, t, DaysKept, traffic
  <2>2. CASE t.v.status # "Approved"
    BY <1>2, <1>a, <2>2 DEF CancelWrite, Finish, At, t, DaysKept, traffic
  <2> QED
    BY <2>1, <2>2
<1>3. ASSUME UndoRead(w)
      PROVE  /\ DaysKept /\ UNCHANGED <<leave, books>>
             /\ t.pc = "undo_read" /\ u.pc = "undo_row" /\ Keeps(t, u) /\ u.b = t.b /\ u.saw = row
             /\ u.todo = {d \in Dates : row[d].ref = t.x /\ ~row[d].locked}
             /\ stuck' = stuck \cup ({t.x} \X {d \in Dates : row[d].ref = t.x /\ row[d].locked})
  <2>1. u = [t EXCEPT !.pc = "undo_row", !.saw = row, !.todo = {d \in {e \in Dates : row[e].ref = t.x} : ~row[d].locked}]
    BY <1>3, <1>0 DEF UndoRead, t, u
  <2>2. /\ u.pc = "undo_row" /\ u.saw = row /\ Keeps(t, u) /\ u.b = t.b
        /\ u.todo = {d \in {e \in Dates : row[e].ref = t.x} : ~row[d].locked}
    BY <1>0, <2>1 DEF Task, Keeps
  <2>3. stuck' = stuck \cup ({t.x} \X {d \in {e \in Dates : row[e].ref = t.x} : row[d].locked})
    BY <1>3 DEF UndoRead, t
  <2>4. t.pc = "undo_read" /\ DaysKept /\ UNCHANGED <<leave, books>>
    BY <1>3 DEF UndoRead, At, t, DaysKept, traffic
  <2>5. u.todo = {d \in Dates : row[d].ref = t.x /\ ~row[d].locked}
    BY <2>2
  <2>6. stuck' = stuck \cup ({t.x} \X {d \in Dates : row[d].ref = t.x /\ row[d].locked})
    BY <2>3
  <2> QED
    BY <2>2, <2>4, <2>5, <2>6
<1>4. ASSUME UndoRow(w)
      PROVE  /\ UNCHANGED <<lock, requests, crashes, leaveVars>>
             /\ t.pc = "undo_row" /\ u.pc = "undo_row" /\ Keeps(t, u) /\ u.b = t.b /\ u.saw = t.saw
             /\ Min(t.todo) \in t.todo /\ u.todo = t.todo \ {Min(t.todo)}
             /\ row' = [row EXCEPT ![Min(t.todo)] =
                          IF t.saw[Min(t.todo)].pre = "None" \/ ~Exists(@) THEN NoRow
                          ELSE [@ EXCEPT !.status = t.saw[Min(t.todo)].pre, !.ref = "none", !.pre = "None"]]
  <2> DEFINE d == Min(t.todo)
  <2>0. d \in t.todo /\ \A e \in t.todo : d <= e
    BY <1>4, <1>0, MinFound, AttendanceAssumption DEF UndoRow, Task, t
  <2>1. u = [t EXCEPT !.todo = t.todo \ {Min(t.todo)}]
    BY <1>4, <1>0 DEF UndoRow, t, u
  <2>2. u.pc = t.pc /\ u.todo = t.todo \ {Min(t.todo)} /\ Keeps(t, u) /\ u.b = t.b /\ u.saw = t.saw
    BY <1>0, <2>1 DEF Task, Keeps
  <2>3. row' = [row EXCEPT ![Min(t.todo)] =
                  IF t.saw[Min(t.todo)].pre = "None" \/ ~Exists(@) THEN NoRow
                  ELSE [@ EXCEPT !.status = t.saw[Min(t.todo)].pre, !.ref = "none", !.pre = "None"]]
    BY <1>4 DEF UndoRow, t
  <2> QED
    BY <1>4, <2>0, <2>2, <2>3 DEF UndoRow, At, t, traffic
<1>5. ASSUME UndoDone(w)
      PROVE  /\ ReadOnly /\ t.pc = "undo_row" /\ u.pc = "give_back" /\ Keeps(t, u) /\ u.b = t.b
             /\ t.todo = {} /\ u.plan = t.v.took
  <2>1. u = [t EXCEPT !.pc = "give_back", !.plan = t.v.took]
    BY <1>5, <1>0 DEF UndoDone, t, u
  <2>2. u.pc = "give_back" /\ u.plan = t.v.took /\ Keeps(t, u) /\ u.b = t.b
    BY <1>0, <2>1 DEF Task, Keeps
  <2> QED
    BY <1>5, <2>2 DEF UndoDone, At, t, ReadOnly, traffic
<1>6. ASSUME GiveBackCoff(w)
      PROVE  /\ DaysKept /\ t.pc = "give_back" /\ t.v.kind = "C-Off"
             /\ \E m \in ToWrite(t) :
                /\ \A c \in ToWrite(t) : m <= c
                /\ coff' = [coff EXCEPT ![m] = [status |-> "Available", left |-> coff[m].left + t.plan[m]]]
                /\ \/ u = Idle /\ ToWrite(t) = {m}
                   \/ u.pc = "give_back" /\ Keeps(t, u) /\ u.plan = t.plan /\ u.b = m
             /\ UNCHANGED <<leave, granted, used, expired, stuck>>
  <2> DEFINE m == Min(Rest(w))
  <2>1. Rest(w) = ToWrite(t) /\ m \in ToWrite(t) /\ \A c \in ToWrite(t) : m <= c
    <3>1. Rest(w) = ToWrite(t) /\ Rest(w) # {} /\ Rest(w) \in SUBSET Nat
      BY <1>6, LeaveAssumption DEF GiveBackCoff, Rest, ToWrite, t
    <3> QED
      BY <3>1, MinFound
  <2>2. coff' = [coff EXCEPT ![m] = [status |-> "Available", left |-> coff[m].left + t.plan[m]]]
    <3>1. m \in Batches
      BY <2>1 DEF ToWrite
    <3> QED
      BY <1>6, <3>1 DEF GiveBackCoff, TypeOK, t
  <2>3. (Rest(w) = {m} /\ u = Idle) \/ task' = [task EXCEPT ![w].b = m]
    BY <1>6, <1>a DEF GiveBackCoff, Finish
  <2> HIDE DEF m
  <2>4. \/ u = Idle /\ ToWrite(t) = {m}
        \/ u.pc = t.pc /\ Keeps(t, u) /\ u.plan = t.plan /\ u.b = m
    <3>1. CASE task' = [task EXCEPT ![w].b = m]
      <4>1. u = [t EXCEPT !.b = m]
        BY <1>0, <3>1 DEF t, u
      <4> QED
        BY <1>0, <4>1 DEF Task, Keeps
    <3> QED
      BY <2>1, <2>3, <3>1
  <2> QED
    BY <1>6, <2>1, <2>2, <2>4 DEF GiveBackCoff, At, t, DaysKept, traffic
<1>7. ASSUME GiveBack(w)
      PROVE  /\ DaysKept /\ t.pc = "give_back" /\ t.v.kind = "EL" /\ u = Idle
             /\ used' = used - Count(t.v) /\ UNCHANGED <<leave, granted, coff, expired, stuck>>
  <2>1. u = Idle
    BY <1>7, <1>a DEF GiveBack, Finish
  <2> QED
    BY <1>7, <1>0, <2>1 DEF GiveBack, At, t, DaysKept, traffic
<1> QED
  BY <1>1, <1>2, <1>3, <1>4, <1>5, <1>6, <1>7 DEF t, u

\* C-Off claims and adjustments.
LEMMA ClaimSteps ==
    ASSUME TypeOK, NEW w \in Workers, Fit(task[w])
    PROVE  /\ StartClaim(w) =>
               /\ ReadOnly /\ task[w].pc = "idle"
               /\ task'[w].pc = "claim_insert" /\ task'[w].b \in Batches /\ coff[task'[w].b].status \in {"None", "Refused"}
           /\ ClaimInsert(w) =>
               /\ DaysKept /\ task[w].pc = "claim_insert" /\ task'[w] = Idle
               /\ coff' = [coff EXCEPT ![task[w].b] = [status |-> "PendingApproval", left |-> 0]]
               /\ UNCHANGED <<leave, granted, used, expired, stuck>>
           /\ StartActClaim(w) =>
               /\ ReadOnly /\ task[w].pc = "idle"
               /\ task'[w].pc = "claim_write" /\ task'[w].b \in Batches /\ coff[task'[w].b].status = "PendingApproval"
           /\ ClaimWrite(w) =>
               /\ DaysKept /\ task[w].pc = "claim_write" /\ task'[w] = Idle
               /\ coff' = [coff EXCEPT ![task[w].b] = IF task[w].to = "Approved" THEN [status |-> "Available", left |-> 2]
                                                ELSE [status |-> "Refused", left |-> 0]]
               /\ UNCHANGED <<leave, granted, used, expired, stuck>>
           /\ StartAdjust(w) =>
               /\ ReadOnly /\ task[w].pc = "idle"
               /\ task'[w].pc = "adjust_inc"
           /\ AdjustInc(w) =>
               /\ DaysKept /\ task[w].pc = "adjust_inc" /\ task'[w] = Idle
               /\ UNCHANGED <<leave, used, coff, expired, stuck>>
<1> DEFINE t == task[w]
           u == task'[w]
<1>0. /\ t \in Task /\ task \in [Workers -> Task] /\ Fit(t)
      /\ task[w] = Idle => t.pc = "idle"
  BY IdleTyped DEF TypeOK
<1>a. \A v : task' = [task EXCEPT ![w] = v] => u = v
  BY <1>0
<1>b. \A nxt : task' = [task EXCEPT ![w].pc = nxt] => u = [t EXCEPT !.pc = nxt]
  BY <1>0
<1>c. \A v \in Task, nxt \in TaskPCs : LET z == [v EXCEPT !.pc = nxt]
                              IN  z.pc = nxt /\ Keeps(v, z) /\ z.n = v.n /\ z.todo = v.todo /\ z.saw = v.saw
                                  /\ z.b = v.b /\ z.plan = v.plan /\ z.base = v.base
  BY Moved DEF Keeps
<1> HIDE DEF t, u
<1>1. ASSUME StartClaim(w)
      PROVE  /\ ReadOnly /\ t.pc = "idle"
             /\ u.pc = "claim_insert" /\ u.b \in Batches /\ coff[u.b].status \in {"None", "Refused"}
  <2>1. PICK b \in Batches :
          coff[b].status \in {"None", "Refused"} /\ Start(w, "claim", [Idle EXCEPT !.pc = "claim_insert", !.b = b])
    BY <1>1 DEF StartClaim
  <2>2. u = [Idle EXCEPT !.pc = "claim_insert", !.b = b, !.op = "claim"] /\ t = Idle /\ ReadOnly
    BY <2>1, <1>a DEF Start, Begin, Idle, t, ReadOnly
  <2>3. u.pc = "claim_insert" /\ u.b = b
    BY <2>2 DEF Idle
  <2> QED
    BY <1>0, <2>1, <2>2, <2>3 DEF t
<1>2. ASSUME ClaimInsert(w)
      PROVE  /\ DaysKept /\ t.pc = "claim_insert" /\ u = Idle
             /\ coff' = [coff EXCEPT ![t.b] = [status |-> "PendingApproval", left |-> 0]]
             /\ UNCHANGED <<leave, granted, used, expired, stuck>>
  <2>1. u = Idle
    BY <1>2, <1>a DEF ClaimInsert, Finish
  <2> QED
    BY <1>2, <1>0, <2>1 DEF ClaimInsert, At, t, DaysKept, traffic
<1>3. ASSUME StartActClaim(w)
      PROVE  /\ ReadOnly /\ t.pc = "idle"
             /\ u.pc = "claim_write" /\ u.b \in Batches /\ coff[u.b].status = "PendingApproval"
  <2>1. PICK b \in Batches, to \in {"Approved", "Refused"} :
          coff[b].status = "PendingApproval" /\ Start(w, "act-claim", [Idle EXCEPT !.pc = "claim_write", !.b = b, !.to = to])
    BY <1>3 DEF StartActClaim
  <2>2. u = [Idle EXCEPT !.pc = "claim_write", !.b = b, !.to = to, !.op = "act-claim"] /\ t = Idle /\ ReadOnly
    BY <2>1, <1>a DEF Start, Begin, Idle, t, ReadOnly
  <2>3. u.pc = "claim_write" /\ u.b = b
    BY <2>2 DEF Idle
  <2> QED
    BY <1>0, <2>1, <2>2, <2>3 DEF t
<1>4. ASSUME ClaimWrite(w)
      PROVE  /\ DaysKept /\ t.pc = "claim_write" /\ u = Idle
             /\ coff' = [coff EXCEPT ![t.b] = IF t.to = "Approved" THEN [status |-> "Available", left |-> 2]
                                              ELSE [status |-> "Refused", left |-> 0]]
             /\ UNCHANGED <<leave, granted, used, expired, stuck>>
  <2>1. u = Idle
    BY <1>4, <1>a DEF ClaimWrite, Finish
  <2> QED
    BY <1>4, <1>0, <2>1 DEF ClaimWrite, At, t, DaysKept, traffic
<1>5. ASSUME StartAdjust(w)
      PROVE  /\ ReadOnly /\ t.pc = "idle"
             /\ u.pc = "adjust_inc"
  <2>1. 
          Start(w, "adjust", [Idle EXCEPT !.pc = "adjust_inc"])
    BY <1>5 DEF StartAdjust
  <2>2. u = [Idle EXCEPT !.pc = "adjust_inc", !.op = "adjust"] /\ t = Idle /\ ReadOnly
    BY <2>1, <1>a DEF Start, Begin, Idle, t, ReadOnly
  <2>3. u.pc = "adjust_inc"
    BY <2>2 DEF Idle
  <2> QED
    BY <1>0, <2>1, <2>2, <2>3 DEF t
<1>6. ASSUME AdjustInc(w)
      PROVE  /\ DaysKept /\ t.pc = "adjust_inc" /\ u = Idle
             /\ UNCHANGED <<leave, used, coff, expired, stuck>>
  <2>1. u = Idle
    BY <1>6, <1>a DEF AdjustInc, Finish
  <2> QED
    BY <1>6, <1>0, <2>1 DEF AdjustInc, At, t, DaysKept, traffic
<1> QED
  BY <1>1, <1>2, <1>3, <1>4, <1>5, <1>6 DEF t, u

-----------------------------------------------------------------------------
(* The books                                                                *)

\* What a request holds is a count, and nothing unless it is marking or undoing a leave.
LEMMA Holding ==
    ASSUME NEW t \in Task
    PROVE  /\ Charged(t) \in Nat /\ \A b \in Batches : Held(t, b) \in 0..2
           /\ ~Marking(t) /\ ~Undoing(t) =>
                Charged(t) = 0 /\ (t.pc # "coff_take" => \A b \in Batches : Held(t, b) = 0)
<1>1. Count(t.v) \in Nat /\ t.plan \in Draw /\ t.v.took \in Draw
  BY CountTyped DEF Task, LeaveDoc
<1>2. Charged(t) \in Nat
  BY <1>1 DEF Charged
<1>3. \A b \in Batches : Held(t, b) \in 0..2
  BY <1>1 DEF Held, Draw
<1>4. ~Marking(t) /\ ~Undoing(t) => Charged(t) = 0
  BY DEF Charged
<1>5. ~Marking(t) /\ ~Undoing(t) /\ t.pc # "coff_take" => \A b \in Batches : Held(t, b) = 0
  BY DEF Held, Undoing, UndoPCs
<1> QED
  BY <1>2, <1>3, <1>4, <1>5

\* A leave step moves what it takes from one side of the books to the other.
LEMMA BooksKept ==
    ASSUME TypeOK, NEW w \in Workers, Fit(task[w]), SeesLeave(task[w]), SeesBooks(task[w]),
           BalanceHolds(task[w]), BatchesHold(task[w]), LeaveStep(w)
    PROVE  BalanceHolds(task[w])' /\ BatchesHold(task[w])'
<1> DEFINE t == task[w]
           u == task'[w]
<1>0. TypeOK' /\ crashes' = crashes /\ t \in Task /\ u \in Task /\ Fit(t) /\ Fit(u)
  BY LeaveTyped DEF TypeOK
<1>1. /\ leave \in [Leaves -> LeaveDoc] /\ leave' \in [Leaves -> LeaveDoc]
      /\ coff \in [Batches -> Batch] /\ coff' \in [Batches -> Batch]
      /\ used \in Int /\ used' \in Int
  BY <1>0 DEF TypeOK
<1>2. /\ Taken \in Nat /\ Taken' \in Nat /\ \A b \in Batches : Drawn(b) \in Nat /\ Drawn(b)' \in Nat
      /\ Charged(t) \in Nat /\ Charged(u) \in Nat
      /\ \A b \in Batches : Held(t, b) \in 0..2 /\ Held(u, b) \in 0..2
      /\ \A b \in Batches : coff[b].left \in 0..2 /\ coff'[b].left \in 0..2
  BY <1>0, <1>1, InTyped, TakenAndDrawn, Holding DEF Batch
<1>3. ASSUME used' - Taken' - Charged(u) = used - Taken - Charged(t)
      PROVE  BalanceHolds(task[w])'
  <2>1. BalanceHolds(t)
    OBVIOUS
  <2>2. used' >= Taken' + Charged(u) /\ (crashes' = 0 => used' = Taken' + Charged(u))
    BY <1>0, <1>1, <1>2, <1>3, <2>1 DEF BalanceHolds
  <2> QED
    BY <2>2 DEF BalanceHolds, Charged, Marking, Undoing, Count, Days
<1>4. ASSUME \A b \in Batches :
               /\ coff'[b].left + Drawn(b)' + Held(u, b) = coff[b].left + Drawn(b) + Held(t, b)
               /\ coff'[b].status \in {"Available", "Used"} <=> coff[b].status \in {"Available", "Used"}
      PROVE  BatchesHold(task[w])'
  <2>1. BatchesHold(t)
    OBVIOUS
  <2>2. ASSUME NEW b \in Batches
        PROVE  LET all == coff'[b].left + Drawn(b)' + Held(u, b)
               IN  IF coff'[b].status \in {"Available", "Used"} THEN all <= 2 /\ (crashes' = 0 => all = 2)
                                                                ELSE all = 0
    BY <1>0, <1>2, <1>4, <2>1 DEF BatchesHold
  <2> QED
    BY <2>2 DEF BatchesHold, Held, Marking
<1>5. leave' = leave => Taken' = Taken /\ \A b \in Batches : Drawn(b)' = Drawn(b)
  BY TakenAndDrawn
<1>6. ASSUME UNCHANGED leaveVars, Charged(u) = Charged(t), \A b \in Batches : Held(u, b) = Held(t, b)
      PROVE  BalanceHolds(task[w])' /\ BatchesHold(task[w])'
  BY <1>3, <1>4, <1>5, <1>6 DEF leaveVars, books
<1>7. ASSUME ~Marking(t), ~Undoing(t), t.pc # "coff_take", ~Marking(u), ~Undoing(u), u.pc # "coff_take"
      PROVE  Charged(u) = Charged(t) /\ \A b \in Batches : Held(u, b) = Held(t, b)
  BY <1>0, <1>7, Holding
<1>8. ASSUME Keeps(t, u), t.pc = u.pc \/ Marking(t), t.pc = u.pc \/ Marking(u), u.plan = t.plan, u.b = t.b \/ Marking(t)
      PROVE  Charged(u) = Charged(t) /\ \A b \in Batches : Held(u, b) = Held(t, b)
  BY <1>8 DEF Charged, Held, Marking, Undoing, Keeps, MarkPCs, UndoPCs
<1>9. Fit(task[w]) /\ SeesLeave(t) /\ SeesBooks(t) /\ BatchesHold(t) /\ BalanceHolds(t)
  OBVIOUS
<1>nat. t.b \in Nat /\ t.plan \in [Batches -> 0..2] /\ Batches \subseteq Nat
  <2>1. t.b \in Batches \cup {0} /\ t.plan \in Draw
    BY <1>0 DEF Task
  <2>2. Batches \subseteq Nat
    BY LeaveAssumption
  <2>3. t.b \in Nat
    <3>1. CASE t.b \in Batches
      BY <2>2, <3>1
    <3>2. CASE t.b = 0
      BY <3>2
    <3> QED
      BY <2>1, <3>1, <3>2
  <2> QED
    BY <2>1, <2>2, <2>3 DEF Draw
<1>idle. ~Marking(Idle) /\ ~Undoing(Idle) /\ Idle.pc # "coff_take"
  BY IdleTyped DEF Marking, MarkPCs, Undoing, UndoPCs
<1> HIDE DEF t, u
<1>10. CASE StartApply(w)
  <2>1. /\ ReadOnly /\ ~Marking(t) /\ ~Undoing(t) /\ t.pc # "coff_take"
        /\ ~Marking(u) /\ ~Undoing(u) /\ u.pc # "coff_take"
    BY <1>10, <1>9, <1>idle, ApplySteps DEF t, u, Marking, MarkPCs, Undoing, UndoPCs
  <2> QED
    BY <1>6, <1>7, <2>1 DEF ReadOnly
<1>11. CASE ApplyBalance(w)
  <2>1. /\ ReadOnly /\ ~Marking(t) /\ ~Undoing(t) /\ t.pc # "coff_take"
        /\ ~Marking(u) /\ ~Undoing(u) /\ u.pc # "coff_take"
    BY <1>11, <1>9, <1>idle, ApplySteps DEF t, u, Marking, MarkPCs, Undoing, UndoPCs
  <2> QED
    BY <1>6, <1>7, <2>1 DEF ReadOnly
<1>12. CASE ApplyPending(w)
  <2>1. /\ ReadOnly /\ ~Marking(t) /\ ~Undoing(t) /\ t.pc # "coff_take"
        /\ ~Marking(u) /\ ~Undoing(u) /\ u.pc # "coff_take"
    BY <1>12, <1>9, <1>idle, ApplySteps DEF t, u, Marking, MarkPCs, Undoing, UndoPCs
  <2> QED
    BY <1>6, <1>7, <2>1 DEF ReadOnly
<1>13. CASE ApplyInsert(w)
  <2>1. /\ t.pc = "apply_insert" /\ u = Idle /\ leave[t.x] = NoLeave /\ leave' = [leave EXCEPT ![t.x] = t.v]
        /\ UNCHANGED <<books, stuck>>
    BY <1>13, <1>9, ApplySteps DEF t, u
  <2>2. t.v.status = "Pending"
    BY <1>9, <2>1 DEF SeesLeave
  <2>3. \A l \in Leaves : /\ leave[l].status = "Approved" <=> leave'[l].status = "Approved"
                          /\ leave[l].status = "Approved" => leave[l] = leave'[l]
    BY <1>1, <2>1, <2>2 DEF NoLeave
  <2>4. Taken' = Taken /\ \A b \in Batches : Drawn(b)' = Drawn(b)
    BY <1>1, <2>3, InSame, TakenAndDrawn
  <2>5. Charged(u) = Charged(t) /\ \A b \in Batches : Held(u, b) = Held(t, b)
    BY <1>7, <1>idle, <2>1 DEF Marking, MarkPCs, Undoing, UndoPCs
  <2> QED
    BY <1>3, <1>4, <2>1, <2>4, <2>5 DEF books
<1>14. CASE StartAct(w)
  <2>1. /\ ReadOnly /\ ~Marking(t) /\ ~Undoing(t) /\ t.pc # "coff_take"
        /\ ~Marking(u) /\ ~Undoing(u) /\ u.pc # "coff_take"
    BY <1>14, <1>9, <1>idle, ActSteps DEF t, u, Marking, MarkPCs, Undoing, UndoPCs, ActFrom
  <2> QED
    BY <1>6, <1>7, <2>1 DEF ReadOnly
<1>15. CASE DebitRead(w)
  <2>1. /\ ReadOnly /\ ~Marking(t) /\ ~Undoing(t) /\ t.pc # "coff_take"
        /\ ~Marking(u) /\ ~Undoing(u) /\ u.pc # "coff_take"
    BY <1>15, <1>9, <1>idle, ActSteps DEF t, u, Marking, MarkPCs, Undoing, UndoPCs
  <2> QED
    BY <1>6, <1>7, <2>1 DEF ReadOnly
<1>16. CASE DebitInc(w)
  <2>1. /\ t.pc = "debit_inc" /\ u.pc = "day_read" /\ Keeps(t, u) /\ used' = used + Count(t.v)
        /\ UNCHANGED <<leave, granted, coff, expired, stuck>>
    BY <1>16, <1>9, ActSteps DEF t, u
  <2>2. t.v.kind = "EL" /\ t.to = "Approved"
    BY <1>0, <2>1 DEF Fit, FitLeave, ActPCs
  <2>3. Charged(t) = 0 /\ Charged(u) = Count(t.v) /\ \A b \in Batches : Held(t, b) = 0
    BY <1>0, <2>1, <2>2, Holding DEF Charged, Marking, MarkPCs, Undoing, UndoPCs, Keeps
  <2>4. \A b \in Batches : Held(u, b) = 0
    BY <2>1, <2>2 DEF Held, Keeps
  <2>5. Count(t.v) \in Nat
    BY <1>0, CountTyped DEF Task
  <2>6. BalanceHolds(task[w])'
    BY <1>1, <1>2, <1>3, <1>5, <2>1, <2>3, <2>5
  <2> QED
    BY <1>4, <1>5, <2>1, <2>3, <2>4, <2>6
<1>17. CASE CoffRead(w)
  <2>1. /\ ReadOnly /\ t.pc = "coff_read"
        /\ u = Idle \/ (u.pc = "coff_take" /\ Keeps(t, u) /\ u.b = t.b)
    BY <1>17, <1>9, ActSteps DEF t, u
  <2>2. t.b = 0 /\ \A b \in Batches : ~(b <= 0)
    BY <1>0, <2>1, LeaveAssumption DEF Fit, FitLeave
  <2>3. ~Marking(t) /\ ~Undoing(t) /\ t.pc # "coff_take"
    BY <2>1 DEF Marking, MarkPCs, Undoing, UndoPCs
  <2>4. CASE u.pc = "coff_take" /\ Keeps(t, u) /\ u.b = t.b
    <3>1. Charged(u) = Charged(t)
      BY <1>0, <2>3, <2>4, Holding DEF Marking, MarkPCs, Undoing, UndoPCs
    <3>2. \A b \in Batches : Held(u, b) = 0 /\ Held(t, b) = 0
      BY <1>0, <2>2, <2>3, <2>4, Holding DEF Held, Marking, MarkPCs
    <3> QED
      BY <1>6, <2>1, <3>1, <3>2 DEF ReadOnly
  <2> QED
    BY <1>6, <1>7, <1>idle, <2>1, <2>3, <2>4 DEF ReadOnly
<1>18. CASE CoffTake(w)
  <2>1. /\ t.pc = "coff_take" /\ u.pc = "coff_take" /\ Keeps(t, u) /\ u.plan = t.plan
        /\ u.b \in ToWrite(t) /\ \A c \in ToWrite(t) : u.b <= c
        /\ UNCHANGED <<leave, granted, used, expired, stuck>>
    BY <1>18, <1>9, ActSteps DEF t, u
  <2> DEFINE m == u.b
             left == t.base[m] - t.plan[m]
  <2>2. coff' = [coff EXCEPT ![m] = [status |-> IF left = 0 THEN "Used" ELSE "Available", left |-> left]]
    BY <1>18, <1>9, ActSteps DEF t, u
  <2>3. /\ m \in Batches /\ m \in Nat /\ t.plan[m] > 0 /\ m > t.b /\ t.plan \in [Batches -> 0..2]
        /\ t.b \in Nat
    BY <1>nat, <2>1 DEF ToWrite
  <2>4. t.base[m] = coff[m].left /\ coff[m].status = "Available"
    BY <1>9, <2>1, <2>3 DEF SeesBooks
  <2>5. Charged(u) = Charged(t)
    BY <1>0, <2>1, Holding DEF Marking, MarkPCs, Undoing, UndoPCs
  <2>6. Held(t, m) = 0 /\ Held(u, m) = t.plan[m]
    BY <2>1, <2>3 DEF Held, Marking, MarkPCs
  <2>7. ASSUME NEW b \in Batches, b # m PROVE Held(u, b) = Held(t, b)
    <3>1. b \in Nat /\ (b \in ToWrite(t) => m <= b)
      BY <2>1, LeaveAssumption
    <3>2. b > t.b /\ ~(b > m) => t.plan[b] = 0
      BY <2>3, <2>7, <3>1 DEF ToWrite
    <3>3. Held(u, b) = IF b <= m THEN t.plan[b] ELSE 0
      BY <2>1 DEF Held, Marking, MarkPCs
    <3>4. Held(t, b) = IF b <= t.b THEN t.plan[b] ELSE 0
      BY <2>1 DEF Held, Marking, MarkPCs
    <3> QED
      BY <2>3, <3>1, <3>2, <3>3, <3>4
  <2>8. coff'[m].left = coff[m].left - t.plan[m] /\ coff'[m].status \in {"Available", "Used"}
    BY <1>1, <2>2, <2>3, <2>4
  <2>9. \A b \in Batches : b # m => coff'[b] = coff[b]
    BY <1>1, <2>2
  <2> HIDE DEF m, left
  <2>10. \A b \in Batches :
           /\ coff'[b].left + Drawn(b)' + Held(u, b) = coff[b].left + Drawn(b) + Held(t, b)
           /\ coff'[b].status \in {"Available", "Used"} <=> coff[b].status \in {"Available", "Used"}
    <3> TAKE b \in Batches
    <3>1. CASE b # m
      BY <1>5, <2>1, <2>7, <2>9, <3>1
    <3>2. CASE b = m
      BY <1>2, <1>5, <2>1, <2>3, <2>4, <2>6, <2>8, <3>2
    <3> QED
      BY <3>1, <3>2
  <2>11. BalanceHolds(task[w])'
    BY <1>3, <1>5, <2>1, <2>5
  <2> QED
    BY <1>4, <2>10, <2>11
<1>19. CASE CoffNote(w)
  <2>1. /\ t.pc = "coff_take" /\ u.pc = "day_read" /\ Keeps(t, u) /\ u.plan = t.plan
        /\ ToWrite(t) = {} /\ leave' = [leave EXCEPT ![t.x].took = t.plan]
        /\ UNCHANGED <<books, stuck>>
    BY <1>19, <1>9, ActSteps DEF t, u
  <2>2. leave[t.x].status \in OpenLeave /\ t.v.kind = "C-Off" /\ t.to = "Approved" /\ t.x \in Leaves
    BY <1>0, <1>9, <2>1 DEF SeesLeave, Fit, FitLeave, ActPCs, LeavePCs
  <2>3. \A l \in Leaves : /\ leave[l].status = "Approved" <=> leave'[l].status = "Approved"
                          /\ leave[l].status = "Approved" => leave[l] = leave'[l]
    BY <1>1, <2>1, <2>2 DEF OpenLeave, LeaveDoc
  <2>4. Taken' = Taken /\ \A b \in Batches : Drawn(b)' = Drawn(b)
    BY <1>1, <2>3, InSame, TakenAndDrawn
  <2>5. Charged(u) = Charged(t)
    BY <2>1, <2>2 DEF Charged, Keeps
  <2>6. ASSUME NEW b \in Batches PROVE Held(u, b) = Held(t, b)
    <3>1. t.plan[b] \in 0..2 /\ t.b \in Nat /\ b \in Nat
      BY <1>nat
    <3>2. b > t.b => t.plan[b] = 0
      BY <2>1, <3>1 DEF ToWrite
    <3>3. Held(t, b) = IF b <= t.b THEN t.plan[b] ELSE 0
      BY <2>1 DEF Held, Marking, MarkPCs
    <3>4. Held(u, b) = t.plan[b]
      BY <2>1, <2>2 DEF Held, Marking, MarkPCs, Keeps
    <3> QED
      BY <3>1, <3>2, <3>3, <3>4
  <2> QED
    BY <1>3, <1>4, <2>1, <2>4, <2>5, <2>6 DEF books
<1>20. CASE DayRead(w)
  <2>1. /\ leave' = leave /\ books' = books /\ stuck' = stuck /\ Keeps(t, u) /\ u.plan = t.plan
        /\ t.pc \in {"day_read", "day_write"} /\ u.pc \in MarkPCs
    BY <1>20, <1>9, MarkSteps DEF t, u, ReadOnly, leaveVars, MarkPCs
  <2>2. Marking(t) /\ Marking(u)
    BY <1>0, <2>1 DEF Fit, FitLeave, ActPCs, MarkPCs, Marking, Keeps
  <2>3. Charged(u) = Charged(t) /\ \A b \in Batches : Held(u, b) = Held(t, b)
    BY <1>8, <2>1, <2>2
  <2> QED
    BY <1>6, <2>1, <2>3 DEF leaveVars
<1>21. CASE DayWrite(w)
  <2>1. /\ leave' = leave /\ books' = books /\ stuck' = stuck /\ Keeps(t, u) /\ u.plan = t.plan
        /\ t.pc \in {"day_read", "day_write"} /\ u.pc \in MarkPCs
    BY <1>21, <1>9, MarkSteps DEF t, u, ReadOnly, leaveVars, MarkPCs
  <2>2. Marking(t) /\ Marking(u)
    BY <1>0, <2>1 DEF Fit, FitLeave, ActPCs, MarkPCs, Marking, Keeps
  <2>3. Charged(u) = Charged(t) /\ \A b \in Batches : Held(u, b) = Held(t, b)
    BY <1>8, <2>1, <2>2
  <2> QED
    BY <1>6, <2>1, <2>3 DEF leaveVars
<1>22. CASE DaysDone(w)
  <2>1. /\ leave' = leave /\ books' = books /\ stuck' = stuck /\ Keeps(t, u) /\ u.plan = t.plan
        /\ t.pc \in {"day_read", "day_write"} /\ u.pc \in MarkPCs
    BY <1>22, <1>9, MarkSteps DEF t, u, ReadOnly, leaveVars, MarkPCs
  <2>2. Marking(t) /\ Marking(u)
    BY <1>0, <2>1 DEF Fit, FitLeave, ActPCs, MarkPCs, Marking, Keeps
  <2>3. Charged(u) = Charged(t) /\ \A b \in Batches : Held(u, b) = Held(t, b)
    BY <1>8, <2>1, <2>2
  <2> QED
    BY <1>6, <2>1, <2>3 DEF leaveVars
<1>23. CASE ActWrite(w)
  <2>1. /\ t.pc = "act_write" /\ u = Idle /\ leave' = [leave EXCEPT ![t.x] = Decided(@, t.to, t.who)]
        /\ UNCHANGED <<books, stuck>>
    BY <1>23, <1>9, MarkSteps DEF t, u
  <2>2. /\ t.x \in Leaves /\ leave[t.x].status \in OpenLeave /\ leave[t.x] = [t.v EXCEPT !.took = leave[t.x].took]
        /\ t.to = "Approved" /\ t.v.kind = "C-Off" => leave[t.x].took = t.plan
    BY <1>0, <1>9, <2>1 DEF SeesLeave, Fit, FitLeave, ActPCs, LeavePCs, Marking, MarkPCs
  <2>3. /\ leave'[t.x].status = t.to /\ leave'[t.x].kind = leave[t.x].kind /\ leave'[t.x].took = leave[t.x].took
        /\ Count(leave'[t.x]) = Count(leave[t.x])
        /\ \A l \in Leaves \ {t.x} : leave'[l] = leave[l]
    <3>1. leave'[t.x] = Decided(leave[t.x], t.to, t.who) /\ \A l \in Leaves \ {t.x} : leave'[l] = leave[l]
      BY <1>1, <2>1, <2>2
    <3>2. ASSUME NEW v \in LeaveDoc
          PROVE  LET z == Decided(v, t.to, t.who)
                 IN  z.status = t.to /\ z.kind = v.kind /\ z.took = v.took /\ z.from = v.from /\ z.to = v.to /\ z.half = v.half
      BY DEF Decided, LeaveDoc
    <3> QED
      BY <1>1, <2>2, <3>1, <3>2 DEF Count, Days
  <2>4. leave[t.x].kind = t.v.kind /\ Count(leave[t.x]) = Count(t.v)
    <3>1. t.v \in LeaveDoc
      BY <1>0 DEF Task
    <3>2. /\ leave[t.x].kind = t.v.kind /\ leave[t.x].from = t.v.from /\ leave[t.x].to = t.v.to
          /\ leave[t.x].half = t.v.half
      BY <2>2, <3>1 DEF LeaveDoc
    <3> QED
      BY <3>2 DEF Count, Days
  <2>5. CASE t.to = "Approved"
    <3>1. /\ Taken' = IF t.v.kind = "EL" THEN Taken + Count(t.v) ELSE Taken
          /\ \A b \in Batches : Drawn(b)' = IF t.v.kind = "C-Off" THEN Drawn(b) + t.plan[b] ELSE Drawn(b)
      BY <1>1, <2>2, <2>3, <2>4, <2>5, InAdded, TakenAndDrawn DEF OpenLeave
    <3>2. /\ Charged(t) = IF t.v.kind = "EL" THEN Count(t.v) ELSE 0
          /\ \A b \in Batches : Held(t, b) = IF t.v.kind = "C-Off" THEN t.plan[b] ELSE 0
      BY <2>1, <2>5 DEF Charged, Held, Marking, MarkPCs
    <3>3. Charged(u) = 0 /\ \A b \in Batches : Held(u, b) = 0
      BY <1>0, <1>idle, <2>1, Holding
    <3>4. Count(t.v) \in Nat /\ t.plan \in [Batches -> 0..2]
      BY <1>0, CountTyped DEF Task, Draw
    <3>5. used' - Taken' - Charged(u) = used - Taken - Charged(t)
      BY <1>1, <1>2, <2>1, <3>1, <3>2, <3>3, <3>4 DEF books
    <3>6. \A b \in Batches : coff'[b].left + Drawn(b)' + Held(u, b) = coff[b].left + Drawn(b) + Held(t, b)
      BY <1>1, <1>2, <2>1, <3>1, <3>2, <3>3, <3>4 DEF books
    <3> QED
      BY <1>3, <1>4, <2>1, <3>5, <3>6 DEF books
  <2>6. CASE t.to # "Approved"
    <3>1. \A l \in Leaves : /\ leave[l].status = "Approved" <=> leave'[l].status = "Approved"
                            /\ leave[l].status = "Approved" => leave[l] = leave'[l]
      BY <2>2, <2>3, <2>6 DEF OpenLeave
    <3>2. Taken' = Taken /\ \A b \in Batches : Drawn(b)' = Drawn(b)
      BY <1>1, <3>1, InSame, TakenAndDrawn
    <3>3. Charged(u) = Charged(t) /\ \A b \in Batches : Held(u, b) = Held(t, b)
      BY <1>7, <1>idle, <2>1, <2>6 DEF Marking, Undoing, UndoPCs
    <3> QED
      BY <1>3, <1>4, <2>1, <3>2, <3>3 DEF books
  <2> QED
    BY <2>5, <2>6
<1>24. CASE StartCancel(w)
  <2>1. /\ ReadOnly /\ ~Marking(t) /\ ~Undoing(t) /\ t.pc # "coff_take"
        /\ ~Marking(u) /\ ~Undoing(u) /\ u.pc # "coff_take"
    BY <1>24, <1>9, <1>idle, CancelSteps DEF t, u, Marking, MarkPCs, Undoing, UndoPCs
  <2> QED
    BY <1>6, <1>7, <2>1 DEF ReadOnly
<1>25. CASE CancelWrite(w)
  <2>1. /\ t.pc = "cancel_write" /\ leave' = [leave EXCEPT ![t.x].status = "Cancelled"]
        /\ UNCHANGED <<books, stuck>>
        /\ IF t.v.status = "Approved" THEN u.pc = "undo_read" /\ Keeps(t, u) /\ u.b = t.b ELSE u = Idle
    BY <1>25, <1>9, CancelSteps DEF t, u
  <2>2. t.x \in Leaves /\ leave[t.x] = t.v /\ t.v \in LeaveDoc /\ t.v.status \in Live
    BY <1>0, <1>9, <2>1 DEF SeesLeave, Fit, FitLeave, LeavePCs, Task
  <2>3. leave'[t.x].status = "Cancelled" /\ \A l \in Leaves \ {t.x} : leave'[l] = leave[l]
    BY <1>1, <2>1, <2>2 DEF LeaveDoc
  <2>4. Charged(t) = 0 /\ \A b \in Batches : Held(t, b) = 0
    BY <1>0, <2>1, Holding DEF Marking, MarkPCs, Undoing, UndoPCs
  <2>5. CASE t.v.status = "Approved"
    <3>1. /\ Taken = IF t.v.kind = "EL" THEN Taken' + Count(t.v) ELSE Taken'
          /\ \A b \in Batches : Drawn(b) = IF t.v.kind = "C-Off" THEN Drawn(b)' + t.v.took[b] ELSE Drawn(b)'
      BY <1>1, <2>2, <2>3, <2>5, InAdded, TakenAndDrawn
    <3>2. /\ Charged(u) = IF t.v.kind = "EL" THEN Count(t.v) ELSE 0
          /\ \A b \in Batches : Held(u, b) = IF t.v.kind = "C-Off" THEN t.v.took[b] ELSE 0
      BY <2>1, <2>5 DEF Charged, Held, Marking, MarkPCs, Undoing, UndoPCs, Keeps
    <3>3. Count(t.v) \in Nat /\ t.v.took \in [Batches -> 0..2]
      BY <2>2, CountTyped DEF LeaveDoc, Draw
    <3>4. used' - Taken' - Charged(u) = used - Taken - Charged(t)
      BY <1>1, <1>2, <2>1, <2>4, <3>1, <3>2, <3>3 DEF books
    <3>5. \A b \in Batches : coff'[b].left + Drawn(b)' + Held(u, b) = coff[b].left + Drawn(b) + Held(t, b)
      BY <1>1, <1>2, <2>1, <2>4, <3>1, <3>2, <3>3 DEF books
    <3> QED
      BY <1>3, <1>4, <2>1, <3>4, <3>5 DEF books
  <2>6. CASE t.v.status # "Approved"
    <3>1. \A l \in Leaves : /\ leave[l].status = "Approved" <=> leave'[l].status = "Approved"
                            /\ leave[l].status = "Approved" => leave[l] = leave'[l]
      BY <2>2, <2>3, <2>6
    <3>2. Taken' = Taken /\ \A b \in Batches : Drawn(b)' = Drawn(b)
      BY <1>1, <3>1, InSame, TakenAndDrawn
    <3>3. Charged(u) = 0 /\ \A b \in Batches : Held(u, b) = 0
      BY <1>0, <1>idle, <2>1, <2>6, Holding
    <3> QED
      BY <1>3, <1>4, <2>1, <2>4, <3>2, <3>3 DEF books
  <2> QED
    BY <2>5, <2>6
<1>26. CASE UndoRead(w)
  <2>1. /\ leave' = leave /\ books' = books /\ Keeps(t, u)
        /\ t.pc \in {"undo_read", "undo_row"} /\ u.pc = "undo_row"
    BY <1>26, <1>9, CancelSteps DEF t, u, leaveVars
  <2>2. Charged(u) = Charged(t) /\ \A b \in Batches : Held(u, b) = Held(t, b)
    BY <2>1 DEF Charged, Held, Marking, MarkPCs, Undoing, UndoPCs, Keeps
  <2> QED
    BY <1>3, <1>4, <1>5, <2>1, <2>2 DEF books
<1>27. CASE UndoRow(w)
  <2>1. /\ leave' = leave /\ books' = books /\ Keeps(t, u)
        /\ t.pc \in {"undo_read", "undo_row"} /\ u.pc = "undo_row"
    BY <1>27, <1>9, CancelSteps DEF t, u, leaveVars
  <2>2. Charged(u) = Charged(t) /\ \A b \in Batches : Held(u, b) = Held(t, b)
    BY <2>1 DEF Charged, Held, Marking, MarkPCs, Undoing, UndoPCs, Keeps
  <2> QED
    BY <1>3, <1>4, <1>5, <2>1, <2>2 DEF books
<1>28. CASE UndoDone(w)
  <2>1. /\ ReadOnly /\ Keeps(t, u) /\ t.pc = "undo_row" /\ u.pc = "give_back" /\ u.b = t.b /\ u.plan = t.v.took
    BY <1>28, <1>9, CancelSteps DEF t, u
  <2>2. t.b = 0 /\ \A b \in Batches : b > 0
    BY <1>0, <2>1, LeaveAssumption DEF Fit, FitLeave
  <2>3. Charged(u) = Charged(t) /\ \A b \in Batches : Held(u, b) = Held(t, b)
    BY <2>1, <2>2 DEF Charged, Held, Marking, MarkPCs, Undoing, UndoPCs, Keeps
  <2> QED
    BY <1>6, <2>1, <2>3 DEF ReadOnly
<1>29. CASE GiveBackCoff(w)
  <2>1. /\ t.pc = "give_back" /\ t.v.kind = "C-Off"
        /\ UNCHANGED <<leave, granted, used, expired, stuck>>
    BY <1>29, <1>9, CancelSteps DEF t, u
  <2>2. PICK m \in ToWrite(t) :
          /\ \A c \in ToWrite(t) : m <= c
          /\ coff' = [coff EXCEPT ![m] = [status |-> "Available", left |-> coff[m].left + t.plan[m]]]
          /\ \/ u = Idle /\ ToWrite(t) = {m}
             \/ u.pc = "give_back" /\ Keeps(t, u) /\ u.plan = t.plan /\ u.b = m
    BY <1>29, <1>9, CancelSteps DEF t, u
  <2>3. /\ m \in Batches /\ m \in Nat /\ t.plan[m] > 0 /\ m > t.b /\ t.plan \in [Batches -> 0..2]
        /\ t.b \in Nat
    BY <1>nat DEF ToWrite
  <2>4. Held(t, m) = t.plan[m]
    BY <2>1, <2>3 DEF Held
  <2>5. Held(u, m) = 0
    <3>1. CASE u = Idle
      BY <1>0, <1>idle, <3>1, Holding, <2>3
    <3>2. CASE u.pc = "give_back" /\ Keeps(t, u) /\ u.plan = t.plan /\ u.b = m
      BY <2>3, <3>2 DEF Held, Marking, MarkPCs
    <3> QED
      BY <2>2, <3>1, <3>2
  <2>6. ASSUME NEW b \in Batches, b # m PROVE Held(u, b) = Held(t, b)
    <3>1. b \in Nat /\ t.plan[b] \in 0..2
      BY <2>3, LeaveAssumption
    <3>2. Held(t, b) = IF b > t.b THEN t.plan[b] ELSE 0
      BY <2>1 DEF Held, Marking, MarkPCs
    <3>3. CASE u = Idle /\ ToWrite(t) = {m}
      <4>1. Held(u, b) = 0
        BY <1>0, <1>idle, <3>3, Holding
      <4>2. b > t.b => t.plan[b] = 0
        BY <2>6, <3>1, <3>3 DEF ToWrite
      <4> QED
        BY <3>2, <4>1, <4>2
    <3>4. CASE u.pc = "give_back" /\ Keeps(t, u) /\ u.plan = t.plan /\ u.b = m
      <4>1. Held(u, b) = IF b > m THEN t.plan[b] ELSE 0
        BY <2>1, <3>4 DEF Held, Marking, MarkPCs, Keeps
      <4>2. b > t.b /\ ~(b > m) => t.plan[b] = 0
        BY <2>2, <2>3, <2>6, <3>1 DEF ToWrite
      <4> QED
        BY <2>3, <3>1, <3>2, <4>1, <4>2
    <3> QED
      BY <2>2, <3>3, <3>4
  <2>7. coff[m].status \in {"Available", "Used"}
    BY <1>2, <1>9, <2>3, <2>4 DEF BatchesHold
  <2>8. coff'[m].left = coff[m].left + t.plan[m] /\ coff'[m].status = "Available"
    BY <1>1, <2>2, <2>3
  <2>9. \A b \in Batches : b # m => coff'[b] = coff[b]
    BY <1>1, <2>2
  <2>10. \A b \in Batches :
           /\ coff'[b].left + Drawn(b)' + Held(u, b) = coff[b].left + Drawn(b) + Held(t, b)
           /\ coff'[b].status \in {"Available", "Used"} <=> coff[b].status \in {"Available", "Used"}
    <3> TAKE b \in Batches
    <3>1. CASE b # m
      BY <1>5, <2>1, <2>6, <2>9, <3>1
    <3>2. CASE b = m
      BY <1>2, <1>5, <2>1, <2>3, <2>4, <2>5, <2>7, <2>8, <3>2
    <3> QED
      BY <3>1, <3>2
  <2>11. Charged(u) = 0 /\ Charged(t) = 0
    BY <2>1, <2>2, <1>0, <1>idle, Holding DEF Charged, Keeps
  <2>12. BalanceHolds(task[w])'
    BY <1>3, <1>5, <2>1, <2>11
  <2> QED
    BY <1>4, <2>10, <2>12
<1>30. CASE GiveBack(w)
  <2>1. /\ t.pc = "give_back" /\ t.v.kind = "EL" /\ u = Idle
        /\ used' = used - Count(t.v) /\ UNCHANGED <<leave, granted, coff, expired, stuck>>
    BY <1>30, <1>9, CancelSteps DEF t, u
  <2>2. Charged(t) = Count(t.v) /\ \A b \in Batches : Held(t, b) = 0
    BY <2>1 DEF Charged, Held, Marking, MarkPCs, Undoing, UndoPCs
  <2>3. Charged(u) = 0 /\ \A b \in Batches : Held(u, b) = 0
    BY <1>0, <1>idle, <2>1, Holding
  <2>4. Count(t.v) \in Nat
    BY <1>0, CountTyped DEF Task
  <2>5. BalanceHolds(task[w])'
    BY <1>1, <1>2, <1>3, <1>5, <2>1, <2>2, <2>3, <2>4
  <2> QED
    BY <1>4, <1>5, <2>1, <2>2, <2>3, <2>5
<1>31. CASE StartClaim(w)
  <2>1. /\ ReadOnly /\ ~Marking(t) /\ ~Undoing(t) /\ t.pc # "coff_take"
        /\ ~Marking(u) /\ ~Undoing(u) /\ u.pc # "coff_take"
    BY <1>31, <1>9, <1>idle, ClaimSteps DEF t, u, Marking, MarkPCs, Undoing, UndoPCs
  <2> QED
    BY <1>6, <1>7, <2>1 DEF ReadOnly
<1>32. CASE ClaimInsert(w)
  <2>1. /\ t.pc = "claim_insert" /\ u = Idle /\ UNCHANGED <<leave, granted, used, expired, stuck>>
        /\ coff' = [coff EXCEPT ![t.b] = [status |-> "PendingApproval", left |-> 0]]
    BY <1>32, <1>9, ClaimSteps DEF t, u
  <2>2. t.b \in Batches /\ coff[t.b].status \in {"None", "Refused"}
    BY <1>0, <1>9, <2>1 DEF Fit, FitLeave, SeesBooks
  <2>3. ~Marking(t) /\ ~Undoing(t) /\ t.pc # "coff_take"
    BY <2>1 DEF Marking, MarkPCs, Undoing, UndoPCs
  <2>4. /\ Charged(t) = 0 /\ \A b \in Batches : Held(t, b) = 0
        /\ Charged(u) = 0 /\ \A b \in Batches : Held(u, b) = 0
    BY <1>0, <1>idle, <2>1, <2>3, Holding
  <2>5. BalanceHolds(task[w])'
    BY <1>3, <1>5, <2>1, <2>4
  <2>6. coff[t.b].left = 0 /\ Drawn(t.b) = 0
    BY <1>2, <1>9, <2>2, <2>4 DEF BatchesHold
  <2>7. ASSUME NEW b \in Batches
        PROVE  LET all == coff'[b].left + Drawn(b)' + Held(u, b)
               IN  IF coff'[b].status \in {"Available", "Used"} THEN all <= 2 /\ (crashes' = 0 => all = 2)
                                                                ELSE all = 0
    <3>1. CASE b # t.b
      <4>1. coff'[b] = coff[b] /\ Drawn(b)' = Drawn(b) /\ Held(u, b) = Held(t, b)
        BY <1>1, <1>5, <2>1, <2>4, <3>1
      <4> QED
        BY <1>0, <1>9, <4>1 DEF BatchesHold
    <3>2. CASE b = t.b
      <4>1. coff'[b] = [status |-> "PendingApproval", left |-> 0]
        BY <1>1, <2>1, <3>2
      <4>2. Drawn(b)' = 0 /\ Held(u, b) = 0
        BY <1>5, <2>1, <2>4, <2>6, <3>2
      <4> QED
        BY <4>1, <4>2
    <3> QED
      BY <3>1, <3>2
  <2>8. BatchesHold(task[w])'
    BY <2>7 DEF BatchesHold, Held, Marking, u
  <2> QED
    BY <2>5, <2>8
<1>33. CASE StartActClaim(w)
  <2>1. /\ ReadOnly /\ ~Marking(t) /\ ~Undoing(t) /\ t.pc # "coff_take"
        /\ ~Marking(u) /\ ~Undoing(u) /\ u.pc # "coff_take"
    BY <1>33, <1>9, <1>idle, ClaimSteps DEF t, u, Marking, MarkPCs, Undoing, UndoPCs
  <2> QED
    BY <1>6, <1>7, <2>1 DEF ReadOnly
<1>34. CASE ClaimWrite(w)
  <2>1. /\ t.pc = "claim_write" /\ u = Idle /\ UNCHANGED <<leave, granted, used, expired, stuck>>
        /\ coff' = [coff EXCEPT ![t.b] = IF t.to = "Approved" THEN [status |-> "Available", left |-> 2]
                                           ELSE [status |-> "Refused", left |-> 0]]
    BY <1>34, <1>9, ClaimSteps DEF t, u
  <2>2. t.b \in Batches /\ coff[t.b].status \in {"PendingApproval"}
    BY <1>0, <1>9, <2>1 DEF Fit, FitLeave, SeesBooks
  <2>3. ~Marking(t) /\ ~Undoing(t) /\ t.pc # "coff_take"
    BY <2>1 DEF Marking, MarkPCs, Undoing, UndoPCs
  <2>4. /\ Charged(t) = 0 /\ \A b \in Batches : Held(t, b) = 0
        /\ Charged(u) = 0 /\ \A b \in Batches : Held(u, b) = 0
    BY <1>0, <1>idle, <2>1, <2>3, Holding
  <2>5. BalanceHolds(task[w])'
    BY <1>3, <1>5, <2>1, <2>4
  <2>6. coff[t.b].left = 0 /\ Drawn(t.b) = 0
    BY <1>2, <1>9, <2>2, <2>4 DEF BatchesHold
  <2>7. ASSUME NEW b \in Batches
        PROVE  LET all == coff'[b].left + Drawn(b)' + Held(u, b)
               IN  IF coff'[b].status \in {"Available", "Used"} THEN all <= 2 /\ (crashes' = 0 => all = 2)
                                                                ELSE all = 0
    <3>1. CASE b # t.b
      <4>1. coff'[b] = coff[b] /\ Drawn(b)' = Drawn(b) /\ Held(u, b) = Held(t, b)
        BY <1>1, <1>5, <2>1, <2>4, <3>1
      <4> QED
        BY <1>0, <1>9, <4>1 DEF BatchesHold
    <3>2. CASE b = t.b
      <4>1. coff'[b] = IF t.to = "Approved" THEN [status |-> "Available", left |-> 2]
                                           ELSE [status |-> "Refused", left |-> 0]
        BY <1>1, <2>1, <3>2
      <4>2. Drawn(b)' = 0 /\ Held(u, b) = 0
        BY <1>5, <2>1, <2>4, <2>6, <3>2
      <4> QED
        BY <4>1, <4>2
    <3> QED
      BY <3>1, <3>2
  <2>8. BatchesHold(task[w])'
    BY <2>7 DEF BatchesHold, Held, Marking, u
  <2> QED
    BY <2>5, <2>8
<1>35. CASE StartAdjust(w)
  <2>1. /\ ReadOnly /\ ~Marking(t) /\ ~Undoing(t) /\ t.pc # "coff_take"
        /\ ~Marking(u) /\ ~Undoing(u) /\ u.pc # "coff_take"
    BY <1>35, <1>9, <1>idle, ClaimSteps DEF t, u, Marking, MarkPCs, Undoing, UndoPCs
  <2> QED
    BY <1>6, <1>7, <2>1 DEF ReadOnly
<1>36. CASE AdjustInc(w)
  <2>1. t.pc = "adjust_inc" /\ u = Idle /\ UNCHANGED <<leave, used, coff, expired, stuck>>
    BY <1>36, <1>9, ClaimSteps DEF t, u
  <2>2. Charged(u) = Charged(t) /\ \A b \in Batches : Held(u, b) = Held(t, b)
    BY <1>7, <1>idle, <2>1 DEF Marking, MarkPCs, Undoing, UndoPCs
  <2> QED
    BY <1>3, <1>4, <1>5, <2>1, <2>2
<1> QED
  BY <1>10, <1>11, <1>12, <1>13, <1>14, <1>15, <1>16, <1>17, <1>18, <1>19, <1>20, <1>21, <1>22,
     <1>23, <1>24, <1>25, <1>26, <1>27, <1>28, <1>29, <1>30, <1>31, <1>32, <1>33, <1>34, <1>35,
     <1>36
     DEF LeaveStep

-----------------------------------------------------------------------------
(* What the leave handlers read, and the leaves' dates                      *)

ReadsBooks == {"apply_pending", "apply_insert", "coff_take", "claim_insert", "claim_write"}
ReadsLeave == {"apply_balance", "apply_pending", "apply_insert", "cancel_write"} \cup ActPCs \cup UndoPCs

\* A step of a leave handler leaves what it has read good, and the leaves apart.
LEMMA ReadsKept ==
    ASSUME TypeOK, NEW w \in Workers, Fit(task[w]), SeesLeave(task[w]), SeesBooks(task[w]),
           BatchesHold(task[w]), Apart, LeaveStep(w)
    PROVE  SeesLeave(task[w])' /\ SeesBooks(task[w])' /\ Apart'
<1> DEFINE t == task[w]
           u == task'[w]
<1>0. TypeOK' /\ crashes' = crashes /\ t \in Task /\ u \in Task /\ Fit(t) /\ Fit(u)
  BY LeaveTyped DEF TypeOK
<1>1. /\ leave \in [Leaves -> LeaveDoc] /\ leave' \in [Leaves -> LeaveDoc]
      /\ coff \in [Batches -> Batch] /\ coff' \in [Batches -> Batch]
  BY <1>0 DEF TypeOK
<1>2. t.v \in LeaveDoc /\ u.v \in LeaveDoc
  BY <1>0 DEF Task
<1>3. ASSUME leave' = leave, SeesLeave(u) PROVE SeesLeave(task[w])' /\ Apart'
  BY <1>3 DEF SeesLeave, Overlaps, Marking, Undoing, Apart, Days
<1>4. ASSUME u.pc \notin ReadsBooks PROVE SeesBooks(task[w])'
  BY <1>4 DEF SeesBooks, ReadsBooks
<1>5. ASSUME u.pc \notin ReadsLeave PROVE SeesLeave(task[w])' /\ SeesLeave(u)
  BY <1>5 DEF SeesLeave, ReadsLeave, ActPCs, UndoPCs, MarkPCs, Marking, Undoing
<1>6. ASSUME \A l \in Leaves : leave'[l].status \in Live =>
               leave[l].status \in Live /\ leave'[l].from = leave[l].from /\ leave'[l].to = leave[l].to
      PROVE  Apart'
  <2>1. Apart
    OBVIOUS
  <2> QED
    BY <1>6, <2>1 DEF Apart
<1>7. Fit(task[w]) /\ SeesLeave(t) /\ SeesBooks(t) /\ Apart
  OBVIOUS
<1>8. Idle.pc \notin ReadsBooks /\ Idle.pc \notin ReadsLeave
  BY IdleTyped DEF ReadsBooks, ReadsLeave, ActPCs, UndoPCs
<1>9. ASSUME UNCHANGED leaveVars, SeesBooks(u) PROVE SeesBooks(task[w])'
  BY <1>9 DEF SeesBooks, leaveVars, books, Closing, PendingDays, Cost, Count, Days
<1> HIDE DEF t, u
<1>10. CASE StartApply(w)
  <2>1. /\ ReadOnly /\ u.pc = "apply_balance"
        /\ u.v.status = "Pending" /\ ~Overlaps(u.v.from, u.v.to)
    BY <1>10, <1>7, ApplySteps DEF t, u
  <2>2. SeesLeave(u)
    BY <2>1 DEF SeesLeave, ActPCs, UndoPCs, MarkPCs, Marking, Undoing
  <2> QED
    BY <1>3, <1>4, <2>1, <2>2 DEF ReadOnly, leaveVars, ReadsBooks
<1>11. CASE ApplyBalance(w)
  <2>1. ReadOnly /\ t.pc = "apply_balance" /\ u.pc = "apply_pending" /\ Keeps(t, u)
        /\ (t.v.kind = "EL" => u.n = Closing)
    BY <1>11, <1>7, ApplySteps DEF t, u
  <2>2. SeesLeave(u)
    BY <1>7, <2>1 DEF SeesLeave, ActPCs, UndoPCs, MarkPCs, Marking, Undoing, Keeps
  <2>3. SeesBooks(u)
    BY <2>1 DEF SeesBooks, Keeps
  <2> QED
    BY <1>3, <1>9, <2>1, <2>2, <2>3 DEF ReadOnly, leaveVars
<1>12. CASE ApplyPending(w)
  <2>1. ReadOnly /\ t.pc = "apply_pending"
        /\ (u = Idle \/ (u.pc = "apply_insert" /\ Keeps(t, u) /\ Count(t.v) <= t.n - PendingDays(t.v.kind)))
    BY <1>12, <1>7, ApplySteps DEF t, u
  <2>2. CASE u.pc = "apply_insert" /\ Keeps(t, u) /\ Count(t.v) <= t.n - PendingDays(t.v.kind)
    <3>1. SeesLeave(u)
      BY <1>7, <2>1, <2>2 DEF SeesLeave, ActPCs, UndoPCs, MarkPCs, Marking, Undoing, Keeps
    <3>2. SeesBooks(u)
      BY <1>7, <2>1, <2>2 DEF SeesBooks, Keeps
    <3> QED
      BY <1>3, <1>9, <2>1, <3>1, <3>2 DEF ReadOnly, leaveVars
  <2> QED
    BY <1>3, <1>4, <1>5, <1>8, <2>1, <2>2 DEF ReadOnly, leaveVars
<1>13. CASE ApplyInsert(w)
  <2>1. /\ t.pc = "apply_insert" /\ u = Idle /\ leave[t.x] = NoLeave /\ leave' = [leave EXCEPT ![t.x] = t.v]
    BY <1>13, <1>7, ApplySteps DEF t, u
  <2>2. t.v.status = "Pending" /\ ~Overlaps(t.v.from, t.v.to) /\ t.x \in Leaves
    BY <1>0, <1>7, <2>1 DEF SeesLeave, Fit, FitLeave, LeavePCs
  <2>3. Apart'
    <3>1. leave'[t.x] = t.v /\ \A l \in Leaves \ {t.x} : leave'[l] = leave[l]
      BY <1>1, <2>1, <2>2
    <3>2. \A l \in Leaves : leave[l].status \in Live => t.v.to < leave[l].from \/ leave[l].to < t.v.from
      <4> SUFFICES ASSUME NEW l \in Leaves, leave[l].status \in Live
                   PROVE  t.v.to < leave[l].from \/ leave[l].to < t.v.from
        OBVIOUS
      <4>1. leave[l].from \in Nat /\ leave[l].to \in Nat /\ t.v.from \in Nat /\ t.v.to \in Nat
        BY <1>1, <1>2, <2>2, DatesTyped
      <4> QED
        BY <2>2, <4>1 DEF Overlaps, Live
    <3> QED
      BY <1>7, <3>1, <3>2 DEF Apart
  <2> QED
    BY <1>4, <1>5, <1>8, <2>1, <2>3
<1>14. CASE StartAct(w)
  <2>1. /\ ReadOnly /\ u.x \in Leaves /\ u.v = leave[u.x] /\ u.v.status \in OpenLeave
        /\ u.pc = ActFrom(u.v, u.to)
    BY <1>14, <1>7, ActSteps DEF t, u
  <2>2. leave[u.x] = [u.v EXCEPT !.took = leave[u.x].took]
    BY <1>2, <2>1 DEF LeaveDoc
  <2>3. u.pc \in {"act_write", "coff_read", "debit_read"} /\ ~Marking(u)
    BY <2>1 DEF ActFrom, Marking, MarkPCs
  <2>4. SeesLeave(u)
    BY <2>1, <2>2, <2>3 DEF SeesLeave, ActPCs, UndoPCs, Undoing
  <2> QED
    BY <1>3, <1>4, <2>1, <2>3, <2>4 DEF ReadOnly, leaveVars, ReadsBooks
<1>15. CASE DebitRead(w)
  <2>1. ReadOnly /\ t.pc = "debit_read" /\ (u = Idle \/ (u.pc = "debit_inc" /\ Keeps(t, u)))
    BY <1>15, <1>7, ActSteps DEF t, u
  <2>2. CASE u.pc = "debit_inc" /\ Keeps(t, u)
    <3>1. SeesLeave(u)
      BY <1>7, <2>1, <2>2 DEF SeesLeave, ActPCs, UndoPCs, MarkPCs, Marking, Undoing, Keeps
    <3> QED
      BY <1>3, <1>4, <2>1, <2>2, <3>1 DEF ReadOnly, leaveVars, ReadsBooks
  <2> QED
    BY <1>3, <1>4, <1>5, <1>8, <2>1, <2>2 DEF ReadOnly, leaveVars
<1>16. CASE DebitInc(w)
  <2>1. /\ t.pc = "debit_inc" /\ u.pc = "day_read" /\ Keeps(t, u) /\ u.todo = Days(t.v) /\ leave' = leave
    BY <1>16, <1>7, ActSteps DEF t, u
  <2>2. t.v.kind = "EL"
    BY <1>0, <2>1 DEF Fit, FitLeave
  <2>3. SeesLeave(u)
    BY <1>7, <2>1, <2>2 DEF SeesLeave, ActPCs, UndoPCs, MarkPCs, Marking, Undoing, Keeps
  <2> QED
    BY <1>3, <1>4, <2>1, <2>3 DEF ReadsBooks
<1>17. CASE CoffRead(w)
  <2>1. /\ ReadOnly /\ t.pc = "coff_read"
        /\ u = Idle \/ (/\ u.pc = "coff_take" /\ Keeps(t, u)
                        /\ u.plan = Plan(Count(t.v)) /\ \A b \in Batches : u.base[b] = coff[b].left)
    BY <1>17, <1>7, ActSteps DEF t, u
  <2>2. CASE /\ u.pc = "coff_take" /\ Keeps(t, u)
             /\ u.plan = Plan(Count(t.v)) /\ \A b \in Batches : u.base[b] = coff[b].left
    <3>1. SeesLeave(u)
      BY <1>7, <2>1, <2>2 DEF SeesLeave, ActPCs, UndoPCs, MarkPCs, Marking, Undoing, Keeps
    <3>2. \A b \in Batches : u.plan[b] <= u.base[b] /\ (u.plan[b] > 0 => coff[b].status = "Available")
      <4> DEFINE k == Count(t.v)
      <4>1. k \in Nat
        BY <1>2, CountTyped
      <4>2. \A b \in Batches : u.plan[b] = Plan(k)[b] /\ u.base[b] = coff[b].left
        BY <2>2
      <4> HIDE DEF k
      <4>3. \A b \in Batches : /\ Plan(k)[b] <= coff[b].left
                               /\ Plan(k)[b] > 0 => coff[b].status = "Available"
        BY <1>1, <4>1, PlanTyped
      <4> QED
        BY <4>2, <4>3
    <3>3. SeesBooks(u)
      BY <2>2, <3>2 DEF SeesBooks
    <3> QED
      BY <1>3, <1>9, <2>1, <3>1, <3>3 DEF ReadOnly, leaveVars
  <2> QED
    BY <1>3, <1>4, <1>5, <1>8, <2>1, <2>2 DEF ReadOnly, leaveVars
<1>18. CASE CoffTake(w)
  <2>1. /\ t.pc = "coff_take" /\ u.pc = "coff_take" /\ Keeps(t, u) /\ u.plan = t.plan /\ u.base = t.base
        /\ u.b \in ToWrite(t) /\ leave' = leave
    BY <1>18, <1>7, ActSteps DEF t, u
  <2>2. \A b \in Batches : b # u.b => coff'[b] = coff[b]
    BY <1>18, <1>1, <1>7, ActSteps DEF t, u
  <2>3. t.b \in Int /\ u.b \in Int /\ u.b > t.b /\ \A b \in Batches : b \in Int
    <3>1. \A b \in Batches : b \in Int
      BY LeaveAssumption
    <3>2. u.b \in Int /\ u.b > t.b
      BY <2>1, <3>1 DEF ToWrite
    <3>3. t.b \in Batches \cup {0}
      BY <1>0 DEF Task
    <3>4. t.b \in Int
      <4>1. CASE t.b \in Batches
        BY <3>1, <4>1
      <4>2. CASE t.b = 0
        BY <4>2
      <4> QED
        BY <3>3, <4>1, <4>2
    <3> QED
      BY <3>1, <3>2, <3>4
  <2>4. ASSUME NEW b \in Batches
        PROVE  /\ u.plan[b] <= u.base[b]
               /\ b > u.b /\ u.plan[b] > 0 => coff'[b].status = "Available" /\ u.base[b] = coff'[b].left
    <3>1. b > u.b => b # u.b /\ b > t.b
      BY <2>3
    <3> QED
      BY <1>7, <2>1, <2>2, <3>1 DEF SeesBooks
  <2>5. SeesBooks(task[w])'
    BY <2>1, <2>4 DEF SeesBooks, u
  <2>6. SeesLeave(u)
    BY <1>7, <2>1 DEF SeesLeave, ActPCs, UndoPCs, MarkPCs, Marking, Undoing, Keeps
  <2> QED
    BY <1>3, <2>1, <2>5, <2>6
<1>19. CASE CoffNote(w)
  <2>1. /\ t.pc = "coff_take" /\ u.pc = "day_read" /\ Keeps(t, u) /\ u.plan = t.plan /\ u.todo = Days(t.v)
        /\ leave' = [leave EXCEPT ![t.x].took = t.plan]
    BY <1>19, <1>7, ActSteps DEF t, u
  <2>2. /\ t.x \in Leaves /\ leave[t.x].status \in OpenLeave
        /\ leave[t.x] = [t.v EXCEPT !.took = leave[t.x].took]
    BY <1>0, <1>7, <2>1 DEF SeesLeave, Fit, FitLeave, ActPCs, LeavePCs
  <2>3. leave'[t.x] = [leave[t.x] EXCEPT !.took = t.plan] /\ \A l \in Leaves \ {t.x} : leave'[l] = leave[l]
    BY <1>1, <2>1, <2>2
  <2>4. /\ leave'[t.x].took = t.plan /\ leave'[t.x].status = leave[t.x].status
        /\ leave'[t.x].from = leave[t.x].from /\ leave'[t.x].to = leave[t.x].to
    BY <1>1, <2>2, <2>3 DEF LeaveDoc
  <2>5. leave'[t.x] = [t.v EXCEPT !.took = leave'[t.x].took]
    BY <1>2, <2>2, <2>3, <2>4 DEF LeaveDoc
  <2>6. SeesLeave(task[w])'
    BY <2>1, <2>2, <2>4, <2>5 DEF SeesLeave, ActPCs, UndoPCs, MarkPCs, Marking, Undoing, Keeps, u,
       Days
  <2>7. Apart'
    BY <1>6, <2>3, <2>4
  <2> QED
    BY <1>4, <2>1, <2>6, <2>7 DEF ReadsBooks
<1>20. CASE DayRead(w)
  <2>1. /\ leave' = leave /\ Keeps(t, u) /\ u.plan = t.plan /\ u.todo \subseteq t.todo
        /\ t.pc \in {"day_read", "day_write"} /\ u.pc \in MarkPCs
    BY <1>20, <1>7, MarkSteps DEF t, u, ReadOnly, leaveVars, MarkPCs
  <2>2. Marking(t) /\ Marking(u)
    BY <1>0, <2>1 DEF Fit, FitLeave, ActPCs, MarkPCs, Marking, Keeps
  <2>3. SeesLeave(u)
    BY <1>7, <2>1, <2>2 DEF SeesLeave, ActPCs, UndoPCs, MarkPCs, Undoing, Keeps
  <2> QED
    BY <1>3, <1>4, <2>1, <2>3 DEF ReadsBooks, MarkPCs
<1>21. CASE DayWrite(w)
  <2>1. /\ leave' = leave /\ Keeps(t, u) /\ u.plan = t.plan /\ u.todo \subseteq t.todo
        /\ t.pc \in {"day_read", "day_write"} /\ u.pc \in MarkPCs
    BY <1>21, <1>7, MarkSteps DEF t, u, ReadOnly, leaveVars, MarkPCs
  <2>2. Marking(t) /\ Marking(u)
    BY <1>0, <2>1 DEF Fit, FitLeave, ActPCs, MarkPCs, Marking, Keeps
  <2>3. SeesLeave(u)
    BY <1>7, <2>1, <2>2 DEF SeesLeave, ActPCs, UndoPCs, MarkPCs, Undoing, Keeps
  <2> QED
    BY <1>3, <1>4, <2>1, <2>3 DEF ReadsBooks, MarkPCs
<1>22. CASE DaysDone(w)
  <2>1. /\ leave' = leave /\ Keeps(t, u) /\ u.plan = t.plan /\ u.todo \subseteq t.todo
        /\ t.pc \in {"day_read", "day_write"} /\ u.pc \in MarkPCs
    BY <1>22, <1>7, MarkSteps DEF t, u, ReadOnly, leaveVars, MarkPCs
  <2>2. Marking(t) /\ Marking(u)
    BY <1>0, <2>1 DEF Fit, FitLeave, ActPCs, MarkPCs, Marking, Keeps
  <2>3. SeesLeave(u)
    BY <1>7, <2>1, <2>2 DEF SeesLeave, ActPCs, UndoPCs, MarkPCs, Undoing, Keeps
  <2> QED
    BY <1>3, <1>4, <2>1, <2>3 DEF ReadsBooks, MarkPCs
<1>23. CASE ActWrite(w)
  <2>1. /\ t.pc = "act_write" /\ u = Idle /\ leave' = [leave EXCEPT ![t.x] = Decided(@, t.to, t.who)]
    BY <1>23, <1>7, MarkSteps DEF t, u
  <2>2. t.x \in Leaves /\ leave[t.x].status \in Live
    BY <1>0, <1>7, <2>1 DEF SeesLeave, Fit, FitLeave, ActPCs, LeavePCs, Live
  <2>3. \A v \in LeaveDoc : Decided(v, t.to, t.who).from = v.from /\ Decided(v, t.to, t.who).to = v.to
    BY DEF Decided, LeaveDoc
  <2>4. leave'[t.x] = Decided(leave[t.x], t.to, t.who) /\ \A l \in Leaves \ {t.x} : leave'[l] = leave[l]
    BY <1>1, <2>1, <2>2
  <2>5. Apart'
    BY <1>1, <1>6, <2>2, <2>3, <2>4
  <2> QED
    BY <1>4, <1>5, <1>8, <2>1, <2>5
<1>24. CASE StartCancel(w)
  <2>1. ReadOnly /\ u.pc = "cancel_write" /\ u.x \in Leaves /\ u.v = leave[u.x] /\ u.v.status \in Live
    BY <1>24, <1>7, CancelSteps DEF t, u
  <2>2. SeesLeave(u)
    BY <2>1 DEF SeesLeave, ActPCs, UndoPCs, MarkPCs, Marking, Undoing
  <2> QED
    BY <1>3, <1>4, <2>1, <2>2 DEF ReadOnly, leaveVars, ReadsBooks
<1>25. CASE CancelWrite(w)
  <2>1. /\ t.pc = "cancel_write" /\ leave' = [leave EXCEPT ![t.x].status = "Cancelled"]
        /\ IF t.v.status = "Approved" THEN u.pc = "undo_read" /\ Keeps(t, u) ELSE u = Idle
    BY <1>25, <1>7, CancelSteps DEF t, u
  <2>2. t.x \in Leaves /\ leave[t.x] = t.v
    BY <1>0, <1>7, <2>1 DEF SeesLeave, Fit, FitLeave, LeavePCs
  <2>3. leave'[t.x] = [t.v EXCEPT !.status = "Cancelled"] /\ \A l \in Leaves \ {t.x} : leave'[l] = leave[l]
    BY <1>1, <2>1, <2>2
  <2>4. leave'[t.x].status = "Cancelled"
    BY <1>2, <2>3 DEF LeaveDoc
  <2>5. Apart'
    BY <1>6, <2>3, <2>4 DEF Live, OpenLeave
  <2>6. CASE t.v.status = "Approved"
    <3>1. SeesLeave(task[w])'
      BY <2>1, <2>3, <2>6 DEF SeesLeave, ActPCs, UndoPCs, MarkPCs, Marking, Undoing, Keeps, u
    <3> QED
      BY <1>4, <2>1, <2>5, <2>6, <3>1 DEF ReadsBooks
  <2> QED
    BY <1>4, <1>5, <1>8, <2>1, <2>5, <2>6
<1>26. CASE UndoRead(w)
  <2>1. leave' = leave /\ Keeps(t, u) /\ t.pc \in UndoPCs /\ u.pc \in UndoPCs
    BY <1>26, <1>7, CancelSteps DEF t, u, leaveVars, ReadOnly, UndoPCs
  <2>2. SeesLeave(u)
    BY <1>7, <2>1 DEF SeesLeave, ActPCs, UndoPCs, MarkPCs, Marking, Undoing, Keeps
  <2> QED
    BY <1>3, <1>4, <2>1, <2>2 DEF ReadsBooks, UndoPCs
<1>27. CASE UndoRow(w)
  <2>1. leave' = leave /\ Keeps(t, u) /\ t.pc \in UndoPCs /\ u.pc \in UndoPCs
    BY <1>27, <1>7, CancelSteps DEF t, u, leaveVars, ReadOnly, UndoPCs
  <2>2. SeesLeave(u)
    BY <1>7, <2>1 DEF SeesLeave, ActPCs, UndoPCs, MarkPCs, Marking, Undoing, Keeps
  <2> QED
    BY <1>3, <1>4, <2>1, <2>2 DEF ReadsBooks, UndoPCs
<1>28. CASE UndoDone(w)
  <2>1. leave' = leave /\ Keeps(t, u) /\ t.pc \in UndoPCs /\ u.pc \in UndoPCs
    BY <1>28, <1>7, CancelSteps DEF t, u, leaveVars, ReadOnly, UndoPCs
  <2>2. SeesLeave(u)
    BY <1>7, <2>1 DEF SeesLeave, ActPCs, UndoPCs, MarkPCs, Marking, Undoing, Keeps
  <2> QED
    BY <1>3, <1>4, <2>1, <2>2 DEF ReadsBooks, UndoPCs
<1>29. CASE GiveBackCoff(w)
  <2>1. leave' = leave /\ t.pc = "give_back"
    BY <1>29, <1>7, CancelSteps DEF t, u
  <2>2. u = Idle \/ (u.pc = "give_back" /\ Keeps(t, u))
    BY <1>29, <1>7, CancelSteps DEF t, u
  <2>3. CASE u.pc = "give_back" /\ Keeps(t, u)
    <3>1. SeesLeave(u)
      BY <1>7, <2>1, <2>3 DEF SeesLeave, ActPCs, UndoPCs, MarkPCs, Marking, Undoing, Keeps
    <3> QED
      BY <1>3, <1>4, <2>1, <2>3, <3>1 DEF ReadsBooks
  <2> QED
    BY <1>3, <1>4, <1>5, <1>8, <2>1, <2>2, <2>3
<1>30. CASE GiveBack(w)
  <2>1. leave' = leave /\ u = Idle
    BY <1>30, <1>7, CancelSteps DEF t, u
  <2> QED
    BY <1>3, <1>4, <1>5, <1>8, <2>1
<1>31. CASE ClaimInsert(w)
  <2>1. leave' = leave /\ u = Idle
    BY <1>31, <1>7, ClaimSteps DEF t, u
  <2> QED
    BY <1>3, <1>4, <1>5, <1>8, <2>1
<1>32. CASE ClaimWrite(w)
  <2>1. leave' = leave /\ u = Idle
    BY <1>32, <1>7, ClaimSteps DEF t, u
  <2> QED
    BY <1>3, <1>4, <1>5, <1>8, <2>1
<1>33. CASE AdjustInc(w)
  <2>1. leave' = leave /\ u = Idle
    BY <1>33, <1>7, ClaimSteps DEF t, u
  <2> QED
    BY <1>3, <1>4, <1>5, <1>8, <2>1
<1>34. CASE StartClaim(w)
  <2>1. ReadOnly /\ u.pc \in {"claim_insert", "claim_write"} /\ u.pc \notin ReadsLeave
    BY <1>34, <1>7, ClaimSteps DEF t, u, ReadsLeave, ActPCs, UndoPCs
  <2>2. SeesBooks(u)
    BY <1>34, <1>7, ClaimSteps DEF t, u, SeesBooks
  <2> QED
    BY <1>3, <1>5, <1>9, <2>1, <2>2 DEF ReadOnly, leaveVars
<1>35. CASE StartActClaim(w)
  <2>1. ReadOnly /\ u.pc \in {"claim_insert", "claim_write"} /\ u.pc \notin ReadsLeave
    BY <1>35, <1>7, ClaimSteps DEF t, u, ReadsLeave, ActPCs, UndoPCs
  <2>2. SeesBooks(u)
    BY <1>35, <1>7, ClaimSteps DEF t, u, SeesBooks
  <2> QED
    BY <1>3, <1>5, <1>9, <2>1, <2>2 DEF ReadOnly, leaveVars
<1>36. CASE StartAdjust(w)
  <2>1. ReadOnly /\ u.pc \notin ReadsBooks /\ u.pc \notin ReadsLeave
    BY <1>36, <1>7, <1>8, ClaimSteps DEF t, u, ReadsBooks, ReadsLeave, ActPCs, UndoPCs
  <2> QED
    BY <1>3, <1>4, <1>5, <2>1 DEF ReadOnly, leaveVars
<1> QED
  BY <1>10, <1>11, <1>12, <1>13, <1>14, <1>15, <1>16, <1>17, <1>18, <1>19, <1>20, <1>21, <1>22,
     <1>23, <1>24, <1>25, <1>26, <1>27, <1>28, <1>29, <1>30, <1>31, <1>32, <1>33, <1>34, <1>35,
     <1>36
     DEF LeaveStep

-----------------------------------------------------------------------------
(* The month's handlers, step by step                                       *)

\* mark_attendance, lock_period, unlock_period.
LEMMA DaySteps ==
    ASSUME TypeOK, NEW w \in Workers, Fit(task[w])
    PROVE  /\ StartMark(w, Idle) =>
               /\ DaysKept /\ task[w].pc = "idle" /\ task'[w].pc = "month_check" /\ task'[w].op = "mark"
           /\ MonthCheck(w, Idle) =>
               /\ DaysKept /\ task[w].pc = "month_check"
               /\ task'[w] = Idle \/ (lock # "Locked" /\ Keeps(task[w], task'[w]) /\ task'[w].pc \in {"mark_write", "reg_insert"})
           /\ MarkWrite(w, Idle) =>
               /\ task[w].pc = "mark_write" /\ task'[w] = Idle /\ UNCHANGED <<lock, requests, crashes>>
               /\ row' = [row EXCEPT ![task[w].d] = Recorded(@, task[w].to)]
           /\ StartLock(w, Idle) =>
               /\ DaysKept /\ task[w].pc = "idle" /\ task'[w].pc = "lock_write"
           /\ LockWrite(w, Idle) =>
               /\ UNCHANGED <<row, requests, crashes>>
               /\ task[w].pc = "lock_write" /\ task'[w].pc = "lock_rows"
           /\ LockRows(w, Idle) =>
               /\ UNCHANGED <<lock, requests, crashes>>
               /\ task[w].pc = "lock_rows" /\ task'[w] = Idle /\ row' = Rows(TRUE)
           /\ StartUnlock(w, Idle) =>
               /\ DaysKept /\ task[w].pc = "idle" /\ task'[w].pc = "unlock_write"
           /\ UnlockWrite(w) =>
               /\ UNCHANGED <<row, requests, crashes>>
               /\ task[w].pc = "unlock_write" /\ task'[w].pc = "unlock_rows" /\ lock' = "Open"
           /\ UnlockRows(w, Idle) =>
               /\ UNCHANGED <<lock, requests, crashes>>
               /\ task[w].pc = "unlock_rows" /\ task'[w] = Idle /\ row' = Rows(FALSE)
<1> DEFINE t == task[w]
           u == task'[w]
<1>0. /\ t \in Task /\ task \in [Workers -> Task] /\ Fit(t)
      /\ task[w] = Idle => t.pc = "idle"
  BY IdleTyped DEF TypeOK
<1>a. \A v : task' = [task EXCEPT ![w] = v] => u = v
  BY <1>0
<1>b. \A nxt : task' = [task EXCEPT ![w].pc = nxt] => u = [t EXCEPT !.pc = nxt]
  BY <1>0
<1>c. \A v \in Task, nxt \in TaskPCs : LET z == [v EXCEPT !.pc = nxt]
                              IN  z.pc = nxt /\ Keeps(v, z) /\ z.n = v.n /\ z.todo = v.todo /\ z.saw = v.saw
                                  /\ z.b = v.b /\ z.plan = v.plan /\ z.base = v.base
  BY Moved DEF Keeps
<1> HIDE DEF t, u
<1>1. ASSUME StartMark(w, Idle)
      PROVE  /\ DaysKept /\ t.pc = "idle" /\ u.pc = "month_check" /\ u.op = "mark"
  <2>1. PICK d \in Dates, s \in Marks :
          Begin(w, Idle, "mark", [Idle EXCEPT !.pc = "month_check", !.d = d, !.to = s])
    BY <1>1 DEF StartMark
  <2>2. u = [Idle EXCEPT !.pc = "month_check", !.d = d, !.to = s, !.op = "mark"] /\ t = Idle /\ DaysKept
    BY <2>1, <1>a DEF Begin, Idle, t, DaysKept
  <2>3. u.pc = "month_check" /\ u.op = "mark"
    BY <2>2 DEF Idle
  <2> QED
    BY <1>0, <2>1, <2>2, <2>3 DEF t
<1>2. ASSUME MonthCheck(w, Idle)
      PROVE  /\ DaysKept /\ t.pc = "month_check"
             /\ u = Idle \/ (lock # "Locked" /\ Keeps(t, u) /\ u.pc \in {"mark_write", "reg_insert"})
  <2>1. t.pc = "month_check" /\ DaysKept
    BY <1>2 DEF MonthCheck, At, t, DaysKept, traffic
  <2>2. CASE lock = "Locked"
    BY <1>2, <1>a, <2>1, <2>2 DEF MonthCheck
  <2>3. CASE lock # "Locked"
    <3> DEFINE nxt == IF t.op = "mark" THEN "mark_write" ELSE "reg_insert"
    <3>1. nxt \in {"mark_write", "reg_insert"}
      OBVIOUS
    <3>2. task' = [task EXCEPT ![w].pc = nxt]
      BY <1>2, <2>3 DEF MonthCheck, Goto, t
    <3> HIDE DEF nxt
    <3>3. u = [t EXCEPT !.pc = nxt] /\ nxt \in TaskPCs
      BY <1>b, <3>1, <3>2 DEF TaskPCs, AttendancePCs
    <3> QED
      BY <1>0, <1>c, <2>1, <2>3, <3>1, <3>3
  <2> QED
    BY <2>2, <2>3
<1>3. ASSUME MarkWrite(w, Idle)
      PROVE  /\ t.pc = "mark_write" /\ u = Idle /\ UNCHANGED <<lock, requests, crashes>>
             /\ row' = [row EXCEPT ![t.d] = Recorded(@, t.to)]
  <2>1. u = Idle
    BY <1>3, <1>a DEF MarkWrite
  <2> QED
    BY <1>3, <2>1 DEF MarkWrite, At, t, requests, traffic
<1>4. ASSUME StartLock(w, Idle)
      PROVE  /\ DaysKept /\ t.pc = "idle" /\ u.pc = "lock_write"
  <2>1. 
          Begin(w, Idle, "lock", [Idle EXCEPT !.pc = "lock_write"])
    BY <1>4 DEF StartLock
  <2>2. u = [Idle EXCEPT !.pc = "lock_write", !.op = "lock"] /\ t = Idle /\ DaysKept
    BY <2>1, <1>a DEF Begin, Idle, t, DaysKept
  <2>3. u.pc = "lock_write"
    BY <2>2 DEF Idle
  <2> QED
    BY <1>0, <2>1, <2>2, <2>3 DEF t
<1>5. ASSUME LockWrite(w, Idle)
      PROVE  /\ UNCHANGED <<row, requests, crashes>>
             /\ t.pc = "lock_write" /\ u.pc = "lock_rows"
  <2>1. u = [t EXCEPT !.pc = "lock_rows"]
    BY <1>5, <1>b DEF LockWrite, Goto
  <2>2. u.pc = "lock_rows"
    BY <1>0, <1>c, <2>1 DEF TaskPCs, AttendancePCs
  <2> QED
    BY <1>5, <2>2 DEF LockWrite, At, t, requests, traffic
<1>6. ASSUME LockRows(w, Idle)
      PROVE  /\ UNCHANGED <<lock, requests, crashes>>
             /\ t.pc = "lock_rows" /\ u = Idle /\ row' = Rows(TRUE)
  <2>1. u = Idle
    BY <1>6, <1>a DEF LockRows
  <2> QED
    BY <1>6, <2>1 DEF LockRows, At, t, requests, traffic
<1>7. ASSUME StartUnlock(w, Idle)
      PROVE  /\ DaysKept /\ t.pc = "idle" /\ u.pc = "unlock_write"
  <2>1. 
          Begin(w, Idle, "unlock", [Idle EXCEPT !.pc = "unlock_write"])
    BY <1>7 DEF StartUnlock
  <2>2. u = [Idle EXCEPT !.pc = "unlock_write", !.op = "unlock"] /\ t = Idle /\ DaysKept
    BY <2>1, <1>a DEF Begin, Idle, t, DaysKept
  <2>3. u.pc = "unlock_write"
    BY <2>2 DEF Idle
  <2> QED
    BY <1>0, <2>1, <2>2, <2>3 DEF t
<1>8. ASSUME UnlockWrite(w)
      PROVE  /\ UNCHANGED <<row, requests, crashes>>
             /\ t.pc = "unlock_write" /\ u.pc = "unlock_rows" /\ lock' = "Open"
  <2>1. u = [t EXCEPT !.pc = "unlock_rows"]
    BY <1>8, <1>b DEF UnlockWrite, Goto
  <2>2. u.pc = "unlock_rows"
    BY <1>0, <1>c, <2>1 DEF TaskPCs, AttendancePCs
  <2> QED
    BY <1>8, <2>2 DEF UnlockWrite, At, t, requests, traffic
<1>9. ASSUME UnlockRows(w, Idle)
      PROVE  /\ UNCHANGED <<lock, requests, crashes>>
             /\ t.pc = "unlock_rows" /\ u = Idle /\ row' = Rows(FALSE)
  <2>1. u = Idle
    BY <1>9, <1>a DEF UnlockRows
  <2> QED
    BY <1>9, <2>1 DEF UnlockRows, At, t, requests, traffic
<1> QED
  BY <1>1, <1>2, <1>3, <1>4, <1>5, <1>6, <1>7, <1>8, <1>9 DEF t, u

\* request_regularization and act_on_regularization.
LEMMA RegSteps ==
    ASSUME TypeOK, NEW w \in Workers, Fit(task[w])
    PROVE  /\ StartRequestReg(w, Idle) =>
               /\ DaysKept /\ task[w].pc = "idle" /\ task'[w].pc = "month_check"
           /\ RegInsert(w, Idle) =>
               /\ task[w].pc = "reg_insert" /\ task'[w] = Idle /\ reg[task[w].x] = NoRequest
               /\ UNCHANGED <<row, lock, od, applied, crashes>>
               /\ reg' = [reg EXCEPT ![task[w].x] = [status |-> "Pending", day |-> task[w].d, levels |-> task[w].levels]]
           /\ StartActReg(w, Idle) =>
               /\ DaysKept /\ task[w].pc = "idle" /\ reg[task'[w].x].status \in OpenRequest
               /\ \/ task'[w].pc = "reg_unlocked"
                  \/ /\ task'[w].pc = "reg_write" /\ task'[w].to # "Approved"
                     /\ task'[w].to = "ManagerApproved" => reg[task'[w].x].levels # 1
           /\ RegUnlocked(w, Idle) =>
               /\ DaysKept /\ task[w].pc = "reg_unlocked"
               /\ task'[w] = Idle \/ (lock # "Locked" /\ Keeps(task[w], task'[w]) /\ task'[w].pc = "reg_apply")
           /\ RegApply(w) =>
               /\ task[w].pc = "reg_apply" /\ task'[w].pc = "reg_write" /\ Keeps(task[w], task'[w])
               /\ UNCHANGED <<lock, reg, od, crashes>> /\ applied' = applied \cup {task[w].x}
               /\ \E s \in Marks : row' = [row EXCEPT ![task[w].d] = Marked(@, s)]
           /\ RegWrite(w, Idle) =>
               /\ task[w].pc = "reg_write" /\ task'[w] = Idle /\ UNCHANGED <<row, lock, od, applied, crashes>>
               /\ reg' = [reg EXCEPT ![task[w].x].status = task[w].to]
<1> DEFINE t == task[w]
           u == task'[w]
<1>0. /\ t \in Task /\ task \in [Workers -> Task] /\ Fit(t)
      /\ task[w] = Idle => t.pc = "idle"
  BY IdleTyped DEF TypeOK
<1>a. \A v : task' = [task EXCEPT ![w] = v] => u = v
  BY <1>0
<1>b. \A nxt : task' = [task EXCEPT ![w].pc = nxt] => u = [t EXCEPT !.pc = nxt]
  BY <1>0
<1>c. \A v \in Task, nxt \in TaskPCs : LET z == [v EXCEPT !.pc = nxt]
                              IN  z.pc = nxt /\ Keeps(v, z) /\ z.n = v.n /\ z.todo = v.todo /\ z.saw = v.saw
                                  /\ z.b = v.b /\ z.plan = v.plan /\ z.base = v.base
  BY Moved DEF Keeps
<1> HIDE DEF t, u
<1>1. ASSUME StartRequestReg(w, Idle)
      PROVE  /\ DaysKept /\ t.pc = "idle" /\ u.pc = "month_check"
  <2>1. PICK r \in Regs, d \in Dates, n \in RegLevels :
          Begin(w, Idle, "request-reg", [Idle EXCEPT !.pc = "month_check", !.x = r, !.d = d, !.levels = n])
    BY <1>1 DEF StartRequestReg
  <2>2. u = [Idle EXCEPT !.pc = "month_check", !.x = r, !.d = d, !.levels = n, !.op = "request-reg"] /\ t = Idle /\ DaysKept
    BY <2>1, <1>a DEF Begin, Idle, t, DaysKept
  <2>3. u.pc = "month_check"
    BY <2>2 DEF Idle
  <2> QED
    BY <1>0, <2>1, <2>2, <2>3 DEF t
<1>2. ASSUME RegInsert(w, Idle)
      PROVE  /\ t.pc = "reg_insert" /\ u = Idle /\ reg[t.x] = NoRequest
             /\ UNCHANGED <<row, lock, od, applied, crashes>>
             /\ reg' = [reg EXCEPT ![t.x] = [status |-> "Pending", day |-> t.d, levels |-> t.levels]]
  <2>1. u = Idle
    BY <1>2, <1>a DEF RegInsert
  <2> QED
    BY <1>2, <2>1 DEF RegInsert, At, t, requests, traffic
<1>3. ASSUME StartActReg(w, Idle)
      PROVE  /\ DaysKept /\ t.pc = "idle" /\ reg[u.x].status \in OpenRequest
             /\ \/ u.pc = "reg_unlocked"
                \/ /\ u.pc = "reg_write" /\ u.to # "Approved"
                   /\ u.to = "ManagerApproved" => reg[u.x].levels # 1
  <2>1. PICK r \in Regs, to \in RequestStatus \ {"None", "Pending"} :
          /\ reg[r].status \in OpenRequest
          /\ to = "Approved" => reg[r].levels # 1
          /\ Begin(w, Idle, "act-reg",
                [Idle EXCEPT !.x = r, !.d = reg[r].day,
                             !.pc = IF Final(reg[r], to) THEN "reg_unlocked" ELSE "reg_write",
                             !.to = IF Final(reg[r], to) THEN "Approved" ELSE to])
    BY <1>3 DEF StartActReg
  <2> DEFINE nxt == IF Final(reg[r], to) THEN "reg_unlocked" ELSE "reg_write"
             res == IF Final(reg[r], to) THEN "Approved" ELSE to
  <2>2. u = [Idle EXCEPT !.x = r, !.d = reg[r].day, !.pc = nxt, !.to = res, !.op = "act-reg"] /\ t = Idle /\ DaysKept
    BY <2>1, <1>a DEF Begin, Idle, t, DaysKept
  <2>3. \/ nxt = "reg_unlocked"
        \/ nxt = "reg_write" /\ res # "Approved" /\ (res = "ManagerApproved" => reg[r].levels # 1)
    BY <2>1 DEF Final
  <2> HIDE DEF nxt, res
  <2>4. u.x = r /\ u.pc = nxt /\ u.to = res
    BY <2>2 DEF Idle
  <2> QED
    BY <1>0, <2>1, <2>2, <2>3, <2>4 DEF t
<1>4. ASSUME RegUnlocked(w, Idle)
      PROVE  /\ DaysKept /\ t.pc = "reg_unlocked"
             /\ u = Idle \/ (lock # "Locked" /\ Keeps(t, u) /\ u.pc = "reg_apply")
  <2>1. t.pc = "reg_unlocked" /\ DaysKept
    BY <1>4 DEF RegUnlocked, At, t, DaysKept, traffic
  <2>2. CASE lock = "Locked"
    BY <1>4, <1>a, <2>1, <2>2 DEF RegUnlocked
  <2>3. CASE lock # "Locked"
    <3>1. u = [t EXCEPT !.pc = "reg_apply"]
      BY <1>4, <1>b, <2>3 DEF RegUnlocked, Goto
    <3> QED
      BY <1>0, <1>c, <2>1, <2>3, <3>1 DEF TaskPCs, AttendancePCs
  <2> QED
    BY <2>2, <2>3
<1>5. ASSUME RegApply(w)
      PROVE  /\ t.pc = "reg_apply" /\ u.pc = "reg_write" /\ Keeps(t, u)
             /\ UNCHANGED <<lock, reg, od, crashes>> /\ applied' = applied \cup {t.x}
             /\ \E s \in Marks : row' = [row EXCEPT ![t.d] = Marked(@, s)]
  <2>1. u = [t EXCEPT !.pc = "reg_write"]
    BY <1>5, <1>b DEF RegApply, Goto
  <2>2. u.pc = "reg_write" /\ Keeps(t, u)
    BY <1>0, <1>c, <2>1 DEF TaskPCs, AttendancePCs
  <2> QED
    BY <1>5, <2>2 DEF RegApply, At, t, traffic
<1>6. ASSUME RegWrite(w, Idle)
      PROVE  /\ t.pc = "reg_write" /\ u = Idle /\ UNCHANGED <<row, lock, od, applied, crashes>>
             /\ reg' = [reg EXCEPT ![t.x].status = t.to]
  <2>1. u = Idle
    BY <1>6, <1>a DEF RegWrite
  <2> QED
    BY <1>6, <2>1 DEF RegWrite, At, t, requests, traffic
<1> QED
  BY <1>1, <1>2, <1>3, <1>4, <1>5, <1>6 DEF t, u

\* request_od and act_on_od.
LEMMA OdSteps ==
    ASSUME TypeOK, NEW w \in Workers, Fit(task[w])
    PROVE  /\ StartRequestOd(w, Idle) =>
               /\ DaysKept /\ task[w].pc = "idle" /\ task'[w].pc = "od_insert"
           /\ OdInsert(w, Idle) =>
               /\ task[w].pc = "od_insert" /\ task'[w] = Idle /\ od[task[w].x] = NoRequest
               /\ UNCHANGED <<row, lock, reg, applied, crashes>>
               /\ od' = [od EXCEPT ![task[w].x] = [status |-> "Pending", day |-> task[w].d, levels |-> task[w].levels]]
           /\ StartActOd(w, Idle) =>
               /\ DaysKept /\ task[w].pc = "idle" /\ od[task'[w].x].status \in OpenRequest
               /\ \/ task'[w].pc = "od_lock"
                  \/ /\ task'[w].pc = "od_write" /\ task'[w].to # "Approved"
                     /\ task'[w].to = "ManagerApproved" => od[task'[w].x].levels = 2
           /\ OdLock(w, Idle) =>
               /\ DaysKept /\ task[w].pc = "od_lock"
               /\ task'[w] = Idle \/ (lock # "Locked" /\ Keeps(task[w], task'[w]) /\ task'[w].pc = "od_write")
           /\ OdWrite(w, Idle) =>
               /\ task[w].pc = "od_write" /\ UNCHANGED <<row, lock, reg, applied, crashes>>
               /\ od' = [od EXCEPT ![task[w].x].status = task[w].to]
               /\ IF task[w].to = "Approved" THEN task'[w].pc = "od_apply" /\ Keeps(task[w], task'[w]) ELSE task'[w] = Idle
           /\ OdApply(w, Idle) =>
               /\ task[w].pc = "od_apply" /\ task'[w] = Idle /\ UNCHANGED <<lock, reg, od, crashes>>
               /\ row' = [row EXCEPT ![task[w].d] = Marked(@, "OnOD")] /\ applied' = applied \cup {task[w].x}
<1> DEFINE t == task[w]
           u == task'[w]
<1>0. /\ t \in Task /\ task \in [Workers -> Task] /\ Fit(t)
      /\ task[w] = Idle => t.pc = "idle"
  BY IdleTyped DEF TypeOK
<1>a. \A v : task' = [task EXCEPT ![w] = v] => u = v
  BY <1>0
<1>b. \A nxt : task' = [task EXCEPT ![w].pc = nxt] => u = [t EXCEPT !.pc = nxt]
  BY <1>0
<1>c. \A v \in Task, nxt \in TaskPCs : LET z == [v EXCEPT !.pc = nxt]
                              IN  z.pc = nxt /\ Keeps(v, z) /\ z.n = v.n /\ z.todo = v.todo /\ z.saw = v.saw
                                  /\ z.b = v.b /\ z.plan = v.plan /\ z.base = v.base
  BY Moved DEF Keeps
<1> HIDE DEF t, u
<1>1. ASSUME StartRequestOd(w, Idle)
      PROVE  /\ DaysKept /\ t.pc = "idle" /\ u.pc = "od_insert"
  <2>1. PICK o \in Ods, d \in Dates, n \in OdLevels :
          Begin(w, Idle, "request-od", [Idle EXCEPT !.pc = "od_insert", !.x = o, !.d = d, !.levels = n])
    BY <1>1 DEF StartRequestOd
  <2>2. u = [Idle EXCEPT !.pc = "od_insert", !.x = o, !.d = d, !.levels = n, !.op = "request-od"] /\ t = Idle /\ DaysKept
    BY <2>1, <1>a DEF Begin, Idle, t, DaysKept
  <2>3. u.pc = "od_insert"
    BY <2>2 DEF Idle
  <2> QED
    BY <1>0, <2>1, <2>2, <2>3 DEF t
<1>2. ASSUME OdInsert(w, Idle)
      PROVE  /\ t.pc = "od_insert" /\ u = Idle /\ od[t.x] = NoRequest
             /\ UNCHANGED <<row, lock, reg, applied, crashes>>
             /\ od' = [od EXCEPT ![t.x] = [status |-> "Pending", day |-> t.d, levels |-> t.levels]]
  <2>1. u = Idle
    BY <1>2, <1>a DEF OdInsert
  <2> QED
    BY <1>2, <2>1 DEF OdInsert, At, t, requests, traffic
<1>3. ASSUME StartActOd(w, Idle)
      PROVE  /\ DaysKept /\ t.pc = "idle" /\ od[u.x].status \in OpenRequest
             /\ \/ u.pc = "od_lock"
                \/ /\ u.pc = "od_write" /\ u.to # "Approved"
                   /\ u.to = "ManagerApproved" => od[u.x].levels = 2
  <2>1. PICK o \in Ods, approved \in BOOLEAN :
          /\ od[o].status \in OpenRequest
          /\ LET first == od[o].levels = 2 /\ od[o].status = "Pending"
             IN  Begin(w, Idle, "act-od",
                   [Idle EXCEPT !.x = o, !.d = od[o].day,
                                !.pc = IF approved /\ ~first THEN "od_lock" ELSE "od_write",
                                !.to = CASE ~approved -> "Refused"
                                         [] approved /\ first -> "ManagerApproved"
                                         [] OTHER -> "Approved"])
    BY <1>3 DEF StartActOd
  <2> DEFINE first == od[o].levels = 2 /\ od[o].status = "Pending"
             nxt == IF approved /\ ~first THEN "od_lock" ELSE "od_write"
             res == CASE ~approved -> "Refused" [] approved /\ first -> "ManagerApproved" [] OTHER -> "Approved"
  <2>2. u = [Idle EXCEPT !.x = o, !.d = od[o].day, !.pc = nxt, !.to = res, !.op = "act-od"] /\ t = Idle /\ DaysKept
    BY <2>1, <1>a DEF Begin, Idle, t, DaysKept
  <2>3. nxt \in {"od_lock", "od_write"} /\ (nxt = "od_write" => ~approved \/ first)
    OBVIOUS
  <2>4. (~approved => res = "Refused") /\ (approved /\ first => res = "ManagerApproved")
    OBVIOUS
  <2>5. \/ nxt = "od_lock"
        \/ nxt = "od_write" /\ res # "Approved" /\ (res = "ManagerApproved" => od[o].levels = 2)
    <3> HIDE DEF nxt, res
    <3> QED
      BY <2>3, <2>4
  <2> HIDE DEF nxt, res
  <2>6. u.x = o /\ u.pc = nxt /\ u.to = res
    BY <2>2 DEF Idle
  <2> QED
    BY <1>0, <2>1, <2>2, <2>5, <2>6 DEF t
<1>4. ASSUME OdLock(w, Idle)
      PROVE  /\ DaysKept /\ t.pc = "od_lock"
             /\ u = Idle \/ (lock # "Locked" /\ Keeps(t, u) /\ u.pc = "od_write")
  <2>1. t.pc = "od_lock" /\ DaysKept
    BY <1>4 DEF OdLock, At, t, DaysKept, traffic
  <2>2. CASE lock = "Locked"
    BY <1>4, <1>a, <2>1, <2>2 DEF OdLock
  <2>3. CASE lock # "Locked"
    <3>1. u = [t EXCEPT !.pc = "od_write"]
      BY <1>4, <1>b, <2>3 DEF OdLock, Goto
    <3> QED
      BY <1>0, <1>c, <2>1, <2>3, <3>1 DEF TaskPCs, AttendancePCs
  <2> QED
    BY <2>2, <2>3
<1>5. ASSUME OdWrite(w, Idle)
      PROVE  /\ t.pc = "od_write" /\ UNCHANGED <<row, lock, reg, applied, crashes>>
             /\ od' = [od EXCEPT ![t.x].status = t.to]
             /\ IF t.to = "Approved" THEN u.pc = "od_apply" /\ Keeps(t, u) ELSE u = Idle
  <2>1. CASE t.to = "Approved"
    <3>1. u = [t EXCEPT !.pc = "od_apply"]
      BY <1>5, <1>b, <2>1 DEF OdWrite, Goto, t
    <3>2. u.pc = "od_apply" /\ Keeps(t, u)
      BY <1>0, <1>c, <3>1 DEF TaskPCs, AttendancePCs
    <3> QED
      BY <1>5, <2>1, <3>2 DEF OdWrite, At, t, traffic
  <2>2. CASE t.to # "Approved"
    BY <1>5, <1>a, <2>2 DEF OdWrite, At, t, traffic
  <2> QED
    BY <2>1, <2>2
<1>6. ASSUME OdApply(w, Idle)
      PROVE  /\ t.pc = "od_apply" /\ u = Idle /\ UNCHANGED <<lock, reg, od, crashes>>
             /\ row' = [row EXCEPT ![t.d] = Marked(@, "OnOD")] /\ applied' = applied \cup {t.x}
  <2>1. u = Idle
    BY <1>6, <1>a DEF OdApply
  <2> QED
    BY <1>6, <2>1 DEF OdApply, At, t, requests, traffic
<1> QED
  BY <1>1, <1>2, <1>3, <1>4, <1>5, <1>6 DEF t, u

-----------------------------------------------------------------------------
(* The month                                                                *)

ReadsMonth == {"day_write", "undo_row"}
ReadsRequests == {"reg_unlocked", "reg_apply", "reg_write", "od_lock", "od_write", "od_apply"}

\* Locking or unlocking a month changes nothing of a row but its lock.
LEMMA RowsTyped ==
    ASSUME TypeOK, NEW locked \in BOOLEAN
    PROVE  \A d \in Dates : /\ Rows(locked)[d].status = row[d].status /\ Rows(locked)[d].ref = row[d].ref
                            /\ Rows(locked)[d].pre = row[d].pre
<1>1. \A d \in Dates : row[d] \in Row
  BY DEF TypeOK, DayTypeOK
<1>2. ASSUME NEW r \in Row
      PROVE  LET z == [r EXCEPT !.locked = locked]
             IN  z.status = r.status /\ z.ref = r.ref /\ z.pre = r.pre
  BY DEF Row
<1> QED
  BY <1>1, <1>2 DEF Rows

\* An attendance handler keeps its part of the invariant and, unless days are marked On
\* Leave by hand, the ownership of those shown so.
LEMMA AttendanceKept ==
    ASSUME TypeOK, NEW w \in Workers, Fit(task[w]), SeesRequests(task[w]),
           RequestsDone(task[w]), AttendanceStep(w, Idle), UNCHANGED leaveVars
    PROVE  /\ SeesMonth(task[w])' /\ SeesRequests(task[w])' /\ RequestsDone(task[w])'
           /\ DaysOwned(task[w]) /\ "OnLeave" \notin Marks => DaysOwned(task[w])'
<1> DEFINE t == task[w]
           u == task'[w]
           Done == /\ SeesMonth(task[w])' /\ SeesRequests(task[w])' /\ RequestsDone(task[w])'
                   /\ DaysOwned(task[w]) /\ "OnLeave" \notin Marks => DaysOwned(task[w])'
           SameDays == \A d \in Dates : /\ row'[d].pre = row[d].pre /\ row'[d].ref = row[d].ref
                                        /\ row'[d].status = "OnLeave" => row[d].status = "OnLeave"
           Applied(v) == /\ \A r \in Regs : r \in applied' <=>
                              reg'[r].status = "Approved" \/ (v.pc = "reg_write" /\ v.to = "Approved" /\ v.x = r)
                         /\ \A o \in Ods : o \in applied' <=>
                              od'[o].status = "Approved" /\ ~(v.pc = "od_apply" /\ v.x = o)
           Levels == /\ \A r \in Regs : reg'[r].levels = 1 => reg'[r].status # "ManagerApproved"
                     /\ \A o \in Ods : od'[o].levels # 2 => od'[o].status # "ManagerApproved"
<1>0. /\ TypeOK' /\ crashes' = crashes /\ Fit(t) /\ Fit(u)
      /\ t.pc \in AttendancePCs /\ u.pc \in AttendancePCs /\ leave' = leave /\ stuck' = stuck
      /\ t \in Task /\ u \in Task
  BY AttendanceTyped DEF TypeOK, leaveVars
<1>1. /\ row \in [Dates -> Row] /\ reg \in [Regs -> Request] /\ od \in [Ods -> Request]
      /\ lock \in {"Open", "Locked"} /\ \A d \in Dates : row[d] \in Row
  BY DEF TypeOK, DayTypeOK
<1>2. Fit(task[w]) /\ SeesRequests(t) /\ RequestsDone(t)
  OBVIOUS
<1>3. SeesMonth(task[w])'
  BY <1>0 DEF SeesMonth, AttendancePCs
<1>4. ASSUME u.pc \notin ReadsRequests PROVE SeesRequests(task[w])'
  BY <1>4 DEF SeesRequests, ReadsRequests
<1>5. ASSUME Levels, crashes = 0 => Applied(u) PROVE RequestsDone(task[w])'
  BY <1>0, <1>5 DEF RequestsDone
<1>6. ASSUME UNCHANGED requests, t.pc \notin {"reg_write", "od_apply"}, u.pc # "od_apply",
             u.pc = "reg_write" => u.to # "Approved"
      PROVE  RequestsDone(task[w])'
  BY <1>0, <1>2, <1>6 DEF RequestsDone, requests
<1>7. ASSUME SameDays, DaysOwned(task[w]) PROVE DaysOwned(task[w])'
  <2>1. ~Marking(t) /\ t.pc \notin {"undo_read", "undo_row"}
    BY <1>0 DEF Marking, MarkPCs, AttendancePCs
  <2>2. ASSUME NEW d \in Dates, Owned(t, d) PROVE Owned(task[w], d)'
    BY <1>0, <1>7, <2>1, <2>2 DEF Owned, Days
  <2> QED
    BY <1>0, <1>7, <2>2 DEF DaysOwned, Kept
<1>8. row' = row => SameDays
  OBVIOUS
<1>9. ASSUME SameDays, SeesRequests(task[w])', RequestsDone(task[w])' PROVE Done
  BY <1>3, <1>7, <1>9
<1>10. ASSUME "OnLeave" \notin Marks => SameDays, SeesRequests(task[w])', RequestsDone(task[w])'
       PROVE  Done
  BY <1>3, <1>7, <1>10
<1>11. Idle.pc = "idle" /\ "idle" \notin ReadsRequests
  BY IdleTyped DEF ReadsRequests
<1>13. ASSUME NEW s \in DayStatus, \A d \in Dates : d # t.d => row'[d] = row[d],
              t.d \in Dates => row'[t.d].status = s /\ row'[t.d].ref = row[t.d].ref /\ row'[t.d].pre = row[t.d].pre,
              s # "OnLeave"
       PROVE  SameDays
  BY <1>13
<1> SUFFICES Done
  OBVIOUS
<1> HIDE DEF t, u, Done, SameDays, Applied, Levels
<1>14. CASE StartMark(w, Idle)
  <2>1. /\ DaysKept /\ t.pc \notin {"reg_write", "od_apply"} /\ u.pc \notin ReadsRequests
    BY <1>14, <1>2, <1>11, DaySteps DEF t, u, ReadsRequests
  <2>2. u.pc \notin {"reg_write", "od_apply"}
    BY <2>1 DEF ReadsRequests
  <2> QED
    BY <1>4, <1>6, <1>8, <1>9, <2>1, <2>2 DEF DaysKept
<1>15. CASE StartRequestReg(w, Idle)
  <2>1. /\ DaysKept /\ t.pc \notin {"reg_write", "od_apply"} /\ u.pc \notin ReadsRequests
    BY <1>15, <1>2, <1>11, RegSteps DEF t, u, ReadsRequests
  <2>2. u.pc \notin {"reg_write", "od_apply"}
    BY <2>1 DEF ReadsRequests
  <2> QED
    BY <1>4, <1>6, <1>8, <1>9, <2>1, <2>2 DEF DaysKept
<1>16. CASE MonthCheck(w, Idle)
  <2>1. DaysKept /\ t.pc = "month_check" /\ (u = Idle \/ (lock # "Locked" /\ Keeps(t, u) /\ u.pc \in {"mark_write", "reg_insert"}))
    BY <1>16, <1>2, DaySteps DEF t, u
  <2>2. SeesRequests(task[w])'
    BY <1>0, <1>2, <1>11, <2>1 DEF SeesRequests, ReadsRequests, Fit, FitDay, Keeps, DaysKept,
       requests, u
  <2>3. t.pc \notin {"reg_write", "od_apply"} /\ u.pc \notin {"reg_write", "od_apply"}
    BY <1>11, <2>1 DEF ReadsRequests
  <2> QED
    BY <1>6, <1>8, <1>9, <2>1, <2>2, <2>3 DEF DaysKept
<1>17. CASE MarkWrite(w, Idle)
  <2>1. /\ t.pc = "mark_write" /\ u = Idle /\ UNCHANGED <<lock, requests, crashes>>
        /\ row' = [row EXCEPT ![t.d] = Recorded(@, t.to)]
    BY <1>17, <1>2, DaySteps DEF t, u
  <2>2. t.to \in Marks
    BY <1>0, <1>2, <2>1 DEF Fit, FitDay
  <2>3. "OnLeave" \notin Marks => SameDays
    <3>1. \A d \in Dates : d # t.d => row'[d] = row[d]
      BY <1>1, <2>1
    <3>2. ASSUME NEW r \in Row
          PROVE  LET z == Recorded(r, t.to)
                 IN  z.status = t.to /\ z.ref = r.ref /\ z.pre = r.pre
      BY DEF Recorded, Marked, Row
    <3>3. t.d \in Dates => row'[t.d].status = t.to /\ row'[t.d].ref = row[t.d].ref /\ row'[t.d].pre = row[t.d].pre
      BY <1>1, <2>1, <3>2
    <3> QED
      BY <1>13, <2>2, <3>1, <3>3 DEF DayStatus
  <2> QED
    BY <1>4, <1>6, <1>10, <1>11, <2>1, <2>3
<1>18. CASE RegInsert(w, Idle)
  <2>1. /\ t.pc = "reg_insert" /\ u = Idle /\ reg[t.x] = NoRequest /\ UNCHANGED <<row, lock, od, applied, crashes>>
        /\ reg' = [reg EXCEPT ![t.x] = [status |-> "Pending", day |-> t.d, levels |-> t.levels]]
    BY <1>18, <1>2, RegSteps DEF t, u
  <2>2. t.x \in Regs /\ reg[t.x].status = "None"
    BY <1>0, <2>1 DEF Fit, FitDay, NoRequest
  <2>3. reg'[t.x].status = "Pending" /\ \A r \in Regs : r # t.x => reg'[r] = reg[r]
    BY <1>1, <2>1, <2>2
  <2>4. Levels
    BY <1>2, <2>1, <2>3 DEF Levels, RequestsDone
  <2>5. crashes = 0 => Applied(u)
    BY <1>2, <1>11, <2>1, <2>2, <2>3 DEF Applied, RequestsDone
  <2> QED
    BY <1>4, <1>5, <1>8, <1>9, <1>11, <2>1, <2>4, <2>5
<1>19. CASE StartActReg(w, Idle)
  <2>1. /\ DaysKept /\ t.pc = "idle" /\ reg[u.x].status \in OpenRequest
        /\ \/ u.pc = "reg_unlocked"
           \/ /\ u.pc = "reg_write" /\ u.to # "Approved"
              /\ u.to = "ManagerApproved" => reg[u.x].levels # 1
    BY <1>19, <1>2, RegSteps DEF t, u
  <2>2. SeesRequests(task[w])'
    BY <2>1 DEF SeesRequests, DaysKept, requests, u
  <2>3. RequestsDone(task[w])'
    BY <1>6, <2>1 DEF DaysKept
  <2> QED
    BY <1>8, <1>9, <2>1, <2>2, <2>3 DEF DaysKept
<1>20. CASE RegUnlocked(w, Idle)
  <2>1. DaysKept /\ t.pc = "reg_unlocked" /\ (u = Idle \/ (lock # "Locked" /\ Keeps(t, u) /\ u.pc \in {"reg_apply"}))
    BY <1>20, <1>2, RegSteps DEF t, u
  <2>2. SeesRequests(task[w])'
    BY <1>0, <1>2, <1>11, <2>1 DEF SeesRequests, ReadsRequests, Fit, FitDay, Keeps, DaysKept,
       requests, u
  <2>3. t.pc \notin {"reg_write", "od_apply"} /\ u.pc \notin {"reg_write", "od_apply"}
    BY <1>11, <2>1 DEF ReadsRequests
  <2> QED
    BY <1>6, <1>8, <1>9, <2>1, <2>2, <2>3 DEF DaysKept
<1>21. CASE RegApply(w)
  <2>1. PICK s \in Marks :
          /\ t.pc = "reg_apply" /\ u.pc = "reg_write" /\ Keeps(t, u)
          /\ UNCHANGED <<lock, reg, od, crashes>> /\ applied' = applied \cup {t.x}
          /\ row' = [row EXCEPT ![t.d] = Marked(@, s)]
    BY <1>21, <1>2, RegSteps DEF t, u
  <2>2. t.x \in Regs /\ t.to = "Approved"
    BY <1>0, <1>2, <2>1 DEF Fit, FitDay
  <2>3. "OnLeave" \notin Marks => SameDays
    <3>1. \A d \in Dates : d # t.d => row'[d] = row[d]
      BY <1>1, <2>1
    <3>2. ASSUME NEW r \in Row
          PROVE  Marked(r, s).status = s /\ Marked(r, s).ref = r.ref /\ Marked(r, s).pre = r.pre
      BY DEF Marked, Row
    <3>3. t.d \in Dates => row'[t.d].status = s /\ row'[t.d].ref = row[t.d].ref /\ row'[t.d].pre = row[t.d].pre
      BY <1>1, <2>1, <3>2
    <3> QED
      BY <1>13, <3>1, <3>3 DEF DayStatus
  <2>4. Levels
    BY <1>2, <2>1 DEF Levels, RequestsDone
  <2>5. crashes = 0 => Applied(u)
    <3>1. \A o \in Ods : o # t.x
      BY <2>2, AttendanceAssumption
    <3> QED
      BY <1>2, <2>1, <2>2, <3>1 DEF Applied, RequestsDone, Keeps
  <2>6. SeesRequests(task[w])'
    BY <1>2, <2>1, <2>2 DEF SeesRequests, Keeps, u
  <2> QED
    BY <1>5, <1>10, <2>3, <2>4, <2>5, <2>6
<1>22. CASE RegWrite(w, Idle)
  <2>1. /\ t.pc = "reg_write" /\ u = Idle /\ UNCHANGED <<row, lock, od, applied, crashes>>
        /\ reg' = [reg EXCEPT ![t.x].status = t.to]
    BY <1>22, <1>2, RegSteps DEF t, u
  <2>2. /\ t.x \in Regs /\ reg[t.x].status \in OpenRequest
        /\ t.to = "ManagerApproved" => reg[t.x].levels # 1
    BY <1>0, <1>2, <2>1 DEF Fit, FitDay, SeesRequests
  <2>3. /\ reg'[t.x].status = t.to /\ reg'[t.x].levels = reg[t.x].levels
        /\ \A r \in Regs : r # t.x => reg'[r] = reg[r]
    BY <1>1, <2>1, <2>2 DEF Request
  <2>4. Levels
    BY <1>2, <2>1, <2>2, <2>3 DEF Levels, RequestsDone
  <2>5. crashes = 0 => Applied(u)
    BY <1>2, <1>11, <2>1, <2>2, <2>3 DEF Applied, RequestsDone, OpenRequest
  <2> QED
    BY <1>4, <1>5, <1>8, <1>9, <1>11, <2>1, <2>4, <2>5
<1>23. CASE StartRequestOd(w, Idle)
  <2>1. /\ DaysKept /\ t.pc \notin {"reg_write", "od_apply"} /\ u.pc \notin ReadsRequests
    BY <1>23, <1>2, <1>11, OdSteps DEF t, u, ReadsRequests
  <2>2. u.pc \notin {"reg_write", "od_apply"}
    BY <2>1 DEF ReadsRequests
  <2> QED
    BY <1>4, <1>6, <1>8, <1>9, <2>1, <2>2 DEF DaysKept
<1>24. CASE OdInsert(w, Idle)
  <2>1. /\ t.pc = "od_insert" /\ u = Idle /\ od[t.x] = NoRequest /\ UNCHANGED <<row, lock, reg, applied, crashes>>
        /\ od' = [od EXCEPT ![t.x] = [status |-> "Pending", day |-> t.d, levels |-> t.levels]]
    BY <1>24, <1>2, OdSteps DEF t, u
  <2>2. t.x \in Ods /\ od[t.x].status = "None"
    BY <1>0, <2>1 DEF Fit, FitDay, NoRequest
  <2>3. od'[t.x].status = "Pending" /\ \A o \in Ods : o # t.x => od'[o] = od[o]
    BY <1>1, <2>1, <2>2
  <2>4. Levels
    BY <1>2, <2>1, <2>3 DEF Levels, RequestsDone
  <2>5. crashes = 0 => Applied(u)
    BY <1>2, <1>11, <2>1, <2>2, <2>3 DEF Applied, RequestsDone
  <2> QED
    BY <1>4, <1>5, <1>8, <1>9, <1>11, <2>1, <2>4, <2>5
<1>25. CASE StartActOd(w, Idle)
  <2>1. /\ DaysKept /\ t.pc = "idle" /\ od[u.x].status \in OpenRequest
        /\ \/ u.pc = "od_lock"
           \/ /\ u.pc = "od_write" /\ u.to # "Approved"
              /\ u.to = "ManagerApproved" => od[u.x].levels = 2
    BY <1>25, <1>2, OdSteps DEF t, u
  <2>2. SeesRequests(task[w])'
    BY <2>1 DEF SeesRequests, DaysKept, requests, u
  <2>3. RequestsDone(task[w])'
    BY <1>6, <2>1 DEF DaysKept
  <2> QED
    BY <1>8, <1>9, <2>1, <2>2, <2>3 DEF DaysKept
<1>26. CASE OdLock(w, Idle)
  <2>1. DaysKept /\ t.pc = "od_lock" /\ (u = Idle \/ (lock # "Locked" /\ Keeps(t, u) /\ u.pc \in {"od_write"}))
    BY <1>26, <1>2, OdSteps DEF t, u
  <2>2. SeesRequests(task[w])'
    BY <1>0, <1>2, <1>11, <2>1 DEF SeesRequests, ReadsRequests, Fit, FitDay, Keeps, DaysKept,
       requests, u
  <2>3. t.pc \notin {"reg_write", "od_apply"} /\ u.pc \notin {"reg_write", "od_apply"}
    BY <1>11, <2>1 DEF ReadsRequests
  <2> QED
    BY <1>6, <1>8, <1>9, <2>1, <2>2, <2>3 DEF DaysKept
<1>27. CASE OdWrite(w, Idle)
  <2>1. /\ t.pc = "od_write" /\ UNCHANGED <<row, lock, reg, applied, crashes>>
        /\ od' = [od EXCEPT ![t.x].status = t.to]
        /\ IF t.to = "Approved" THEN u.pc = "od_apply" /\ Keeps(t, u) ELSE u = Idle
    BY <1>27, <1>2, OdSteps DEF t, u
  <2>2. /\ t.x \in Ods /\ od[t.x].status \in OpenRequest
        /\ t.to = "ManagerApproved" => od[t.x].levels = 2
    BY <1>0, <1>2, <2>1 DEF Fit, FitDay, SeesRequests
  <2>3. /\ od'[t.x].status = t.to /\ od'[t.x].levels = od[t.x].levels
        /\ \A o \in Ods : o # t.x => od'[o] = od[o]
    BY <1>1, <2>1, <2>2 DEF Request
  <2>4. Levels
    BY <1>2, <2>1, <2>2, <2>3 DEF Levels, RequestsDone
  <2>5. crashes = 0 => Applied(u)
    BY <1>2, <1>11, <2>1, <2>2, <2>3 DEF Applied, RequestsDone, OpenRequest, Keeps
  <2>6. SeesRequests(task[w])'
    BY <1>11, <2>1, <2>3 DEF SeesRequests, Keeps, u
  <2> QED
    BY <1>5, <1>8, <1>9, <2>1, <2>4, <2>5, <2>6
<1>28. CASE OdApply(w, Idle)
  <2>1. /\ t.pc = "od_apply" /\ u = Idle /\ UNCHANGED <<lock, reg, od, crashes>>
        /\ row' = [row EXCEPT ![t.d] = Marked(@, "OnOD")] /\ applied' = applied \cup {t.x}
    BY <1>28, <1>2, OdSteps DEF t, u
  <2>2. t.x \in Ods /\ od[t.x].status = "Approved"
    BY <1>0, <1>2, <2>1 DEF Fit, FitDay, SeesRequests
  <2>3. SameDays
    <3>1. \A d \in Dates : d # t.d => row'[d] = row[d]
      BY <1>1, <2>1
    <3>2. ASSUME NEW r \in Row
          PROVE  Marked(r, "OnOD").status = "OnOD" /\ Marked(r, "OnOD").ref = r.ref /\ Marked(r, "OnOD").pre = r.pre
      BY DEF Marked, Row
    <3>3. t.d \in Dates => row'[t.d].status = "OnOD" /\ row'[t.d].ref = row[t.d].ref /\ row'[t.d].pre = row[t.d].pre
      BY <1>1, <2>1, <3>2
    <3> QED
      BY <1>13, <3>1, <3>3 DEF DayStatus
  <2>4. Levels
    BY <1>2, <2>1 DEF Levels, RequestsDone
  <2>5. crashes = 0 => Applied(u)
    <3>1. \A r \in Regs : r # t.x
      BY <2>2, AttendanceAssumption
    <3> QED
      BY <1>2, <1>11, <2>1, <2>2, <3>1 DEF Applied, RequestsDone
  <2> QED
    BY <1>4, <1>5, <1>9, <1>11, <2>1, <2>3, <2>4, <2>5
<1>29. CASE StartLock(w, Idle)
  <2>1. /\ DaysKept /\ t.pc \notin {"reg_write", "od_apply"} /\ u.pc \notin ReadsRequests
    BY <1>29, <1>2, <1>11, DaySteps DEF t, u, ReadsRequests
  <2>2. u.pc \notin {"reg_write", "od_apply"}
    BY <2>1 DEF ReadsRequests
  <2> QED
    BY <1>4, <1>6, <1>8, <1>9, <2>1, <2>2 DEF DaysKept
<1>30. CASE LockWrite(w, Idle)
  <2>1. UNCHANGED <<row, requests, crashes>> /\ t.pc = "lock_write" /\ u.pc = "lock_rows"
    BY <1>30, <1>2, DaySteps DEF t, u
  <2>2. u.pc \notin ReadsRequests
    BY <2>1 DEF ReadsRequests
  <2> QED
    BY <1>4, <1>6, <1>8, <1>9, <2>1, <2>2
<1>31. CASE LockRows(w, Idle)
  <2>1. t.pc = "lock_rows" /\ u = Idle /\ UNCHANGED <<lock, requests, crashes>> /\ row' = Rows(TRUE)
    BY <1>31, <1>2, DaySteps DEF t, u
  <2>2. SameDays
    BY <2>1, RowsTyped DEF SameDays
  <2> QED
    BY <1>4, <1>6, <1>9, <1>11, <2>1, <2>2
<1>32. CASE UnlockRows(w, Idle)
  <2>1. t.pc = "unlock_rows" /\ u = Idle /\ UNCHANGED <<lock, requests, crashes>> /\ row' = Rows(FALSE)
    BY <1>32, <1>2, DaySteps DEF t, u
  <2>2. SameDays
    BY <2>1, RowsTyped DEF SameDays
  <2> QED
    BY <1>4, <1>6, <1>9, <1>11, <2>1, <2>2
<1>33. CASE StartUnlock(w, Idle)
  <2>1. /\ DaysKept /\ t.pc \notin {"reg_write", "od_apply"} /\ u.pc \notin ReadsRequests
    BY <1>33, <1>2, <1>11, DaySteps DEF t, u, ReadsRequests
  <2>2. u.pc \notin {"reg_write", "od_apply"}
    BY <2>1 DEF ReadsRequests
  <2> QED
    BY <1>4, <1>6, <1>8, <1>9, <2>1, <2>2 DEF DaysKept
<1>34. CASE UnlockWrite(w)
  <2>1. UNCHANGED <<row, requests, crashes>> /\ t.pc = "unlock_write" /\ u.pc = "unlock_rows" /\ lock' = "Open"
    BY <1>34, <1>2, DaySteps DEF t, u
  <2>2. u.pc \notin ReadsRequests
    BY <2>1 DEF ReadsRequests
  <2> QED
    BY <1>4, <1>6, <1>8, <1>9, <2>1, <2>2
<1>35. CASE ClockStep(w)
  <2>1. /\ t.pc \in ClockPCs \cup {"idle"} /\ u.pc \in ClockPCs \cup {"idle"}
        /\ UNCHANGED <<lock, requests, crashes>>
        /\ row' = row \/ \E d \in Dates, s \in Marks, r \in Row : StatusOnly(d, s, r)
    BY <1>2, <1>35, ClockSteps DEF t, u
  <2>2. /\ t.pc \notin {"reg_write", "od_apply"} /\ u.pc \notin {"reg_write", "od_apply"}
        /\ u.pc \notin ReadsRequests
    BY <2>1 DEF ClockPCs, ReadsRequests
  <2>3. "OnLeave" \notin Marks => SameDays
    <3>1. ASSUME NEW d \in Dates, NEW s \in Marks, NEW r \in Row, StatusOnly(d, s, r), "OnLeave" \notin Marks
          PROVE  SameDays
      BY <1>1, <3>1 DEF StatusOnly, SameDays
    <3> QED
      BY <1>8, <2>1, <3>1
  <2> QED
    BY <1>4, <1>6, <1>10, <2>1, <2>2, <2>3
<1> QED
  BY <1>14, <1>15, <1>16, <1>17, <1>18, <1>19, <1>20, <1>21, <1>22, <1>23, <1>24, <1>25, <1>26,
     <1>27, <1>28, <1>29, <1>30, <1>31, <1>32, <1>33, <1>34, <1>35
     DEF AttendanceStep, ClockStep

\* The leave handlers write the rows they read, and never take over the day of another
\* leave: no two leaves that count share a date.
LEMMA LeaveKept ==
    ASSUME TypeOK, NEW w \in Workers, Fit(task[w]), SeesMonth(task[w]), SeesLeave(task[w]),
           SeesBooks(task[w]), BatchesHold(task[w]), Apart, RequestsDone(task[w]), LeaveStep(w)
    PROVE  /\ SeesMonth(task[w])' /\ SeesRequests(task[w])' /\ RequestsDone(task[w])'
           /\ DaysOwned(task[w]) => DaysOwned(task[w])'
<1> DEFINE t == task[w]
           u == task'[w]
           Done == /\ SeesMonth(task[w])' /\ SeesRequests(task[w])' /\ RequestsDone(task[w])'
                   /\ DaysOwned(task[w]) => DaysOwned(task[w])'
           Apply(v) == v.pc \in LeavePCs \cup {"idle"}
           Aside(v) == ~Marking(v) /\ v.pc \notin {"undo_read", "undo_row"}
<1>0. TypeOK' /\ crashes' = crashes /\ t \in Task /\ u \in Task /\ Fit(t) /\ Fit(u)
  BY LeaveTyped DEF TypeOK
<1>1. /\ leave \in [Leaves -> LeaveDoc] /\ leave' \in [Leaves -> LeaveDoc]
      /\ row \in [Dates -> Row] /\ \A d \in Dates : row[d] \in Row
  BY <1>0 DEF TypeOK, DayTypeOK
<1>2. Fit(task[w]) /\ SeesMonth(t) /\ SeesLeave(t) /\ RequestsDone(t) /\ Apart
  OBVIOUS
<1>3. ASSUME u.pc \notin ReadsMonth PROVE SeesMonth(task[w])'
  BY <1>3 DEF SeesMonth, ReadsMonth
<1>4. ASSUME t.pc \notin ReadsRequests, u.pc \notin ReadsRequests, reg' = reg, od' = od,
             applied' = applied \/ (applied' = applied \cup {t.x} /\ t.x \in Leaves)
      PROVE  SeesRequests(task[w])' /\ RequestsDone(task[w])'
  <2>1. SeesRequests(task[w])'
    BY <1>4 DEF SeesRequests, ReadsRequests
  <2>2. \A x \in Regs \cup Ods : x \in applied' <=> x \in applied
    BY <1>4, AttendanceAssumption
  <2>3. t.pc # "reg_write" /\ t.pc # "od_apply" /\ u.pc # "reg_write" /\ u.pc # "od_apply"
    BY <1>4 DEF ReadsRequests
  <2>4. RequestsDone(task[w])'
    BY <1>0, <1>2, <1>4, <2>2, <2>3 DEF RequestsDone
  <2> QED
    BY <2>1, <2>4
<1>6. ASSUME stuck \subseteq stuck',
             \A d \in Dates : \/ row'[d] = row[d]
                              \/ /\ row'[d].pre = "OnLeave" => Kept(d)
                                 /\ row'[d].status = "OnLeave" => Kept(d) \/ Owned(task[w], d)',
             \A d \in Dates : row'[d] = row[d] /\ Owned(t, d) => Owned(task[w], d)' \/ Kept(d)'
      PROVE  DaysOwned(task[w]) => DaysOwned(task[w])'
  <2>1. \A d \in Dates : Kept(d) => Kept(d)'
    BY <1>6 DEF Kept
  <2> QED
    BY <1>0, <1>6, <2>1 DEF DaysOwned
<1>7. ASSUME stuck' = stuck, row' = row, \A d \in Dates : Owned(t, d) => Owned(task[w], d)'
      PROVE  DaysOwned(task[w]) => DaysOwned(task[w])'
  BY <1>6, <1>7
\* A leave that was not the request's own stays as it was.
<1>8. ASSUME Aside(t), row' = row,
             \A l \in Leaves : leave[l].status = "Approved" =>
               /\ leave'[l].from = leave[l].from /\ leave'[l].to = leave[l].to
               /\ leave'[l].status = "Approved" \/ (u.x = l /\ u.pc = "undo_read")
      PROVE  \A d \in Dates : Owned(t, d) => Owned(task[w], d)'
  <2> SUFFICES ASSUME NEW d \in Dates, Owned(t, d) PROVE Owned(task[w], d)'
    OBVIOUS
  <2>1. /\ row[d].ref \in Leaves /\ d \in Days(leave[row[d].ref])
        /\ leave[row[d].ref].status = "Approved"
    BY <1>8 DEF Owned
  <2>2. /\ Days(leave'[row[d].ref]) = Days(leave[row[d].ref])
        /\ leave'[row[d].ref].status = "Approved" \/ (u.x = row[d].ref /\ u.pc = "undo_read")
    BY <1>8, <2>1 DEF Days
  <2> QED
    BY <1>8, <2>1, <2>2 DEF Owned, u
<1>9. ASSUME row' = row, leave' = leave, Keeps(t, u),
             Marking(t) => Marking(u), t.pc = "undo_read" => FALSE, t.pc = "undo_row" => t.todo = {}
      PROVE  \A d \in Dates : Owned(t, d) => Owned(task[w], d)'
  <2> SUFFICES ASSUME NEW d \in Dates, Owned(t, d) PROVE Owned(task[w], d)'
    OBVIOUS
  <2>1. /\ row[d].ref \in Leaves /\ d \in Days(leave[row[d].ref])
        /\ leave[row[d].ref].status = "Approved" \/ (u.x = row[d].ref /\ Marking(u))
    BY <1>9 DEF Owned, Keeps
  <2> QED
    BY <1>9, <2>1 DEF Owned, u, Days, Marking
<1>10. Idle.pc = "idle"
  BY IdleTyped
<1>11. ASSUME SeesMonth(task[w])', SeesRequests(task[w])' /\ RequestsDone(task[w])',
              DaysOwned(task[w]) => DaysOwned(task[w])'
       PROVE  Done
  BY <1>11
<1>12. ASSUME Apply(t), Apply(u) PROVE t.pc \notin ReadsRequests /\ u.pc \notin ReadsRequests
  BY <1>12 DEF LeavePCs, ReadsRequests
<1> SUFFICES Done
  OBVIOUS
<1> HIDE DEF t, u, Done, Apply, Aside
<1>13. CASE StartApply(w)
  <2>1. /\ UNCHANGED <<row, requests, leave, stuck>> /\ Apply(t) /\ Apply(u)
        /\ Aside(t) /\ u.pc \notin ReadsMonth
    BY <1>13, <1>2, <1>10, ApplySteps DEF t, u, ReadOnly, DaysKept, leaveVars, Apply, LeavePCs,
       Aside, Marking, MarkPCs, ReadsMonth
  <2>2. DaysOwned(task[w]) => DaysOwned(task[w])'
    BY <1>7, <1>8, <2>1
  <2> QED
    BY <1>3, <1>4, <1>11, <1>12, <2>1, <2>2 DEF requests
<1>14. CASE ApplyBalance(w)
  <2>1. /\ UNCHANGED <<row, requests, leave, stuck>> /\ Apply(t) /\ Apply(u)
        /\ Aside(t) /\ u.pc \notin ReadsMonth
    BY <1>14, <1>2, <1>10, ApplySteps DEF t, u, ReadOnly, DaysKept, leaveVars, Apply, LeavePCs,
       Aside, Marking, MarkPCs, ReadsMonth
  <2>2. DaysOwned(task[w]) => DaysOwned(task[w])'
    BY <1>7, <1>8, <2>1
  <2> QED
    BY <1>3, <1>4, <1>11, <1>12, <2>1, <2>2 DEF requests
<1>15. CASE ApplyPending(w)
  <2>1. /\ UNCHANGED <<row, requests, leave, stuck>> /\ Apply(t) /\ Apply(u)
        /\ Aside(t) /\ u.pc \notin ReadsMonth
    BY <1>15, <1>2, <1>10, ApplySteps DEF t, u, ReadOnly, DaysKept, leaveVars, Apply, LeavePCs,
       Aside, Marking, MarkPCs, ReadsMonth
  <2>2. DaysOwned(task[w]) => DaysOwned(task[w])'
    BY <1>7, <1>8, <2>1
  <2> QED
    BY <1>3, <1>4, <1>11, <1>12, <2>1, <2>2 DEF requests
<1>16. CASE ApplyInsert(w)
  <2>1. /\ t.pc = "apply_insert" /\ u = Idle /\ leave[t.x] = NoLeave /\ leave' = [leave EXCEPT ![t.x] = t.v]
        /\ UNCHANGED <<row, requests, stuck>>
    BY <1>16, <1>2, ApplySteps DEF t, u, DaysKept
  <2>2. Apply(t) /\ Apply(u) /\ Aside(t) /\ u.pc \notin ReadsMonth
    BY <1>10, <2>1 DEF Apply, LeavePCs, Aside, Marking, MarkPCs, ReadsMonth
  <2>3. \A l \in Leaves : leave[l].status = "Approved" => leave'[l] = leave[l]
    BY <1>1, <2>1 DEF NoLeave
  <2>4. DaysOwned(task[w]) => DaysOwned(task[w])'
    BY <1>7, <1>8, <2>1, <2>2, <2>3
  <2> QED
    BY <1>3, <1>4, <1>11, <1>12, <2>1, <2>2, <2>4 DEF requests
<1>17. CASE StartAct(w)
  <2>1. /\ UNCHANGED <<row, requests, leave, stuck>> /\ Apply(t) /\ Apply(u)
        /\ Aside(t) /\ u.pc \notin ReadsMonth
    BY <1>17, <1>2, <1>10, ActSteps DEF t, u, ReadOnly, DaysKept, leaveVars, Apply, LeavePCs,
       Aside, Marking, MarkPCs, ReadsMonth, ActFrom
  <2>2. DaysOwned(task[w]) => DaysOwned(task[w])'
    BY <1>7, <1>8, <2>1
  <2> QED
    BY <1>3, <1>4, <1>11, <1>12, <2>1, <2>2 DEF requests
<1>18. CASE DebitRead(w)
  <2>1. /\ UNCHANGED <<row, requests, leave, stuck>> /\ Apply(t) /\ Apply(u)
        /\ Aside(t) /\ u.pc \notin ReadsMonth
    BY <1>18, <1>2, <1>10, ActSteps DEF t, u, ReadOnly, DaysKept, leaveVars, Apply, LeavePCs,
       Aside, Marking, MarkPCs, ReadsMonth
  <2>2. DaysOwned(task[w]) => DaysOwned(task[w])'
    BY <1>7, <1>8, <2>1
  <2> QED
    BY <1>3, <1>4, <1>11, <1>12, <2>1, <2>2 DEF requests
<1>19. CASE DebitInc(w)
  <2>1. /\ UNCHANGED <<row, requests, leave, stuck>> /\ Apply(t) /\ Apply(u)
        /\ Aside(t) /\ u.pc \notin ReadsMonth
    BY <1>19, <1>2, <1>10, ActSteps DEF t, u, ReadOnly, DaysKept, leaveVars, Apply, LeavePCs,
       Aside, Marking, MarkPCs, ReadsMonth
  <2>2. DaysOwned(task[w]) => DaysOwned(task[w])'
    BY <1>7, <1>8, <2>1
  <2> QED
    BY <1>3, <1>4, <1>11, <1>12, <2>1, <2>2 DEF requests
<1>20. CASE CoffRead(w)
  <2>1. /\ UNCHANGED <<row, requests, leave, stuck>> /\ Apply(t) /\ Apply(u)
        /\ Aside(t) /\ u.pc \notin ReadsMonth
    BY <1>20, <1>2, <1>10, ActSteps DEF t, u, ReadOnly, DaysKept, leaveVars, Apply, LeavePCs,
       Aside, Marking, MarkPCs, ReadsMonth
  <2>2. DaysOwned(task[w]) => DaysOwned(task[w])'
    BY <1>7, <1>8, <2>1
  <2> QED
    BY <1>3, <1>4, <1>11, <1>12, <2>1, <2>2 DEF requests
<1>21. CASE CoffTake(w)
  <2>1. /\ UNCHANGED <<row, requests, leave, stuck>> /\ Apply(t) /\ Apply(u)
        /\ Aside(t) /\ u.pc \notin ReadsMonth
    BY <1>21, <1>2, <1>10, ActSteps DEF t, u, ReadOnly, DaysKept, leaveVars, Apply, LeavePCs,
       Aside, Marking, MarkPCs, ReadsMonth
  <2>2. DaysOwned(task[w]) => DaysOwned(task[w])'
    BY <1>7, <1>8, <2>1
  <2> QED
    BY <1>3, <1>4, <1>11, <1>12, <2>1, <2>2 DEF requests
<1>22. CASE CoffNote(w)
  <2>1. /\ t.pc = "coff_take" /\ u.pc = "day_read" /\ leave' = [leave EXCEPT ![t.x].took = t.plan]
        /\ UNCHANGED <<row, requests, stuck>>
    BY <1>22, <1>2, ActSteps DEF t, u, DaysKept
  <2>2. Apply(t) /\ Apply(u) /\ Aside(t) /\ u.pc \notin ReadsMonth
    BY <2>1 DEF Apply, LeavePCs, Aside, Marking, MarkPCs, ReadsMonth
  <2>3. t.x \in Leaves /\ leave[t.x].status \in OpenLeave
    BY <1>0, <1>2, <2>1 DEF SeesLeave, Fit, FitLeave, ActPCs, LeavePCs
  <2>4. \A l \in Leaves : leave[l].status = "Approved" => leave'[l] = leave[l]
    BY <1>1, <2>1, <2>3 DEF OpenLeave
  <2>5. DaysOwned(task[w]) => DaysOwned(task[w])'
    BY <1>7, <1>8, <2>1, <2>2, <2>4
  <2> QED
    BY <1>3, <1>4, <1>11, <1>12, <2>1, <2>2, <2>5 DEF requests
<1>23. CASE DayRead(w)
  <2>1. /\ t.pc = "day_read" /\ t.todo # {} /\ Keeps(t, u) /\ UNCHANGED <<row, requests, leave, stuck>>
        /\ \/ u.pc = "day_read"
           \/ /\ ~row[Min(t.todo)].locked /\ u.pc = "day_write"
              /\ u.todo = t.todo /\ u.saw[Min(t.todo)] = row[Min(t.todo)]
    BY <1>23, <1>2, MarkSteps DEF t, u, ReadOnly, leaveVars
  <2>2. Apply(t) /\ Apply(u) /\ (Marking(t) => Marking(u))
    BY <2>1 DEF Apply, LeavePCs, Marking, MarkPCs, Keeps
  <2>3. SeesMonth(task[w])'
    <3>1. CASE u.pc = "day_read"
      BY <1>3, <3>1 DEF ReadsMonth
    <3>2. CASE /\ ~row[Min(t.todo)].locked /\ u.pc = "day_write"
               /\ u.todo = t.todo /\ u.saw[Min(t.todo)] = row[Min(t.todo)]
      BY <2>1, <3>2 DEF SeesMonth, u
    <3> QED
      BY <2>1, <3>1, <3>2
  <2>4. DaysOwned(task[w]) => DaysOwned(task[w])'
    BY <1>7, <1>9, <2>1, <2>2
  <2> QED
    BY <1>4, <1>11, <1>12, <2>1, <2>2, <2>3, <2>4 DEF requests
<1>24. CASE DayWrite(w)
  <2> DEFINE d0 == Min(t.todo)
  <2>1. /\ t.pc = "day_write" /\ u.pc = "day_read" /\ Keeps(t, u) /\ UNCHANGED <<lock, requests, leave, stuck>>
    BY <1>24, <1>2, MarkSteps DEF t, u, leaveVars
  <2>2. PICK pre :
          /\ pre = "OnLeave" => (t.saw[d0].status = "OnLeave" /\ t.saw[d0].ref # t.x) \/ row[d0].pre = "OnLeave"
          /\ row' = [row EXCEPT ![d0] = [@ EXCEPT !.status = "OnLeave", !.ref = t.x, !.pre = pre]]
    BY <1>24, <1>2, MarkSteps DEF t, u
  <2>3. t.saw[d0] = row[d0] /\ t.todo # {}
    BY <1>2, <2>1 DEF SeesMonth
  <2>4. t.to = "Approved" /\ t.x \in Leaves
    BY <1>0, <2>1 DEF Fit, FitLeave, ActPCs, LeavePCs
  <2>5. Marking(t) /\ Marking(u) /\ Apply(t) /\ Apply(u) /\ u.pc \notin ReadsMonth
    BY <2>1, <2>4 DEF Marking, MarkPCs, Keeps, Apply, LeavePCs, ReadsMonth
  <2>6. d0 \in t.todo
    BY <1>0, <2>3, MinFound, AttendanceAssumption DEF Task
  <2>7. /\ leave[t.x].status \in OpenLeave /\ leave[t.x] = [t.v EXCEPT !.took = leave[t.x].took]
        /\ t.todo \subseteq Days(t.v)
    BY <1>2, <2>1, <2>5 DEF SeesLeave, ActPCs
  <2>8. d0 \in Days(leave[t.x])
    <3>1. t.v \in LeaveDoc
      BY <1>0 DEF Task
    <3>2. leave[t.x].from = t.v.from /\ leave[t.x].to = t.v.to
      BY <2>7, <3>1 DEF LeaveDoc
    <3> QED
      BY <2>6, <2>7, <3>2 DEF Days
  <2>9. d0 \in Dates
    BY <2>8 DEF Days, WorkingDays
  <2>10. row'[d0].pre = pre /\ row'[d0].status = "OnLeave" /\ row'[d0].ref = t.x
    BY <1>1, <2>2, <2>9 DEF Row
  <2>11. \A d \in Dates : d # d0 => row'[d] = row[d]
    BY <1>1, <2>2
  <2> HIDE DEF d0
  <2>12. ASSUME crashes = 0, DaysOwned(t), row[d0].status = "OnLeave", row[d0].ref # t.x PROVE Kept(d0)
    <3> SUFFICES ASSUME Owned(t, d0) PROVE FALSE
      BY <2>9, <2>12 DEF DaysOwned
    <3> DEFINE l == row[d0].ref
    <3>1. l \in Leaves /\ d0 \in Days(leave[l]) /\ leave[l].status = "Approved"
      BY <2>1, <2>12 DEF Owned
    <3> HIDE DEF l
    <3>2. l # t.x
      BY <2>12 DEF l
    <3>3. leave[l].to < leave[t.x].from \/ leave[t.x].to < leave[l].from
      BY <1>2, <2>4, <2>7, <3>1, <3>2 DEF Apart, Live
    <3>4. /\ leave[l].from <= d0 /\ d0 <= leave[l].to /\ leave[t.x].from <= d0 /\ d0 <= leave[t.x].to
      BY <2>8, <3>1 DEF Days, WorkingDays
    <3>5. d0 \in Nat
      BY <2>9, AttendanceAssumption
    <3>6. /\ leave[l].from \in Nat /\ leave[l].to \in Nat /\ leave[t.x].from \in Nat /\ leave[t.x].to \in Nat
      BY <1>1, <2>4, <3>1, DatesTyped
    <3> QED
      BY <3>3, <3>4, <3>5, <3>6
  <2>13. ASSUME DaysOwned(t) PROVE DaysOwned(task[w])'
    <3> SUFFICES ASSUME crashes = 0 PROVE DaysOwned(task[w])'
      BY <1>0 DEF DaysOwned
    <3>1. row'[d0].pre = "OnLeave" => Kept(d0)
      BY <2>2, <2>3, <2>9, <2>10, <2>12, <2>13 DEF DaysOwned, d0
    <3>2. ASSUME NEW d \in Dates, d = d0 PROVE Owned(task[w], d)'
      <4>1. row'[d].ref \in Leaves /\ d \in Days(leave'[row'[d].ref]) /\ u.x = row'[d].ref
        BY <2>1, <2>4, <2>8, <2>10, <3>2 DEF Keeps
      <4> QED
        BY <2>5, <4>1 DEF Owned, u, Days, Marking
    <3>3. ASSUME NEW d \in Dates, d # d0, Owned(t, d) PROVE Owned(task[w], d)'
      <4>1. /\ row'[d].ref \in Leaves /\ d \in Days(leave'[row'[d].ref])
            /\ leave'[row'[d].ref].status = "Approved" \/ (u.x = row'[d].ref /\ Marking(u))
        BY <2>1, <2>5, <2>11, <3>3 DEF Owned, Keeps
      <4> QED
        BY <4>1 DEF Owned, u, Days, Marking
    <3>4. \A d \in Dates : \/ row'[d] = row[d]
                           \/ /\ row'[d].pre = "OnLeave" => Kept(d)
                              /\ row'[d].status = "OnLeave" => Kept(d) \/ Owned(task[w], d)'
      BY <2>11, <3>1, <3>2
    <3>5. \A d \in Dates : row'[d] = row[d] /\ Owned(t, d) => Owned(task[w], d)' \/ Kept(d)'
      BY <3>2, <3>3
    <3> QED
      BY <1>6, <2>1, <2>13, <3>4, <3>5 DEF t
  <2>14. DaysOwned(task[w]) => DaysOwned(task[w])'
    BY <2>13 DEF t
  <2> QED
    BY <1>3, <1>4, <1>11, <1>12, <2>1, <2>5, <2>14 DEF requests
<1>25. CASE DaysDone(w)
  <2>1. /\ t.pc = "day_read" /\ u.pc = "act_write" /\ Keeps(t, u)
        /\ applied' = applied \cup {t.x} /\ UNCHANGED <<row, reg, od, leave, stuck>>
    BY <1>25, <1>2, MarkSteps DEF t, u, leaveVars
  <2>2. Apply(t) /\ Apply(u) /\ (Marking(t) => Marking(u)) /\ u.pc \notin ReadsMonth
    BY <2>1 DEF Apply, LeavePCs, Marking, MarkPCs, Keeps, ReadsMonth
  <2>3. t.x \in Leaves
    BY <1>0, <2>1 DEF Fit, FitLeave, LeavePCs
  <2>4. DaysOwned(task[w]) => DaysOwned(task[w])'
    BY <1>7, <1>9, <2>1, <2>2
  <2> QED
    BY <1>3, <1>4, <1>11, <1>12, <2>1, <2>2, <2>3, <2>4
<1>26. CASE ActWrite(w)
  <2>1. /\ t.pc = "act_write" /\ u = Idle /\ leave' = [leave EXCEPT ![t.x] = Decided(@, t.to, t.who)]
        /\ UNCHANGED <<row, requests, stuck>>
    BY <1>26, <1>2, MarkSteps DEF t, u, DaysKept
  <2>2. Apply(t) /\ Apply(u) /\ u.pc \notin ReadsMonth
    BY <1>10, <2>1 DEF Apply, LeavePCs, ReadsMonth
  <2>3. t.x \in Leaves /\ leave[t.x].status \in OpenLeave
    BY <1>0, <1>2, <2>1 DEF SeesLeave, Fit, FitLeave, ActPCs, LeavePCs
  <2>4. leave'[t.x] = Decided(leave[t.x], t.to, t.who) /\ \A l \in Leaves \ {t.x} : leave'[l] = leave[l]
    BY <1>1, <2>1, <2>3
  <2>5. /\ leave'[t.x].status = t.to /\ leave'[t.x].from = leave[t.x].from /\ leave'[t.x].to = leave[t.x].to
    <3>1. ASSUME NEW v \in LeaveDoc
          PROVE  LET z == Decided(v, t.to, t.who)
                 IN  z.status = t.to /\ z.from = v.from /\ z.to = v.to
      BY DEF Decided, LeaveDoc
    <3> QED
      BY <1>1, <2>3, <2>4, <3>1
  <2>6. ASSUME NEW d \in Dates, Owned(t, d) PROVE Owned(task[w], d)'
    <3> DEFINE l == row[d].ref
    <3>1. l \in Leaves /\ d \in Days(leave[l]) /\ (leave[l].status = "Approved" \/ (t.x = l /\ t.to = "Approved"))
      BY <2>1, <2>6 DEF Owned, Marking
    <3> HIDE DEF l
    <3>2. leave'[l].status = "Approved" /\ leave'[l].from = leave[l].from /\ leave'[l].to = leave[l].to
      BY <2>3, <2>4, <2>5, <3>1 DEF OpenLeave
    <3>3. d \in Days(leave'[l])
      BY <3>1, <3>2 DEF Days
    <3> QED
      BY <2>1, <3>1, <3>2, <3>3 DEF Owned, l
  <2>7. DaysOwned(task[w]) => DaysOwned(task[w])'
    BY <1>7, <2>1, <2>6
  <2> QED
    BY <1>3, <1>4, <1>11, <1>12, <2>1, <2>2, <2>7 DEF requests
<1>27. CASE StartCancel(w)
  <2>1. /\ UNCHANGED <<row, requests, leave, stuck>> /\ Apply(t) /\ Apply(u)
        /\ Aside(t) /\ u.pc \notin ReadsMonth
    BY <1>27, <1>2, <1>10, CancelSteps DEF t, u, ReadOnly, DaysKept, leaveVars, Apply, LeavePCs,
       Aside, Marking, MarkPCs, ReadsMonth
  <2>2. DaysOwned(task[w]) => DaysOwned(task[w])'
    BY <1>7, <1>8, <2>1
  <2> QED
    BY <1>3, <1>4, <1>11, <1>12, <2>1, <2>2 DEF requests
<1>28. CASE CancelWrite(w)
  <2>1. /\ t.pc = "cancel_write" /\ leave' = [leave EXCEPT ![t.x].status = "Cancelled"]
        /\ UNCHANGED <<row, requests, stuck>>
        /\ IF t.v.status = "Approved" THEN u.pc = "undo_read" /\ Keeps(t, u) ELSE u = Idle
    BY <1>28, <1>2, CancelSteps DEF t, u, DaysKept
  <2>2. Apply(t) /\ Apply(u) /\ Aside(t) /\ u.pc \notin ReadsMonth
    BY <1>10, <2>1 DEF Apply, LeavePCs, Aside, Marking, MarkPCs, ReadsMonth
  <2>3. t.x \in Leaves /\ leave[t.x] = t.v
    BY <1>0, <1>2, <2>1 DEF SeesLeave, Fit, FitLeave, LeavePCs
  <2>4. /\ leave'[t.x].from = leave[t.x].from /\ leave'[t.x].to = leave[t.x].to
        /\ \A l \in Leaves \ {t.x} : leave'[l] = leave[l]
    BY <1>1, <2>1, <2>3 DEF LeaveDoc
  <2>5. \A l \in Leaves : leave[l].status = "Approved" =>
               /\ leave'[l].from = leave[l].from /\ leave'[l].to = leave[l].to
               /\ leave'[l].status = "Approved" \/ (u.x = l /\ u.pc = "undo_read")
    BY <2>1, <2>3, <2>4 DEF Keeps
  <2>6. DaysOwned(task[w]) => DaysOwned(task[w])'
    BY <1>7, <1>8, <2>1, <2>2, <2>5
  <2> QED
    BY <1>3, <1>4, <1>11, <1>12, <2>1, <2>2, <2>6 DEF requests
<1>29. CASE UndoRead(w)
  <2>1. /\ t.pc = "undo_read" /\ u.pc = "undo_row" /\ Keeps(t, u) /\ u.saw = row
        /\ UNCHANGED <<row, requests, leave>>
        /\ u.todo = {d \in Dates : row[d].ref = t.x /\ ~row[d].locked}
        /\ stuck' = stuck \cup ({t.x} \X {d \in Dates : row[d].ref = t.x /\ row[d].locked})
    BY <1>29, <1>2, CancelSteps DEF t, u, DaysKept
  <2>2. Apply(t) /\ Apply(u) /\ t.x \in Leaves
    BY <1>0, <2>1 DEF Apply, LeavePCs, Fit, FitLeave
  <2>3. SeesMonth(task[w])'
    BY <2>1 DEF SeesMonth, Keeps, u
  <2>4. ASSUME NEW d \in Dates, Owned(t, d) PROVE Owned(task[w], d)' \/ Kept(d)'
    <3>1. /\ row[d].ref \in Leaves /\ d \in Days(leave[row[d].ref])
          /\ leave[row[d].ref].status = "Approved" \/ row[d].ref = t.x
      BY <2>1, <2>4 DEF Owned, Marking, MarkPCs
    <3>2. CASE leave[row[d].ref].status = "Approved"
      BY <2>1, <3>1, <3>2 DEF Owned, Days
    <3>3. CASE row[d].ref = t.x /\ row[d].locked
      BY <2>1, <2>2, <3>3 DEF Kept
    <3>4. CASE row[d].ref = t.x /\ ~row[d].locked
      BY <2>1, <3>1, <3>4 DEF Owned, Days, Keeps, u
    <3> QED
      BY <1>1, <3>1, <3>2, <3>3, <3>4 DEF Row
  <2>5. DaysOwned(task[w]) => DaysOwned(task[w])'
    BY <1>6, <2>1, <2>4
  <2> QED
    BY <1>4, <1>11, <1>12, <2>1, <2>2, <2>3, <2>5 DEF requests
<1>30. CASE UndoRow(w)
  <2> DEFINE d0 == Min(t.todo)
             pre == t.saw[d0].pre
  <2>1. /\ t.pc = "undo_row" /\ u.pc = "undo_row" /\ Keeps(t, u) /\ u.saw = t.saw
        /\ d0 \in t.todo /\ u.todo = t.todo \ {d0} /\ UNCHANGED <<lock, requests, leave, stuck>>
        /\ row' = [row EXCEPT ![d0] = IF pre = "None" \/ ~Exists(@) THEN NoRow
                                      ELSE [@ EXCEPT !.status = pre, !.ref = "none", !.pre = "None"]]
    BY <1>30, <1>2, CancelSteps DEF t, u, leaveVars
  <2>2. \A d \in t.todo : t.saw[d] = row[d] /\ row[d].ref = t.x
    BY <1>2, <2>1 DEF SeesMonth
  <2>3. Apply(t) /\ Apply(u) /\ d0 \in Dates /\ t.todo \subseteq Dates
    BY <1>0, <2>1 DEF Apply, LeavePCs, Task
  <2>4. /\ row'[d0].pre = "None" /\ row'[d0].ref = "none"
        /\ row'[d0].status = "OnLeave" => row[d0].pre = "OnLeave"
    <3>1. row[d0] \in Row /\ pre = row[d0].pre
      BY <1>1, <2>1, <2>2, <2>3
    <3>2. row'[d0] = IF pre = "None" \/ ~Exists(row[d0]) THEN NoRow
                     ELSE [row[d0] EXCEPT !.status = pre, !.ref = "none", !.pre = "None"]
      BY <1>1, <2>1, <2>3
    <3> HIDE DEF pre, d0
    <3>3. ASSUME NEW r \in Row
          PROVE  LET z == [r EXCEPT !.status = pre, !.ref = "none", !.pre = "None"]
                 IN  z.pre = "None" /\ z.ref = "none" /\ z.status = pre
      BY DEF Row
    <3> QED
      BY <3>1, <3>2, <3>3 DEF NoRow
  <2>5. \A d \in Dates : d # d0 => row'[d] = row[d]
    BY <1>1, <2>1
  <2> HIDE DEF d0, pre
  <2>6. SeesMonth(task[w])'
    <3>1. \A d \in u.todo : u.saw[d] = row'[d] /\ row'[d].ref = u.x
      BY <2>1, <2>2, <2>3, <2>5 DEF Keeps
    <3> QED
      BY <2>1, <3>1 DEF SeesMonth, u
  <2>7. ASSUME NEW d \in Dates, d # d0, Owned(t, d) PROVE Owned(task[w], d)'
    <3>1. /\ row'[d].ref \in Leaves /\ d \in Days(leave'[row'[d].ref])
          /\ leave'[row'[d].ref].status = "Approved" \/ (u.x = row'[d].ref /\ d \in u.todo)
      BY <2>1, <2>5, <2>7 DEF Owned, Keeps, Marking, MarkPCs
    <3> QED
      BY <2>1, <3>1 DEF Owned, u, Days
  <2>8. t.x \in Leaves
    BY <1>0, <2>1 DEF Fit, FitLeave, LeavePCs
  <2>9. ASSUME DaysOwned(t), crashes = 0 PROVE DaysOwned(task[w])'
    <3>1. /\ row'[d0].pre = "OnLeave" => Kept(d0)
          /\ row'[d0].status = "OnLeave" => Kept(d0)
      BY <2>3, <2>4, <2>9 DEF DaysOwned
    <3>2. \A d \in Dates : \/ row'[d] = row[d]
                           \/ /\ row'[d].pre = "OnLeave" => Kept(d)
                              /\ row'[d].status = "OnLeave" => Kept(d) \/ Owned(task[w], d)'
      BY <2>5, <3>1
    <3>3. \A d \in Dates : row'[d] = row[d] /\ Owned(t, d) => Owned(task[w], d)' \/ Kept(d)'
      <4>1. row'[d0] # row[d0]
        BY <2>1, <2>2, <2>4, <2>8, AttendanceAssumption
      <4> QED
        BY <2>7, <4>1
    <3> QED
      BY <1>6, <2>1, <2>9, <3>2, <3>3 DEF t
  <2>10. DaysOwned(task[w]) => DaysOwned(task[w])'
    BY <1>0, <2>9 DEF DaysOwned, t
  <2> QED
    BY <1>4, <1>11, <1>12, <2>1, <2>3, <2>6, <2>10 DEF requests
<1>31. CASE UndoDone(w)
  <2>1. /\ t.pc = "undo_row" /\ u.pc = "give_back" /\ Keeps(t, u) /\ t.todo = {}
        /\ UNCHANGED <<row, requests, leave, stuck>>
    BY <1>31, <1>2, CancelSteps DEF t, u, ReadOnly, leaveVars
  <2>2. Apply(t) /\ Apply(u) /\ ~Marking(t) /\ u.pc \notin ReadsMonth
    BY <2>1 DEF Apply, LeavePCs, Marking, MarkPCs, ReadsMonth
  <2>3. DaysOwned(task[w]) => DaysOwned(task[w])'
    BY <1>7, <1>9, <2>1, <2>2
  <2> QED
    BY <1>3, <1>4, <1>11, <1>12, <2>1, <2>2, <2>3 DEF requests
<1>32. CASE GiveBackCoff(w)
  <2>1. /\ UNCHANGED <<row, requests, leave, stuck>> /\ Apply(t) /\ Apply(u)
        /\ Aside(t) /\ u.pc \notin ReadsMonth
    BY <1>32, <1>2, <1>10, CancelSteps DEF t, u, ReadOnly, DaysKept, leaveVars, Apply, LeavePCs,
       Aside, Marking, MarkPCs, ReadsMonth
  <2>2. DaysOwned(task[w]) => DaysOwned(task[w])'
    BY <1>7, <1>8, <2>1
  <2> QED
    BY <1>3, <1>4, <1>11, <1>12, <2>1, <2>2 DEF requests
<1>33. CASE GiveBack(w)
  <2>1. /\ UNCHANGED <<row, requests, leave, stuck>> /\ Apply(t) /\ Apply(u)
        /\ Aside(t) /\ u.pc \notin ReadsMonth
    BY <1>33, <1>2, <1>10, CancelSteps DEF t, u, ReadOnly, DaysKept, leaveVars, Apply, LeavePCs,
       Aside, Marking, MarkPCs, ReadsMonth
  <2>2. DaysOwned(task[w]) => DaysOwned(task[w])'
    BY <1>7, <1>8, <2>1
  <2> QED
    BY <1>3, <1>4, <1>11, <1>12, <2>1, <2>2 DEF requests
<1>34. CASE StartClaim(w)
  <2>1. /\ UNCHANGED <<row, requests, leave, stuck>> /\ Apply(t) /\ Apply(u)
        /\ Aside(t) /\ u.pc \notin ReadsMonth
    BY <1>34, <1>2, <1>10, ClaimSteps DEF t, u, ReadOnly, DaysKept, leaveVars, Apply, LeavePCs,
       Aside, Marking, MarkPCs, ReadsMonth
  <2>2. DaysOwned(task[w]) => DaysOwned(task[w])'
    BY <1>7, <1>8, <2>1
  <2> QED
    BY <1>3, <1>4, <1>11, <1>12, <2>1, <2>2 DEF requests
<1>35. CASE ClaimInsert(w)
  <2>1. /\ UNCHANGED <<row, requests, leave, stuck>> /\ Apply(t) /\ Apply(u)
        /\ Aside(t) /\ u.pc \notin ReadsMonth
    BY <1>35, <1>2, <1>10, ClaimSteps DEF t, u, ReadOnly, DaysKept, leaveVars, Apply, LeavePCs,
       Aside, Marking, MarkPCs, ReadsMonth
  <2>2. DaysOwned(task[w]) => DaysOwned(task[w])'
    BY <1>7, <1>8, <2>1
  <2> QED
    BY <1>3, <1>4, <1>11, <1>12, <2>1, <2>2 DEF requests
<1>36. CASE StartActClaim(w)
  <2>1. /\ UNCHANGED <<row, requests, leave, stuck>> /\ Apply(t) /\ Apply(u)
        /\ Aside(t) /\ u.pc \notin ReadsMonth
    BY <1>36, <1>2, <1>10, ClaimSteps DEF t, u, ReadOnly, DaysKept, leaveVars, Apply, LeavePCs,
       Aside, Marking, MarkPCs, ReadsMonth
  <2>2. DaysOwned(task[w]) => DaysOwned(task[w])'
    BY <1>7, <1>8, <2>1
  <2> QED
    BY <1>3, <1>4, <1>11, <1>12, <2>1, <2>2 DEF requests
<1>37. CASE ClaimWrite(w)
  <2>1. /\ UNCHANGED <<row, requests, leave, stuck>> /\ Apply(t) /\ Apply(u)
        /\ Aside(t) /\ u.pc \notin ReadsMonth
    BY <1>37, <1>2, <1>10, ClaimSteps DEF t, u, ReadOnly, DaysKept, leaveVars, Apply, LeavePCs,
       Aside, Marking, MarkPCs, ReadsMonth
  <2>2. DaysOwned(task[w]) => DaysOwned(task[w])'
    BY <1>7, <1>8, <2>1
  <2> QED
    BY <1>3, <1>4, <1>11, <1>12, <2>1, <2>2 DEF requests
<1>38. CASE StartAdjust(w)
  <2>1. /\ UNCHANGED <<row, requests, leave, stuck>> /\ Apply(t) /\ Apply(u)
        /\ Aside(t) /\ u.pc \notin ReadsMonth
    BY <1>38, <1>2, <1>10, ClaimSteps DEF t, u, ReadOnly, DaysKept, leaveVars, Apply, LeavePCs,
       Aside, Marking, MarkPCs, ReadsMonth
  <2>2. DaysOwned(task[w]) => DaysOwned(task[w])'
    BY <1>7, <1>8, <2>1
  <2> QED
    BY <1>3, <1>4, <1>11, <1>12, <2>1, <2>2 DEF requests
<1>39. CASE AdjustInc(w)
  <2>1. /\ UNCHANGED <<row, requests, leave, stuck>> /\ Apply(t) /\ Apply(u)
        /\ Aside(t) /\ u.pc \notin ReadsMonth
    BY <1>39, <1>2, <1>10, ClaimSteps DEF t, u, ReadOnly, DaysKept, leaveVars, Apply, LeavePCs,
       Aside, Marking, MarkPCs, ReadsMonth
  <2>2. DaysOwned(task[w]) => DaysOwned(task[w])'
    BY <1>7, <1>8, <2>1
  <2> QED
    BY <1>3, <1>4, <1>11, <1>12, <2>1, <2>2 DEF requests
<1> QED
  BY <1>13, <1>14, <1>15, <1>16, <1>17, <1>18, <1>19, <1>20, <1>21, <1>22, <1>23, <1>24, <1>25,
     <1>26, <1>27, <1>28, <1>29, <1>30, <1>31, <1>32, <1>33, <1>34, <1>35, <1>36, <1>37, <1>38,
     <1>39
     DEF LeaveStep

-----------------------------------------------------------------------------
(* The inductive invariant                                                  *)

\* A request that stands still, in a state where nothing it looks at changes, stays sound.
LEMMA Untouched ==
    ASSUME NEW w \in Workers, Sound(task[w]),
           UNCHANGED <<row, lock, requests, crashes, leave, granted, used, coff, stuck, task>>
    PROVE  /\ Sound(task[w])'
           /\ Apart => Apart'
           /\ DaysOwned(task[w]) => DaysOwned(task[w])'
<1> DEFINE t == task[w]
           Same == UNCHANGED <<row, lock, reg, od, applied, crashes, leave, granted, used, coff, stuck, task>>
<1>1. Same /\ Fit(t) /\ SeesMonth(t) /\ SeesRequests(t) /\ SeesLeave(t) /\ SeesBooks(t)
      /\ BalanceHolds(t) /\ BatchesHold(t) /\ RequestsDone(t)
  BY DEF Sound, requests
<1>2. Fit(task[w])' /\ SeesMonth(task[w])' /\ SeesRequests(task[w])'
  <2>1. Fit(task[w])'
    BY <1>1
  <2>2. SeesMonth(task[w])'
    BY <1>1 DEF SeesMonth
  <2>3. SeesRequests(task[w])'
    BY <1>1 DEF SeesRequests
  <2> QED
    BY <2>1, <2>2, <2>3
<1>3. SeesLeave(task[w])'
  BY <1>1 DEF SeesLeave, Overlaps
<1>4. SeesBooks(task[w])'
  BY <1>1 DEF SeesBooks, Closing, PendingDays, Cost
<1>5. Taken' = Taken /\ \A b \in Batches : Drawn(b)' = Drawn(b)
  BY <1>1, TakenAndDrawn
<1>6. BalanceHolds(task[w])' /\ BatchesHold(task[w])'
  <2>1. BalanceHolds(task[w])'
    BY <1>1, <1>5 DEF BalanceHolds
  <2>2. BatchesHold(task[w])'
    BY <1>1, <1>5 DEF BatchesHold
  <2> QED
    BY <2>1, <2>2
<1>7. RequestsDone(task[w])'
  BY <1>1 DEF RequestsDone
<1>8. DaysOwned(task[w]) => DaysOwned(task[w])'
  BY <1>1 DEF DaysOwned, Owned, Kept
<1>9. Apart => Apart'
  BY <1>1 DEF Apart
<1> QED
  BY <1>2, <1>3, <1>4, <1>6, <1>7, <1>8, <1>9 DEF Sound

\* The attendance handlers hold nothing of the leave books.
LEMMA LeaveUntouched ==
    ASSUME TypeOK, NEW w \in Workers, Sound(task[w]), Apart, AttendanceStep(w, Idle), UNCHANGED leaveVars
    PROVE  /\ SeesLeave(task[w])' /\ SeesBooks(task[w])'
           /\ BalanceHolds(task[w])' /\ BatchesHold(task[w])' /\ Apart'
<1> DEFINE t == task[w]
           u == task'[w]
<1>1. /\ t.pc \in AttendancePCs /\ u.pc \in AttendancePCs /\ crashes' = crashes
      /\ t \in Task /\ u \in Task
  BY AttendanceTyped DEF Sound, TypeOK
<1>2. /\ u.pc \notin ReadsLeave /\ u.pc \notin ReadsBooks
      /\ t.pc \notin ActPCs \cup UndoPCs /\ u.pc \notin ActPCs \cup UndoPCs
  BY <1>1 DEF AttendancePCs, ReadsLeave, ReadsBooks, ActPCs, UndoPCs
<1>3. /\ ~Marking(t) /\ ~Undoing(t) /\ t.pc # "coff_take"
      /\ ~Marking(u) /\ ~Undoing(u) /\ u.pc # "coff_take"
  BY <1>2 DEF Marking, Undoing, MarkPCs, ActPCs
<1>4. /\ Charged(t) = 0 /\ Charged(u) = 0
      /\ \A b \in Batches : Held(t, b) = 0 /\ Held(u, b) = 0
  BY <1>1, <1>3, Holding
<1>5. UNCHANGED <<leave, granted, used, coff>> /\ BalanceHolds(t) /\ BatchesHold(t)
  BY DEF leaveVars, books, Sound
<1>6. Taken' = Taken /\ \A b \in Batches : Drawn(b)' = Drawn(b)
  BY <1>5, TakenAndDrawn
<1> HIDE DEF t, u
<1>7. SeesLeave(task[w])'
  BY <1>2, <1>3 DEF SeesLeave, ReadsLeave, u
<1>8. SeesBooks(task[w])'
  BY <1>2 DEF SeesBooks, ReadsBooks, u
<1>9. BalanceHolds(task[w])'
  BY <1>1, <1>4, <1>5, <1>6 DEF BalanceHolds, u
<1>10. BatchesHold(task[w])'
  BY <1>1, <1>4, <1>5, <1>6 DEF BatchesHold, u
<1>11. Apart'
  BY <1>5 DEF Apart
<1> QED
  BY <1>7, <1>8, <1>9, <1>10, <1>11

\* A restart loses the request: what it had charged or drawn stays charged, and no decision
\* is recorded for it.
LEMMA CrashKept ==
    ASSUME TypeOK, Apart, NEW w \in Workers, Sound(task[w]), Crash
    PROVE  /\ TypeOK' /\ Apart' /\ Sound(task[w])'
           /\ DaysOwned(task[w])' /\ crashes' # 0
<1> DEFINE t == task[w]
           u == task'[w]
<1>1. /\ crashes' = crashes + 1 /\ acts' = acts + 1 /\ late' = {} /\ task' = [v \in Workers |-> Idle]
      /\ UNCHANGED <<row, lock, requests, leaveVars>>
  BY DEF Crash, Restart
<1>2. TypeOK' /\ crashes' # 0
  BY <1>1, IdleTyped DEF TypeOK, DayTypeOK, requests, leaveVars, books
<1>3. u = Idle /\ u.pc = "idle" /\ Fit(u)
  BY <1>1, IdleTyped
<1>4. /\ t \in Task /\ leave \in [Leaves -> LeaveDoc] /\ used \in Int /\ coff \in [Batches -> Batch]
      /\ Fit(t) /\ BalanceHolds(t) /\ BatchesHold(t) /\ RequestsDone(t)
  BY DEF TypeOK, Sound
<1>5. ~Marking(u) /\ ~Undoing(u) /\ u \in Task
  BY <1>3, IdleTyped DEF Marking, Undoing, MarkPCs, UndoPCs
<1>6. Charged(u) = 0 /\ Charged(t) \in Nat /\ \A b \in Batches : Held(u, b) = 0 /\ Held(t, b) \in 0..2
  BY <1>3, <1>4, <1>5, Holding
<1>7. /\ Taken' = Taken /\ Taken \in Nat /\ \A b \in Batches : Drawn(b)' = Drawn(b) /\ Drawn(b) \in Nat
  BY <1>1, <1>4, TakenAndDrawn, InTyped DEF leaveVars
<1> HIDE DEF t, u
<1>8. SeesMonth(task[w])' /\ SeesRequests(task[w])' /\ SeesBooks(task[w])'
  BY <1>3 DEF SeesMonth, SeesRequests, SeesBooks, u
<1>9. SeesLeave(task[w])'
  BY <1>3, <1>5 DEF SeesLeave, ActPCs, u
<1>10. BalanceHolds(task[w])'
  BY <1>1, <1>2, <1>4, <1>6, <1>7 DEF BalanceHolds, leaveVars, books, u
<1>11. BatchesHold(task[w])'
  <2> SUFFICES ASSUME NEW b \in Batches
               PROVE  LET all == coff'[b].left + Drawn(b)' + Held(u, b)
                      IN  IF coff'[b].status \in {"Available", "Used"} THEN all <= 2 ELSE all = 0
    BY <1>2 DEF BatchesHold, u
  <2>1. coff'[b] = coff[b] /\ coff[b].left \in Nat
    BY <1>1, <1>4 DEF leaveVars, books, Batch
  <2>2. LET all == coff[b].left + Drawn(b) + Held(t, b)
        IN  IF coff[b].status \in {"Available", "Used"} THEN all <= 2 ELSE all = 0
    BY <1>4 DEF BatchesHold
  <2>3. Held(t, b) \in Nat /\ Held(u, b) = 0 /\ Drawn(b)' = Drawn(b) /\ Drawn(b) \in Nat
    BY <1>6, <1>7
  <2> QED
    BY <2>1, <2>2, <2>3
<1>12. RequestsDone(task[w])'
  BY <1>1, <1>2, <1>4 DEF RequestsDone, requests
<1>13. DaysOwned(task[w])' /\ Apart'
  BY <1>1, <1>2 DEF DaysOwned, Apart, leaveVars
<1> QED
  BY <1>2, <1>3, <1>8, <1>9, <1>10, <1>11, <1>12, <1>13 DEF Sound, u

\* Every step keeps the invariant.
LEMMA Stepped ==
    ASSUME OneRequest, Inv, [Next]_vars
    PROVE  /\ Inv'
           /\ AllOwned /\ "OnLeave" \notin Marks => AllOwned'
<1>1. PICK w \in Workers : Workers = {w}
  BY DEF OneRequest
<1>2. TypeOK /\ Apart /\ Sound(task[w])
  BY DEF Inv
<1>3. /\ Fit(task[w]) /\ SeesMonth(task[w]) /\ SeesRequests(task[w]) /\ SeesLeave(task[w])
      /\ SeesBooks(task[w]) /\ BalanceHolds(task[w]) /\ BatchesHold(task[w]) /\ RequestsDone(task[w])
  BY <1>2 DEF Sound
<1> DEFINE Goal == /\ TypeOK' /\ Apart' /\ Sound(task[w])'
                   /\ DaysOwned(task[w]) /\ "OnLeave" \notin Marks => DaysOwned(task[w])'
<1>4. ASSUME Goal PROVE Inv' /\ (AllOwned /\ "OnLeave" \notin Marks => AllOwned')
  BY <1>1, <1>4 DEF Inv, AllOwned
<1>5. SUFFICES Goal
  BY <1>4
<1>6. CASE LeaveStep(w)
  <2>1. TypeOK' /\ Fit(task[w])'
    BY <1>2, <1>3, <1>6, LeaveTyped
  <2>2. SeesLeave(task[w])' /\ SeesBooks(task[w])' /\ Apart'
    BY <1>2, <1>3, <1>6, ReadsKept
  <2>3. BalanceHolds(task[w])' /\ BatchesHold(task[w])'
    BY <1>2, <1>3, <1>6, BooksKept
  <2>4. /\ SeesMonth(task[w])' /\ SeesRequests(task[w])' /\ RequestsDone(task[w])'
        /\ DaysOwned(task[w]) => DaysOwned(task[w])'
    BY <1>2, <1>3, <1>6, LeaveKept
  <2> QED
    BY <2>1, <2>2, <2>3, <2>4 DEF Sound
<1>7. CASE AttendanceStep(w, Idle) /\ UNCHANGED leaveVars
  <2>1. TypeOK' /\ Fit(task[w])'
    BY <1>2, <1>3, <1>7, AttendanceTyped
  <2>2. SeesLeave(task[w])' /\ SeesBooks(task[w])' /\ BalanceHolds(task[w])' /\ BatchesHold(task[w])' /\ Apart'
    BY <1>2, <1>7, LeaveUntouched
  <2>3. /\ SeesMonth(task[w])' /\ SeesRequests(task[w])' /\ RequestsDone(task[w])'
        /\ DaysOwned(task[w]) /\ "OnLeave" \notin Marks => DaysOwned(task[w])'
    BY <1>2, <1>3, <1>7, AttendanceKept
  <2> QED
    BY <2>1, <2>2, <2>3 DEF Sound
<1>8. CASE Expire
  <2>1. expired' \in Batches /\ UNCHANGED <<attendanceVars, leave, granted, used, coff, stuck>>
    <3>1. {b \in Batches : b > expired} \in SUBSET Nat /\ {b \in Batches : b > expired} \subseteq Batches
      BY LeaveAssumption
    <3> QED
      BY <1>8, <3>1, MinFound DEF Expire
  <2>2. UNCHANGED <<row, lock, requests, crashes, leave, granted, used, coff, stuck, task>>
    BY <2>1 DEF attendanceVars, traffic
  <2>3. TypeOK'
    BY <1>2, <2>1 DEF TypeOK, DayTypeOK, attendanceVars, requests, traffic
  <2> QED
    BY <1>2, <2>2, <2>3, Untouched
<1>9. CASE Crash
  BY <1>2, <1>9, CrashKept
<1>10. CASE UNCHANGED vars
  <2>1. UNCHANGED <<row, lock, requests, crashes, leave, granted, used, coff, stuck, task>>
    BY <1>10 DEF vars, attendanceVars, traffic, leaveVars, books
  <2>2. TypeOK'
    BY <1>2, <1>10 DEF TypeOK, DayTypeOK, vars, attendanceVars, requests, traffic, leaveVars, books
  <2> QED
    BY <1>2, <2>1, <2>2, Untouched
<1> HIDE DEF Goal
<1> QED
  BY <1>1, <1>6, <1>7, <1>8, <1>9, <1>10 DEF Next

\* Nothing is asked, charged or shown at the start.
LEMMA Started == ASSUME Init PROVE Inv /\ AllOwned
<1>1. /\ row = [d \in Dates |-> NoRow] /\ lock = "Open"
      /\ reg = [r \in Regs |-> NoRequest] /\ od = [o \in Ods |-> NoRequest] /\ applied = {}
      /\ acts = 0 /\ crashes = 0 /\ late = {} /\ task = [w \in Workers |-> Idle]
      /\ leave = [l \in Leaves |-> NoLeave] /\ granted = MaxGrant /\ used = 0
      /\ coff \in [Batches -> {NoBatch, [status |-> "Available", left |-> 2]}]
      /\ expired = 0 /\ stuck = {}
  BY DEF Init, DayInit
<1>2. TypeOK
  <2>1. DayTypeOK
    BY <1>1, IdleTyped DEF DayTypeOK
  <2>2. coff \in [Batches -> Batch]
    BY <1>1 DEF NoBatch, Batch
  <2>3. task \in [Workers -> Task] /\ leave \in [Leaves -> LeaveDoc]
    BY <1>1, IdleTyped
  <2>4. granted \in 0..MaxGrant /\ used \in Int /\ expired \in Batches \cup {0} /\ stuck \subseteq Leaves \X Dates
    BY <1>1, LeaveAssumption
  <2> QED
    BY <2>1, <2>2, <2>3, <2>4 DEF TypeOK
<1>3. Apart
  BY <1>1 DEF Apart, NoLeave, Live, OpenLeave
<1>4. ASSUME NEW w \in Workers PROVE Sound(task[w]) /\ DaysOwned(task[w])
  <2> DEFINE t == task[w]
  <2>1. t = Idle /\ t.pc = "idle" /\ Fit(t) /\ t \in Task
    BY <1>1, IdleTyped
  <2>2. ~Marking(t) /\ ~Undoing(t)
    BY <2>1 DEF Marking, Undoing, MarkPCs, UndoPCs
  <2>3. Charged(t) = 0 /\ \A b \in Batches : Held(t, b) = 0
    BY <2>1, <2>2, Holding
  <2> HIDE DEF t
  <2>4. \A kind : Granted(leave, kind) = {}
    BY <1>1 DEF Granted, NoLeave
  <2>5. Taken = 0 /\ \A b \in Batches : Drawn(b) = 0
    BY <2>4, TakenAndDrawn, TotalEmpty DEF TakenIn, DrawnIn
  <2>6. SeesMonth(t) /\ SeesRequests(t) /\ SeesBooks(t)
    BY <2>1 DEF SeesMonth, SeesRequests, SeesBooks
  <2>7. SeesLeave(t)
    BY <2>1, <2>2 DEF SeesLeave, ActPCs
  <2>8. BalanceHolds(t)
    BY <1>1, <2>3, <2>5 DEF BalanceHolds
  <2>9. BatchesHold(t)
    <3> SUFFICES ASSUME NEW b \in Batches
                 PROVE  LET all == coff[b].left + Drawn(b) + Held(t, b)
                        IN  IF coff[b].status \in {"Available", "Used"} THEN all = 2 ELSE all = 0
      BY <1>1 DEF BatchesHold
    <3>1. coff[b] = NoBatch \/ coff[b] = [status |-> "Available", left |-> 2]
      BY <1>1
    <3> QED
      BY <2>3, <2>5, <3>1 DEF NoBatch
  <2>10. RequestsDone(t)
    BY <1>1, <2>1 DEF RequestsDone, NoRequest
  <2>11. DaysOwned(t)
    BY <1>1 DEF DaysOwned, NoRow
  <2> QED
    BY <2>1, <2>6, <2>7, <2>8, <2>9, <2>10, <2>11 DEF Sound, t
<1> QED
  BY <1>2, <1>3, <1>4 DEF Inv, AllOwned

-----------------------------------------------------------------------------
(* Days promised                                                            *)

\* A smaller set adds up to no more.
LEMMA TotalWithin ==
    ASSUME NEW f, NEW S, NEW T, S \subseteq T, IsFiniteSet(T), \A x \in T : f[x] \in Nat
    PROVE  Total(f, S) <= Total(f, T)
<1>1. IsFiniteSet(Units(f, T)) /\ Units(f, S) \subseteq Units(f, T)
  BY UnitsFinite DEF Units
<1> QED
  BY <1>1, FS_Subset DEF Total, Units

\* No step leaves more promised than there was room for.
LEMMA HeadroomKept ==
    ASSUME OneRequest, Inv, [Next]_vars, granted' = granted, crashes' = 0
    PROVE  Headroom' >= 0 \/ Headroom' >= Headroom
<1>1. PICK w \in Workers : Workers = {w}
  BY DEF OneRequest
<1> DEFINE t == task[w]
           u == task'[w]
<1>2. /\ Inv' /\ TypeOK /\ Sound(t) /\ Fit(t) /\ SeesLeave(t) /\ SeesBooks(t) /\ TypeOK' /\ Fit(u)
  <2>1. Inv'
    BY Stepped
  <2>2. (Fit(task[w]))'
    BY <2>1 DEF Inv, Sound
  <2> QED
    BY <2>1, <2>2 DEF Inv, Sound
<1>3. /\ leave \in [Leaves -> LeaveDoc] /\ leave' \in [Leaves -> LeaveDoc] /\ granted \in Int /\ used \in Int
      /\ granted' \in Int /\ used' \in Int /\ t.v \in LeaveDoc
  BY <1>2 DEF TypeOK, Task
<1>4. /\ Promised = {l \in Leaves : leave[l].status \in OpenLeave /\ leave[l].kind = "EL" /\ ~(Marking(t) /\ t.x = l)}
      /\ Promised' = {l \in Leaves : leave'[l].status \in OpenLeave /\ leave'[l].kind = "EL" /\ ~(Marking(u) /\ u.x = l)}
  <2>1. \A l : Charging(l) <=> Marking(t) /\ t.x = l
    BY <1>1, <1>2 DEF Charging, Marking, MarkPCs, Fit, ActPCs
  <2>2. \A l : Charging(l)' <=> Marking(u) /\ u.x = l
    BY <1>1, <1>2 DEF Charging, Marking, MarkPCs, Fit, ActPCs
  <2> QED
    BY <2>1, <2>2 DEF Promised
<1>5. /\ IsFiniteSet(Promised) /\ Promised \subseteq Leaves /\ \A l \in Leaves : Cost[l] \in Nat /\ Cost[l] = Count(leave[l])
      /\ IsFiniteSet(Promised') /\ Promised' \subseteq Leaves /\ \A l \in Leaves : Cost'[l] \in Nat /\ Cost'[l] = Count(leave'[l])
      /\ Total(Cost, Promised) \in Nat /\ Total(Cost', Promised') \in Nat
  <2>1. Promised \subseteq Leaves /\ Promised' \subseteq Leaves
    BY <1>4
  <2>2. IsFiniteSet(Promised) /\ IsFiniteSet(Promised')
    BY <2>1, AttendanceAssumption, FS_Subset
  <2>3. /\ \A l \in Leaves : Cost[l] \in Nat /\ Cost[l] = Count(leave[l])
        /\ \A l \in Leaves : Cost'[l] \in Nat /\ Cost'[l] = Count(leave'[l])
    BY <1>3, CountTyped DEF Cost
  <2>4. Total(Cost, Promised) \in Nat /\ Total(Cost', Promised') \in Nat
    BY <2>1, <2>2, <2>3, TotalIsNat
  <2> QED
    BY <2>1, <2>2, <2>3, <2>4
<1>6. Headroom = granted - used - Total(Cost, Promised) /\ Headroom' = granted - used' - Total(Cost', Promised')
  BY DEF Headroom, Closing
\* Nothing more is promised, and no more is used.
<1>7. ASSUME used' <= used,
             \A l \in Leaves : leave'[l].status \in OpenLeave /\ leave'[l].kind = "EL" /\ ~(Marking(u) /\ u.x = l) =>
               /\ leave[l].status \in OpenLeave /\ leave[l].kind = "EL" /\ ~(Marking(t) /\ t.x = l)
               /\ leave'[l].from = leave[l].from /\ leave'[l].to = leave[l].to /\ leave'[l].half = leave[l].half
      PROVE  Headroom' >= Headroom
  <2>1. Promised' \subseteq Promised
    BY <1>4, <1>7
  <2>2. ASSUME NEW l \in Promised' PROVE Cost'[l] = Cost[l]
    <3>1. /\ leave'[l].from = leave[l].from /\ leave'[l].to = leave[l].to /\ leave'[l].half = leave[l].half
      BY <1>4, <1>7, <2>2
    <3> QED
      BY <1>5, <2>2, <3>1 DEF Count, Days
  <2>3. Total(Cost', Promised') = Total(Cost, Promised')
    BY <2>2, TotalSame
  <2>4. Total(Cost, Promised') <= Total(Cost, Promised)
    BY <1>5, <2>1, TotalWithin
  <2> QED
    BY <1>3, <1>5, <1>6, <1>7, <2>3, <2>4
<1>8. ASSUME leave' = leave, used' <= used, Marking(t) => Marking(u) /\ u.x = t.x PROVE Headroom' >= Headroom
  BY <1>7, <1>8
<1> SUFFICES Headroom' >= 0 \/ Headroom' >= Headroom
  OBVIOUS
<1>9. used <= used
  BY <1>3
<1>10. Idle.pc = "idle"
  BY IdleTyped
<1>X. granted' = granted /\ crashes' = 0
  OBVIOUS
<1> HIDE DEF t, u
<1>11. CASE StartApply(w)
  <2>1. leave' = leave /\ used' = used /\ ~Marking(t)
    BY <1>11, <1>2, ApplySteps DEF t, u, ReadOnly, leaveVars, books, Marking, MarkPCs
  <2> QED
    BY <1>8, <1>9, <2>1
<1>12. CASE ApplyBalance(w)
  <2>1. leave' = leave /\ used' = used /\ ~Marking(t)
    BY <1>12, <1>2, ApplySteps DEF t, u, ReadOnly, leaveVars, books, Marking, MarkPCs
  <2> QED
    BY <1>8, <1>9, <2>1
<1>13. CASE ApplyPending(w)
  <2>1. leave' = leave /\ used' = used /\ ~Marking(t)
    BY <1>13, <1>2, ApplySteps DEF t, u, ReadOnly, leaveVars, books, Marking, MarkPCs
  <2> QED
    BY <1>8, <1>9, <2>1
<1>14. CASE ApplyInsert(w)
  <2>1. /\ t.pc = "apply_insert" /\ u = Idle /\ leave[t.x] = NoLeave /\ leave' = [leave EXCEPT ![t.x] = t.v]
        /\ used' = used
    BY <1>14, <1>2, ApplySteps DEF t, u, books
  <2>2. ~Marking(t) /\ ~Marking(u) /\ t.x \in Leaves
    BY <1>2, <1>10, <2>1 DEF Marking, MarkPCs, Fit, FitLeave, LeavePCs
  <2>3. leave'[t.x] = t.v /\ \A l \in Leaves \ {t.x} : leave'[l] = leave[l]
    BY <1>3, <2>1, <2>2
  <2>4. CASE t.v.kind # "EL"
    BY <1>7, <1>9, <2>1, <2>2, <2>3, <2>4
  <2>5. CASE t.v.kind = "EL"
    <3> DEFINE x == t.x
    <3>1. /\ x \notin Promised /\ Promised' = Promised \cup {x} /\ PendingDays("EL") = Total(Cost, Promised)
      <4>1. leave[x].status = "None" /\ t.v.status = "Pending"
        BY <1>2, <2>1 DEF NoLeave, SeesLeave
      <4>2. x \notin Promised /\ Promised' = Promised \cup {x}
        BY <1>4, <2>2, <2>3, <2>5, <4>1 DEF OpenLeave
      <4>3. Promised = {l \in Leaves : leave[l].status \in OpenLeave /\ leave[l].kind = "EL"}
        BY <1>4, <2>2
      <4> QED
        BY <4>2, <4>3 DEF PendingDays
    <3>2. Cost'[x] = Count(t.v) /\ \A l \in Promised : Cost'[l] = Cost[l]
      BY <1>5, <2>2, <2>3, <3>1
    <3>3. x \in Leaves
      BY <2>2
    <3> HIDE DEF x
    <3>4. Total(Cost', Promised') = Total(Cost', Promised) + Cost'[x]
      BY <1>5, <3>1, <3>3, TotalAdded
    <3>5. Total(Cost', Promised) = Total(Cost, Promised)
      BY <3>2, TotalSame
    <3>6. Count(t.v) <= granted - used - Total(Cost, Promised)
      BY <1>2, <2>1, <2>5, <3>1 DEF SeesBooks, Closing
    <3>7. Count(t.v) \in Nat
      BY <1>3, CountTyped
    <3> QED
      BY <1>3, <1>5, <1>6, <2>1, <3>2, <3>4, <3>5, <3>6, <3>7
  <2> QED
    BY <2>4, <2>5
<1>15. CASE StartAct(w)
  <2>1. leave' = leave /\ used' = used /\ ~Marking(t)
    BY <1>15, <1>2, ActSteps DEF t, u, ReadOnly, leaveVars, books, Marking, MarkPCs
  <2> QED
    BY <1>8, <1>9, <2>1
<1>16. CASE DebitRead(w)
  <2>1. leave' = leave /\ used' = used /\ ~Marking(t)
    BY <1>16, <1>2, ActSteps DEF t, u, ReadOnly, leaveVars, books, Marking, MarkPCs
  <2> QED
    BY <1>8, <1>9, <2>1
<1>17. CASE DebitInc(w)
  <2>1. /\ t.pc = "debit_inc" /\ u.pc = "day_read" /\ Keeps(t, u)
        /\ leave' = leave /\ used' = used + Count(t.v)
    BY <1>17, <1>2, ActSteps DEF t, u
  <2>2. /\ t.x \in Leaves /\ t.to = "Approved" /\ t.v.kind = "EL" /\ leave[t.x].status \in OpenLeave
        /\ leave[t.x] = [t.v EXCEPT !.took = leave[t.x].took]
    BY <1>2, <2>1 DEF Fit, FitLeave, LeavePCs, ActPCs, SeesLeave
  <2>3. ~Marking(t) /\ Marking(u) /\ u.x = t.x
    BY <2>1, <2>2 DEF Marking, MarkPCs, Keeps
  <2>4. /\ leave[t.x].kind = "EL" /\ leave[t.x].from = t.v.from /\ leave[t.x].to = t.v.to /\ leave[t.x].half = t.v.half
    BY <1>3, <2>2 DEF LeaveDoc
  <2>5. t.x \in Promised /\ Promised' = Promised \ {t.x}
    BY <1>4, <2>1, <2>2, <2>3, <2>4
  <2>6. Cost[t.x] = Count(t.v) /\ \A l \in Promised' : Cost'[l] = Cost[l]
    BY <1>5, <2>1, <2>2, <2>4 DEF Count, Days
  <2>7. Total(Cost, Promised \ {t.x}) = Total(Cost, Promised) - Cost[t.x]
    BY <1>5, <2>5, TotalRemoved
  <2>8. Total(Cost', Promised') = Total(Cost, Promised')
    BY <2>6, TotalSame
  <2>9. Count(t.v) \in Nat
    BY <1>3, CountTyped
  <2> QED
    BY <1>3, <1>5, <1>6, <2>1, <2>5, <2>6, <2>7, <2>8, <2>9
<1>18. CASE CoffRead(w)
  <2>1. leave' = leave /\ used' = used /\ ~Marking(t)
    BY <1>18, <1>2, ActSteps DEF t, u, ReadOnly, leaveVars, books, Marking, MarkPCs
  <2> QED
    BY <1>8, <1>9, <2>1
<1>19. CASE CoffTake(w)
  <2>1. leave' = leave /\ used' = used /\ ~Marking(t)
    BY <1>19, <1>2, ActSteps DEF t, u, ReadOnly, leaveVars, books, Marking, MarkPCs
  <2> QED
    BY <1>8, <1>9, <2>1
<1>20. CASE CoffNote(w)
  <2>1. /\ t.pc = "coff_take" /\ leave' = [leave EXCEPT ![t.x].took = t.plan] /\ used' = used
    BY <1>20, <1>2, ActSteps DEF t, u, books
  <2>2. ~Marking(t) /\ t.x \in Leaves
    BY <1>2, <2>1 DEF Marking, MarkPCs, Fit, FitLeave, LeavePCs
  <2>3. \A l \in Leaves : /\ leave'[l].status = leave[l].status /\ leave'[l].kind = leave[l].kind /\ leave'[l].from = leave[l].from
                          /\ leave'[l].to = leave[l].to /\ leave'[l].half = leave[l].half
    <3>1. ASSUME NEW v \in LeaveDoc, NEW took
          PROVE  LET z == [v EXCEPT !.took = took]
                 IN  /\ z.status = v.status /\ z.kind = v.kind /\ z.from = v.from /\ z.to = v.to /\ z.half = v.half
      BY DEF LeaveDoc
    <3> QED
      BY <1>3, <2>1, <3>1
  <2> QED
    BY <1>7, <1>9, <2>1, <2>2, <2>3
<1>21. CASE DayRead(w)
  <2>1. leave' = leave /\ used' = used /\ (Marking(t) => Marking(u) /\ u.x = t.x)
    BY <1>21, <1>2, MarkSteps DEF t, u, ReadOnly, leaveVars, books, Marking, MarkPCs, Keeps
  <2> QED
    BY <1>8, <1>9, <2>1
<1>22. CASE DayWrite(w)
  <2>1. leave' = leave /\ used' = used /\ (Marking(t) => Marking(u) /\ u.x = t.x)
    BY <1>22, <1>2, MarkSteps DEF t, u, ReadOnly, leaveVars, books, Marking, MarkPCs, Keeps
  <2> QED
    BY <1>8, <1>9, <2>1
<1>23. CASE DaysDone(w)
  <2>1. leave' = leave /\ used' = used /\ (Marking(t) => Marking(u) /\ u.x = t.x)
    BY <1>23, <1>2, MarkSteps DEF t, u, ReadOnly, leaveVars, books, Marking, MarkPCs, Keeps
  <2> QED
    BY <1>8, <1>9, <2>1
<1>24. CASE ActWrite(w)
  <2>1. /\ t.pc = "act_write" /\ u = Idle /\ leave' = [leave EXCEPT ![t.x] = Decided(@, t.to, t.who)] /\ used' = used
    BY <1>24, <1>2, MarkSteps DEF t, u, books
  <2>2. t.x \in Leaves /\ leave[t.x].status \in OpenLeave
    BY <1>2, <2>1 DEF Fit, FitLeave, LeavePCs, ActPCs, SeesLeave
  <2>3. /\ leave'[t.x].status = t.to /\ leave'[t.x].kind = leave[t.x].kind /\ leave'[t.x].from = leave[t.x].from
        /\ leave'[t.x].to = leave[t.x].to /\ leave'[t.x].half = leave[t.x].half
        /\ \A l \in Leaves \ {t.x} : leave'[l] = leave[l]
    <3>1. ASSUME NEW v \in LeaveDoc
          PROVE  LET z == Decided(v, t.to, t.who)
                 IN  /\ z.status = t.to /\ z.kind = v.kind /\ z.from = v.from /\ z.to = v.to /\ z.half = v.half
      BY DEF Decided, LeaveDoc
    <3> QED
      BY <1>3, <2>1, <2>2, <3>1
  <2>4. Marking(t) => leave'[t.x].status \notin OpenLeave
    BY <2>3 DEF Marking, OpenLeave
  <2> QED
    BY <1>7, <1>9, <2>1, <2>2, <2>3, <2>4
<1>25. CASE StartCancel(w)
  <2>1. leave' = leave /\ used' = used /\ ~Marking(t)
    BY <1>25, <1>2, CancelSteps DEF t, u, ReadOnly, leaveVars, books, Marking, MarkPCs
  <2> QED
    BY <1>8, <1>9, <2>1
<1>26. CASE CancelWrite(w)
  <2>1. /\ t.pc = "cancel_write" /\ leave' = [leave EXCEPT ![t.x].status = "Cancelled"] /\ used' = used
    BY <1>26, <1>2, CancelSteps DEF t, u, books
  <2>2. ~Marking(t) /\ t.x \in Leaves
    BY <1>2, <2>1 DEF Marking, MarkPCs, Fit, FitLeave, LeavePCs
  <2>3. leave'[t.x].status \notin OpenLeave /\ \A l \in Leaves \ {t.x} : leave'[l] = leave[l]
    BY <1>3, <2>1, <2>2 DEF LeaveDoc, OpenLeave
  <2> QED
    BY <1>7, <1>9, <2>1, <2>2, <2>3
<1>27. CASE UndoRead(w)
  <2>1. leave' = leave /\ used' = used /\ ~Marking(t)
    BY <1>27, <1>2, CancelSteps DEF t, u, ReadOnly, leaveVars, books, Marking, MarkPCs
  <2> QED
    BY <1>8, <1>9, <2>1
<1>28. CASE UndoRow(w)
  <2>1. leave' = leave /\ used' = used /\ ~Marking(t)
    BY <1>28, <1>2, CancelSteps DEF t, u, ReadOnly, leaveVars, books, Marking, MarkPCs
  <2> QED
    BY <1>8, <1>9, <2>1
<1>29. CASE UndoDone(w)
  <2>1. leave' = leave /\ used' = used /\ ~Marking(t)
    BY <1>29, <1>2, CancelSteps DEF t, u, ReadOnly, leaveVars, books, Marking, MarkPCs
  <2> QED
    BY <1>8, <1>9, <2>1
<1>30. CASE GiveBackCoff(w)
  <2>1. leave' = leave /\ used' = used /\ ~Marking(t)
    BY <1>30, <1>2, CancelSteps DEF t, u, ReadOnly, leaveVars, books, Marking, MarkPCs
  <2> QED
    BY <1>8, <1>9, <2>1
<1>31. CASE GiveBack(w)
  <2>1. leave' = leave /\ used' = used - Count(t.v) /\ t.pc = "give_back" /\ Count(t.v) \in Nat
    BY <1>31, <1>2, <1>3, CountTyped, CancelSteps DEF t, u
  <2>2. ~Marking(t) /\ used' <= used
    BY <1>3, <2>1 DEF Marking, MarkPCs
  <2> QED
    BY <1>8, <2>1, <2>2
<1>32. CASE StartClaim(w)
  <2>1. leave' = leave /\ used' = used /\ ~Marking(t)
    BY <1>32, <1>2, ClaimSteps DEF t, u, ReadOnly, leaveVars, books, Marking, MarkPCs
  <2> QED
    BY <1>8, <1>9, <2>1
<1>33. CASE ClaimInsert(w)
  <2>1. leave' = leave /\ used' = used /\ ~Marking(t)
    BY <1>33, <1>2, ClaimSteps DEF t, u, ReadOnly, leaveVars, books, Marking, MarkPCs
  <2> QED
    BY <1>8, <1>9, <2>1
<1>34. CASE StartActClaim(w)
  <2>1. leave' = leave /\ used' = used /\ ~Marking(t)
    BY <1>34, <1>2, ClaimSteps DEF t, u, ReadOnly, leaveVars, books, Marking, MarkPCs
  <2> QED
    BY <1>8, <1>9, <2>1
<1>35. CASE ClaimWrite(w)
  <2>1. leave' = leave /\ used' = used /\ ~Marking(t)
    BY <1>35, <1>2, ClaimSteps DEF t, u, ReadOnly, leaveVars, books, Marking, MarkPCs
  <2> QED
    BY <1>8, <1>9, <2>1
<1>36. CASE StartAdjust(w)
  <2>1. leave' = leave /\ used' = used /\ ~Marking(t)
    BY <1>36, <1>2, ClaimSteps DEF t, u, ReadOnly, leaveVars, books, Marking, MarkPCs
  <2> QED
    BY <1>8, <1>9, <2>1
<1>37. CASE AdjustInc(w)
  <2>1. leave' = leave /\ used' = used /\ ~Marking(t)
    BY <1>37, <1>2, ClaimSteps DEF t, u, ReadOnly, leaveVars, books, Marking, MarkPCs
  <2> QED
    BY <1>8, <1>9, <2>1
<1>38. CASE AttendanceStep(w, Idle) /\ UNCHANGED leaveVars
  <2>1. leave' = leave /\ used' = used /\ t.pc \in AttendancePCs
    BY <1>38, <1>2, AttendanceTyped DEF t, leaveVars, books
  <2>2. ~Marking(t)
    BY <2>1 DEF Marking, MarkPCs, AttendancePCs
  <2> QED
    BY <1>8, <1>9, <2>1, <2>2
<1>39. CASE Expire \/ UNCHANGED vars
  <2>1. leave' = leave /\ used' = used /\ task' = task
    BY <1>39 DEF Expire, vars, attendanceVars, leaveVars, books
  <2> QED
    BY <1>8, <1>9, <2>1 DEF t, u
<1>40. CASE Crash
  BY <1>40, <1>2, <1>X DEF Crash, Restart, TypeOK, DayTypeOK
<1> QED
  BY <1>1, <1>11, <1>12, <1>13, <1>14, <1>15, <1>16, <1>17, <1>18, <1>19, <1>20, <1>21, <1>22,
     <1>23, <1>24, <1>25, <1>26, <1>27, <1>28, <1>29, <1>30, <1>31, <1>32, <1>33, <1>34, <1>35,
     <1>36, <1>37, <1>38, <1>39, <1>40
     DEF Next, LeaveStep

-----------------------------------------------------------------------------
(* Locked days, with any number of requests at once and any restarts        *)

\* The shape of a row and of a request, whatever they hold.
RowShaped(r) == \E S : r \in [status : S, locked : BOOLEAN, ref : S, pre : S]
TaskShaped(t) == {"pc", "to", "d", "todo"} \subseteq DOMAIN t /\ t.todo \subseteq Dates

Shaped ==
    /\ row = [d \in Dates |-> row[d]] /\ \A d \in Dates : RowShaped(row[d])
    /\ task = [w \in Workers |-> task[w]] /\ \A w \in Workers : TaskShaped(task[w])

\* What t is about to write is not locked, as far as its handler asks.
Clear(t) ==
    /\ t.pc \in {"mark_write", "reg_apply", "od_apply", "unlock_rows"} => lock # "Locked"
    /\ t.pc = "od_write" /\ t.to = "Approved" => lock # "Locked"
    /\ t.pc = "punch_write" => \A d \in Dates : d = t.d => ~row[d].locked
    /\ t.pc \in {"import_month", "import_write", "day_write"} =>
         \A d \in Dates : d = Min(t.todo) => ~row[d].locked
    /\ t.pc \in {"rejudge", "undo_row"} => \A d \in Dates : d \in t.todo => ~row[d].locked
ClearPCs == {"mark_write", "reg_apply", "od_apply", "unlock_rows", "od_write", "punch_write",
             "import_month", "import_write", "day_write", "rejudge", "undo_row"}

\* Only a request that a lock has overtaken can be about to write what is locked.
Guarded == Shaped /\ \A w \in Workers : w \notin late => Clear(task[w])

\* A step of w that locks nothing, and after which it is clear unless overtaken.
Unlocking(w) ==
    /\ task' = [task EXCEPT ![w] = task'[w]] /\ TaskShaped(task'[w])
    /\ row' = [d \in Dates |-> row'[d]]
    /\ \A d \in Dates : RowShaped(row'[d]) /\ (row'[d].locked => row[d].locked)
    /\ lock' = "Locked" => lock = "Locked"
    /\ late \ {w} \subseteq late'

Frozen == \A d \in Dates : lock = "Locked" /\ row[d].locked /\ row'[d] # row[d] =>
    \E w \in late : task'[w] # task[w]

LEMMA RowsWritten ==
    ASSUME NEW r, RowShaped(r), NEW s
    PROVE  /\ RowShaped(Marked(r, s)) /\ Marked(r, s).locked = r.locked
           /\ RowShaped(Recorded(r, s)) /\ ~Recorded(r, s).locked
           /\ RowShaped([r EXCEPT !.locked = FALSE]) /\ ~[r EXCEPT !.locked = FALSE].locked
           /\ RowShaped([r EXCEPT !.locked = TRUE]) /\ (r.locked => [r EXCEPT !.locked = TRUE] = r)
           /\ RowShaped(NoRow) /\ ~NoRow.locked
<1>1. PICK S : r \in [status : S, locked : BOOLEAN, ref : S, pre : S]
  BY DEF RowShaped
<1> DEFINE Z(more) == [status : S \cup more, locked : BOOLEAN, ref : S \cup more, pre : S \cup more]
<1>2. \A z, more : z \in Z(more) => RowShaped(z)
  BY DEF RowShaped
<1>3. Marked(r, s) \in Z({s}) /\ Marked(r, s).locked = r.locked
  BY <1>1 DEF Marked
<1>4. Recorded(r, s) \in Z({s}) /\ Recorded(r, s).locked = FALSE
  BY <1>1 DEF Marked, Recorded
<1>6. [r EXCEPT !.locked = FALSE] \in Z({}) /\ [r EXCEPT !.locked = FALSE].locked = FALSE
  BY <1>1
<1>7. [r EXCEPT !.locked = TRUE] \in Z({}) /\ (r.locked => [r EXCEPT !.locked = TRUE] = r)
  BY <1>1
<1>8. RowShaped(NoRow) /\ ~NoRow.locked
  <2>1. NoRow \in [status : {"None", "none"}, locked : BOOLEAN, ref : {"None", "none"}, pre : {"None", "none"}]
    BY DEF NoRow
  <2> QED
    BY <2>1 DEF RowShaped, NoRow
<1> HIDE DEF Z
<1> QED
  BY <1>2, <1>3, <1>4, <1>6, <1>7, <1>8

Redrawn(r, s, x, p) == [r EXCEPT !.status = s, !.ref = x, !.pre = p]

LEMMA RowDrawn ==
    ASSUME NEW r, RowShaped(r), NEW s, NEW x, NEW p
    PROVE  LET z == Redrawn(r, s, x, p) IN RowShaped(z) /\ (z.locked <=> r.locked)
<1> DEFINE z == Redrawn(r, s, x, p)
<1>1. PICK S : r \in [status : S, locked : BOOLEAN, ref : S, pre : S]
  BY DEF RowShaped
<1>2. z \in [status : S \cup {s, x, p}, locked : BOOLEAN, ref : S \cup {s, x, p}, pre : S \cup {s, x, p}]
  BY <1>1 DEF Redrawn
<1>3. z.locked = r.locked
  BY <1>1 DEF Redrawn
<1> QED
  BY <1>2, <1>3 DEF RowShaped

\* A request that only moves on keeps its shape, and so does one that begins.
LEMMA Turned ==
    ASSUME NEW t, TaskShaped(t), NEW nxt, NEW u, u = [t EXCEPT !.pc = nxt]
    PROVE  TaskShaped(u) /\ u.pc = nxt /\ u.to = t.to /\ u.d = t.d /\ u.todo = t.todo
BY DEF TaskShaped

LEMMA IdleShaped == TaskShaped(Idle) /\ Idle.pc = "idle"
BY DEF TaskShaped, Idle

LEMMA Named ==
    ASSUME NEW t, TaskShaped(t), NEW op, NEW u, u = [t EXCEPT !.op = op]
    PROVE  TaskShaped(u) /\ u.pc = t.pc /\ u.to = t.to /\ u.d = t.d /\ u.todo = t.todo
BY DEF TaskShaped

\* An unlocking step leaves every other request clear.
LEMMA UnlockingKeeps ==
    ASSUME Guarded, NEW w \in Workers, Unlocking(w), w \notin late' => Clear(task[w])',
           \A d \in Dates : lock = "Locked" /\ row[d].locked /\ row'[d] # row[d] =>
               w \in late /\ task'[w] # task[w]
    PROVE  Guarded' /\ Frozen
<1>1. Shaped'
  <2>1. task' = [v \in Workers |-> task'[v]]
    BY DEF Guarded, Shaped, Unlocking
  <2>2. \A v \in Workers : TaskShaped(task'[v])
    BY DEF Guarded, Shaped, Unlocking
  <2> QED
    BY <2>1, <2>2 DEF Shaped, Unlocking, TaskShaped
<1>2. ASSUME NEW v \in Workers, v # w, v \notin late' PROVE Clear(task[v])'
  <2>1. task'[v] = task[v] /\ v \notin late
    BY <1>2 DEF Guarded, Shaped, Unlocking
  <2>2. Clear(task[v])
    BY <2>1 DEF Guarded
  <2>3. (lock' = "Locked" => lock = "Locked") /\ \A d \in Dates : row'[d].locked => row[d].locked
    BY DEF Unlocking
  <2> QED
    BY <2>1, <2>2, <2>3 DEF Clear
<1>3. Frozen
  BY DEF Frozen
<1> QED
  BY <1>1, <1>2, <1>3 DEF Guarded

\* A step of w that writes no row and does not lock.
LEMMA StandingKeeps ==
    ASSUME Guarded, NEW w \in Workers, NEW v, task' = [task EXCEPT ![w] = v], TaskShaped(v),
           row' = row, lock' = lock \/ lock' = "Open", late \ {w} \subseteq late',
           v.pc \in ClearPCs /\ w \notin late' => Clear(v)'
    PROVE  Guarded' /\ Frozen
<1>1. task'[w] = v
  BY DEF Guarded, Shaped
<1>2. Unlocking(w)
  BY <1>1 DEF Guarded, Shaped, Unlocking
<1>3. ASSUME w \notin late' PROVE Clear(task[w])'
  <2>1. CASE v.pc \in ClearPCs
    BY <1>1, <1>3, <2>1
  <2>2. CASE v.pc \notin ClearPCs
    BY <1>1, <2>2 DEF Clear, ClearPCs
  <2> QED
    BY <2>1, <2>2
<1> QED
  BY <1>2, <1>3, UnlockingKeeps

\* The ways in which a handler goes on without writing a row.
LEMMA StandingStill ==
    ASSUME Guarded, NEW w \in Workers, NEW v, task' = [task EXCEPT ![w] = v], TaskShaped(v),
           v.pc \notin ClearPCs, UNCHANGED <<row, lock, late>>
    PROVE  Guarded' /\ Frozen
BY StandingKeeps

LEMMA GoingTo ==
    ASSUME Guarded, NEW w \in Workers, NEW nxt, Goto(w, nxt), UNCHANGED <<row, lock, late>>,
           nxt \in ClearPCs /\ w \notin late =>
               \A u : TaskShaped(u) /\ u.pc = nxt /\ u.to = task[w].to /\ u.d = task[w].d
                      /\ u.todo = task[w].todo => Clear(u)
    PROVE  Guarded' /\ Frozen
<1>0. PICK u : u = [task[w] EXCEPT !.pc = nxt]
  OBVIOUS
<1>1. task' = [task EXCEPT ![w] = u] /\ u = [task[w] EXCEPT !.pc = nxt] /\ TaskShaped(task[w])
  BY <1>0 DEF Goto, Guarded, Shaped
<1>2. TaskShaped(u) /\ u.pc = nxt /\ u.to = task[w].to /\ u.d = task[w].d /\ u.todo = task[w].todo
  BY <1>1, Turned
<1>3. ASSUME u.pc \in ClearPCs, w \notin late' PROVE Clear(u)'
  <2>1. nxt \in ClearPCs /\ w \notin late /\ row' = row /\ lock' = lock
    BY <1>2, <1>3
  <2>2. Clear(u)
    BY <1>2, <2>1, Zenon
  <2> QED
    BY <2>1, <2>2 DEF Clear
<1>4. row' = row /\ (lock' = lock \/ lock' = "Open") /\ late \ {w} \subseteq late'
  OBVIOUS
<1> QED
  BY <1>1, <1>2, <1>3, <1>4, StandingKeeps

LEMMA Finishing ==
    ASSUME Guarded, NEW w \in Workers, Finish(w), UNCHANGED <<row, lock, late>>
    PROVE  Guarded' /\ Frozen
<1>1. TaskShaped(Idle) /\ Idle.pc \notin ClearPCs /\ task' = [task EXCEPT ![w] = Idle]
  BY IdleShaped DEF ClearPCs, Finish
<1> QED
  BY <1>1, StandingStill

LEMMA Beginning ==
    ASSUME Guarded, NEW w \in Workers, NEW op, NEW v, Begin(w, Idle, op, v), TaskShaped(v),
           v.pc \in ClearPCs => Clear(v)
    PROVE  Guarded' /\ Frozen
<1> DEFINE u == [v EXCEPT !.op = op]
<1>1. /\ task' = [task EXCEPT ![w] = u] /\ u = [v EXCEPT !.op = op]
      /\ row' = row /\ lock' = lock /\ late' = late \ {w}
  BY DEF Begin
<1> HIDE DEF u
<1>2. TaskShaped(u) /\ u.pc = v.pc /\ u.to = v.to /\ u.d = v.d /\ u.todo = v.todo
  BY <1>1, Named
<1>3. ASSUME u.pc \in ClearPCs PROVE Clear(u)'
  BY <1>1, <1>2, <1>3 DEF Clear
<1> QED
  BY <1>1, <1>2, <1>3, StandingKeeps

\* A row is written, not to be locked, by a request that goes on or is done.
LEMMA WritingKeeps ==
    ASSUME Guarded, NEW w \in Workers, NEW v, task' = [task EXCEPT ![w] = v], TaskShaped(v),
           v # task[w], lock' = lock, late' = late,
           NEW on, NEW r, row' = [row EXCEPT ![on] = r], on \in Dates => RowShaped(r) /\ (r.locked => row[on].locked),
           w \notin late => (lock # "Locked" \/ (on \in Dates => ~row[on].locked)),
           v.pc \in ClearPCs /\ w \notin late => Clear(v)'
    PROVE  Guarded' /\ Frozen
<1>1. task'[w] = v /\ row = [d \in Dates |-> row[d]] /\ \A d \in Dates : RowShaped(row[d])
  BY DEF Guarded, Shaped
<1>2. \A d \in Dates : row'[d] = IF d = on THEN r ELSE row[d]
  BY <1>1
<1>3. Unlocking(w)
  <2>1. row' = [d \in Dates |-> row'[d]]
    BY <1>1
  <2>2. \A d \in Dates : RowShaped(row'[d]) /\ (row'[d].locked => row[d].locked)
    BY <1>1, <1>2
  <2> QED
    BY <1>1, <2>1, <2>2 DEF Unlocking
<1>4. ASSUME w \notin late' PROVE Clear(task[w])'
  <2>1. CASE v.pc \in ClearPCs
    BY <1>1, <1>4, <2>1
  <2>2. CASE v.pc \notin ClearPCs
    BY <1>1, <2>2 DEF Clear, ClearPCs
  <2> QED
    BY <2>1, <2>2
<1>5. \A d \in Dates : lock = "Locked" /\ row[d].locked /\ row'[d] # row[d] =>
        w \in late /\ task'[w] # task[w]
  BY <1>1, <1>2
<1> QED
  BY <1>3, <1>4, <1>5, UnlockingKeeps

LEMMA LeaveStepsFrozen ==
    ASSUME Guarded, NEW w \in Workers, LeaveStep(w)
    PROVE  Guarded' /\ Frozen
<1> USE DEF At
<1>0. TaskShaped(task[w]) /\ (w \notin late => Clear(task[w]))
  BY DEF Guarded, Shaped
<1>1. ASSUME NEW op, NEW v, Start(w, op, v), TaskShaped(v), v.pc \notin ClearPCs
      PROVE  Guarded' /\ Frozen
  BY <1>1, Beginning DEF Start
<1>2. CASE StartApply(w)
  <2>1. PICK l, kind, from, to, half :
          Start(w, "apply", [Idle EXCEPT !.pc = "apply_balance", !.x = l,
                    !.v = [NoLeave EXCEPT !.status = "Pending", !.kind = kind, !.from = from,
                                          !.to = to, !.half = half]])
    BY <1>2 DEF StartApply
  <2> DEFINE v == [Idle EXCEPT !.pc = "apply_balance", !.x = l,
                    !.v = [NoLeave EXCEPT !.status = "Pending", !.kind = kind, !.from = from,
                                          !.to = to, !.half = half]]
  <2>2. TaskShaped(v) /\ v.pc \notin ClearPCs
    BY DEF TaskShaped, Idle, ClearPCs
  <2> HIDE DEF v
  <2> QED
    BY <1>1, <2>1, <2>2 DEF v
<1>3. CASE StartAct(w)
  <2>1. PICK l, who, to :
          Start(w, "act", [Idle EXCEPT !.x = l, !.who = who, !.to = to, !.v = leave[l],
                                       !.pc = ActFrom(leave[l], to)])
    BY <1>3 DEF StartAct
  <2> DEFINE v == [Idle EXCEPT !.x = l, !.who = who, !.to = to, !.v = leave[l],
                               !.pc = ActFrom(leave[l], to)]
  <2>2. TaskShaped(v) /\ v.pc = ActFrom(leave[l], to)
    BY DEF TaskShaped, Idle
  <2>3. ActFrom(leave[l], to) \notin ClearPCs
    BY DEF ActFrom, ClearPCs
  <2> HIDE DEF v
  <2> QED
    BY <1>1, <2>1, <2>2, <2>3 DEF v
<1>4. CASE StartCancel(w)
  <2>1. PICK l : Start(w, "cancel", [Idle EXCEPT !.pc = "cancel_write", !.x = l, !.v = leave[l]])
    BY <1>4 DEF StartCancel
  <2> DEFINE v == [Idle EXCEPT !.pc = "cancel_write", !.x = l, !.v = leave[l]]
  <2>2. TaskShaped(v) /\ v.pc \notin ClearPCs
    BY DEF TaskShaped, Idle, ClearPCs
  <2> HIDE DEF v
  <2> QED
    BY <1>1, <2>1, <2>2 DEF v
<1>5. CASE StartClaim(w)
  <2>1. PICK x : Start(w, "claim", [Idle EXCEPT !.pc = "claim_insert", !.b = x])
    BY <1>5 DEF StartClaim
  <2> DEFINE v == [Idle EXCEPT !.pc = "claim_insert", !.b = x]
  <2>2. TaskShaped(v) /\ v.pc \notin ClearPCs
    BY DEF TaskShaped, Idle, ClearPCs
  <2> HIDE DEF v
  <2> QED
    BY <1>1, <2>1, <2>2 DEF v
<1>13. CASE StartActClaim(w)
  <2>1. PICK b, to : Start(w, "act-claim", [Idle EXCEPT !.pc = "claim_write", !.b = b, !.to = to])
    BY <1>13 DEF StartActClaim
  <2> DEFINE v == [Idle EXCEPT !.pc = "claim_write", !.b = b, !.to = to]
  <2>2. TaskShaped(v) /\ v.pc \notin ClearPCs
    BY DEF TaskShaped, Idle, ClearPCs
  <2> HIDE DEF v
  <2> QED
    BY <1>1, <2>1, <2>2 DEF v
<1>14. CASE StartAdjust(w)
  <2> DEFINE v == [Idle EXCEPT !.pc = "adjust_inc"]
  <2>1. Start(w, "adjust", v)
    BY <1>14 DEF StartAdjust
  <2>2. TaskShaped(v) /\ v.pc \notin ClearPCs
    BY DEF TaskShaped, Idle, ClearPCs
  <2> HIDE DEF v
  <2> QED
    BY <1>1, <2>1, <2>2
\* Handlers that only move on, or end.
<1>6. ASSUME Finish(w) \/ \E nxt : Goto(w, nxt) /\ nxt \notin ClearPCs, UNCHANGED <<row, lock, late>>
      PROVE  Guarded' /\ Frozen
  BY <1>6, GoingTo, Finishing
<1>7. CASE \/ ApplyPending(w) \/ ApplyInsert(w) \/ DebitRead(w) \/ DaysDone(w) \/ ActWrite(w)
           \/ CancelWrite(w) \/ GiveBack(w) \/ ClaimInsert(w) \/ ClaimWrite(w) \/ AdjustInc(w)
  <2>1. UNCHANGED <<row, lock, late>>
    BY <1>7 DEF ApplyPending, ApplyInsert, DebitRead, DaysDone, ActWrite, CancelWrite, GiveBack,
                ClaimInsert, ClaimWrite, AdjustInc, traffic
  <2>2. \/ Finish(w) \/ Goto(w, "apply_insert") \/ Goto(w, "debit_inc") \/ Goto(w, "act_write")
        \/ Goto(w, "undo_read")
    BY <1>7 DEF ApplyPending, ApplyInsert, DebitRead, DaysDone, ActWrite, CancelWrite, GiveBack,
                ClaimInsert, ClaimWrite, AdjustInc
  <2>3. \A nxt \in {"apply_insert", "debit_inc", "act_write", "undo_read"} : nxt \notin ClearPCs
    BY DEF ClearPCs
  <2> QED
    BY <1>6, <2>1, <2>2, <2>3
\* Handlers that note what they have read.
<1>8. CASE \/ ApplyBalance(w) \/ DebitInc(w) \/ CoffRead(w) \/ CoffTake(w) \/ CoffNote(w)
           \/ UndoDone(w) \/ GiveBackCoff(w)
  <2>1. UNCHANGED <<row, lock, late>>
    BY <1>8 DEF ApplyBalance, DebitInc, CoffRead, CoffTake, CoffNote, UndoDone, GiveBackCoff, traffic
  <2>2. ASSUME NEW v, task' = [task EXCEPT ![w] = v], TaskShaped(v), v.pc \notin ClearPCs
        PROVE  Guarded' /\ Frozen
    BY <2>1, <2>2, StandingStill
  <2>3. CASE ApplyBalance(w)
    <3>1. PICK v : v = [task[w] EXCEPT !.pc = "apply_pending",
                            !.n = IF task[w].v.kind = "C-Off" THEN CoffAvailable ELSE Closing]
      OBVIOUS
    <3>2. task' = [task EXCEPT ![w] = v]
      BY <2>3, <3>1 DEF ApplyBalance, Guarded, Shaped
    <3>3. TaskShaped(v) /\ v.pc \notin ClearPCs
      BY <1>0, <3>1 DEF TaskShaped, ClearPCs
    <3> QED
      BY <2>2, <3>2, <3>3
  <2>4. CASE DebitInc(w) \/ CoffNote(w)
    <3>1. PICK v : v = [task[w] EXCEPT !.pc = "day_read", !.todo = Days(task[w].v)]
      OBVIOUS
    <3>2. task' = [task EXCEPT ![w] = v]
      BY <2>4, <3>1 DEF DebitInc, CoffNote, MarkDays, Guarded, Shaped
    <3>3. Days(task[w].v) \subseteq Dates
      BY DEF Days, WorkingDays
    <3>4. TaskShaped(v) /\ v.pc \notin ClearPCs
      BY <1>0, <3>1, <3>3 DEF TaskShaped, ClearPCs
    <3> QED
      BY <2>2, <3>2, <3>4
  <2>5. CASE CoffRead(w)
    <3>1. CASE Finish(w)
      BY <1>6, <2>1, <3>1
    <3>2. CASE ~Finish(w)
      <4>1. PICK v : v = [task[w] EXCEPT !.pc = "coff_take", !.plan = Plan(Count(task[w].v)),
                                         !.base = [b \in Batches |-> coff[b].left]]
        OBVIOUS
      <4>2. task' = [task EXCEPT ![w].pc = "coff_take", ![w].plan = Plan(Count(task[w].v)),
                                 ![w].base = [b \in Batches |-> coff[b].left]]
        BY <2>5, <3>2, Zenon DEF CoffRead
      <4>3. task' = [task EXCEPT ![w] = v]
        BY <4>1, <4>2 DEF Guarded, Shaped
      <4>4. TaskShaped(v) /\ v.pc \notin ClearPCs
        BY <1>0, <4>1 DEF TaskShaped, ClearPCs
      <4> QED
        BY <2>2, <4>3, <4>4
    <3> QED
      BY <3>1, <3>2
  <2>6. CASE CoffTake(w) \/ GiveBackCoff(w)
    <3>1. CASE Finish(w)
      BY <1>6, <2>1, <3>1
    <3>2. CASE ~Finish(w)
      <4>1. PICK b : task' = [task EXCEPT ![w].b = b]
        BY <2>6, <3>2, Zenon DEF CoffTake, GiveBackCoff
      <4>2. PICK v : v = [task[w] EXCEPT !.b = b]
        OBVIOUS
      <4>3. task' = [task EXCEPT ![w] = v]
        BY <4>1, <4>2 DEF Guarded, Shaped
      <4>4. task[w].pc \in {"coff_take", "give_back"}
        BY <2>6 DEF CoffTake, GiveBackCoff
      <4>5. TaskShaped(v) /\ v.pc = task[w].pc
        BY <1>0, <4>2 DEF TaskShaped
      <4>6. v.pc \notin ClearPCs
        BY <4>4, <4>5 DEF ClearPCs
      <4> QED
        BY <2>2, <4>3, <4>5, <4>6
    <3> QED
      BY <3>1, <3>2
  <2>7. CASE UndoDone(w)
    <3>1. PICK v : v = [task[w] EXCEPT !.pc = "give_back", !.plan = task[w].v.took]
      OBVIOUS
    <3>2. task' = [task EXCEPT ![w] = v]
      BY <2>7, <3>1 DEF UndoDone, Guarded, Shaped
    <3>3. TaskShaped(v) /\ v.pc \notin ClearPCs
      BY <1>0, <3>1 DEF TaskShaped, ClearPCs
    <3> QED
      BY <2>2, <3>2, <3>3
  <2> QED
    BY <1>8, <2>3, <2>4, <2>5, <2>6, <2>7
\* A day is marked when its row was read unlocked.
<1>9. CASE DayRead(w)
  <2> DEFINE d == Min(task[w].todo)
  <2>1. PICK v : v = IF row[d].locked THEN [task[w] EXCEPT !.todo = @ \ {d}]
                     ELSE [task[w] EXCEPT !.saw[d] = row[d], !.pc = "day_write"]
    OBVIOUS
  <2>2. task' = [task EXCEPT ![w] = v] /\ UNCHANGED <<row, lock, late>> /\ task[w].pc = "day_read"
    BY <1>9, <2>1 DEF DayRead, traffic, Guarded, Shaped
  <2> HIDE DEF d
  <2>3. CASE row[d].locked
    <3>1. TaskShaped(v) /\ v.pc = "day_read"
      BY <1>0, <2>1, <2>2, <2>3 DEF TaskShaped
    <3> QED
      BY <2>2, <3>1, StandingStill DEF ClearPCs
  <2>4. CASE ~row[d].locked
    <3>1. v = [task[w] EXCEPT !.saw[d] = row[d], !.pc = "day_write"]
      BY <2>1, <2>4, Zenon
    <3>2. TaskShaped(v) /\ v.pc = "day_write" /\ v.todo = task[w].todo
      BY <1>0, <3>1 DEF TaskShaped
    <3>3. Clear(v)'
      BY <2>2, <2>4, <3>2 DEF Clear, d
    <3> QED
      BY <2>2, <3>2, <3>3, StandingKeeps
  <2> QED
    BY <2>3, <2>4
<1>10. CASE DayWrite(w)
  <2> DEFINE d == Min(task[w].todo)
  <2>1. PICK p : row' = [row EXCEPT ![d] = [@ EXCEPT !.status = "OnLeave", !.ref = task[w].x,
                                                     !.pre = p]]
    BY <1>10 DEF DayWrite
  <2>2. PICK v : v = [task[w] EXCEPT !.todo = @ \ {d}, !.pc = "day_read"]
    OBVIOUS
  <2>3. task' = [task EXCEPT ![w] = v] /\ UNCHANGED <<lock, late>> /\ task[w].pc = "day_write"
    BY <1>10, <2>2 DEF DayWrite, traffic, Guarded, Shaped
  <2>4. TaskShaped(v) /\ v.pc = "day_read" /\ v # task[w] /\ v.pc \notin ClearPCs
    BY <1>0, <2>2, <2>3 DEF TaskShaped, ClearPCs
  <2>5. PICK r : r = Redrawn(row[d], "OnLeave", task[w].x, p)
    OBVIOUS
  <2>6. w \notin late => (lock # "Locked" \/ (d \in Dates => ~row[d].locked))
    BY <1>0, <2>3 DEF Clear
  <2> HIDE DEF d
  <2>7. row' = [row EXCEPT ![d] = r]
    BY <2>1, <2>5 DEF Guarded, Shaped, Redrawn
  <2>8. d \in Dates => RowShaped(r) /\ (r.locked => row[d].locked)
    BY <2>5, RowDrawn, Zenon DEF Guarded, Shaped
  <2> QED
    BY <2>3, <2>4, <2>6, <2>7, <2>8, WritingKeeps
<1>11. CASE UndoRead(w)
  <2> DEFINE S == {d \in {e \in Dates : row[e].ref = task[w].x} : ~row[d].locked}
  <2>1. PICK v : v = [task[w] EXCEPT !.pc = "undo_row", !.saw = row, !.todo = S]
    OBVIOUS
  <2>2. task' = [task EXCEPT ![w] = v] /\ UNCHANGED <<row, lock, late>>
    BY <1>11, <2>1 DEF UndoRead, traffic, Guarded, Shaped
  <2>3. S \subseteq Dates /\ \A d \in S : ~row[d].locked
    OBVIOUS
  <2> HIDE DEF S
  <2>4. TaskShaped(v) /\ v.pc = "undo_row" /\ v.todo = S
    BY <1>0, <2>1, <2>3 DEF TaskShaped
  <2>5. Clear(v)'
    BY <2>2, <2>3, <2>4 DEF Clear
  <2> QED
    BY <2>2, <2>4, <2>5, StandingKeeps
<1>12. CASE UndoRow(w)
  <2> DEFINE d == Min(task[w].todo)
             r == IF task[w].saw[d].pre = "None" \/ ~Exists(row[d]) THEN NoRow
                  ELSE [row[d] EXCEPT !.status = task[w].saw[d].pre, !.ref = "none", !.pre = "None"]
  <2>1. task[w].todo \in SUBSET Nat /\ task[w].todo # {} /\ task[w].todo \subseteq Dates
    BY <1>0, <1>12, AttendanceAssumption DEF UndoRow, TaskShaped
  <2>2. d \in task[w].todo /\ d \in Dates
    BY <2>1, MinFound
  <2>3. PICK v : v = [task[w] EXCEPT !.todo = @ \ {d}]
    OBVIOUS
  <2>4. task' = [task EXCEPT ![w] = v] /\ UNCHANGED <<lock, late>> /\ task[w].pc = "undo_row"
    BY <1>12, <2>3 DEF UndoRow, traffic, Guarded, Shaped
  <2>5. row' = [row EXCEPT ![d] = r]
    BY <1>12, <2>2 DEF UndoRow, Guarded, Shaped
  <2>6. RowShaped(r) /\ (r.locked => row[d].locked)
    <3>1. RowShaped(row[d])
      BY <2>2 DEF Guarded, Shaped
    <3>2. CASE r = NoRow
      BY <3>1, <3>2, RowsWritten
    <3>3. CASE r = Redrawn(row[d], task[w].saw[d].pre, "none", "None")
      <4> HIDE DEF d, r
      <4> QED
        BY <3>1, <3>3, RowDrawn, Zenon
    <3> QED
      BY <3>2, <3>3, Zenon DEF Redrawn
  <2> HIDE DEF d, r
  <2>7. TaskShaped(v) /\ v.todo = task[w].todo \ {d} /\ v.pc = "undo_row"
    BY <1>0, <2>3, <2>4 DEF TaskShaped
  <2>8. v # task[w]
    BY <2>2, <2>7
  <2>9. ASSUME w \notin late PROVE (\A e \in Dates : e \in task[w].todo => ~row[e].locked) /\ Clear(v)'
    <3>1. \A e \in Dates : e \in task[w].todo => ~row[e].locked
      BY <1>0, <2>4, <2>9 DEF Clear
    <3>2. \A e \in Dates : e \in v.todo => row'[e] = row[e]
      BY <2>5, <2>7 DEF Guarded, Shaped
    <3> QED
      BY <2>4, <2>7, <3>1, <3>2 DEF Clear
  <2>10. w \notin late => (lock # "Locked" \/ (d \in Dates => ~row[d].locked))
    BY <2>2, <2>9
  <2>11. v.pc \in ClearPCs /\ w \notin late => Clear(v)'
    BY <2>9
  <2> QED
    BY <2>4, <2>5, <2>6, <2>7, <2>8, <2>10, <2>11, WritingKeeps
<1> QED
  BY <1>2, <1>3, <1>4, <1>5, <1>7, <1>8, <1>9, <1>10, <1>11, <1>12,
     <1>13, <1>14 DEF LeaveStep

\* A day's status is written by a request that goes on or is done.
LEMMA MarkingKeeps ==
    ASSUME Guarded, NEW w \in Workers, NEW v, task' = [task EXCEPT ![w] = v], TaskShaped(v),
           v # task[w], lock' = lock, late' = late, NEW on, NEW s,
           \/ row' = [row EXCEPT ![on] = Marked(@, s)]
           \/ row' = [row EXCEPT ![on] = Recorded(@, s)],
           w \notin late => (lock # "Locked" \/ (on \in Dates => ~row[on].locked)),
           v.pc \notin ClearPCs
    PROVE  Guarded' /\ Frozen
<1>1. PICK r : row' = [row EXCEPT ![on] = r] /\ (r = Marked(row[on], s) \/ r = Recorded(row[on], s))
  OBVIOUS
<1>2. ASSUME on \in Dates PROVE RowShaped(r) /\ (r.locked => row[on].locked)
  <2>1. RowShaped(row[on])
    BY <1>2 DEF Guarded, Shaped
  <2>2. CASE r = Marked(row[on], s)
    BY <2>1, <2>2, RowsWritten, Zenon
  <2>3. CASE r = Recorded(row[on], s)
    BY <2>1, <2>3, RowsWritten, Zenon
  <2> QED
    BY <1>1, <2>2, <2>3
<1> QED
  BY <1>1, <1>2, WritingKeeps

\* A check of the month's lock lets the handler through.
LEMMA LetThrough ==
    ASSUME Guarded, NEW w \in Workers, NEW nxt, Goto(w, nxt), UNCHANGED <<row, lock, late>>,
           lock # "Locked",
           nxt \notin {"punch_write", "import_month", "import_write", "day_write", "rejudge", "undo_row"}
    PROVE  Guarded' /\ Frozen
<1>1. \A u : u.pc = nxt => Clear(u)
  BY DEF Clear
<1> QED
  BY <1>1, GoingTo

Onward(t, nxt, left) == IF left = {} THEN Idle ELSE [t EXCEPT !.pc = nxt, !.todo = left]

LEMMA Proceeded ==
    ASSUME NEW t, TaskShaped(t), NEW nxt, NEW left, left \subseteq Dates
    PROVE  LET v == Onward(t, nxt, left)
           IN  TaskShaped(v) /\ (v.pc = "idle" \/ (v.pc = nxt /\ v.todo = left))
<1>1. CASE left = {}
  <2>1. Onward(t, nxt, left) = Idle
    BY <1>1 DEF Onward
  <2>2. TaskShaped(Onward(t, nxt, left)) /\ Onward(t, nxt, left).pc = "idle"
    BY <2>1, IdleShaped
  <2> QED
    BY <2>2
<1>2. CASE left # {}
  <2>1. PICK v : v = [t EXCEPT !.pc = nxt, !.todo = left]
    OBVIOUS
  <2>2. Onward(t, nxt, left) = v
    BY <1>2, <2>1 DEF Onward
  <2>3. TaskShaped(v) /\ v.pc = nxt /\ v.todo = left
    BY <2>1 DEF TaskShaped
  <2> QED
    BY <2>2, <2>3
<1> QED
  BY <1>1, <1>2

LEMMA AttendanceStepsFrozen ==
    ASSUME Guarded, NEW w \in Workers, AttendanceStep(w, Idle),
           ~LockWrite(w, Idle), ~LockRows(w, Idle)
    PROVE  Guarded' /\ Frozen
<1> USE DEF At
<1>0. TaskShaped(task[w]) /\ (w \notin late => Clear(task[w]))
  BY DEF Guarded, Shaped
<1>1. ASSUME NEW op, NEW v, Begin(w, Idle, op, v), TaskShaped(v), v.pc \notin ClearPCs
      PROVE  Guarded' /\ Frozen
  BY <1>1, Beginning
<1>2. CASE StartMark(w, Idle)
  <2>1. PICK d, s : Begin(w, Idle, "mark", [Idle EXCEPT !.pc = "month_check", !.d = d, !.to = s])
    BY <1>2 DEF StartMark
  <2> DEFINE v == [Idle EXCEPT !.pc = "month_check", !.d = d, !.to = s]
  <2>2. TaskShaped(v) /\ v.pc \notin ClearPCs
    BY DEF TaskShaped, Idle, ClearPCs
  <2> HIDE DEF v
  <2> QED
    BY <1>1, <2>1, <2>2 DEF v
<1>3. CASE StartRequestReg(w, Idle)
  <2>1. PICK r, d, n : Begin(w, Idle, "request-reg",
                             [Idle EXCEPT !.pc = "month_check", !.x = r, !.d = d, !.levels = n])
    BY <1>3 DEF StartRequestReg
  <2> DEFINE v == [Idle EXCEPT !.pc = "month_check", !.x = r, !.d = d, !.levels = n]
  <2>2. TaskShaped(v) /\ v.pc \notin ClearPCs
    BY DEF TaskShaped, Idle, ClearPCs
  <2> HIDE DEF v
  <2> QED
    BY <1>1, <2>1, <2>2 DEF v
<1>4. CASE StartPunch(w, Idle)
  <2>1. PICK d \in Dates : /\ ~row[d].locked
                           /\ Begin(w, Idle, "punch", [Idle EXCEPT !.pc = "punch_write", !.d = d])
    BY <1>4 DEF StartPunch
  <2> DEFINE v == [Idle EXCEPT !.pc = "punch_write", !.d = d]
  <2>2. TaskShaped(v) /\ v.pc = "punch_write" /\ v.d = d
    BY DEF TaskShaped, Idle
  <2> HIDE DEF v
  <2>3. Clear(v)
    BY <2>1, <2>2 DEF Clear
  <2>4. Begin(w, Idle, "punch", v)
    BY <2>1 DEF v
  <2> QED
    BY <2>2, <2>3, <2>4, Beginning
<1>5. CASE StartImport(w, Idle)
  <2>1. PICK days \in SUBSET Dates :
          Begin(w, Idle, "import", [Idle EXCEPT !.pc = "import_read", !.todo = days])
    BY <1>5 DEF StartImport
  <2> DEFINE v == [Idle EXCEPT !.pc = "import_read", !.todo = days]
  <2>2. TaskShaped(v) /\ v.pc \notin ClearPCs
    BY DEF TaskShaped, Idle, ClearPCs
  <2> HIDE DEF v
  <2> QED
    BY <1>1, <2>1, <2>2 DEF v
<1>6. CASE StartRejudge(w, Idle)
  <2>1. PICK days \in SUBSET Dates :
          /\ \A d \in days : ~row[d].locked
          /\ Begin(w, Idle, "act-flexi", [Idle EXCEPT !.pc = "rejudge", !.todo = days])
    BY <1>6 DEF StartRejudge
  <2> DEFINE v == [Idle EXCEPT !.pc = "rejudge", !.todo = days]
  <2>2. TaskShaped(v) /\ v.pc = "rejudge" /\ v.todo = days
    BY DEF TaskShaped, Idle
  <2> HIDE DEF v
  <2>3. Clear(v)
    BY <2>1, <2>2 DEF Clear
  <2>4. Begin(w, Idle, "act-flexi", v)
    BY <2>1 DEF v
  <2> QED
    BY <2>2, <2>3, <2>4, Beginning
<1>7. CASE StartActReg(w, Idle)
  <2> DEFINE P(to, q) == IF Final(q, to) THEN "reg_unlocked" ELSE "reg_write"
             T(to, q) == IF Final(q, to) THEN "Approved" ELSE to
  <2>1. PICK r, to : Begin(w, Idle, "act-reg", [Idle EXCEPT !.x = r, !.d = reg[r].day,
                              !.pc = P(to, reg[r]), !.to = T(to, reg[r])])
    BY <1>7 DEF StartActReg
  <2> DEFINE v == [Idle EXCEPT !.x = r, !.d = reg[r].day, !.pc = P(to, reg[r]), !.to = T(to, reg[r])]
  <2>2. TaskShaped(v) /\ v.pc \in {"reg_unlocked", "reg_write"}
    BY DEF TaskShaped, Idle
  <2> HIDE DEF v
  <2> QED
    BY <1>1, <2>1, <2>2 DEF v, ClearPCs
<1>8. CASE StartRequestOd(w, Idle)
  <2>1. PICK o, d, n : Begin(w, Idle, "request-od",
                             [Idle EXCEPT !.pc = "od_insert", !.x = o, !.d = d, !.levels = n])
    BY <1>8 DEF StartRequestOd
  <2> DEFINE v == [Idle EXCEPT !.pc = "od_insert", !.x = o, !.d = d, !.levels = n]
  <2>2. TaskShaped(v) /\ v.pc \notin ClearPCs
    BY DEF TaskShaped, Idle, ClearPCs
  <2> HIDE DEF v
  <2> QED
    BY <1>1, <2>1, <2>2 DEF v
\* A decision on an outdoor duty writes the day only once it has asked.
<1>9. CASE StartActOd(w, Idle)
  <2> DEFINE first(q) == q.levels = 2 /\ q.status = "Pending"
             P(q, approved) == IF approved /\ ~first(q) THEN "od_lock" ELSE "od_write"
             T(q, approved) == CASE ~approved -> "Refused"
                                 [] approved /\ first(q) -> "ManagerApproved"
                                 [] OTHER -> "Approved"
  <2>1. PICK o \in Ods, approved \in BOOLEAN : Begin(w, Idle, "act-od",
          [Idle EXCEPT !.x = o, !.d = od[o].day, !.pc = P(od[o], approved), !.to = T(od[o], approved)])
    BY <1>9 DEF StartActOd
  <2> DEFINE v == [Idle EXCEPT !.x = o, !.d = od[o].day, !.pc = P(od[o], approved),
                               !.to = T(od[o], approved)]
  <2>2. TaskShaped(v) /\ v.pc = P(od[o], approved) /\ v.to = T(od[o], approved)
    BY DEF TaskShaped, Idle
  <2>3. Begin(w, Idle, "act-od", v)
    BY <2>1
  <2> HIDE DEF v, first
  <2>4. v.pc = "od_lock" \/ (v.pc = "od_write" /\ v.to # "Approved")
    BY <2>2
  <2>5. Clear(v)
    BY <2>4 DEF Clear
  <2> QED
    BY <2>2, <2>3, <2>5, Beginning
<1>10. CASE StartLock(w, Idle)
  <2> DEFINE v == [Idle EXCEPT !.pc = "lock_write"]
  <2>1. Begin(w, Idle, "lock", v)
    BY <1>10 DEF StartLock
  <2>2. TaskShaped(v) /\ v.pc \notin ClearPCs
    BY DEF TaskShaped, Idle, ClearPCs
  <2> HIDE DEF v
  <2> QED
    BY <1>1, <2>1, <2>2
<1>11. CASE StartUnlock(w, Idle)
  <2> DEFINE v == [Idle EXCEPT !.pc = "unlock_write"]
  <2>1. Begin(w, Idle, "unlock", v)
    BY <1>11 DEF StartUnlock
  <2>2. TaskShaped(v) /\ v.pc \notin ClearPCs
    BY DEF TaskShaped, Idle, ClearPCs
  <2> HIDE DEF v
  <2> QED
    BY <1>1, <2>1, <2>2
\* Checks of the month, and writes of the request.
<1>12. CASE \/ MonthCheck(w, Idle) \/ RegUnlocked(w, Idle) \/ OdLock(w, Idle) \/ RegInsert(w, Idle)
            \/ RegWrite(w, Idle) \/ OdInsert(w, Idle)
  <2>1. UNCHANGED <<row, lock, late>>
    BY <1>12 DEF MonthCheck, RegUnlocked, OdLock, RegInsert, RegWrite, OdInsert, traffic
  <2>2. \/ Finish(w)
        \/ /\ lock # "Locked"
           /\ \/ Goto(w, "mark_write") \/ Goto(w, "reg_insert") \/ Goto(w, "reg_apply")
              \/ Goto(w, "od_write")
    BY <1>12 DEF MonthCheck, RegUnlocked, OdLock, RegInsert, RegWrite, OdInsert, Finish
  <2> QED
    BY <2>1, <2>2, Finishing, LetThrough
<1>13. CASE MarkWrite(w, Idle)
  <2>1. task' = [task EXCEPT ![w] = Idle] /\ task[w].pc = "mark_write" /\ UNCHANGED <<lock, late>>
    BY <1>13 DEF MarkWrite, traffic
  <2>2. row' = [row EXCEPT ![task[w].d] = Recorded(@, task[w].to)]
    BY <1>13 DEF MarkWrite
  <2>3. w \notin late => lock # "Locked"
    BY <1>0, <2>1 DEF Clear
  <2>4. TaskShaped(Idle) /\ Idle # task[w] /\ Idle.pc \notin ClearPCs
    BY <2>1, IdleShaped DEF ClearPCs
  <2> QED
    BY <2>1, <2>2, <2>3, <2>4, MarkingKeeps
<1>14. CASE PunchWrite(w, Idle)
  <2>1. task' = [task EXCEPT ![w] = Idle] /\ task[w].pc = "punch_write" /\ UNCHANGED <<lock, late>>
    BY <1>14 DEF PunchWrite, traffic
  <2>2. PICK s : row' = [row EXCEPT ![task[w].d] = Recorded(@, s)]
    BY <1>14 DEF PunchWrite
  <2>3. w \notin late => (task[w].d \in Dates => ~row[task[w].d].locked)
    BY <1>0, <2>1 DEF Clear
  <2>4. TaskShaped(Idle) /\ Idle # task[w] /\ Idle.pc \notin ClearPCs
    BY <2>1, IdleShaped DEF ClearPCs
  <2> QED
    BY <2>1, <2>2, <2>3, <2>4, MarkingKeeps
<1>15. CASE ImportRead(w, Idle)
  <2> DEFINE d == Min(task[w].todo)
             v == Onward(task[w], "import_read", task[w].todo \ {d})
  <2>1. UNCHANGED <<row, lock, late>> /\ task[w].pc = "import_read"
    BY <1>15 DEF ImportRead, traffic
  <2>2. \/ task' = [task EXCEPT ![w] = v]
        \/ ~row[d].locked /\ (Goto(w, "import_write") \/ Goto(w, "import_month"))
    BY <1>15 DEF ImportRead, Proceed, Onward, Guarded, Shaped
  <2>3. TaskShaped(v) /\ v.pc \in {"idle", "import_read"}
    <3>1. task[w].todo \ {d} \subseteq Dates
      BY <1>0 DEF TaskShaped
    <3> QED
      BY <1>0, <3>1, Proceeded
  <2> HIDE DEF d, v
  <2>4. CASE task' = [task EXCEPT ![w] = v]
    BY <2>1, <2>3, <2>4, StandingStill DEF ClearPCs
  <2>5. CASE ~row[d].locked /\ (Goto(w, "import_write") \/ Goto(w, "import_month"))
    <3>1. ASSUME NEW u, u.pc \in {"import_month", "import_write"}, u.todo = task[w].todo
          PROVE  Clear(u)
      <4>1. \A e \in Dates : e = Min(u.todo) => ~row[e].locked
        BY <2>5, <3>1 DEF d
      <4> QED
        BY <3>1, <4>1 DEF Clear
    <3> QED
      BY <2>1, <2>5, <3>1, GoingTo
  <2> QED
    BY <2>2, <2>4, <2>5
<1>16. CASE ImportMonth(w, Idle)
  <2> DEFINE v == Onward(task[w], "import_read", task[w].todo \ {Min(task[w].todo)})
  <2>1. UNCHANGED <<row, lock, late>> /\ task[w].pc = "import_month"
    BY <1>16 DEF ImportMonth, traffic
  <2>2. task' = [task EXCEPT ![w] = v] \/ Goto(w, "import_write")
    BY <1>16 DEF ImportMonth, Proceed, Onward, Guarded, Shaped
  <2>3. TaskShaped(v) /\ v.pc \in {"idle", "import_read"}
    <3>1. task[w].todo \ {Min(task[w].todo)} \subseteq Dates
      BY <1>0 DEF TaskShaped
    <3> QED
      BY <1>0, <3>1, Proceeded
  <2> HIDE DEF v
  <2>4. CASE task' = [task EXCEPT ![w] = v]
    BY <2>1, <2>3, <2>4, StandingStill DEF ClearPCs
  <2>5. CASE Goto(w, "import_write")
    <3>1. w \notin late => \A u : u.pc = "import_write" /\ u.todo = task[w].todo => Clear(u)
      BY <1>0, <2>1 DEF Clear
    <3> QED
      BY <2>1, <2>5, <3>1, GoingTo
  <2> QED
    BY <2>2, <2>4, <2>5
<1>17. CASE ImportWrite(w, Idle)
  <2> DEFINE d == Min(task[w].todo)
             v == Onward(task[w], "import_read", task[w].todo \ {d})
  <2>1. UNCHANGED <<lock, late>> /\ task[w].pc = "import_write" /\ task' = [task EXCEPT ![w] = v]
    BY <1>17 DEF ImportWrite, Proceed, Onward, traffic, Guarded, Shaped
  <2>2. PICK s : row' = [row EXCEPT ![d] = Recorded(@, s)]
    BY <1>17 DEF ImportWrite
  <2>3. TaskShaped(v) /\ v.pc \in {"idle", "import_read"}
    <3>1. task[w].todo \ {d} \subseteq Dates
      BY <1>0 DEF TaskShaped
    <3> QED
      BY <1>0, <3>1, Proceeded
  <2>4. w \notin late => (d \in Dates => ~row[d].locked)
    BY <1>0, <2>1 DEF Clear
  <2> HIDE DEF d, v
  <2>5. v # task[w] /\ v.pc \notin ClearPCs
    BY <2>1, <2>3 DEF ClearPCs
  <2> QED
    BY <2>1, <2>2, <2>3, <2>4, <2>5, MarkingKeeps
<1>18. CASE Rejudge(w, Idle)
  <2>1. PICK d \in task[w].todo, s \in Marks :
          /\ row' = [row EXCEPT ![d] = IF Exists(@) THEN Marked(@, s) ELSE @]
          /\ Proceed(w, Idle, "rejudge", task[w].todo \ {d})
    BY <1>18 DEF Rejudge
  <2>2. PICK v : v = Onward(task[w], "rejudge", task[w].todo \ {d})
    OBVIOUS
  <2>3. UNCHANGED <<lock, late>> /\ task[w].pc = "rejudge" /\ task' = [task EXCEPT ![w] = v]
    BY <1>18, <2>1, <2>2 DEF Rejudge, Proceed, Onward, traffic, Guarded, Shaped
  <2>4. d \in Dates /\ task[w].todo \ {d} \subseteq Dates
    BY <1>0, <2>1 DEF TaskShaped
  <2>5. TaskShaped(v) /\ (v.pc = "idle" \/ (v.pc = "rejudge" /\ v.todo = task[w].todo \ {d}))
    BY <1>0, <2>2, <2>4, Proceeded
  <2>6. v # task[w]
    BY <2>1, <2>3, <2>5
  <2>7. PICK r : row' = [row EXCEPT ![d] = r] /\ r = IF Exists(row[d]) THEN Marked(row[d], s) ELSE row[d]
    BY <2>1, <2>4 DEF Guarded, Shaped
  <2>8. RowShaped(r) /\ (r.locked => row[d].locked)
    <3>1. RowShaped(row[d])
      BY <2>4 DEF Guarded, Shaped
    <3>2. CASE r = row[d]
      BY <3>1, <3>2
    <3>3. CASE r = Marked(row[d], s)
      BY <3>1, <3>3, RowsWritten, Zenon
    <3> QED
      BY <2>7, <3>2, <3>3
  <2>9. ASSUME w \notin late PROVE ~row[d].locked /\ Clear(v)'
    <3>1. \A e \in Dates : e \in task[w].todo => ~row[e].locked
      BY <1>0, <2>3, <2>9 DEF Clear
    <3>2. CASE v.pc = "idle"
      BY <2>1, <2>4, <3>1, <3>2 DEF Clear
    <3>3. CASE v.pc = "rejudge" /\ v.todo = task[w].todo \ {d}
      <4>1. \A e \in Dates : e \in v.todo => row'[e] = row[e]
        BY <2>7, <3>3 DEF Guarded, Shaped
      <4> QED
        BY <2>1, <2>4, <3>1, <3>3, <4>1 DEF Clear
    <3> QED
      BY <2>5, <3>2, <3>3
  <2> QED
    BY <2>3, <2>4, <2>5, <2>6, <2>7, <2>8, <2>9, WritingKeeps
<1>19. CASE RegApply(w)
  <2>1. PICK s : row' = [row EXCEPT ![task[w].d] = Marked(@, s)]
    BY <1>19 DEF RegApply
  <2>2. PICK v : v = [task[w] EXCEPT !.pc = "reg_write"]
    OBVIOUS
  <2>3. task' = [task EXCEPT ![w] = v] /\ task[w].pc = "reg_apply" /\ UNCHANGED <<lock, late>>
    BY <1>19, <2>2 DEF RegApply, Goto, traffic, Guarded, Shaped
  <2>4. TaskShaped(v) /\ v.pc = "reg_write" /\ v # task[w] /\ v.pc \notin ClearPCs
    BY <1>0, <2>2, <2>3, Turned DEF ClearPCs
  <2>5. w \notin late => lock # "Locked"
    BY <1>0, <2>3 DEF Clear
  <2> QED
    BY <2>1, <2>3, <2>4, <2>5, MarkingKeeps
<1>20. CASE OdWrite(w, Idle)
  <2>1. UNCHANGED <<row, lock, late>> /\ task[w].pc = "od_write"
    BY <1>20 DEF OdWrite, traffic
  <2>2. (task[w].to = "Approved" /\ Goto(w, "od_apply")) \/ Finish(w)
    BY <1>20 DEF OdWrite, Finish
  <2>3. CASE Finish(w)
    BY <2>1, <2>3, Finishing
  <2>4. CASE task[w].to = "Approved" /\ Goto(w, "od_apply")
    <3>1. w \notin late => \A u : u.pc = "od_apply" => Clear(u)
      BY <1>0, <2>1, <2>4 DEF Clear
    <3> QED
      BY <2>1, <2>4, <3>1, GoingTo
  <2> QED
    BY <2>2, <2>3, <2>4
<1>21. CASE OdApply(w, Idle)
  <2>1. task' = [task EXCEPT ![w] = Idle] /\ task[w].pc = "od_apply" /\ UNCHANGED <<lock, late>>
    BY <1>21 DEF OdApply, traffic
  <2>2. row' = [row EXCEPT ![task[w].d] = Marked(@, "OnOD")]
    BY <1>21 DEF OdApply
  <2>3. w \notin late => lock # "Locked"
    BY <1>0, <2>1 DEF Clear
  <2>4. TaskShaped(Idle) /\ Idle # task[w] /\ Idle.pc \notin ClearPCs
    BY <2>1, IdleShaped DEF ClearPCs
  <2> QED
    BY <2>1, <2>2, <2>3, <2>4, MarkingKeeps
<1>22. CASE UnlockWrite(w)
  <2>1. PICK v : v = [task[w] EXCEPT !.pc = "unlock_rows"]
    OBVIOUS
  <2>2. /\ task' = [task EXCEPT ![w] = v] /\ row' = row /\ lock' = "Open"
        /\ late \ {w} \subseteq late'
    BY <1>22, <2>1 DEF UnlockWrite, Goto, traffic, Guarded, Shaped
  <2>3. TaskShaped(v) /\ v.pc = "unlock_rows"
    BY <1>0, <2>1, Turned
  <2>4. Clear(v)'
    BY <2>2, <2>3 DEF Clear
  <2> QED
    BY <2>2, <2>3, <2>4, StandingKeeps
\* What is unlocked is the whole month, and no row of a locked one.
<1>23. CASE UnlockRows(w, Idle)
  <2>1. /\ task' = [task EXCEPT ![w] = Idle] /\ task[w].pc = "unlock_rows"
        /\ lock' = lock /\ late' = late /\ row' = Rows(FALSE)
    BY <1>23 DEF UnlockRows, traffic
  <2>2. TaskShaped(Idle) /\ task'[w] = Idle /\ Idle # task[w]
    BY <2>1, IdleShaped DEF Guarded, Shaped
  <2>3. row' = [d \in Dates |-> row'[d]]
    BY <2>1 DEF Rows
  <2>4. \A d \in Dates : RowShaped(row'[d]) /\ (row'[d].locked => row[d].locked)
    <3> SUFFICES ASSUME NEW d \in Dates PROVE RowShaped(row'[d]) /\ (row'[d].locked => row[d].locked)
      OBVIOUS
    <3>1. RowShaped(row[d])
      BY DEF Guarded, Shaped
    <3>2. CASE row'[d] = row[d]
      BY <3>1, <3>2
    <3>3. CASE row'[d] = [row[d] EXCEPT !.locked = FALSE]
      BY <3>1, <3>3, RowsWritten, Zenon
    <3> QED
      BY <2>1, <3>2, <3>3 DEF Rows
  <2>5. Unlocking(w)
    BY <2>1, <2>2, <2>3, <2>4 DEF Unlocking
  <2>6. w \notin late => lock # "Locked"
    BY <1>0, <2>1 DEF Clear
  <2>7. Clear(task[w])'
    BY <2>2, IdleShaped DEF Clear
  <2> QED
    BY <2>2, <2>5, <2>6, <2>7, UnlockingKeeps
<1> QED
  BY <1>2, <1>3, <1>4, <1>5, <1>6, <1>7, <1>8, <1>9, <1>10, <1>11, <1>12, <1>13, <1>14, <1>15,
     <1>16, <1>17, <1>18, <1>19, <1>20, <1>21, <1>22, <1>23 DEF AttendanceStep

\* A lock marks the requests in flight as overtaken, and changes no locked row.
LEMMA LockingKeeps ==
    ASSUME Guarded, NEW w \in Workers, LockWrite(w, Idle) \/ LockRows(w, Idle)
    PROVE  Guarded' /\ Frozen
<1>1. \A d \in Dates : RowShaped(row[d])
  BY DEF Guarded, Shaped
<1>2. PICK v : /\ task' = [task EXCEPT ![w] = v] /\ TaskShaped(v) /\ v.pc \notin ClearPCs
  <2>1. CASE LockWrite(w, Idle)
    <3>1. PICK v : v = [task[w] EXCEPT !.pc = "lock_rows"]
      OBVIOUS
    <3>2. task' = [task EXCEPT ![w] = v]
      BY <2>1, <3>1 DEF LockWrite, Goto, Guarded, Shaped
    <3>3. TaskShaped(v) /\ v.pc = "lock_rows"
      BY <3>1, Turned DEF Guarded, Shaped
    <3> QED
      BY <3>2, <3>3 DEF ClearPCs
  <2>2. CASE LockRows(w, Idle)
    BY <2>2, IdleShaped DEF LockRows, ClearPCs
  <2> QED
    BY <2>1, <2>2
<1>3. task' = [x \in Workers |-> IF x = w THEN v ELSE task[x]]
  BY <1>2 DEF Guarded, Shaped
<1>4. \A x \in Workers : x # w /\ x \notin late' => task[x] = Idle
  BY DEF LockWrite, LockRows, Overtake
<1>5. /\ row' = [d \in Dates |-> row'[d]]
      /\ \A d \in Dates : RowShaped(row'[d]) /\ (row[d].locked => row'[d] = row[d])
  <2>1. CASE row' = row
    BY <1>1, <2>1 DEF Guarded, Shaped
  <2>2. CASE row' = Rows(TRUE)
    <3>1. row' = [d \in Dates |-> row'[d]]
      BY <2>2 DEF Rows
    <3>2. \A d \in Dates : row'[d] = [row[d] EXCEPT !.locked = TRUE] \/ row'[d] = row[d]
      BY <2>2 DEF Rows
    <3>3. \A d \in Dates : RowShaped(row'[d]) /\ (row[d].locked => row'[d] = row[d])
      BY <1>1, <3>2, RowsWritten, Zenon
    <3> QED
      BY <3>1, <3>3
  <2> QED
    BY <2>1, <2>2 DEF LockWrite, LockRows
<1>6. \A x \in Workers : TaskShaped(task'[x])
  BY <1>2, <1>3 DEF Guarded, Shaped
<1>7. Shaped'
  BY <1>3, <1>5, <1>6 DEF Shaped, TaskShaped
<1>8. ASSUME NEW x \in Workers, x \notin late' PROVE Clear(task[x])'
  <2>1. task'[x].pc \notin ClearPCs
    BY <1>2, <1>3, <1>4, <1>8, IdleShaped DEF ClearPCs
  <2> QED
    BY <2>1 DEF Clear, ClearPCs
<1> QED
  BY <1>5, <1>7, <1>8 DEF Guarded, Frozen

LEMMA GuardedStep ==
    ASSUME Guarded, [Next]_vars
    PROVE  Guarded' /\ (Frozen \/ UNCHANGED vars)
<1>1. CASE \E w \in Workers : LeaveStep(w) \/ AttendanceStep(w, Idle)
  BY <1>1, LeaveStepsFrozen, AttendanceStepsFrozen, LockingKeeps
<1>2. CASE Crash
  <2>1. task' = [w \in Workers |-> Idle] /\ late' = {} /\ row' = row
    BY <1>2 DEF Crash, Restart
  <2>2. Guarded'
    BY <2>1, IdleShaped DEF Guarded, Shaped, Clear, TaskShaped
  <2> QED
    BY <2>1, <2>2 DEF Frozen
<1>3. CASE Expire \/ UNCHANGED vars
  <2>1. UNCHANGED <<row, lock, late, task>>
    BY <1>3 DEF Expire, vars, attendanceVars, traffic
  <2> QED
    BY <2>1 DEF Guarded, Shaped, Clear, TaskShaped, RowShaped, Frozen
<1> QED
  BY <1>1, <1>2, <1>3 DEF Next

-----------------------------------------------------------------------------
(* The theorems                                                             *)

\* The invariant holds throughout, and so does the ownership of the days shown On Leave.
LEMMA Always == ASSUME OneRequest PROVE Spec => []Inv
<1>1. Init => Inv
  BY Started
<1>2. Inv /\ [Next]_vars => Inv'
  BY Stepped
<1> QED
  BY <1>1, <1>2, PTL DEF Spec

LEMMA AlwaysOwned == ASSUME OneRequest, "OnLeave" \notin Marks PROVE Spec => [](Inv /\ AllOwned)
<1>1. Init => Inv /\ AllOwned
  BY Started
<1>2. (Inv /\ AllOwned) /\ [Next]_vars => (Inv /\ AllOwned)'
  <2>1. ASSUME Inv, AllOwned, [Next]_vars PROVE Inv' /\ AllOwned'
    BY <2>1, Stepped
  <2> QED
    BY <2>1
<1> QED
  BY <1>1, <1>2, PTL DEF Spec

\* The documents and the request being served have their types: no batch is given back
\* more than its day, and a balance adjusted stays in its range.
THEOREM LeaveTypeCorrect == ASSUME OneRequest PROVE Spec => []TypeOK
<1>1. Inv => TypeOK
  BY DEF Inv
<1> QED
  BY <1>1, Always, PTL

\* At rest nothing is held or charged, and the books are as the approved leaves say.
LEMMA BooksBalanced == ASSUME OneRequest, Inv PROVE BooksBalance
<1> SUFFICES ASSUME Quiet PROVE BooksBalance
  BY DEF BooksBalance
<1>1. PICK w \in Workers : Workers = {w}
  BY DEF OneRequest
<1>2. task[w] = Idle /\ BalanceHolds(Idle) /\ BatchesHold(Idle) /\ TypeOK
  BY DEF Quiet, Inv, Sound
<1>3. Charged(Idle) = 0 /\ \A b \in Batches : Held(Idle, b) = 0
  BY IdleTyped, Holding DEF Marking, Undoing, MarkPCs, UndoPCs
<1>4. /\ leave \in [Leaves -> LeaveDoc] /\ coff \in [Batches -> Batch] /\ used \in Int
      /\ Taken \in Nat /\ \A b \in Batches : Drawn(b) \in Nat
  BY <1>2, TakenAndDrawn, InTyped DEF TypeOK
<1>5. used >= Taken /\ (crashes = 0 => used = Taken)
  BY <1>2, <1>3, <1>4 DEF BalanceHolds
<1>6. ASSUME NEW b \in Batches
      PROVE  /\ coff[b].left + Drawn(b) <= 2
             /\ crashes = 0 /\ coff[b].status \in {"Available", "Used"} => coff[b].left + Drawn(b) = 2
  <2>1. coff[b].left \in Nat /\ Drawn(b) \in Nat /\ Held(Idle, b) = 0
    BY <1>3, <1>4 DEF Batch
  <2>2. LET all == coff[b].left + Drawn(b) + Held(Idle, b)
        IN  IF coff[b].status \in {"Available", "Used"} THEN all <= 2 /\ (crashes = 0 => all = 2)
                                                        ELSE all = 0
    BY <1>2 DEF BatchesHold
  <2> QED
    BY <2>1, <2>2
<1> QED
  BY <1>5, <1>6 DEF BooksBalance

\* Between requests the balance is charged once for each approved leave and each C-Off batch
\* holds its day less what they drew; a crash can only leave the employee charged too much.
THEOREM LeaveBooksBalance == ASSUME OneRequest PROVE Spec => []BooksBalance
<1>1. Inv => BooksBalance
  BY BooksBalanced
<1> QED
  BY <1>1, Always, PTL

\* Days asked for and not yet decided are never promised twice: only an adjustment by HR takes
\* what is left below the requests that wait for it.
THEOREM LeavePromisesCovered == ASSUME OneRequest PROVE Spec => PromisesCovered
<1>1. Inv /\ [Next]_vars =>
        [granted' = granted /\ crashes' = 0 => Headroom' >= 0 \/ Headroom' >= Headroom]_vars
  <2> SUFFICES ASSUME Inv, [Next]_vars, granted' = granted, crashes' = 0
               PROVE  Headroom' >= 0 \/ Headroom' >= Headroom
    OBVIOUS
  <2> QED
    BY HeadroomKept
<1> QED
  BY <1>1, Always, PTL DEF Spec, PromisesCovered

\* Whatever other requests do meanwhile, and wherever the process is restarted, no request
\* that starts after a month was locked changes a locked day of it: the eight handlers
\* that write day rows, each of which asks for a lock before an await and writes after it.
THEOREM LeaveDaysFrozen == Spec => LockedDaysFrozen
<1>1. Init => Guarded
  <2>1. ASSUME Init PROVE Shaped /\ \A w \in Workers : task[w] = Idle
    <3>1. row = [d \in Dates |-> NoRow] /\ task = [w \in Workers |-> Idle]
      BY <2>1 DEF Init, DayInit
    <3>2. RowShaped(NoRow)
      <4>1. NoRow \in [status : {"None", "none"}, locked : BOOLEAN, ref : {"None", "none"},
                       pre : {"None", "none"}]
        BY DEF NoRow
      <4> QED
        BY <4>1 DEF RowShaped
    <3> QED
      BY <3>1, <3>2, IdleShaped DEF Shaped
  <2> QED
    BY <2>1, IdleShaped DEF Guarded, Clear
<1>2. Guarded /\ [Next]_vars => Guarded'
  BY GuardedStep
<1>3. Guarded /\ [Next]_vars =>
        [\A d \in Dates : lock = "Locked" /\ row[d].locked /\ row'[d] # row[d] =>
            \E w \in late : task'[w] # task[w]]_vars
  BY GuardedStep DEF Frozen
<1> QED
  BY <1>1, <1>2, <1>3, PTL DEF Spec, LockedDaysFrozen

\* At rest nobody is marking or undoing, so every day On Leave has its approved leave.
LEMMA DecisionsShown == ASSUME OneRequest, Inv, AllOwned PROVE DecisionsTakeEffect
<1>1. PICK w \in Workers : Workers = {w}
  BY DEF OneRequest
<1>2. ASSUME Quiet PROVE RequestsDone(Idle) /\ DaysOwned(Idle)
  BY <1>1, <1>2 DEF Quiet, Inv, Sound, AllOwned
<1>3. Idle.pc = "idle" /\ ~Marking(Idle)
  BY IdleTyped DEF Marking, MarkPCs
<1> HIDE DEF Idle
<1>4. LeaveDaysShown
  <2> SUFFICES ASSUME Quiet, crashes = 0, NEW d \in Dates, row[d].status = "OnLeave"
               PROVE  \/ \E l \in Leaves : /\ row[d].ref = l /\ leave[l].status = "Approved"
                                           /\ d \in Days(leave[l])
                      \/ \E l \in Leaves : <<l, d>> \in stuck
    BY DEF LeaveDaysShown
  <2>1. Kept(d) \/ Owned(Idle, d)
    BY <1>2 DEF DaysOwned
  <2> QED
    BY <1>3, <2>1 DEF Kept, Owned
<1>5. ASSUME Quiet, crashes = 0
      PROVE  /\ \A r \in Regs : /\ reg[r].status = "Approved" <=> r \in applied
                                /\ reg[r].levels = 1 => reg[r].status # "ManagerApproved"
             /\ \A o \in Ods : /\ od[o].status = "Approved" <=> o \in applied
                               /\ od[o].levels # 2 => od[o].status # "ManagerApproved"
  BY <1>2, <1>3, <1>5 DEF RequestsDone
<1> QED
  BY <1>4, <1>5 DEF DecisionsTakeEffect

\* An approved correction or duty has reached its day and no other has; one of one level waits
\* for no second approver; and a day shown On Leave belongs to an approved leave, or was locked
\* when its leave was cancelled.  Marks without "OnLeave": nobody marks a day On Leave by hand,
\* which mark_attendance's override_status allows.
THEOREM LeaveDecisionsTakeEffect ==
    ASSUME OneRequest, "OnLeave" \notin Marks PROVE Spec => []DecisionsTakeEffect
<1>1. Inv /\ AllOwned => DecisionsTakeEffect
  BY DecisionsShown
<1> QED
  BY <1>1, AlwaysOwned, PTL


-----------------------------------------------------------------------------
(* Typing                                                                   *)

\* Only a daily job is claimed.
Placed == \A p \in Procs: pc[p].at \in {"insert", "takeover", "finish", "drop"} => Job(p) \in Claimed

\* A pass has a first job, and the calendar a first day.
LEMMA LoopTyped == Len(Order) \in Nat /\ 1 \in 1..Len(Order) /\ 1 \in Day /\ Day \subseteq 0..MaxDay
<1>1. Len(Order) \in Nat /\ Len(Order) # 0
  BY ConstantsAssumption
<1> QED BY <1>1, ConstantsAssumption DEF Day

LEMMA TickTyped ==
    /\ NoTick \in Tick
    /\ \A i \in 1..Len(Order), d \in Day, b \in BOOLEAN:
          [NoTick EXCEPT !.at = "next", !.job = i, !.stamp = d, !.due = b] \in Tick
BY LoopTyped DEF NoTick, Tick, PCs

LEMMA JobTyped ==
    ASSUME JobsTypeOK, NEW p \in Procs
    PROVE  /\ pc[p] \in Tick
           /\ Job(p) \in Jobs
           /\ Stamp(p) \in Day
           /\ Stamp(p) \in 0..MaxDay
BY ConstantsAssumption DEF JobsTypeOK, Tick, Job, Jobs, Stamp, Day

LEMMA GotoTyped ==
    ASSUME JobsTypeOK, NEW p \in Procs, NEW at \in PCs, TickTo(p, at)
    PROVE  pc' \in [Procs -> Tick]
BY JobTyped DEF TickTo, JobsTypeOK, Tick

LEMMA AdvanceTyped ==
    ASSUME JobsTypeOK, NEW p \in Procs, Advance(p)
    PROVE  pc' \in [Procs -> Tick]
<1> DEFINE j == pc[p].job + 1
           t == IF j > Len(Order) THEN NoTick
                ELSE IF Order[j] = "sync" THEN [pc[p] EXCEPT !.at = "next", !.job = j]
                ELSE [NoTick EXCEPT !.at = "next", !.job = j, !.stamp = day, !.due = open]
<1>1. pc' = [pc EXCEPT ![p] = t]
  BY DEF Advance
<1>2. pc[p] \in Tick /\ day \in Day /\ open \in BOOLEAN
  BY JobTyped DEF JobsTypeOK
<1>3. j \in Nat /\ j >= 1 /\ Len(Order) \in Nat
  BY <1>2, ConstantsAssumption DEF Tick
<1>4. t \in Tick
  <2>1. CASE j > Len(Order)
    BY <2>1, TickTyped
  <2>2. CASE ~(j > Len(Order)) /\ Order[j] = "sync"
    <3>1. t = [pc[p] EXCEPT !.at = "next", !.job = j] /\ j \in 1..Len(Order)
      BY <2>2, <1>3
    <3> HIDE DEF j, t
    <3> QED BY <3>1, <1>2 DEF Tick, PCs
  <2>3. CASE ~(j > Len(Order)) /\ Order[j] # "sync"
    <3>1. /\ t = [NoTick EXCEPT !.at = "next", !.job = j, !.stamp = day, !.due = open]
          /\ j \in 1..Len(Order)
      BY <2>3, <1>3
    <3> HIDE DEF j, t
    <3> QED BY <3>1, <1>2, TickTyped
  <2> QED BY <2>1, <2>2, <2>3
<1> QED BY <1>1, <1>4 DEF JobsTypeOK

LEMMA RememberTyped ==
    ASSUME JobsTypeOK, NEW p \in Procs, Remember(p)
    PROVE  memo' \in [Procs -> [Jobs -> 0..MaxDay]]
BY JobTyped DEF Remember, JobsTypeOK

LEMMA ReturnedTyped ==
    ASSUME JobsTypeOK, NEW p \in Procs, Returned(p)
    PROVE  nudged' \in [Procs -> 0..MaxDay]
BY JobTyped DEF Returned, JobsTypeOK

\* SetClaim writes one status and leaves the rest of the ledger as it is.
LEMMA SetClaimEffect ==
    ASSUME JobsTypeOK, NEW p \in Procs, Job(p) \in Claimed,
           NEW s \in {"none", "running", "lapsed", "done"}, SetClaim(p, s)
    PROVE  /\ claim' \in [Claimed -> [Day -> ClaimDoc]]
           /\ \A j \in Claimed, d \in Day:
                 claim'[j][d].status =
                    IF j = Job(p) /\ d = Stamp(p) THEN s ELSE claim[j][d].status
<1>1. claim \in [Claimed -> [Day -> ClaimDoc]] /\ Stamp(p) \in Day
  BY JobTyped DEF JobsTypeOK
<1> QED BY <1>1 DEF SetClaim, ClaimDoc

LEMMA InsertEffect ==
    ASSUME JobsTypeOK, NEW p \in Procs,
           claim' = [claim EXCEPT ![Job(p)][Stamp(p)] = [status |-> "running", doc |-> @.doc + 1]]
    PROVE  /\ claim' \in [Claimed -> [Day -> ClaimDoc]]
           /\ Job(p) \in Claimed =>
                \A j \in Claimed, d \in Day:
                  claim'[j][d].status =
                     IF j = Job(p) /\ d = Stamp(p) THEN "running" ELSE claim[j][d].status
<1>1. claim \in [Claimed -> [Day -> ClaimDoc]] /\ Stamp(p) \in Day
  BY JobTyped DEF JobsTypeOK
<1> DEFINE c == [status |-> "running", doc |-> claim[Job(p)][Stamp(p)].doc + 1]
<1>2. claim' = [claim EXCEPT ![Job(p)] = [claim[Job(p)] EXCEPT ![Stamp(p)] = c]]
  OBVIOUS
<1>3. Job(p) \in Claimed => c \in ClaimDoc
  BY <1>1 DEF ClaimDoc
<1>4. c.status = "running"
  OBVIOUS
<1> HIDE DEF c
<1>5. CASE Job(p) \in Claimed
  <2>1. [claim[Job(p)] EXCEPT ![Stamp(p)] = c] \in [Day -> ClaimDoc]
    BY <1>1, <1>3, <1>5
  <2>2. claim' \in [Claimed -> [Day -> ClaimDoc]]
    BY <2>1, <1>1, <1>2
  <2> QED BY <2>2, <1>1, <1>2, <1>4, <1>5
<1>6. CASE Job(p) \notin Claimed
  BY <1>1, <1>2, <1>6
<1> QED BY <1>5, <1>6

LEMMA JobsInitTyped == JobsInit => JobsTypeOK
<1> SUFFICES ASSUME JobsInit PROVE JobsTypeOK
  OBVIOUS
<1>1. 0 \in 0..MaxDay /\ 0 \in 0..MaxTrouble
  BY ConstantsAssumption
<1>2. [status |-> "none", doc |-> 0] \in ClaimDoc
  BY DEF ClaimDoc
<1>3. pc \in [Procs -> Tick] /\ day \in Day
  BY TickTyped, LoopTyped DEF JobsInit
<1>4. claim \in [Claimed -> [Day -> ClaimDoc]]
  BY <1>2 DEF JobsInit
<1> QED BY <1>1, <1>3, <1>4 DEF JobsInit, JobsTypeOK

\* What an action writes stays typed when the rest of the state is unchanged.
LEMMA JobsStepTyped ==
    ASSUME JobsTypeOK, NEW p \in Procs, Placed, Step(p) \/ Raise(p) \/ Kill(p) \/ StartProcess(p)
    PROVE  JobsTypeOK'
<1> USE DEF clock, memory, history
<1>1. CASE StartTick(p)
  <2>1. pc' \in [Procs -> Tick]
    <3> DEFINE t == [NoTick EXCEPT !.at = "next", !.stamp = day, !.due = open]
    <3>1. t \in Tick
      <4>1. day \in Day /\ open \in BOOLEAN /\ 1 \in 1..Len(Order)
        BY LoopTyped DEF JobsTypeOK
      <4>2. NoTick \in Tick /\ "next" \in PCs
        BY TickTyped DEF PCs
      <4>3. day \in 0..MaxDay
        BY <4>1, LoopTyped
      <4> HIDE DEF t
      <4>4. t = [NoTick EXCEPT !.at = "next", !.stamp = day, !.due = open]
        BY DEF t
      <4> QED BY <4>1, <4>2, <4>3, <4>4 DEF Tick
    <3>2. pc' = [pc EXCEPT ![p] = t]
      BY <1>1 DEF StartTick
    <3> HIDE DEF t
    <3> QED BY <3>1, <3>2 DEF JobsTypeOK
  <2> QED BY <2>1, <1>1 DEF StartTick, JobsTypeOK
<1>2. CASE Skip(p)
  <2>1. nudged' \in [Procs -> 0..MaxDay]
    BY <1>2, ReturnedTyped DEF Skip, JobsTypeOK
  <2> QED BY <2>1, <1>2, AdvanceTyped DEF Skip, JobsTypeOK
<1>3. CASE FindClaim(p)
  <2>1. CASE Lose(p)
    BY <2>1, <1>3, AdvanceTyped, RememberTyped, ReturnedTyped DEF FindClaim, Lose, JobsTypeOK
  <2>2. CASE pc' = [pc EXCEPT ![p].at = "takeover", ![p].doc = ClaimRow(p).doc] /\ UNCHANGED memory
    <3>1. ClaimRow(p) \in ClaimDoc
      BY <1>3, JobTyped DEF FindClaim, ClaimRow, JobsTypeOK
    <3>2. pc' \in [Procs -> Tick]
      BY <3>1, <2>2, JobTyped DEF JobsTypeOK, Tick, PCs, ClaimDoc
    <3> QED BY <3>2, <2>2, <1>3 DEF FindClaim, JobsTypeOK
  <2>3. CASE TickTo(p, "insert") /\ UNCHANGED memory
    BY <2>3, <1>3, GotoTyped DEF FindClaim, JobsTypeOK, PCs
  <2> QED BY <1>3, <2>1, <2>2, <2>3 DEF FindClaim
<1>4. CASE InsertClaim(p)
  <2>1. CASE Lose(p) /\ UNCHANGED claim
    BY <2>1, <1>4, AdvanceTyped, RememberTyped, ReturnedTyped DEF InsertClaim, Lose, JobsTypeOK
  <2>2. CASE /\ claim' = [claim EXCEPT ![Job(p)][Stamp(p)] =
                            [status |-> "running", doc |-> @.doc + 1]]
             /\ TickTo(p, "run")
             /\ UNCHANGED memory
    <3>1. claim' \in [Claimed -> [Day -> ClaimDoc]]
      BY <2>2, InsertEffect
    <3> QED BY <3>1, <2>2, <1>4, GotoTyped DEF InsertClaim, JobsTypeOK, PCs
  <2> QED BY <1>4, <2>1, <2>2 DEF InsertClaim
<1>5. CASE TakeOver(p)
  <2>1. claim' \in [Claimed -> [Day -> ClaimDoc]]
    BY <1>5, SetClaimEffect DEF TakeOver, JobsTypeOK, TickAt, Placed
  <2> QED BY <2>1, <1>5, GotoTyped DEF TakeOver, JobsTypeOK, PCs
<1>6. CASE RunEnds(p)
  <2>1. ran' \in SUBSET (Jobs \X Day)
    BY <1>6, JobTyped DEF RunEnds, JobsTypeOK
  <2> QED BY <2>1, <1>6, GotoTyped, RememberTyped DEF RunEnds, JobsTypeOK, PCs
<1>7. CASE FinishJob(p)
  <2>1. claim' \in [Claimed -> [Day -> ClaimDoc]]
    BY <1>7, SetClaimEffect DEF FinishJob, JobsTypeOK, TickAt, Placed
  <2> QED BY <2>1, <1>7, AdvanceTyped, ReturnedTyped DEF FinishJob, JobsTypeOK
<1>8. CASE Drop(p)
  <2>1. claim' \in [Claimed -> [Day -> ClaimDoc]]
    BY <1>8, SetClaimEffect DEF Drop, JobsTypeOK, TickAt, Placed
  <2> QED BY <2>1, <1>8, AdvanceTyped, ReturnedTyped DEF Drop, JobsTypeOK
<1>9. CASE AlreadyRan(p)
  <2>1. CASE swept = Stamp(p)
    BY <2>1, <1>9, AdvanceTyped, RememberTyped DEF AlreadyRan, JobsTypeOK
  <2>2. CASE swept # Stamp(p)
    BY <2>2, <1>9, GotoTyped DEF AlreadyRan, JobsTypeOK, PCs
  <2> QED BY <2>1, <2>2
<1>10. CASE SweepEnds(p)
  <2>1. ran' \in SUBSET (Jobs \X Day)
    BY <1>10, JobTyped DEF SweepEnds, JobsTypeOK
  <2> QED BY <2>1, <1>10, GotoTyped DEF SweepEnds, JobsTypeOK, PCs
<1>11. CASE RecordRun(p)
  <2>1. pc' \in [Procs -> Tick]
    BY <1>11, AdvanceTyped, GotoTyped DEF RecordRun, PCs
  <2>2. memo' \in [Procs -> [Jobs -> 0..MaxDay]]
    BY <1>11, RememberTyped DEF RecordRun, JobsTypeOK
  <2> QED BY <2>1, <2>2, <1>11 DEF RecordRun, JobsTypeOK
<1>12. CASE WriteRun(p)
  <2>1. swept' \in 0..MaxDay
    BY <1>12, JobTyped DEF WriteRun, JobsTypeOK
  <2> QED BY <2>1, <1>12, AdvanceTyped, RememberTyped DEF WriteRun, JobsTypeOK
<1>13. CASE Raise(p)
  <2>1. faults' \in 0..MaxTrouble
    BY <1>13, ConstantsAssumption DEF Raise, RunRaises, LedgerRaises, SweepRaises, JobsTypeOK
  <2>2. CASE RunRaises(p)
    BY <2>1, <2>2, GotoTyped DEF RunRaises, JobsTypeOK, PCs
  <2>3. CASE LedgerRaises(p)
    <3>1. excused' \in SUBSET Runs
      BY <2>3, JobTyped DEF LedgerRaises, JobsTypeOK, Runs
    <3>2. pc' \in [Procs -> Tick]
      BY <2>3, AdvanceTyped, GotoTyped DEF LedgerRaises, PCs
    <3>3. nudged' \in [Procs -> 0..MaxDay]
      BY <2>3, ReturnedTyped DEF LedgerRaises, JobsTypeOK
    <3> QED BY <2>1, <3>1, <3>2, <3>3, <2>3 DEF LedgerRaises, JobsTypeOK
  <2>4. CASE SweepRaises(p)
    <3>1. memo' \in [Procs -> [Jobs -> 0..MaxDay]]
      BY <2>4, RememberTyped DEF SweepRaises, JobsTypeOK
    <3> QED BY <2>1, <3>1, <2>4, AdvanceTyped DEF SweepRaises, JobsTypeOK
  <2> QED BY <1>13, <2>2, <2>3, <2>4 DEF Raise
<1>14. CASE Kill(p)
  <2>1. kills' \in 0..MaxTrouble
    BY <1>14, ConstantsAssumption DEF Kill, JobsTypeOK
  <2>2. [j \in Jobs |-> 0] \in [Jobs -> 0..MaxDay] /\ 0 \in 0..MaxDay
    BY ConstantsAssumption
  <2>3. memo' \in [Procs -> [Jobs -> 0..MaxDay]] /\ nudged' \in [Procs -> 0..MaxDay]
    BY <2>2, <1>14 DEF Kill, JobsTypeOK
  <2>4. pc' \in [Procs -> Tick]
    BY <1>14, TickTyped DEF Kill, JobsTypeOK
  <2> QED BY <2>1, <2>3, <2>4, <1>14 DEF Kill, JobsTypeOK
<1>15. CASE StartProcess(p)
  BY <1>15 DEF StartProcess, JobsTypeOK
<1> QED BY <1>1, <1>2, <1>3, <1>4, <1>5, <1>6, <1>7, <1>8, <1>9, <1>10, <1>11, <1>12, <1>13,
           <1>14, <1>15 DEF Step

LEMMA JobsTimeTyped ==
    ASSUME JobsTypeOK, HourStrikes \/ NextDay \/ (\E j \in Claimed, d \in Day: LeaseEnds(j, d))
    PROVE  JobsTypeOK'
<1> USE DEF clock, memory, history
<1>1. CASE HourStrikes
  BY <1>1 DEF HourStrikes, JobsTypeOK
<1>2. CASE NextDay
  <2>1. day' \in Day
    BY <1>2, ConstantsAssumption DEF NextDay, JobsTypeOK, Day
  <2> QED BY <2>1, <1>2 DEF NextDay, JobsTypeOK
<1>3. ASSUME NEW j \in Claimed, NEW d \in Day, LeaseEnds(j, d)
      PROVE  JobsTypeOK'
  <2>1. claim' \in [Claimed -> [Day -> ClaimDoc]]
    <3>1. claim \in [Claimed -> [Day -> ClaimDoc]]
      BY DEF JobsTypeOK
    <3> DEFINE c == [claim[j][d] EXCEPT !.status = "lapsed"]
    <3>2. claim' = [claim EXCEPT ![j] = [claim[j] EXCEPT ![d] = c]]
      BY <1>3 DEF LeaseEnds
    <3>3. c \in ClaimDoc
      <4>1. claim[j][d] \in ClaimDoc
        BY <3>1
      <4> QED BY <4>1 DEF ClaimDoc
    <3> HIDE DEF c
    <3>4. [claim[j] EXCEPT ![d] = c] \in [Day -> ClaimDoc]
      BY <3>1, <3>3
    <3> QED BY <3>1, <3>2, <3>4
  <2>2. excused' \in SUBSET Runs
    BY <1>3 DEF LeaseEnds, JobsTypeOK, Runs
  <2> QED BY <2>1, <2>2, <1>3 DEF LeaseEnds, JobsTypeOK
<1> QED BY <1>1, <1>2, <1>3

-----------------------------------------------------------------------------
(* The invariant                                                            *)

Overtaken == \A p \in Procs: pc[p].at = "takeover" => <<Job(p), Stamp(p)>> \in excused

Lapsed == \A j \in Claimed, d \in Day: claim[j][d].status = "lapsed" => <<j, d>> \in excused

HolderClaims ==
    \A p \in Procs, j \in Claimed, d \in Day:
        <<j, d>> \notin excused /\ Holds(p, j, d) => claim[j][d].status = "running"

RanClaimed ==
    \A j \in Claimed, d \in Day:
        <<j, d>> \in ran \ excused =>
            /\ claim[j][d].status \in {"running", "done"}
            /\ \A p \in Procs: Holds(p, j, d) => pc[p].at = "finish"

JobsSafe == JobsTypeOK /\ Placed /\ Overtaken /\ Lapsed /\ HolderClaims /\ RanClaimed /\ OneRunner

\* Of a pair that is not excused only one process is the holder.
LEMMA SingleHolder ==
    ASSUME JobsSafe, NEW j \in Claimed, NEW d \in Day, <<j, d>> \notin excused,
           NEW p \in Procs, NEW q \in Procs, Holds(p, j, d), Holds(q, j, d)
    PROVE  p = q
BY DEF JobsSafe, OneRunner, Runs

\* A process that neither has nor takes a claim, and a ledger left alone.
Waiting(at) == at \notin {"insert", "takeover", "run", "finish", "drop"}

LEMMA Undisturbed ==
    ASSUME JobsSafe, JobsTypeOK', NEW p \in Procs,
           UNCHANGED <<claim, excused>>,
           \A r \in Runs: r \in ran' => r \in ran,
           \A q \in Procs \ {p}: pc'[q] = pc[q],
           \/ pc'[p] = pc[p]
           \/ Waiting(pc'[p].at)
           \/ pc'[p].at = "run" /\ Job(p)' = "sweep"
    PROVE  JobsSafe'
<1>1. \A q \in Procs:
         \/ pc'[q] = pc[q]
         \/ Waiting(pc'[q].at)
         \/ pc'[q].at = "run" /\ Job(q)' = "sweep"
  <2> TAKE q \in Procs
  <2>1. CASE q = p
    BY <2>1 DEF Job
  <2>2. CASE q # p
    BY <2>2
  <2> QED BY <2>1, <2>2
<1>2. \A q \in Procs, j \in Claimed, d \in Day: Holds(q, j, d)' => Holds(q, j, d) /\ pc'[q] = pc[q]
  BY <1>1 DEF Holds, Job, Stamp, Waiting, Claimed
<1>3. Placed'
  BY <1>1 DEF JobsSafe, Placed, Job, Waiting
<1>4. Overtaken'
  BY <1>1 DEF JobsSafe, Overtaken, Job, Stamp, Waiting
<1>5. Lapsed'
  BY DEF JobsSafe, Lapsed
<1>6. HolderClaims'
  BY <1>2 DEF JobsSafe, HolderClaims
<1>7. RanClaimed'
  BY <1>2 DEF JobsSafe, RanClaimed, Runs
<1>8. OneRunner'
  BY <1>2 DEF JobsSafe, OneRunner, Runs
<1> QED BY <1>3, <1>4, <1>5, <1>6, <1>7, <1>8 DEF JobsSafe

\* A process that goes on to its next job holds nothing.
LEMMA AdvanceWaits ==
    ASSUME JobsTypeOK, NEW p \in Procs, Advance(p)
    PROVE  Waiting(pc'[p].at) /\ \A q \in Procs \ {p}: pc'[q] = pc[q]
<1> DEFINE j == pc[p].job + 1
           t == IF j > Len(Order) THEN NoTick
                ELSE IF Order[j] = "sync" THEN [pc[p] EXCEPT !.at = "next", !.job = j]
                ELSE [NoTick EXCEPT !.at = "next", !.job = j, !.stamp = day, !.due = open]
<1>1. pc' = [pc EXCEPT ![p] = t]
  BY DEF Advance
<1>2. pc[p] \in Tick
  BY DEF JobsTypeOK
<1>3. t.at \in {"idle", "next"}
  <2>1. pc[p] = [at |-> pc[p].at, job |-> pc[p].job, stamp |-> pc[p].stamp, due |-> pc[p].due,
                 doc |-> pc[p].doc]
    BY <1>2 DEF Tick
  <2> QED BY <2>1 DEF NoTick
<1> HIDE DEF t
<1> QED BY <1>1, <1>3 DEF Waiting, JobsTypeOK

\* A process that moves within its tick keeps its job and day; the others keep theirs.
LEMMA GotoEffect ==
    ASSUME JobsTypeOK, NEW p \in Procs, NEW at \in PCs, TickTo(p, at)
    PROVE  /\ pc'[p].at = at
           /\ Job(p)' = Job(p) /\ Stamp(p)' = Stamp(p)
           /\ \A q \in Procs \ {p}: pc'[q] = pc[q]
BY DEF JobsTypeOK, TickTo, Job, Stamp, Tick

\* A step of process p on the pair (j0, d0) it is working on.
LEMMA OwnPair ==
    ASSUME JobsSafe, JobsTypeOK', NEW p \in Procs, NEW j0 \in Claimed, NEW d0 \in Day,
           \A q \in Procs \ {p}: pc'[q] = pc[q],
           Waiting(pc'[p].at) \/ (Job(p)' = j0 /\ Stamp(p)' = d0),
           excused \subseteq excused',
           \A j \in Claimed, d \in Day: (j # j0 \/ d # d0) =>
               /\ claim'[j][d].status = claim[j][d].status
               /\ <<j, d>> \in ran' => <<j, d>> \in ran,
           pc'[p].at = "takeover" => <<j0, d0>> \in excused',
           claim'[j0][d0].status = "lapsed" => <<j0, d0>> \in excused',
           <<j0, d0>> \notin excused' =>
               /\ \A q \in Procs: Holds(q, j0, d0)' => claim'[j0][d0].status = "running"
               /\ \A q, r \in Procs: Holds(q, j0, d0)' /\ Holds(r, j0, d0)' => q = r
               /\ <<j0, d0>> \in ran' =>
                     /\ claim'[j0][d0].status \in {"running", "done"}
                     /\ \A q \in Procs: Holds(q, j0, d0)' => pc'[q].at = "finish"
    PROVE  JobsSafe'
<1>1. \A q \in Procs, j \in Claimed, d \in Day:
         (j # j0 \/ d # d0) /\ Holds(q, j, d)' => Holds(q, j, d) /\ pc'[q] = pc[q]
  BY DEF Holds, Job, Stamp, Waiting
<1>2. \A q \in Procs: q = p \/ (pc'[q] = pc[q] /\ Job(q)' = Job(q) /\ Stamp(q)' = Stamp(q))
  BY DEF Job, Stamp
<1>3. Placed'
  BY <1>2 DEF JobsSafe, Placed, Waiting
<1>4. Overtaken'
  BY <1>2 DEF JobsSafe, Overtaken, Waiting
<1>5. Lapsed'
  BY DEF JobsSafe, Lapsed
<1>6. HolderClaims'
  <2> SUFFICES ASSUME NEW q \in Procs, NEW j \in Claimed, NEW d \in Day,
                      <<j, d>> \notin excused', Holds(q, j, d)'
               PROVE  claim'[j][d].status = "running"
    BY DEF HolderClaims
  <2>1. CASE j = j0 /\ d = d0
    BY <2>1
  <2>2. CASE j # j0 \/ d # d0
    BY <2>2, <1>1 DEF JobsSafe, HolderClaims
  <2> QED BY <2>1, <2>2
<1>7. RanClaimed'
  <2> SUFFICES ASSUME NEW j \in Claimed, NEW d \in Day, <<j, d>> \in ran' \ excused'
               PROVE  /\ claim'[j][d].status \in {"running", "done"}
                      /\ \A q \in Procs: Holds(q, j, d)' => pc'[q].at = "finish"
    BY DEF RanClaimed
  <2>1. CASE j = j0 /\ d = d0
    BY <2>1
  <2>2. CASE j # j0 \/ d # d0
    BY <2>2, <1>1 DEF JobsSafe, RanClaimed
  <2> QED BY <2>1, <2>2
<1>8. OneRunner'
  <2> SUFFICES ASSUME NEW q \in Procs, NEW r \in Procs, NEW j \in Claimed, NEW d \in Day,
                      <<j, d>> \notin excused', Holds(q, j, d)', Holds(r, j, d)'
               PROVE  q = r
    BY DEF OneRunner, Runs
  <2>1. CASE j = j0 /\ d = d0
    BY <2>1
  <2>2. CASE j # j0 \/ d # d0
    BY <2>2, <1>1, SingleHolder
  <2> QED BY <2>1, <2>2
<1> QED BY <1>3, <1>4, <1>5, <1>6, <1>7, <1>8 DEF JobsSafe

\* The invariant holds at first.
LEMMA JobsInitSafe == JobsInit => JobsSafe
BY JobsInitTyped DEF JobsInit, JobsSafe, Placed, Overtaken, Lapsed, HolderClaims, RanClaimed,
   OneRunner,
                 Holds, NoTick, Runs

\* Steps that neither take nor keep a claim.
LEMMA QuietSafe ==
    ASSUME JobsSafe, NEW p \in Procs,
           \/ StartTick(p) \/ Skip(p) \/ AlreadyRan(p) \/ SweepEnds(p) \/ RecordRun(p)
           \/ WriteRun(p) \/ SweepRaises(p) \/ Kill(p) \/ StartProcess(p)
    PROVE  JobsSafe'
<1> USE DEF clock, memory, history
<1>1. JobsTypeOK /\ JobsTypeOK'
  BY JobsStepTyped DEF JobsSafe, Step, Raise
<1>2. UNCHANGED <<claim, excused>>
  BY DEF StartTick, Skip, AlreadyRan, SweepEnds, RecordRun, WriteRun, SweepRaises, Kill,
     StartProcess
<1>3. \A r \in Runs: r \in ran' => r \in ran
  BY DEF StartTick, Skip, AlreadyRan, SweepEnds, RecordRun, WriteRun, SweepRaises, Kill,
     StartProcess,
         Runs, Claimed
<1>4. /\ \A q \in Procs \ {p}: pc'[q] = pc[q]
      /\ \/ pc'[p] = pc[p]
         \/ Waiting(pc'[p].at)
         \/ pc'[p].at = "run" /\ Job(p)' = "sweep"
  <2>1. CASE Advance(p)
    BY <2>1, <1>1, AdvanceWaits
  <2>2. CASE StartTick(p) \/ Kill(p)
    <3>1. CASE StartTick(p)
      BY <3>1, <1>1 DEF StartTick, Waiting, NoTick, JobsTypeOK
    <3>2. CASE Kill(p)
      BY <3>2, <1>1 DEF Kill, Waiting, NoTick, JobsTypeOK
    <3> QED BY <2>2, <3>1, <3>2
  <2>3. CASE StartProcess(p)
    BY <2>3 DEF StartProcess
  <2>4. CASE AlreadyRan(p) /\ TickTo(p, "run")
    BY <2>4, <1>1, GotoEffect DEF AlreadyRan, PCs
  <2>5. CASE TickTo(p, "record") \/ TickTo(p, "first") \/ TickTo(p, "update")
    BY <2>5, <1>1, GotoEffect DEF PCs, Waiting
  <2> QED BY <2>1, <2>2, <2>3, <2>4, <2>5
          DEF Skip, AlreadyRan, SweepEnds, RecordRun, WriteRun, SweepRaises
<1> QED BY <1>1, <1>2, <1>3, <1>4, Undisturbed

\* Finding no claim, or one that has lapsed, decides what to do and does nothing.
LEMMA FoundSafe ==
    ASSUME JobsSafe, JobsTypeOK', NEW p \in Procs, Job(p) \in Claimed,
           UNCHANGED <<claim, excused, ran>>,
           \A q \in Procs \ {p}: pc'[q] = pc[q],
           Job(p)' = Job(p), Stamp(p)' = Stamp(p),
           \/ pc'[p].at = "insert"
           \/ pc'[p].at = "takeover" /\ <<Job(p), Stamp(p)>> \in excused
    PROVE  JobsSafe'
<1>1. \A q \in Procs: q = p \/ (pc'[q] = pc[q] /\ Job(q)' = Job(q) /\ Stamp(q)' = Stamp(q))
  BY DEF Job, Stamp
<1>2. \A q \in Procs, j \in Claimed, d \in Day: Holds(q, j, d)' => Holds(q, j, d) /\ pc'[q] = pc[q]
  BY <1>1 DEF Holds
<1>3. Placed' /\ Overtaken' /\ Lapsed'
  BY <1>1 DEF JobsSafe, Placed, Overtaken, Lapsed
<1>4. HolderClaims' /\ RanClaimed'
  BY <1>2 DEF JobsSafe, HolderClaims, RanClaimed
<1>5. OneRunner'
  BY <1>2 DEF JobsSafe, OneRunner, Runs
<1> QED BY <1>3, <1>4, <1>5 DEF JobsSafe

LEMMA FindSafe ==
    ASSUME JobsSafe, NEW p \in Procs, FindClaim(p)
    PROVE  JobsSafe'
<1> DEFINE j0 == Job(p)
           d0 == Stamp(p)
<1> USE DEF clock, memory, history
<1>1. JobsTypeOK /\ JobsTypeOK' /\ j0 \in Claimed /\ d0 \in Day
  BY JobsStepTyped, JobTyped DEF JobsSafe, Step, FindClaim
<1>2. UNCHANGED <<claim, excused, ran>>
  BY DEF FindClaim
<1>3. CASE Advance(p)
  BY <1>1, <1>2, <1>3, AdvanceWaits, Undisturbed
<1>4. CASE TickTo(p, "insert")
  <2>1. /\ \A q \in Procs \ {p}: pc'[q] = pc[q]
        /\ pc'[p].at = "insert" /\ Job(p)' = j0 /\ Stamp(p)' = d0
    BY <1>1, <1>4, GotoEffect DEF PCs
  <2> QED BY <1>1, <1>2, <2>1, FoundSafe
<1>5. CASE ClaimRow(p).status = "lapsed" /\ pc' = [pc EXCEPT ![p].at = "takeover", ![p].doc = ClaimRow(p).doc]
  <2>1. /\ \A q \in Procs \ {p}: pc'[q] = pc[q]
        /\ pc'[p].at = "takeover" /\ Job(p)' = j0 /\ Stamp(p)' = d0
    BY <1>1, <1>5 DEF JobsTypeOK, Tick, Job, Stamp
  <2>2. <<j0, d0>> \in excused
    BY <1>1, <1>5 DEF ClaimRow, JobsSafe, Lapsed
  <2> QED BY <1>1, <1>2, <2>1, <2>2, FoundSafe
<1> QED BY <1>3, <1>4, <1>5 DEF FindClaim, Lose

\* Steps on a claim: what OwnPair asks of the pair itself follows from Safe.
LEMMA InsertSafe ==
    ASSUME JobsSafe, NEW p \in Procs, InsertClaim(p)
    PROVE  JobsSafe'
<1> USE DEF clock, memory, history
<1>1. JobsTypeOK /\ JobsTypeOK' /\ Job(p) \in Claimed /\ Stamp(p) \in Day
  BY JobsStepTyped, JobTyped DEF JobsSafe, Placed, Step, InsertClaim, TickAt
<1>2. excused' = excused /\ ran' = ran
  BY DEF InsertClaim
<1>3. CASE Lose(p) /\ UNCHANGED claim
  BY <1>1, <1>2, <1>3, AdvanceWaits, Undisturbed DEF Lose
<1>4. CASE /\ ClaimRow(p).status = "none"
           /\ claim' = [claim EXCEPT ![Job(p)][Stamp(p)] =
                          [status |-> "running", doc |-> @.doc + 1]]
           /\ TickTo(p, "run")
  <2>1. \A j \in Claimed, d \in Day:
           claim'[j][d].status =
              IF j = Job(p) /\ d = Stamp(p) THEN "running" ELSE claim[j][d].status
    BY <1>1, <1>4, InsertEffect
  <2>2. /\ \A q \in Procs \ {p}: pc'[q] = pc[q]
        /\ pc'[p].at = "run" /\ Job(p)' = Job(p) /\ Stamp(p)' = Stamp(p)
    BY <1>1, <1>4, GotoEffect DEF PCs
  <2> DEFINE j0 == Job(p)
             d0 == Stamp(p)
  <2>3. <<j0, d0>> \notin excused => \A q \in Procs: Holds(q, j0, d0)' => q = p
    <3>1. <<j0, d0>> \notin excused => \A q \in Procs: ~Holds(q, j0, d0)
      BY <1>1, <1>4 DEF JobsSafe, HolderClaims, ClaimRow
    <3> QED BY <3>1, <2>2 DEF Holds, Job, Stamp
  <2>4. <<j0, d0>> \notin excused => <<j0, d0>> \notin ran
    BY <1>1, <1>4 DEF JobsSafe, RanClaimed, ClaimRow
  <2>5. claim'[j0][d0].status = "running"
    BY <1>1, <2>1
  <2> HIDE DEF j0, d0
  <2> QED BY <1>1, <1>2, <2>1, <2>2, <2>3, <2>4, <2>5, OwnPair DEF j0, d0
<1> QED BY <1>3, <1>4 DEF InsertClaim

LEMMA TakeOverSafe ==
    ASSUME JobsSafe, NEW p \in Procs, TakeOver(p)
    PROVE  JobsSafe'
<1> USE DEF clock, memory, history
<1>1. /\ JobsTypeOK /\ JobsTypeOK' /\ Job(p) \in Claimed /\ Stamp(p) \in Day
      /\ <<Job(p), Stamp(p)>> \in excused
  BY JobsStepTyped, JobTyped DEF JobsSafe, Placed, Overtaken, Step, TakeOver, TickAt
<1>2. excused' = excused /\ ran' = ran
  BY DEF TakeOver
<1>3. \A j \in Claimed, d \in Day:
         (j # Job(p) \/ d # Stamp(p)) => claim'[j][d].status = claim[j][d].status
  BY <1>1, SetClaimEffect DEF TakeOver
<1>4. /\ \A q \in Procs \ {p}: pc'[q] = pc[q]
      /\ pc'[p].at = "run" /\ Job(p)' = Job(p) /\ Stamp(p)' = Stamp(p)
  BY <1>1, GotoEffect DEF PCs, TakeOver
<1> QED BY <1>1, <1>2, <1>3, <1>4, OwnPair

\* Who holds an unexcused pair holds it alone, under a running claim.
LEMMA HolderAlone ==
    ASSUME JobsSafe, NEW p \in Procs, NEW j0 \in Claimed, NEW d0 \in Day,
           Holds(p, j0, d0), <<j0, d0>> \notin excused,
           \A q \in Procs \ {p}: pc'[q] = pc[q]
    PROVE  /\ claim[j0][d0].status = "running"
           /\ \A q \in Procs: Holds(q, j0, d0)' => q = p
           /\ <<j0, d0>> \in ran => pc[p].at = "finish"
<1>1. claim[j0][d0].status = "running" /\ (<<j0, d0>> \in ran => pc[p].at = "finish")
  BY DEF JobsSafe, HolderClaims, RanClaimed
<1>2. \A q \in Procs: Holds(q, j0, d0)' => q = p
  BY SingleHolder DEF Holds, Job, Stamp
<1> QED BY <1>1, <1>2

\* A run that ends, or raises, keeps the invariant.
LEMMA RunSafe ==
    ASSUME JobsSafe, NEW p \in Procs, RunEnds(p) \/ RunRaises(p)
    PROVE  JobsSafe'
<1> USE DEF clock, memory, history
<1>0. JobsTypeOK /\ JobsTypeOK' /\ Job(p) \in Claimed /\ Stamp(p) \in Day
  BY JobsStepTyped, JobTyped DEF JobsSafe, Step, Raise, RunEnds, RunRaises
<1> PICK j0 \in Claimed, d0 \in Day: j0 = Job(p) /\ d0 = Stamp(p)
  BY <1>0
<1>2. UNCHANGED <<claim, excused>> /\ pc[p].at = "run"
  BY DEF RunEnds, RunRaises, TickAt
<1>3. /\ \A q \in Procs \ {p}: pc'[q] = pc[q]
      /\ Job(p)' = j0 /\ Stamp(p)' = d0
      /\ \/ pc'[p].at = "finish" /\ ran' = ran \cup {<<j0, d0>>}
         \/ pc'[p].at = "drop" /\ ran' = ran
  <2>1. CASE RunEnds(p)
    <3>1. TickTo(p, "finish") /\ "finish" \in PCs
      BY <2>1 DEF RunEnds, PCs
    <3>2. ran' = ran \cup {<<j0, d0>>}
      BY <2>1 DEF RunEnds
    <3> QED BY <1>0, <3>1, <3>2, GotoEffect
  <2>2. CASE RunRaises(p)
    <3>1. TickTo(p, "drop") /\ "drop" \in PCs
      BY <2>2 DEF RunRaises, PCs
    <3>2. ran' = ran
      BY <2>2 DEF RunRaises
    <3> QED BY <1>0, <3>1, <3>2, GotoEffect
  <2> QED BY <2>1, <2>2
<1>4. Holds(p, j0, d0)
  BY <1>2 DEF Holds
<1>5. <<j0, d0>> \notin excused =>
         /\ claim[j0][d0].status = "running"
         /\ \A q \in Procs: Holds(q, j0, d0)' => q = p
         /\ <<j0, d0>> \notin ran
  <2> SUFFICES ASSUME <<j0, d0>> \notin excused
               PROVE  /\ claim[j0][d0].status = "running"
                      /\ \A q \in Procs: Holds(q, j0, d0)' => q = p
                      /\ <<j0, d0>> \notin ran
    OBVIOUS
  <2>1. \A q \in Procs \ {p}: pc'[q] = pc[q]
    BY <1>3
  <2> QED BY <1>0, <1>2, <1>4, <2>1, HolderAlone
<1>6. \A j \in Claimed, d \in Day: (j # j0 \/ d # d0) /\ <<j, d>> \in ran' => <<j, d>> \in ran
  BY <1>3
<1>7. claim[j0][d0].status = "lapsed" => <<j0, d0>> \in excused
  BY <1>0 DEF JobsSafe, Lapsed
<1> QED BY <1>0, <1>2, <1>3, <1>5, <1>6, <1>7, OwnPair

LEMMA EndSafe ==
    ASSUME JobsSafe, NEW p \in Procs, FinishJob(p) \/ Drop(p)
    PROVE  JobsSafe'
<1> USE DEF clock, memory, history
<1>0. JobsTypeOK /\ JobsTypeOK' /\ Job(p) \in Claimed /\ Stamp(p) \in Day
  BY JobsStepTyped, JobTyped DEF JobsSafe, Placed, Step, FinishJob, Drop, TickAt
<1> PICK j0 \in Claimed, d0 \in Day: j0 = Job(p) /\ d0 = Stamp(p)
  BY <1>0
<1>2. UNCHANGED <<ran, excused>> /\ pc[p].at \in {"finish", "drop"}
  BY DEF FinishJob, Drop, TickAt
<1>3. Waiting(pc'[p].at) /\ \A q \in Procs \ {p}: pc'[q] = pc[q]
  BY <1>0, AdvanceWaits DEF FinishJob, Drop
<1>4. Holds(p, j0, d0)
  BY <1>2 DEF Holds
<1>5. /\ \A j \in Claimed, d \in Day:
            (j # j0 \/ d # d0) => claim'[j][d].status = claim[j][d].status
      /\ pc[p].at = "finish" /\ claim[j0][d0].status # "none" => claim'[j0][d0].status = "done"
      /\ claim'[j0][d0].status = "lapsed" => claim[j0][d0].status = "lapsed"
  <2>1. CASE FinishJob(p)
    BY <2>1, <1>0, SetClaimEffect DEF FinishJob, TickAt, ClaimRow
  <2>2. CASE Drop(p)
    BY <2>2, <1>0, SetClaimEffect DEF Drop, TickAt
  <2> QED BY <2>1, <2>2
<1>6. <<j0, d0>> \notin excused =>
         /\ \A q \in Procs: ~Holds(q, j0, d0)'
         /\ <<j0, d0>> \in ran => claim'[j0][d0].status = "done"
  <2> SUFFICES ASSUME <<j0, d0>> \notin excused
               PROVE  /\ \A q \in Procs: ~Holds(q, j0, d0)'
                      /\ <<j0, d0>> \in ran => claim'[j0][d0].status = "done"
    OBVIOUS
  <2>1. /\ claim[j0][d0].status = "running"
        /\ \A q \in Procs: Holds(q, j0, d0)' => q = p
        /\ <<j0, d0>> \in ran => pc[p].at = "finish"
    BY <1>0, <1>3, <1>4, HolderAlone
  <2>2. ~Holds(p, j0, d0)'
    BY <1>3 DEF Holds, Waiting
  <2> QED BY <2>1, <2>2, <1>5
<1>7. claim[j0][d0].status = "lapsed" => <<j0, d0>> \in excused
  BY <1>0 DEF JobsSafe, Lapsed
<1>8. pc'[p].at # "takeover"
  BY <1>3 DEF Waiting
<1> QED BY <1>0, <1>2, <1>3, <1>5, <1>6, <1>7, <1>8, OwnPair

\* So does a ledger call that raises, which excuses its pair.
LEMMA LedgerSafe ==
    ASSUME JobsSafe, NEW p \in Procs, LedgerRaises(p)
    PROVE  JobsSafe'
<1> USE DEF clock, memory, history
<1>1. JobsTypeOK /\ JobsTypeOK' /\ Job(p) \in Claimed /\ Stamp(p) \in Day
  BY JobsStepTyped, JobTyped DEF JobsSafe, Raise, LedgerRaises
<1>2. /\ UNCHANGED <<claim, ran>>
      /\ excused' = excused \cup {<<Job(p), Stamp(p)>>}
  BY DEF LedgerRaises
<1>3. /\ \A q \in Procs \ {p}: pc'[q] = pc[q]
      /\ Waiting(pc'[p].at) \/ (Job(p)' = Job(p) /\ Stamp(p)' = Stamp(p))
  BY <1>1, GotoEffect, AdvanceWaits DEF LedgerRaises, PCs
<1>4. <<Job(p), Stamp(p)>> \in excused' /\ excused \subseteq excused'
  BY <1>2
<1> QED BY <1>1, <1>2, <1>3, <1>4, OwnPair

\* So does time, which excuses the pairs whose lease it ends.
LEMMA TimeSafe ==
    ASSUME JobsSafe, HourStrikes \/ NextDay \/ (\E j \in Claimed, d \in Day: LeaseEnds(j, d))
    PROVE  JobsSafe'
<1> USE DEF clock, memory, history
<1>1. JobsTypeOK'
  BY JobsTimeTyped DEF JobsSafe
<1>2. UNCHANGED <<pc, ran>>
  BY DEF HourStrikes, NextDay, LeaseEnds
<1>3. /\ excused \subseteq excused'
      /\ \A j \in Claimed, d \in Day: <<j, d>> \in excused' \/ claim'[j][d].status = claim[j][d].status
  <2>1. CASE HourStrikes \/ NextDay
    BY <2>1 DEF HourStrikes, NextDay
  <2>2. ASSUME NEW j \in Claimed, NEW d \in Day, LeaseEnds(j, d)
        PROVE  /\ excused \subseteq excused'
               /\ \A k \in Claimed, e \in Day:
                     <<k, e>> \in excused' \/ claim'[k][e].status = claim[k][e].status
    BY <2>2 DEF LeaseEnds, JobsSafe, JobsTypeOK
  <2> QED BY <2>1, <2>2
<1>4. \A p \in Procs, j \in Claimed, d \in Day: Holds(p, j, d)' <=> Holds(p, j, d)
  BY <1>2 DEF Holds, Job, Stamp
<1>5. Placed' /\ Overtaken'
  BY <1>2, <1>3 DEF JobsSafe, Placed, Overtaken, Job, Stamp
<1>6. Lapsed' /\ HolderClaims' /\ RanClaimed'
  BY <1>2, <1>3, <1>4 DEF JobsSafe, Lapsed, HolderClaims, RanClaimed
<1>7. OneRunner'
  BY <1>3, <1>4 DEF JobsSafe, OneRunner, Runs
<1> QED BY <1>1, <1>5, <1>6, <1>7 DEF JobsSafe

\* Every step keeps the invariant,
LEMMA JobsNextSafe == JobsSafe /\ [JobsNext]_jobsVars => JobsSafe'
<1> SUFFICES ASSUME JobsSafe, [JobsNext]_jobsVars PROVE JobsSafe'
  OBVIOUS
<1>1. ASSUME NEW p \in Procs, Step(p) \/ Raise(p) \/ Kill(p) \/ StartProcess(p)
      PROVE  JobsSafe'
  BY <1>1, QuietSafe, FindSafe, InsertSafe, TakeOverSafe, RunSafe, EndSafe, LedgerSafe
     DEF Step, Raise
<1>2. CASE UNCHANGED jobsVars
  BY <1>2 DEF jobsVars, clock, memory, history, JobsSafe, JobsTypeOK, Placed, Overtaken, Lapsed,
     HolderClaims,
              RanClaimed, OneRunner, Holds, Job, Stamp
<1> QED BY <1>1, <1>2, TimeSafe DEF JobsNext

\* so it holds throughout.
LEMMA JobsAlwaysSafe == JobsSpec => []JobsSafe
<1> QED BY JobsInitSafe, JobsNextSafe, PTL DEF JobsSpec

-----------------------------------------------------------------------------
(* The theorems                                                             *)

\* The memory of the loop, the ticks in flight and both ledgers stay within
\* their types, for any processes, jobs, days, crashes and failures.
THEOREM JobsTypeCorrect == JobsSpec => []JobsTypeOK
<1>1. JobsSafe => JobsTypeOK
  BY DEF JobsSafe
<1> QED BY <1>1, JobsAlwaysSafe, PTL

\* _claim_job lets one process at a time run a daily job for a day, until its
\* lease ends or the ledger raises.
THEOREM JobsExclusive == JobsSpec => []OneRunner
<1>1. JobsSafe => OneRunner
  BY DEF JobsSafe
<1> QED BY <1>1, JobsAlwaysSafe, PTL

\* What has run stays so.
LEMMA RanKept == [JobsNext]_jobsVars => ran \subseteq ran'
BY DEF JobsNext, jobsVars, history, Step, Raise, StartTick, Skip, FindClaim, InsertClaim,
   TakeOver, RunEnds,
       RunRaises, FinishJob, Drop, LedgerRaises, AlreadyRan, SweepEnds, RecordRun, WriteRun,
       SweepRaises, HourStrikes, NextDay, LeaseEnds, Kill, StartProcess

\* A daily job that has run to the end is not started again that day, not even
\* after a crash before _finish_job, until its lease ends or the ledger raises.
THEOREM JobsNotReplayed == JobsSpec => NeverReplayed
<1> DEFINE StillHeld == \A p \in Procs: \A r \in ran \ excused':
                     r[1] \in Claimed /\ Holds(p, r[1], r[2])' /\ pc'[p].at = "run"
                       => Holds(p, r[1], r[2])
<1>1. JobsSafe /\ JobsSafe' /\ [JobsNext]_jobsVars => StillHeld
  <2> SUFFICES ASSUME JobsSafe, JobsSafe', [JobsNext]_jobsVars, NEW p \in Procs, NEW r \in ran \ excused',
                      r[1] \in Claimed, Holds(p, r[1], r[2])', pc'[p].at = "run"
               PROVE  FALSE
    OBVIOUS
  <2>1. r = <<r[1], r[2]>> /\ r[2] \in Day
    BY DEF JobsSafe, JobsTypeOK
  <2>2. <<r[1], r[2]>> \in ran' \ excused'
    BY <2>1, RanKept
  <2> QED BY <2>1, <2>2 DEF JobsSafe, RanClaimed
<1>2. NeverReplayed <=> [][StillHeld]_jobsVars
  BY DEF NeverReplayed
<1> QED BY <1>1, <1>2, JobsAlwaysSafe, PTL DEF JobsSpec

=============================================================================
