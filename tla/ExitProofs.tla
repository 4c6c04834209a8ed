----------------------------- MODULE ExitProofs -----------------------------
(***************************************************************************)
(* Proofs about the separation of an employee, for any number of cases and *)
(* restarts and with the daily sweep at any moment: the documents and the  *)
(* tasks in flight have their types, and, when requests come one at a      *)
(* time, an early last working day is always an approved one and a closure *)
(* holds.                                                                  *)
(***************************************************************************)
EXTENDS Exit, TLAPS

-----------------------------------------------------------------------------
(* Types                                                                    *)

EmpTyped == emp \in Employee /\ (emp.login => emp.linked)

\* A case that was never raised has no final day, and one without is not swept.
SepTyped ==
    /\ sep \in [Cases -> Case]
    /\ \A c \in Cases : sep[c].final = "none" => ~sep[c].swept
    /\ \A c \in Cases : sep[c].stage = "None" => sep[c].final = "none"

ItemTyped == item \in [Cases -> [Kinds -> ItemStatus]]
FnfTyped == fnf \in [Cases -> FnfStatus]

\* What a request in flight carries, against the cases s on file.
Fit(t, s) ==
    /\ t \in Task
    /\ t.pc \notin {"sweep", "open_fnf", "stamp"}
    /\ t.pc # "idle" => t.c \in Cases
    /\ t.pc \in {"decide", "approve", "notice", "reinstate"} => s[t.c].stage # "None"
    /\ t.pc = "create" => t.k \in Kinds
    /\ t.pc \in {"decide", "approve"} => t.day # "none"
    /\ t.pc = "decide" /\ t.ok => t.day = "calc"

\* What the sweep carries: every case it lists has its final day.
Listed(t, s) ==
    /\ t \in Task
    /\ t.pc \in {"idle", "sweep", "open_fnf", "stamp"}
    /\ t.pc \in {"open_fnf", "stamp"} => t.c \in Cases /\ s[t.c].final # "none"
    /\ \A x \in t.cases : x[1] \in Cases /\ x[2] \in Stage /\ s[x[1]].final # "none"

Tasks ==
    /\ DOMAIN task = Procs /\ task = [p \in Procs |-> task[p]]
    /\ \A w \in Workers : Fit(task[w], sep)
    /\ Listed(task[Cron], sep)

DocsTyped == EmpTyped /\ SepTyped /\ ItemTyped /\ FnfTyped

Misc == held \in BOOLEAN /\ crashes \in Nat

Typed == DocsTyped /\ Misc /\ Tasks

\* A case once raised stays raised, and a final day once set stays set.
Grown ==
    \A c \in Cases :
        /\ sep[c].stage # "None" => sep'[c].stage # "None"
        /\ sep[c].final # "none" => sep'[c].final # "none"

LEMMA TypedIsTypeOK == Typed => TypeOK
<1> SUFFICES ASSUME Typed PROVE TypeOK
  OBVIOUS
<1>1. task \in [Procs -> Task]
  BY DEF Typed, Tasks, Fit, Listed, Procs
<1>2. held \in BOOLEAN /\ crashes \in Nat
  BY Zenon DEF Typed, Misc
<1>3. /\ emp \in Employee /\ (emp.login => emp.linked)
      /\ sep \in [Cases -> Case]
      /\ \A c \in Cases : sep[c].final = "none" => ~sep[c].swept
      /\ item \in [Cases -> [Kinds -> ItemStatus]]
      /\ fnf \in [Cases -> FnfStatus]
  BY DEF Typed, DocsTyped, EmpTyped, SepTyped, ItemTyped, FnfTyped
<1> QED
  BY <1>1, <1>2, <1>3, Zenon DEF TypeOK

LEMMA IdleFits == \A s : Fit(Idle, s) /\ Listed(Idle, s)
  BY ExitAssumption DEF Fit, Listed, Idle, Task, PCs, Lwd, Stage

LEMMA Separate == ASSUME NEW w \in Workers PROVE w \in Procs /\ Cron \in Procs /\ w # Cron
  BY ExitAssumption DEF Procs

\* Whatever a step does to the documents, the tasks that did not move still fit.
LEMMA WorkerMoved ==
    ASSUME Typed, DocsTyped', Misc', Grown, NEW w \in Workers, NEW t,
           task' = [task EXCEPT ![w] = t], Fit(t, sep')
    PROVE  Typed'
<1>1. \A v \in Workers : Fit(task'[v], sep')
  <2> SUFFICES ASSUME NEW v \in Workers PROVE Fit(task'[v], sep')
    OBVIOUS
  <2>1. CASE v = w
    BY <2>1, Separate DEF Typed, Tasks
  <2>2. CASE v # w
    <3>1. task'[v] = task[v] /\ Fit(task[v], sep)
      BY <2>2, Separate DEF Typed, Tasks
    <3> QED
      BY <3>1 DEF Fit, Grown
  <2> QED
    BY <2>1, <2>2
<1>2. Listed(task'[Cron], sep')
  <2>1. task'[Cron] = task[Cron] /\ Listed(task[Cron], sep)
    BY Separate DEF Typed, Tasks
  <2> QED
    BY <2>1 DEF Listed, Grown
<1>3. DOMAIN task' = Procs /\ task' = [p \in Procs |-> task'[p]]
  BY DEF Typed, Tasks
<1> QED
  BY <1>1, <1>2, <1>3 DEF Typed, Tasks

LEMMA SweepMoved ==
    ASSUME Typed, DocsTyped', Misc', Grown, NEW t,
           task' = [task EXCEPT ![Cron] = t], Listed(t, sep')
    PROVE  Typed'
<1>1. \A v \in Workers : Fit(task'[v], sep')
  <2> SUFFICES ASSUME NEW v \in Workers PROVE Fit(task'[v], sep')
    OBVIOUS
  <2>1. task'[v] = task[v] /\ Fit(task[v], sep)
    BY Separate DEF Typed, Tasks
  <2> QED
    BY <2>1 DEF Fit, Grown
<1>2. Listed(task'[Cron], sep')
  BY DEF Typed, Tasks, Procs
<1>3. DOMAIN task' = Procs /\ task' = [p \in Procs |-> task'[p]]
  BY DEF Typed, Tasks
<1> QED
  BY <1>1, <1>2, <1>3 DEF Typed, Tasks

\* The documents a step leaves alone keep their types.
LEMMA KeptDocs ==
    ASSUME Typed
    PROVE  /\ emp' = emp => EmpTyped'
           /\ sep' = sep => SepTyped' /\ Grown
           /\ item' = item => ItemTyped'
           /\ fnf' = fnf => FnfTyped'
  BY DEF Typed, DocsTyped, EmpTyped, SepTyped, ItemTyped, FnfTyped, Grown

LEMMA KeptMisc == ASSUME Typed, held' = held, crashes' = crashes PROVE Misc'
  BY Zenon DEF Typed, Misc

LEMMA BeginTyped ==
    ASSUME Typed, NEW w \in Workers, NEW op, NEW t, Begin(w, op, t), Fit(t, sep) PROVE Typed'
<1>1. sep' = sep /\ emp' = emp /\ item' = item /\ fnf' = fnf /\ crashes' = crashes
      /\ task' = [task EXCEPT ![w] = t]
  BY DEF Begin, ReadOnly
<1>2. held' = held
  BY Zenon DEF Begin, ReadOnly
<1> QED
  BY <1>1, <1>2, KeptDocs, KeptMisc, WorkerMoved DEF DocsTyped

\* Where a request goes on with nothing but its case.
Onward == {"notice", "seed", "reinstate", "pend", "approved", "settle", "leave", "logoff",
           "forfeit"}

LEMMA OnwardFits ==
    ASSUME NEW c \in Cases, NEW s, NEW pc \in Onward,
           pc \in {"notice", "reinstate"} => s[c].stage # "None"
    PROVE  Fit([Idle EXCEPT !.pc = pc, !.c = c], s)
  BY DEF Onward, Fit, Idle, Task, PCs, Lwd, Stage

-----------------------------------------------------------------------------
(* Each step keeps the types                                                 *)

\* Requests that begin.
Starting(w) ==
    \/ StartInitiate(w) \/ StartDecide(w) \/ StartApprove(w) \/ StartWithdraw(w)
    \/ StartCreate(w) \/ StartSave(w) \/ StartVerdict(w) \/ StartPay(w) \/ StartClose(w)

\* A new task fits when its record does and its case is as it should be.
LEMMA StartingTyped ==
    ASSUME Typed, NEW w \in Workers, Starting(w) PROVE Typed'
<1>1. sep \in [Cases -> Case]
  BY DEF Typed, DocsTyped, SepTyped
<1>2. CASE StartInitiate(w)
  <2>1. PICK c \in Cases :
           Begin(w, "initiate", [Idle EXCEPT !.pc = "initiate", !.c = c, !.ok = emp.linked])
    BY <1>2 DEF StartInitiate
  <2>2. emp.linked \in BOOLEAN
    BY DEF Typed, DocsTyped, EmpTyped, Employee
  <2>3. Fit([Idle EXCEPT !.pc = "initiate", !.c = c, !.ok = emp.linked], sep)
    BY <2>2 DEF Fit, Idle, Task, PCs, Lwd, Stage
  <2> QED
    BY <2>1, <2>3, BeginTyped
<1>3. CASE StartDecide(w)
  <2>1. PICK c \in Cases, day \in {"early", "calc"}, ok \in BOOLEAN :
           /\ Open(c) /\ (ok => day = "calc")
           /\ Begin(w, "decide", [Idle EXCEPT !.pc = "decide", !.c = c, !.day = day, !.ok = ok,
                                              !.stage = sep[c].stage])
    BY <1>3 DEF StartDecide
  <2>2. sep[c].stage \in Stage /\ sep[c].stage # "None"
    BY <1>1, <2>1 DEF Case, Open, ClosedStages
  <2>3. Fit([Idle EXCEPT !.pc = "decide", !.c = c, !.day = day, !.ok = ok,
                         !.stage = sep[c].stage], sep)
    BY <2>1, <2>2 DEF Fit, Idle, Task, PCs, Lwd
  <2> QED
    BY <2>1, <2>3, BeginTyped
<1>4. CASE StartApprove(w)
  <2>1. PICK c \in Cases, ok \in BOOLEAN :
           /\ Open(c) /\ sep[c].rec # "none"
           /\ Begin(w, "approve", [Idle EXCEPT !.pc = "approve", !.c = c, !.ok = ok,
                                               !.day = sep[c].rec])
    BY <1>4 DEF StartApprove
  <2>2. sep[c].rec \in Lwd /\ sep[c].stage # "None"
    BY <1>1, <2>1 DEF Case, Open, ClosedStages
  <2>3. Fit([Idle EXCEPT !.pc = "approve", !.c = c, !.ok = ok, !.day = sep[c].rec], sep)
    BY <2>1, <2>2 DEF Fit, Idle, Task, PCs, Stage
  <2> QED
    BY <2>1, <2>3, BeginTyped
<1>5. CASE StartWithdraw(w)
  <2>1. PICK c \in Cases : Begin(w, "withdraw", [Idle EXCEPT !.pc = "withdraw", !.c = c])
    BY <1>5 DEF StartWithdraw
  <2>2. Fit([Idle EXCEPT !.pc = "withdraw", !.c = c], sep)
    BY DEF Fit, Idle, Task, PCs, Lwd, Stage
  <2> QED
    BY <2>1, <2>2, BeginTyped
<1>6. CASE StartCreate(w)
  <2>1. PICK c \in Cases, k \in Kinds \ {"standard"} :
           Begin(w, "create", [Idle EXCEPT !.pc = "create", !.c = c, !.k = k])
    BY <1>6 DEF StartCreate
  <2>2. Fit([Idle EXCEPT !.pc = "create", !.c = c, !.k = k], sep)
    BY DEF Fit, Idle, Task, PCs, Lwd, Stage
  <2> QED
    BY <2>1, <2>2, BeginTyped
<1>7. CASE StartSave(w)
  <2>1. PICK c \in Cases :
           Begin(w, "save", [Idle EXCEPT !.pc = "save", !.c = c, !.stage = sep[c].stage])
    BY <1>7 DEF StartSave
  <2>2. sep[c].stage \in Stage
    BY <1>1 DEF Case
  <2>3. Fit([Idle EXCEPT !.pc = "save", !.c = c, !.stage = sep[c].stage], sep)
    BY <2>2 DEF Fit, Idle, Task, PCs, Lwd
  <2> QED
    BY <2>1, <2>3, BeginTyped
<1>8. CASE StartVerdict(w)
  <2>1. PICK c \in Cases, ok \in BOOLEAN :
           Begin(w, "verdict", [Idle EXCEPT !.pc = "verdict", !.c = c, !.ok = ok])
    BY <1>8 DEF StartVerdict
  <2>2. Fit([Idle EXCEPT !.pc = "verdict", !.c = c, !.ok = ok], sep)
    BY DEF Fit, Idle, Task, PCs, Lwd, Stage
  <2> QED
    BY <2>1, <2>2, BeginTyped
<1>9. CASE StartPay(w)
  <2>1. PICK c \in Cases : Begin(w, "pay", [Idle EXCEPT !.pc = "pay", !.c = c])
    BY <1>9 DEF StartPay
  <2>2. Fit([Idle EXCEPT !.pc = "pay", !.c = c], sep)
    BY DEF Fit, Idle, Task, PCs, Lwd, Stage
  <2> QED
    BY <2>1, <2>2, BeginTyped
<1>10. CASE StartClose(w)
  <2>1. PICK c \in Cases, force \in BOOLEAN :
           Begin(w, "close", [Idle EXCEPT !.pc = "close", !.c = c, !.ok = force])
    BY <1>10 DEF StartClose
  <2>2. Fit([Idle EXCEPT !.pc = "close", !.c = c, !.ok = force], sep)
    BY DEF Fit, Idle, Task, PCs, Lwd, Stage
  <2> QED
    BY <2>1, <2>2, BeginTyped
<1> QED
  BY <1>2, <1>3, <1>4, <1>5, <1>6, <1>7, <1>8, <1>9, <1>10 DEF Starting

LEMMA Carried ==
    ASSUME Typed, NEW w \in Workers
    PROVE  /\ Fit(task[w], sep) /\ task[w] \in Task
           /\ task[w].pc # "idle" => task[w].c \in Cases
  BY DEF Typed, Tasks, Fit

\* A request that goes on with its case, or ends.
Passed(w) ==
    \/ task' = [task EXCEPT ![w] = Idle]
    \/ \E pc \in Onward \ {"notice", "reinstate"} : Goto(w, pc)

LEMMA PassedTyped ==
    ASSUME Typed, DocsTyped', Misc', Grown, NEW w \in Workers, task[w].pc # "idle", Passed(w)
    PROVE  Typed'
<1>1. CASE task' = [task EXCEPT ![w] = Idle]
  BY <1>1, IdleFits, WorkerMoved
<1>2. ASSUME NEW pc \in Onward \ {"notice", "reinstate"}, Goto(w, pc) PROVE Typed'
  <2>1. task' = [task EXCEPT ![w] = [Idle EXCEPT !.pc = pc, !.c = task[w].c]]
    BY <1>2 DEF Goto
  <2>2. Fit([Idle EXCEPT !.pc = pc, !.c = task[w].c], sep')
    BY <1>2, Carried, OnwardFits
  <2> QED
    BY <2>1, <2>2, WorkerMoved
<1> QED
  BY <1>1, <1>2 DEF Passed

\* Steps that write the profile or the login.
LEMMA EmpStepTyped ==
    ASSUME Typed, NEW w \in Workers, Notice(w) \/ Reinstate(w) \/ Leave(w) \/ LogOff(w)
    PROVE  Typed'
<1>1. emp \in Employee /\ (emp.login => emp.linked)
  BY DEF Typed, DocsTyped, EmpTyped
<1>2. EmpTyped'
  <2>1. \E st \in {"Active", "Notice", "Left"} :
           emp' = [emp EXCEPT !.status = st] \/ emp' = [emp EXCEPT !.login = FALSE]
    BY DEF Notice, Reinstate, Leave, LogOff
  <2> QED
    BY <1>1, <2>1 DEF EmpTyped, Employee
<1>3. sep' = sep /\ item' = item /\ fnf' = fnf /\ crashes' = crashes
  BY DEF Notice, Reinstate, Leave, LogOff
<1>4. held' = held
  BY Zenon DEF Notice, Reinstate, Leave, LogOff
<1>5. task[w].pc # "idle"
  BY DEF Notice, Reinstate, Leave, LogOff, At
<1>6. Passed(w)
  <2>1. "logoff" \in Onward \ {"notice", "reinstate"} /\ "forfeit" \in Onward \ {"notice", "reinstate"}
    BY DEF Onward
  <2>2. CASE Leave(w)
    BY <2>1, <2>2, Zenon DEF Leave, Passed
  <2> QED
    BY <2>1, <2>2, Zenon DEF Notice, Reinstate, LogOff, Finish, Passed
<1> QED
  BY <1>2, <1>3, <1>4, <1>5, <1>6, KeptDocs, KeptMisc, PassedTyped DEF DocsTyped

LEMMA LinkUserTyped ==
    ASSUME Typed, NEW w \in Workers, LinkUser(w) PROVE Typed'
<1>1. EmpTyped'
  BY DEF Typed, DocsTyped, EmpTyped, Employee, LinkUser
<1>2. task' = task /\ sep' = sep /\ item' = item /\ fnf' = fnf /\ crashes' = crashes
  BY DEF LinkUser
<1>3. held' = held
  BY Zenon DEF LinkUser
<1> QED
  BY <1>1, <1>2, <1>3, KeptDocs, KeptMisc DEF Typed, DocsTyped, Tasks

LEMMA ForfeitTyped ==
    ASSUME Typed, NEW w \in Workers, Forfeit(w) PROVE Typed'
<1>1. emp' = emp /\ sep' = sep /\ item' = item /\ fnf' = fnf /\ crashes' = crashes
  BY DEF Forfeit
<1>2. Misc'
  BY <1>1, Zenon DEF Forfeit, Typed, Misc
<1>3. task[w].pc # "idle" /\ Passed(w)
  BY DEF Forfeit, At, Finish, Passed
<1> QED
  BY <1>1, <1>2, <1>3, KeptDocs, PassedTyped DEF DocsTyped

\* Steps that write an item.
LEMMA ItemStepTyped ==
    ASSUME Typed, NEW w \in Workers, Seed(w) \/ Create(w) \/ ActOnItem(w) PROVE Typed'
<1>1. item \in [Cases -> [Kinds -> ItemStatus]]
  BY DEF Typed, DocsTyped, ItemTyped
<1>2. ItemTyped'
  <2>1. CASE Seed(w)
    <3>1. task[w].c \in Cases
      BY <2>1, Carried DEF Seed, At
    <3>2. [k \in Kinds |-> IF k = "standard" THEN "Pending" ELSE item[task[w].c][k]]
             \in [Kinds -> ItemStatus]
      BY <1>1, <3>1 DEF ItemStatus
    <3> QED
      BY <1>1, <2>1, <3>1, <3>2 DEF Seed, ItemTyped
  <2>2. CASE Create(w)
    <3>1. task[w].c \in Cases /\ task[w].k \in Kinds
      BY <2>2, Carried DEF Create, At, Fit
    <3> QED
      BY <1>1, <2>2, <3>1 DEF Create, ItemTyped, ItemStatus
  <2>3. CASE ActOnItem(w)
    BY <1>1, <2>3 DEF ActOnItem, ItemTyped, ItemStatus
  <2> QED
    BY <2>1, <2>2, <2>3
<1>3. emp' = emp /\ sep' = sep /\ fnf' = fnf /\ crashes' = crashes
  BY DEF Seed, Create, ActOnItem
<1>4. held' = held
  BY Zenon DEF Seed, Create, ActOnItem
<1>5. DocsTyped' /\ Misc' /\ Grown
  BY <1>2, <1>3, <1>4, KeptDocs, KeptMisc DEF DocsTyped
<1>6. CASE Seed(w) \/ Create(w)
  BY <1>5, <1>6, PassedTyped DEF Seed, Create, At, Finish, Passed
<1>7. CASE ActOnItem(w)
  BY <1>3, <1>5, <1>7 DEF ActOnItem, Typed, Tasks
<1> QED
  BY <1>6, <1>7

\* Steps that write the settlement.
LEMMA FnfStepTyped ==
    ASSUME Typed, NEW w \in Workers, Save(w) \/ Verdict(w) \/ Pay(w) PROVE Typed'
<1>1. FnfTyped'
  <2>1. \E st \in FnfStatus : fnf' = [fnf EXCEPT ![task[w].c] = st]
    BY DEF Save, Verdict, Pay, FnfStatus
  <2> QED
    BY <2>1 DEF Typed, DocsTyped, FnfTyped
<1>2. emp' = emp /\ sep' = sep /\ item' = item /\ crashes' = crashes
  BY DEF Save, Verdict, Pay
<1>3. held' = held
  BY Zenon DEF Save, Verdict, Pay
<1>4. task[w].pc # "idle"
  BY DEF Save, Verdict, Pay, At
<1>5. Passed(w)
  <2>1. {"pend", "approved", "settle"} \subseteq Onward \ {"notice", "reinstate"}
    BY DEF Onward
  <2> QED
    BY <2>1 DEF Save, Verdict, Pay, Finish, Passed
<1> QED
  BY <1>1, <1>2, <1>3, <1>4, <1>5, KeptDocs, KeptMisc, PassedTyped DEF DocsTyped

\* A case replaced by a raised one that keeps its final day.
LEMMA Rewritten ==
    ASSUME Typed, NEW c \in Cases, NEW r \in Case, sep' = [sep EXCEPT ![c] = r],
           r.stage # "None", r.final = "none" => ~r.swept,
           sep[c].final # "none" => r.final # "none"
    PROVE  SepTyped' /\ Grown
  BY DEF Typed, DocsTyped, SepTyped, Grown

LEMMA CaseTyped ==
    ASSUME Typed, NEW c \in Cases
    PROVE  /\ sep \in [Cases -> Case] /\ sep[c] \in Case
           /\ sep[c].final = "none" => ~sep[c].swept
           /\ sep[c].stage = "None" => sep[c].final = "none"
  BY DEF Typed, DocsTyped, SepTyped

LEMMA SepStepTyped ==
    ASSUME Typed, SepTyped', Grown, NEW w \in Workers, task[w].pc # "idle", Passed(w),
           emp' = emp, item' = item, fnf' = fnf, held' = held, crashes' = crashes
    PROVE  Typed'
  BY KeptDocs, KeptMisc, PassedTyped DEF DocsTyped

LEMMA InitiateTyped ==
    ASSUME Typed, NEW w \in Workers, Initiate(w) PROVE Typed' /\ Grown
<1> DEFINE c == task[w].c
           r == [NoCase EXCEPT !.stage = "Initiated", !.user = task[w].ok]
<1>1. c \in Cases /\ task[w].ok \in BOOLEAN /\ task[w].pc # "idle"
  BY Carried DEF Initiate, At, Task
<1>2. r \in Case /\ r.stage # "None" /\ ~r.swept /\ r.stage = "Initiated"
  BY <1>1 DEF Case, NoCase, Stage, Lwd
<1>3. sep[c].final = "none" /\ sep' = [sep EXCEPT ![c] = r]
  BY <1>1, CaseTyped DEF Initiate
<1>4. SepTyped' /\ Grown
  <2> HIDE DEF r, c
  <2> QED
    BY <1>1, <1>2, <1>3, Rewritten
<1>5. emp' = emp /\ item' = item /\ fnf' = fnf /\ crashes' = crashes
  BY DEF Initiate
<1>6. held' = held
  BY Zenon DEF Initiate
<1>7. CASE task' = [task EXCEPT ![w] = Idle]
  BY <1>1, <1>4, <1>5, <1>6, <1>7, SepStepTyped DEF Passed
<1>8. CASE Goto(w, "notice")
  <2>1. sep'[c].stage # "None"
    BY <1>1, <1>2, <1>3, CaseTyped
  <2>2. Fit([Idle EXCEPT !.pc = "notice", !.c = c], sep')
    BY <1>1, <2>1, OnwardFits DEF Onward
  <2> QED
    BY <1>4, <1>5, <1>6, <1>8, <2>2, KeptDocs, KeptMisc, WorkerMoved DEF Goto, DocsTyped
<1> QED
  BY <1>7, <1>8 DEF Initiate, Finish

LEMMA DecideTyped ==
    ASSUME Typed, NEW w \in Workers, Decide(w) PROVE Typed' /\ Grown
<1> DEFINE t == task[w]
           c == task[w].c
           final == IF t.ok THEN t.day ELSE sep[c].final
           waiver == IF t.ok THEN FALSE ELSE sep[c].waiver
           stage == IF t.stage = "Initiated" THEN "Handover" ELSE sep[c].stage
           r == [sep[c] EXCEPT !.rec = t.day, !.final = final, !.waiver = waiver, !.stage = stage]
<1>1. c \in Cases /\ t \in Task /\ t.pc # "idle" /\ t.day # "none" /\ sep[c].stage # "None"
  BY Carried DEF Decide, At, Fit
<1>2. /\ final \in Lwd /\ stage \in Stage /\ stage # "None"
      /\ sep[c].final # "none" => final # "none"
  BY <1>1, CaseTyped DEF Case, Task, Stage
<1>3. waiver \in BOOLEAN
  <2>1. sep[c].waiver \in BOOLEAN
    BY <1>1, CaseTyped DEF Case
  <2> QED
    BY <2>1, Zenon
<1>4. sep' = [sep EXCEPT ![c] = r]
  BY <1>1, CaseTyped DEF Decide, Case
<1>5. r \in Case /\ r.stage # "None" /\ (r.final = "none" => ~r.swept)
      /\ (sep[c].final # "none" => r.final # "none")
  <2> HIDE DEF final, waiver, stage, c
  <2> QED
    BY <1>1, <1>2, <1>3, CaseTyped DEF Case, Task
<1>6. SepTyped' /\ Grown
  <2> HIDE DEF r, c, t
  <2> QED
    BY <1>1, <1>4, <1>5, Rewritten
<1>7. emp' = emp /\ item' = item /\ fnf' = fnf /\ crashes' = crashes
  BY DEF Decide
<1>8. held' = held
  BY Zenon DEF Decide
<1>9. Passed(w)
  BY DEF Decide, Passed, Onward
<1> QED
  BY <1>1, <1>6, <1>7, <1>8, <1>9, SepStepTyped

LEMMA ApproveTyped ==
    ASSUME Typed, NEW w \in Workers, Approve(w) PROVE Typed' /\ Grown
<1> DEFINE t == task[w]
           c == task[w].c
           final == IF t.ok THEN t.day ELSE sep[c].final
           r == [sep[c] EXCEPT !.waiver = t.ok, !.final = final]
<1>1. c \in Cases /\ t \in Task /\ t.pc # "idle" /\ t.day # "none" /\ sep[c].stage # "None"
  BY Carried DEF Approve, At, Fit
<1>2. final \in Lwd /\ (sep[c].final # "none" => final # "none")
  BY <1>1, CaseTyped DEF Case, Task
<1>3. r \in Case /\ r.stage # "None" /\ (r.final = "none" => ~r.swept)
      /\ (sep[c].final # "none" => r.final # "none")
  <2> HIDE DEF final, c
  <2> QED
    BY <1>1, <1>2, CaseTyped DEF Case, Task
<1>4. sep' = [sep EXCEPT ![c] = r]
  BY <1>1, CaseTyped DEF Approve, Case
<1>5. SepTyped' /\ Grown
  <2> HIDE DEF r, c, t
  <2> QED
    BY <1>1, <1>3, <1>4, Rewritten
<1>6. emp' = emp /\ item' = item /\ fnf' = fnf /\ crashes' = crashes
  BY DEF Approve
<1>7. held' = held
  BY Zenon DEF Approve
<1>8. Passed(w)
  BY DEF Approve, Finish, Passed
<1> QED
  BY <1>1, <1>5, <1>6, <1>7, <1>8, SepStepTyped

\* The steps that only move the stage of a case.
LEMMA StageTyped ==
    ASSUME Typed, NEW w \in Workers, NEW stage \in Stage \ {"None"}, task[w].pc # "idle",
           sep' = [sep EXCEPT ![task[w].c].stage = stage]
    PROVE  SepTyped' /\ Grown
<1> DEFINE c == task[w].c
           r == [sep[c] EXCEPT !.stage = stage]
<1>1. c \in Cases
  BY Carried
<1>2. r \in Case /\ r.stage # "None" /\ (r.final = "none" => ~r.swept)
      /\ (sep[c].final # "none" => r.final # "none")
  BY <1>1, CaseTyped DEF Case
<1>3. sep' = [sep EXCEPT ![c] = r]
  OBVIOUS
<1> HIDE DEF r, c
<1> QED
  BY <1>1, <1>2, <1>3, Rewritten

LEMMA ToStageTyped ==
    ASSUME Typed, NEW w \in Workers, NEW pc, NEW stage \in Stage \ {"None"}, pc # "idle",
           ToStage(w, pc, stage)
    PROVE  Typed' /\ Grown
<1>1. task[w].pc # "idle" /\ sep' = [sep EXCEPT ![task[w].c].stage = stage] /\ Passed(w)
  BY DEF ToStage, At, Finish, Passed
<1>2. SepTyped' /\ Grown
  BY <1>1, StageTyped
<1>3. emp' = emp /\ item' = item /\ fnf' = fnf /\ crashes' = crashes
  BY DEF ToStage
<1>4. held' = held
  BY Zenon DEF ToStage
<1> QED
  BY <1>1, <1>2, <1>3, <1>4, SepStepTyped

LEMMA WithdrawTyped ==
    ASSUME Typed, NEW w \in Workers, Withdraw(w) PROVE Typed' /\ Grown
<1>1. task[w].pc # "idle" /\ task[w].c \in Cases
  BY Carried DEF Withdraw, At
<1>2. sep' = [sep EXCEPT ![task[w].c].stage = "Withdrawn"]
  BY DEF Withdraw
<1>3. SepTyped' /\ Grown
  BY <1>1, <1>2, StageTyped DEF Stage
<1>4. emp' = emp /\ item' = item /\ fnf' = fnf /\ crashes' = crashes
  BY DEF Withdraw
<1>5. held' = held
  BY Zenon DEF Withdraw
<1>6. CASE task' = [task EXCEPT ![w] = Idle]
  BY <1>1, <1>3, <1>4, <1>5, <1>6, SepStepTyped DEF Passed
<1>7. CASE Goto(w, "reinstate")
  <2>1. sep'[task[w].c].stage # "None"
    BY <1>1, <1>2, CaseTyped DEF Case
  <2>2. Fit([Idle EXCEPT !.pc = "reinstate", !.c = task[w].c], sep')
    BY <1>1, <2>1, OnwardFits DEF Onward
  <2> QED
    BY <1>3, <1>4, <1>5, <1>7, <2>2, KeptDocs, KeptMisc, WorkerMoved DEF Goto, DocsTyped
<1> QED
  BY <1>6, <1>7 DEF Withdraw, Finish

LEMMA CloseTyped ==
    ASSUME Typed, NEW w \in Workers, Close(w) PROVE Typed' /\ Grown
<1> DEFINE c == task[w].c
           r == [sep[c] EXCEPT !.stage = "Closed", !.forced = task[w].ok]
<1>1. c \in Cases /\ task[w].pc # "idle" /\ task[w].ok \in BOOLEAN
  BY Carried DEF Close, At, Task
<1>2. r \in Case /\ r.stage # "None" /\ (r.final = "none" => ~r.swept)
      /\ (sep[c].final # "none" => r.final # "none")
  BY <1>1, CaseTyped DEF Case, Stage
<1>3. sep' = [sep EXCEPT ![c] = r]
  BY <1>1, CaseTyped DEF Close, Case
<1>4. SepTyped' /\ Grown
  <2> HIDE DEF r, c
  <2> QED
    BY <1>1, <1>2, <1>3, Rewritten
<1>5. emp' = emp /\ item' = item /\ fnf' = fnf /\ crashes' = crashes
  BY DEF Close
<1>6. held' = held
  BY Zenon DEF Close
<1>7. Passed(w)
  BY DEF Close, Passed, Onward
<1> QED
  BY <1>1, <1>4, <1>5, <1>6, <1>7, SepStepTyped

\* The sweep.
LEMMA SweepCarried ==
    ASSUME Typed
    PROVE  /\ Listed(task[Cron], sep) /\ task[Cron] \in Task
           /\ task[Cron].pc \in {"open_fnf", "stamp"} =>
                 task[Cron].c \in Cases /\ sep[task[Cron].c].final # "none"
  BY DEF Typed, Tasks, Listed

LEMMA StartSweepTyped ==
    ASSUME Typed, StartSweep PROVE Typed'
<1> DEFINE due == {c \in Cases : Open(c) /\ Due(c) /\ ~sep[c].swept}
           cases == {<<c, sep[c].stage>> : c \in due}
           t == [Idle EXCEPT !.pc = "sweep", !.cases = cases]
<1>1. \A c \in due : sep[c].stage \in Stage /\ sep[c].final # "none"
  BY CaseTyped DEF Due, Case
<1>2. \A x \in cases : x \in Cases \X Stage /\ x[1] \in Cases /\ x[2] \in Stage
                       /\ sep[x[1]].final # "none"
  BY <1>1
<1>3. Listed(t, sep)
  <2> HIDE DEF cases
  <2> QED
    BY <1>2 DEF Listed, Idle, Task, PCs, Lwd, Stage
<1>4. task' = [task EXCEPT ![Cron] = t]
  BY DEF StartSweep, Begin
<1>5. emp' = emp /\ sep' = sep /\ item' = item /\ fnf' = fnf /\ crashes' = crashes
  BY DEF StartSweep, Begin, ReadOnly
<1>6. held' = held
  BY Zenon DEF StartSweep, Begin, ReadOnly
<1> HIDE DEF t
<1> QED
  BY <1>3, <1>4, <1>5, <1>6, KeptDocs, KeptMisc, SweepMoved DEF DocsTyped

LEMMA SweepTyped ==
    ASSUME Typed, Sweep PROVE Typed'
<1>1. PICK x \in task[Cron].cases :
         task' = [task EXCEPT ![Cron].pc = "open_fnf", ![Cron].c = x[1],
                              ![Cron].stage = x[2], ![Cron].cases = @ \ {x}]
  BY DEF Sweep
<1> DEFINE t == [task[Cron] EXCEPT !.pc = "open_fnf", !.c = x[1], !.stage = x[2],
                                   !.cases = @ \ {x}]
<1>2. x[1] \in Cases /\ x[2] \in Stage /\ sep[x[1]].final # "none"
  BY <1>1, SweepCarried DEF Listed
<1>3. task' = [task EXCEPT ![Cron] = t]
  BY <1>1, SweepCarried DEF Task, Typed, Tasks
<1>4. t \in Task
  BY <1>2, SweepCarried DEF Task, PCs
<1>5. Listed(t, sep)
  BY <1>2, <1>4, SweepCarried DEF Listed, Task
<1>6. EmpTyped'
  BY DEF Sweep, Typed, DocsTyped, EmpTyped, Employee
<1>7. sep' = sep /\ item' = item /\ fnf' = fnf /\ crashes' = crashes
  BY DEF Sweep
<1>8. held' = held
  BY Zenon DEF Sweep
<1> HIDE DEF t
<1> QED
  BY <1>3, <1>5, <1>6, <1>7, <1>8, KeptDocs, KeptMisc, SweepMoved DEF DocsTyped

LEMMA OpenFnfTyped ==
    ASSUME Typed, OpenFnf PROVE Typed'
<1> DEFINE ok == /\ fnf[task[Cron].c] = "None"
                 /\ task[Cron].stage \notin {"FnfPending", "FnfApproved", "Settled"}
           t == [task[Cron] EXCEPT !.pc = "stamp", !.ok = ok]
<1>1. task[Cron].c \in Cases /\ sep[task[Cron].c].final # "none"
  BY SweepCarried DEF OpenFnf, At
<1>2. task' = [task EXCEPT ![Cron] = t]
  <2>1. task' = [task EXCEPT ![Cron].pc = "stamp", ![Cron].ok = ok]
    BY Zenon DEF OpenFnf
  <2> HIDE DEF ok
  <2> QED
    BY <2>1, SweepCarried DEF Task, Typed, Tasks
<1>3. ok \in BOOLEAN
  OBVIOUS
<1>4. t \in Task
  <2> HIDE DEF ok
  <2> QED
    BY <1>3, SweepCarried DEF Task, PCs
<1>5. Listed(t, sep)
  <2> HIDE DEF ok
  <2> QED
    BY <1>1, <1>4, SweepCarried DEF Listed, Task
<1>6. FnfTyped'
  BY DEF OpenFnf, Typed, DocsTyped, FnfTyped, FnfStatus
<1>7. emp' = emp /\ sep' = sep /\ item' = item /\ crashes' = crashes
  BY DEF OpenFnf
<1>8. held' = held
  BY Zenon DEF OpenFnf
<1> HIDE DEF t
<1> QED
  BY <1>2, <1>5, <1>6, <1>7, <1>8, KeptDocs, KeptMisc, SweepMoved DEF DocsTyped

LEMMA StampTyped ==
    ASSUME Typed, Stamp PROVE Typed' /\ Grown
<1> DEFINE c == task[Cron].c
           stage == IF task[Cron].ok THEN "FnfPending" ELSE sep[c].stage
           r == [sep[c] EXCEPT !.swept = TRUE, !.stage = stage]
<1>1. c \in Cases /\ sep[c].final # "none" /\ sep[c] \in Case /\ sep[c].stage # "None"
  BY SweepCarried, CaseTyped DEF Stamp, At
<1>2. stage \in Stage /\ stage # "None"
  BY <1>1 DEF Case, Stage
<1>3. r \in Case /\ r.stage # "None" /\ r.final # "none"
  <2> HIDE DEF stage, c
  <2> QED
    BY <1>1, <1>2 DEF Case
<1>4. sep' = [sep EXCEPT ![c] = r]
  BY <1>1, CaseTyped DEF Stamp, Case
<1>5. SepTyped' /\ Grown
  <2> HIDE DEF r, c
  <2> QED
    BY <1>1, <1>3, <1>4, Rewritten
<1>6. emp' = emp /\ item' = item /\ fnf' = fnf /\ crashes' = crashes
  BY DEF Stamp
<1>7. held' = held
  BY Zenon DEF Stamp
<1>8. DocsTyped' /\ Misc'
  BY <1>5, <1>6, <1>7, KeptDocs, KeptMisc DEF DocsTyped
<1>9. CASE task' = [task EXCEPT ![Cron] = Idle]
  BY <1>5, <1>8, <1>9, IdleFits, SweepMoved
<1>10. CASE task' = [task EXCEPT ![Cron] = [Idle EXCEPT !.pc = "sweep",
                                                        !.cases = task[Cron].cases]]
  <2>1. Listed([Idle EXCEPT !.pc = "sweep", !.cases = task[Cron].cases], sep')
    BY <1>5, SweepCarried DEF Listed, Idle, Task, PCs, Lwd, Stage, Grown
  <2> QED
    BY <1>5, <1>8, <1>10, <2>1, SweepMoved
<1> QED
  BY <1>9, <1>10 DEF Stamp, Finish

-----------------------------------------------------------------------------
(* Type correctness                                                          *)

LEMMA DayComesTyped == ASSUME Typed, DayComes PROVE Typed' /\ Grown
<1>1. PICK c \in Cases : sep[c].stage # "None" /\ sep' = [sep EXCEPT ![c].over = TRUE]
  BY DEF DayComes
<1> DEFINE r == [sep[c] EXCEPT !.over = TRUE]
<1>2. r \in Case /\ r.stage # "None" /\ (r.final = "none" => ~r.swept)
      /\ (sep[c].final # "none" => r.final # "none")
  BY <1>1, CaseTyped DEF Case
<1>3. sep' = [sep EXCEPT ![c] = r]
  BY <1>1, Zenon
<1>4. SepTyped' /\ Grown
  <2> HIDE DEF r
  <2> QED
    BY <1>2, <1>3, Rewritten
<1>5. emp' = emp /\ item' = item /\ fnf' = fnf /\ crashes' = crashes /\ task' = task
  BY DEF DayComes
<1>6. held' = held
  BY Zenon DEF DayComes
<1>7. Tasks'
  BY <1>4, <1>5 DEF Typed, Tasks, Fit, Listed, Grown
<1> QED
  BY <1>4, <1>5, <1>6, <1>7, KeptDocs, KeptMisc DEF Typed, DocsTyped

LEMMA CrashTyped == ASSUME Typed, Crash PROVE Typed'
<1>1. emp' = emp /\ sep' = sep /\ item' = item /\ fnf' = fnf
      /\ task' = [p \in Procs |-> Idle]
  BY DEF Crash
<1>2. Misc'
  <2>1. held \in BOOLEAN /\ held' = held
    BY Zenon DEF Typed, Misc, Crash
  <2>2. crashes' \in Nat
    BY DEF Typed, Misc, Crash
  <2> QED
    BY <2>1, <2>2, Zenon DEF Misc
<1>3. Tasks'
  BY <1>1, IdleFits, Separate DEF Tasks, Procs
<1> QED
  BY <1>1, <1>2, <1>3, KeptDocs DEF Typed, DocsTyped

LEMMA InitTyped == Init => Typed
<1> SUFFICES ASSUME Init PROVE Typed
  OBVIOUS
<1>1. EmpTyped
  BY DEF Init, EmpTyped, Employee
<1>2. SepTyped
  BY DEF Init, SepTyped, NoCase, Case, Stage, Lwd
<1>3. ItemTyped /\ FnfTyped
  BY DEF Init, ItemTyped, FnfTyped, ItemStatus, FnfStatus
<1>4. Misc
  <2>1. crashes \in Nat
    BY DEF Init
  <2> QED
    BY <2>1, Zenon DEF Init, Misc
<1>5. Tasks
  BY IdleFits, Separate DEF Init, Tasks, Procs
<1> QED
  BY <1>1, <1>2, <1>3, <1>4, <1>5 DEF Typed, DocsTyped

LEMMA StepTyped == ASSUME Typed, NEW w \in Workers, Step(w) PROVE Typed'
<1>1. CASE Starting(w)
  BY <1>1, StartingTyped
<1>2. CASE Initiate(w) \/ Decide(w) \/ Approve(w) \/ Withdraw(w) \/ Close(w)
  BY <1>2, InitiateTyped, DecideTyped, ApproveTyped, WithdrawTyped, CloseTyped
<1>3. CASE Pend(w) \/ Approved(w) \/ Settle(w)
  <2>1. {"FnfPending", "FnfApproved", "Settled"} \subseteq Stage \ {"None"}
    BY DEF Stage
  <2> QED
    BY <1>3, <2>1, ToStageTyped DEF Pend, Approved, Settle
<1>4. CASE Notice(w) \/ Reinstate(w) \/ Leave(w) \/ LogOff(w)
  BY <1>4, EmpStepTyped
<1>5. CASE Seed(w) \/ Create(w) \/ ActOnItem(w)
  BY <1>5, ItemStepTyped
<1>6. CASE Save(w) \/ Verdict(w) \/ Pay(w)
  BY <1>6, FnfStepTyped
<1>7. CASE Forfeit(w) \/ LinkUser(w)
  BY <1>7, ForfeitTyped, LinkUserTyped
<1> QED
  BY <1>1, <1>2, <1>3, <1>4, <1>5, <1>6, <1>7 DEF Step, Starting

LEMMA NextTyped == Typed /\ [Next]_vars => Typed'
<1> SUFFICES ASSUME Typed, [Next]_vars PROVE Typed'
  OBVIOUS
<1>1. CASE UNCHANGED vars
  <2>1. emp' = emp /\ sep' = sep /\ item' = item /\ fnf' = fnf /\ crashes' = crashes
        /\ task' = task
    BY <1>1 DEF vars
  <2>2. held' = held
    BY <1>1, Zenon DEF vars
  <2> QED
    BY <2>1, <2>2, KeptDocs, KeptMisc DEF Typed, DocsTyped, Tasks
<1> QED
  BY <1>1, StepTyped, StartSweepTyped, SweepTyped, OpenFnfTyped, StampTyped, DayComesTyped,
     CrashTyped
     DEF Next, RunSweep

\* Whatever requests are in flight, however the sweep and the restarts fall between their
\* writes, the documents and the tasks keep their types: a login belongs to a profile that
\* is linked, and only a case with a final last working day is stamped as swept.
THEOREM TypeCorrect == Spec => []TypeOK
<1> QED
  BY InitTyped, NextTyped, TypedIsTypeOK, PTL DEF Spec

-----------------------------------------------------------------------------
(* An early last working day is an approved one                              *)

\* Requests come one at a time, the sweep whenever it likes.
OneRequest == \A v, w \in Workers : v = w

\* An approval in flight found no final day, and there is still none.
Undecided == \A w \in Workers : task[w].pc = "approve" => sep[task[w].c].final = "none"

Early == EarlyLeaveApproved /\ Undecided

\* A step that decides nothing and does not begin an approval.
LEMMA KeptEarly ==
    ASSUME Typed, Early,
           \A c \in Cases : /\ sep'[c].final = sep[c].final
                            /\ sep[c].waiver => sep'[c].waiver,
           \A w \in Workers : task'[w].pc = "approve" => task'[w] = task[w]
    PROVE  Early'
<1>1. EarlyLeaveApproved'
  BY DEF Early, EarlyLeaveApproved
<1>2. Undecided'
  BY Carried DEF Early, Undecided
<1> QED
  BY <1>1, <1>2 DEF Early

\* Where the request goes, for the steps that do not begin one.
LEMMA Onwards ==
    ASSUME Typed, NEW w \in Workers, NEW t, task' = [task EXCEPT ![w] = t]
    PROVE  task'[w] = t /\ \A p \in Procs : p # w => task'[p] = task[p]
  BY Separate DEF Typed, Tasks

LEMMA PassedElsewhere ==
    ASSUME Typed, NEW w \in Workers,
           \/ task' = [task EXCEPT ![w] = Idle]
           \/ \E pc \in Onward : Goto(w, pc)
    PROVE  /\ task'[w].pc = "idle" \/ (task'[w].pc \in Onward /\ task'[w].c = task[w].c)
           /\ \A p \in Procs : p # w => task'[p] = task[p]
<1>1. CASE task' = [task EXCEPT ![w] = Idle]
  <2>1. task'[w] = Idle /\ \A p \in Procs : p # w => task'[p] = task[p]
    BY <1>1, Onwards
  <2> QED
    BY <2>1 DEF Idle
<1>2. ASSUME NEW pc \in Onward, Goto(w, pc)
      PROVE  /\ task'[w].pc = pc /\ task'[w].c = task[w].c
             /\ \A p \in Procs : p # w => task'[p] = task[p]
  <2> DEFINE t == [Idle EXCEPT !.pc = pc, !.c = task[w].c]
  <2>1. t.pc = pc /\ t.c = task[w].c
    BY DEF Idle
  <2>2. task' = [task EXCEPT ![w] = t]
    BY <1>2 DEF Goto
  <2> HIDE DEF t
  <2> QED
    BY <2>1, <2>2, Onwards
<1> QED
  BY <1>1, <1>2

LEMMA Arrives ==
    ASSUME Typed, NEW w \in Workers
    PROVE  /\ Finish(w) => task'[w].pc = "idle"
           /\ \A pc \in Onward : Goto(w, pc) => task'[w].pc = pc
<1>1. ASSUME Finish(w) PROVE task'[w].pc = "idle"
  <2>1. task'[w] = Idle
    BY <1>1, Onwards DEF Finish
  <2> QED
    BY <2>1 DEF Idle
<1>2. ASSUME NEW pc \in Onward, Goto(w, pc) PROVE task'[w].pc = pc
  <2> DEFINE t == [Idle EXCEPT !.pc = pc, !.c = task[w].c]
  <2>1. t.pc = pc
    BY DEF Idle
  <2>2. task' = [task EXCEPT ![w] = t]
    BY <1>2 DEF Goto
  <2> HIDE DEF t
  <2> QED
    BY <2>1, <2>2, Onwards
<1> QED
  BY <1>1, <1>2

\* The steps that go on to another write or end.
Continuing(w) ==
    \/ Initiate(w) \/ Notice(w) \/ Decide(w) \/ Seed(w) \/ Approve(w) \/ Withdraw(w)
    \/ Reinstate(w) \/ Create(w) \/ Save(w) \/ Pend(w) \/ Verdict(w) \/ Approved(w) \/ Pay(w)
    \/ Settle(w) \/ Close(w) \/ Leave(w) \/ LogOff(w) \/ Forfeit(w)

LEMMA ContinuingMoves ==
    ASSUME Typed, NEW w \in Workers, Continuing(w)
    PROVE  /\ task'[w].pc = "idle" \/ (task'[w].pc \in Onward /\ task'[w].c = task[w].c)
           /\ \A p \in Procs : p # w => task'[p] = task[p]
<1>1. {"notice", "seed", "reinstate", "pend", "approved", "settle", "leave", "logoff",
       "forfeit"} = Onward
  BY DEF Onward
<1>2. Finish(w) \/ \E pc \in Onward : Goto(w, pc)
  <2>1. CASE Initiate(w) \/ Notice(w) \/ Decide(w) \/ Seed(w) \/ Approve(w) \/ Withdraw(w)
             \/ Reinstate(w) \/ Create(w)
    BY <1>1, <2>1 DEF Initiate, Notice, Decide, Seed, Approve, Withdraw, Reinstate, Create
  <2>2. CASE Save(w) \/ Verdict(w) \/ Pay(w) \/ Close(w) \/ LogOff(w) \/ Forfeit(w)
    BY <1>1, <2>2 DEF Save, Verdict, Pay, Close, LogOff, Forfeit
  <2>3. CASE Pend(w) \/ Approved(w) \/ Settle(w)
    BY <2>3 DEF Pend, Approved, Settle, ToStage
  <2>4. CASE Leave(w)
    BY <1>1, <2>4 DEF Leave
  <2> QED
    BY <2>1, <2>2, <2>3, <2>4 DEF Continuing
<1> QED
  BY <1>2, PassedElsewhere DEF Finish

LEMMA DecideEarly ==
    ASSUME OneRequest, Typed, Early, NEW w \in Workers, Decide(w) PROVE Early'
<1> DEFINE t == task[w]
<1>1. t.c \in Cases /\ (t.ok => t.day = "calc")
  BY Carried DEF Decide, At, Fit
<1>2. \A c \in Cases : c # t.c => sep'[c] = sep[c]
  BY <1>1, CaseTyped DEF Decide
<1>3. /\ t.ok => sep'[t.c].final = "calc"
      /\ ~t.ok => sep'[t.c].final = sep[t.c].final /\ (sep[t.c].waiver => sep'[t.c].waiver)
  BY <1>1, CaseTyped DEF Decide, Case
<1>4. EarlyLeaveApproved'
  <2> SUFFICES ASSUME NEW c \in Cases, sep'[c].final = "early" PROVE sep'[c].waiver
    BY DEF EarlyLeaveApproved
  <2>1. CASE c # t.c
    BY <1>2, <2>1 DEF Early, EarlyLeaveApproved
  <2>2. CASE c = t.c
    BY <1>1, <1>3, <2>2 DEF Early, EarlyLeaveApproved
  <2> QED
    BY <2>1, <2>2
<1>5. Undecided'
  BY ContinuingMoves DEF Continuing, OneRequest, Undecided, Onward
<1> QED
  BY <1>4, <1>5 DEF Early

LEMMA ApproveEarly ==
    ASSUME OneRequest, Typed, Early, NEW w \in Workers, Approve(w) PROVE Early'
<1> DEFINE t == task[w]
<1>1. t.c \in Cases /\ sep[t.c].final = "none"
  BY Carried DEF Approve, At, Early, Undecided
<1>2. \A c \in Cases : c # t.c => sep'[c] = sep[c]
  BY <1>1, CaseTyped DEF Approve
<1>3. (t.ok => sep'[t.c].waiver) /\ (~t.ok => sep'[t.c].final = "none")
  BY <1>1, CaseTyped DEF Approve, Case
<1>4. EarlyLeaveApproved'
  <2> SUFFICES ASSUME NEW c \in Cases, sep'[c].final = "early" PROVE sep'[c].waiver
    BY DEF EarlyLeaveApproved
  <2>1. CASE c # t.c
    BY <1>2, <2>1 DEF Early, EarlyLeaveApproved
  <2>2. CASE c = t.c
    BY <1>3, <2>2
  <2> QED
    BY <2>1, <2>2
<1>5. Undecided'
  BY ContinuingMoves DEF Continuing, OneRequest, Undecided, Onward
<1> QED
  BY <1>4, <1>5 DEF Early

LEMMA InitiateEarly ==
    ASSUME OneRequest, Typed, Early, NEW w \in Workers, Initiate(w) PROVE Early'
<1>1. task[w].c \in Cases
  BY Carried DEF Initiate, At
<1>2. /\ \A c \in Cases : c # task[w].c => sep'[c] = sep[c]
      /\ sep'[task[w].c].final = "none"
  BY <1>1, CaseTyped DEF Initiate, NoCase
<1>3. Undecided'
  BY ContinuingMoves DEF Continuing, OneRequest, Undecided, Onward
<1> QED
  BY <1>2, <1>3 DEF Early, EarlyLeaveApproved

\* Every other step that goes on leaves days and waivers alone.
LEMMA ContinuingEarly ==
    ASSUME OneRequest, Typed, Early, NEW w \in Workers, Continuing(w) PROVE Early'
<1>1. \A v \in Workers : task'[v].pc # "approve"
  BY ContinuingMoves DEF OneRequest, Onward
<1>2. CASE Initiate(w) \/ Decide(w) \/ Approve(w)
  BY <1>2, InitiateEarly, DecideEarly, ApproveEarly
<1>3. CASE sep' = sep
  BY <1>1, <1>3, KeptEarly
<1>4. ASSUME NEW stage, task[w].c \in Cases, sep' = [sep EXCEPT ![task[w].c].stage = stage]
      PROVE Early'
  <2>1. \A c \in Cases : sep'[c].final = sep[c].final /\ (sep[c].waiver => sep'[c].waiver)
    BY <1>4, CaseTyped DEF Case
  <2> QED
    BY <1>1, <2>1, KeptEarly
<1>5. CASE Withdraw(w) \/ Pend(w) \/ Approved(w) \/ Settle(w)
  BY <1>4, <1>5, Carried DEF Withdraw, Pend, Approved, Settle, ToStage, At
<1>6. CASE Close(w)
  <2>1. task[w].c \in Cases
    BY <1>6, Carried DEF Close, At
  <2>2. \A c \in Cases : sep'[c].final = sep[c].final /\ (sep[c].waiver => sep'[c].waiver)
    BY <1>6, <2>1, CaseTyped DEF Case, Close
  <2> QED
    BY <1>1, <2>2, KeptEarly
<1>7. CASE \/ Notice(w) \/ Seed(w) \/ Reinstate(w) \/ Create(w) \/ Save(w) \/ Verdict(w)
           \/ Pay(w) \/ Leave(w) \/ LogOff(w) \/ Forfeit(w)
  BY <1>3, <1>7 DEF Notice, Seed, Reinstate, Create, Save, Verdict, Pay, Leave, LogOff, Forfeit
<1> QED
  BY <1>2, <1>5, <1>6, <1>7 DEF Continuing

LEMMA BeginMoves ==
    ASSUME Typed, NEW w \in Workers, NEW op, NEW t, Begin(w, op, t)
    PROVE  /\ task[w].pc = "idle" /\ task'[w] = t
           /\ \A p \in Procs : p # w => task'[p] = task[p]
<1>1. task[w] = Idle /\ task' = [task EXCEPT ![w] = t]
  BY DEF Begin
<1>2. task[w].pc = "idle"
  BY <1>1 DEF Idle
<1> QED
  BY <1>1, <1>2, Onwards

LEMMA StartingEarly ==
    ASSUME OneRequest, Typed, Early, NEW w \in Workers, Starting(w) PROVE Early'
<1>1. sep' = sep
  BY DEF Starting, StartInitiate, StartDecide, StartApprove, StartWithdraw, StartCreate,
         StartSave, StartVerdict, StartPay, StartClose, Begin, ReadOnly
<1>2. CASE StartApprove(w)
  <2>1. PICK c \in Cases, ok \in BOOLEAN :
           /\ sep[c].final = "none"
           /\ Begin(w, "approve", [Idle EXCEPT !.pc = "approve", !.c = c, !.ok = ok,
                                               !.day = sep[c].rec])
    BY <1>2 DEF StartApprove
  <2>2. task'[w].c = c
    <3> DEFINE t == [Idle EXCEPT !.pc = "approve", !.c = c, !.ok = ok, !.day = sep[c].rec]
    <3>1. t.c = c
      BY DEF Idle
    <3>2. Begin(w, "approve", t)
      BY <2>1
    <3> HIDE DEF t
    <3> QED
      BY <3>1, <3>2, BeginMoves
  <2>3. Undecided'
    BY <1>1, <2>1, <2>2 DEF Undecided, OneRequest
  <2> QED
    BY <1>1, <2>3 DEF Early, EarlyLeaveApproved
<1>3. CASE ~StartApprove(w)
  <2>1. ASSUME NEW op, NEW t, Begin(w, op, t), t.pc # "approve" PROVE Early'
    <3>1. \A v \in Workers : task'[v].pc # "approve"
      BY <2>1, BeginMoves DEF OneRequest
    <3> QED
      BY <1>1, <3>1, KeptEarly
  <2>2. /\ \A c, ok : [Idle EXCEPT !.pc = "initiate", !.c = c, !.ok = ok].pc # "approve"
        /\ \A c, day, ok, st : [Idle EXCEPT !.pc = "decide", !.c = c, !.day = day, !.ok = ok,
                                            !.stage = st].pc # "approve"
        /\ \A c : [Idle EXCEPT !.pc = "withdraw", !.c = c].pc # "approve"
        /\ \A c, k : [Idle EXCEPT !.pc = "create", !.c = c, !.k = k].pc # "approve"
        /\ \A c, st : [Idle EXCEPT !.pc = "save", !.c = c, !.stage = st].pc # "approve"
        /\ \A c, ok : [Idle EXCEPT !.pc = "verdict", !.c = c, !.ok = ok].pc # "approve"
        /\ \A c : [Idle EXCEPT !.pc = "pay", !.c = c].pc # "approve"
        /\ \A c, ok : [Idle EXCEPT !.pc = "close", !.c = c, !.ok = ok].pc # "approve"
    BY DEF Idle
  <2> QED
    BY <1>3, <2>1, <2>2 DEF Starting, StartInitiate, StartDecide, StartWithdraw, StartCreate,
       StartSave, StartVerdict, StartPay, StartClose
<1> QED
  BY <1>2, <1>3

\* Outside the requests.
Apart == StartSweep \/ Sweep \/ OpenFnf \/ Stamp \/ DayComes

LEMMA ApartMoves ==
    ASSUME Typed, Apart PROVE \A v \in Workers : task'[v] = task[v]
<1>1. ASSUME NEW t, task' = [task EXCEPT ![Cron] = t] PROVE \A v \in Workers : task'[v] = task[v]
  BY <1>1, Separate DEF Typed, Tasks
<1>2. CASE StartSweep
  BY <1>1, <1>2 DEF StartSweep, Begin
<1>3. CASE Sweep
  BY <1>3, Separate, SweepCarried DEF Sweep, Typed, Tasks
<1>4. CASE OpenFnf
  BY <1>4, Separate, SweepCarried DEF OpenFnf, Typed, Tasks
<1>5. CASE Stamp
  BY <1>1, <1>5 DEF Stamp, Finish
<1>6. CASE DayComes
  BY <1>6 DEF DayComes
<1> QED
  BY <1>2, <1>3, <1>4, <1>5, <1>6 DEF Apart

LEMMA ApartEarly ==
    ASSUME Typed, Early, Apart PROVE Early'
<1>1. \A c \in Cases : sep'[c].final = sep[c].final /\ (sep[c].waiver => sep'[c].waiver)
  <2>1. CASE Stamp
    <3>1. task[Cron].c \in Cases
      BY <2>1, SweepCarried DEF Stamp, At
    <3> QED
      BY <2>1, <3>1, CaseTyped DEF Stamp, Case
  <2>2. CASE DayComes
    BY <2>2, CaseTyped DEF DayComes, Case
  <2>3. CASE StartSweep \/ Sweep \/ OpenFnf
    BY <2>3 DEF StartSweep, Begin, ReadOnly, Sweep, OpenFnf
  <2> QED
    BY <2>1, <2>2, <2>3 DEF Apart
<1> QED
  BY <1>1, ApartMoves, KeptEarly

LEMMA NextEarly == OneRequest /\ Typed /\ Early /\ [Next]_vars => Early'
<1> SUFFICES ASSUME OneRequest, Typed, Early, [Next]_vars PROVE Early'
  OBVIOUS
<1>1. ASSUME NEW w \in Workers, ActOnItem(w) \/ LinkUser(w) PROVE Early'
  <2>1. sep' = sep /\ task' = task
    BY <1>1 DEF ActOnItem, LinkUser
  <2> QED
    BY <2>1, KeptEarly
<1>2. ASSUME NEW w \in Workers, Step(w) PROVE Early'
  BY <1>1, <1>2, StartingEarly, ContinuingEarly DEF Step, Starting, Continuing
<1>3. CASE Crash
  <2>1. sep' = sep /\ \A w \in Workers : task'[w].pc # "approve"
    BY <1>3 DEF Crash, Procs, Idle
  <2> QED
    BY <2>1, KeptEarly
<1>4. CASE UNCHANGED vars
  BY <1>4, KeptEarly DEF vars
<1> QED
  BY <1>2, <1>3, <1>4, ApartEarly DEF Next, RunSweep, Apart

LEMMA InitEarly == Init => Early
  BY DEF Init, NoCase, Idle, Procs, Early, EarlyLeaveApproved, Undecided

\* As long as requests come one at a time, no case has an early last working day in force
\* without an approval on record, for any number of cases, revisions, sweeps and restarts.
THEOREM EarlyOnlyApproved == OneRequest => (Spec => []EarlyLeaveApproved)
<1>1. Early => EarlyLeaveApproved
  BY DEF Early
<1> SUFFICES ASSUME OneRequest PROVE Spec => []EarlyLeaveApproved
  OBVIOUS
<1>2. Typed /\ Early /\ [Next]_vars => Early'
  BY NextEarly
<1> QED
  BY InitTyped, NextTyped, InitEarly, <1>1, <1>2, PTL DEF Spec

-----------------------------------------------------------------------------
(* A closure holds                                                           *)

\* The variable pay hold, named apart because it is a Boolean variable.
StillHeld == held

Closed(c) == sep[c].stage = "Closed"

\* What a request read as it began still stands when it writes: s and f are the cases and
\* the settlements on file, e the profile.
Stands(t, s, f, e) ==
    /\ t.pc = "save" => f[t.c] \notin {"Approved", "Paid"}
    /\ t.pc = "verdict" => f[t.c] = "Prepared"
    /\ t.pc = "close" /\ ~t.ok => f[t.c] = "Paid"
    /\ t.pc \in {"notice", "reinstate"} => s[t.c].stage # "Closed"
    /\ t.pc = "initiate" /\ t.ok => e.linked

Reads == \A w \in Workers : Stands(task[w], sep, fnf, emp)

\* A case that copied a user_id has a linked profile.
UserLinked == \A c \in Cases : sep[c].user => emp.linked

PaidFirst == \A c \in Cases : Closed(c) /\ ~sep[c].forced => fnf[c] = "Paid"

\* The closure of c is about to do it.
AtCase(c, pcs) == \E w \in Workers : task[w].pc \in pcs /\ task[w].c = c

Gone(c) ==
    \/ emp.status = "Left"
    \/ \E d \in Cases \ {c} : sep[d].stage # "None"
    \/ AtCase(c, {"leave"})

LoggedOff(c) == sep[c].user /\ emp.login => AtCase(c, {"leave", "logoff"})

Forfeited == StillHeld => \E w \in Workers : task[w].pc \in {"leave", "logoff", "forfeit"}

Effects == crashes = 0 => \A c \in Cases : Closed(c) => Gone(c) /\ LoggedOff(c) /\ Forfeited

Closure == Reads /\ UserLinked /\ PaidFirst /\ Effects

Closing == {"leave", "logoff", "forfeit"}

\* A step that closes nothing, undoes nothing, and leaves the closures under way alone.
LEMMA KeptClosure ==
    ASSUME Typed, Grown, Closure, Reads',
           \A c \in Cases : /\ Closed(c)' => Closed(c) /\ (sep[c].forced => sep'[c].forced)
                            /\ sep'[c].user => sep[c].user
                            /\ fnf[c] = "Paid" => fnf'[c] = "Paid",
           crashes' = crashes, StillHeld' => StillHeld,
           emp.status = "Left" => emp'.status = "Left",
           emp'.login => emp.login, emp.linked => emp'.linked,
           \A w \in Workers : task[w].pc \in Closing => task'[w] = task[w]
    PROVE  Closure'
<1>1. UserLinked'
  BY DEF Closure, UserLinked
<1>2. PaidFirst'
  BY DEF Closure, PaidFirst, Closed
<1>3. ASSUME NEW c \in Cases, NEW pcs \in SUBSET Closing, AtCase(c, pcs) PROVE AtCase(c, pcs)'
  BY <1>3 DEF AtCase
<1>4. Effects'
  <2> SUFFICES ASSUME crashes = 0, NEW c \in Cases, Closed(c)'
               PROVE  Gone(c)' /\ LoggedOff(c)' /\ Forfeited'
    BY DEF Effects
  <2>1. Gone(c) /\ LoggedOff(c) /\ Forfeited
    BY DEF Closure, Effects
  <2>2. Gone(c)'
    BY <1>3, <2>1 DEF Gone, Grown, Closing
  <2>3. LoggedOff(c)'
    BY <1>3, <2>1 DEF LoggedOff, Closing
  <2>4. Forfeited'
    BY <2>1 DEF Forfeited, Closing
  <2> QED
    BY <2>2, <2>3, <2>4
<1> QED
  BY <1>1, <1>2, <1>4 DEF Closure

LEMMA SameHeld == ASSUME held' = held PROVE StillHeld' => StillHeld
  BY Zenon DEF StillHeld

\* The reads of the only request in flight.
LEMMA OneReads ==
    ASSUME OneRequest, NEW w \in Workers, Stands(task[w], sep, fnf, emp)' PROVE Reads'
  BY DEF OneRequest, Reads

LEMMA IdleStands ==
    ASSUME NEW t, NEW s, NEW f, NEW e,
           t.pc \notin {"save", "verdict", "close", "notice", "reinstate", "initiate"}
    PROVE  Stands(t, s, f, e)
  BY DEF Stands

LEMMA StartingClosure ==
    ASSUME OneRequest, Typed, Closure, NEW w \in Workers, Starting(w) PROVE Closure'
<1>1. sep' = sep /\ fnf' = fnf /\ emp' = emp /\ crashes' = crashes
  BY DEF Starting, StartInitiate, StartDecide, StartApprove, StartWithdraw, StartCreate,
         StartSave, StartVerdict, StartPay, StartClose, Begin, ReadOnly
<1>2. held' = held
  BY Zenon DEF Starting, StartInitiate, StartDecide, StartApprove, StartWithdraw, StartCreate,
         StartSave, StartVerdict, StartPay, StartClose, Begin, ReadOnly
<1>3. ASSUME NEW op, NEW t, Begin(w, op, t), Stands(t, sep, fnf, emp) PROVE Closure'
  <2>1. task'[w] = t /\ task[w].pc = "idle"
    BY <1>3, BeginMoves
  <2>2. Reads'
    BY <1>1, <1>3, <2>1, OneReads
  <2>3. Grown
    BY <1>1, KeptDocs
  <2>4. \A v \in Workers : task[v].pc \notin Closing
    BY <2>1 DEF OneRequest, Closing
  <2> QED
    BY <1>1, <1>2, <2>2, <2>3, <2>4, SameHeld, KeptClosure DEF Closed
<1>4. CASE StartInitiate(w)
  <2>1. PICK c \in Cases :
           Begin(w, "initiate", [Idle EXCEPT !.pc = "initiate", !.c = c, !.ok = emp.linked])
    BY <1>4 DEF StartInitiate
  <2>2. Stands([Idle EXCEPT !.pc = "initiate", !.c = c, !.ok = emp.linked], sep, fnf, emp)
    BY DEF Stands, Idle
  <2> QED
    BY <1>3, <2>1, <2>2
<1>5. CASE StartSave(w)
  <2>1. PICK c \in Cases :
           /\ fnf[c] \notin {"Approved", "Paid"}
           /\ Begin(w, "save", [Idle EXCEPT !.pc = "save", !.c = c, !.stage = sep[c].stage])
    BY <1>5 DEF StartSave
  <2>2. Stands([Idle EXCEPT !.pc = "save", !.c = c, !.stage = sep[c].stage], sep, fnf, emp)
    BY <2>1 DEF Stands, Idle
  <2> QED
    BY <1>3, <2>1, <2>2
<1>6. CASE StartVerdict(w)
  <2>1. PICK c \in Cases, ok \in BOOLEAN :
           /\ fnf[c] = "Prepared"
           /\ Begin(w, "verdict", [Idle EXCEPT !.pc = "verdict", !.c = c, !.ok = ok])
    BY <1>6 DEF StartVerdict
  <2>2. Stands([Idle EXCEPT !.pc = "verdict", !.c = c, !.ok = ok], sep, fnf, emp)
    BY <2>1 DEF Stands, Idle
  <2> QED
    BY <1>3, <2>1, <2>2
<1>7. CASE StartClose(w)
  <2>1. PICK c \in Cases, force \in BOOLEAN :
           /\ ~force => fnf[c] = "Paid"
           /\ Begin(w, "close", [Idle EXCEPT !.pc = "close", !.c = c, !.ok = force])
    BY <1>7 DEF StartClose
  <2>2. Stands([Idle EXCEPT !.pc = "close", !.c = c, !.ok = force], sep, fnf, emp)
    BY <2>1 DEF Stands, Idle
  <2> QED
    BY <1>3, <2>1, <2>2
<1>8. CASE StartDecide(w) \/ StartApprove(w) \/ StartWithdraw(w) \/ StartCreate(w) \/ StartPay(w)
  <2> DEFINE Other == {"decide", "approve", "withdraw", "create", "pay"}
  <2>1. ASSUME NEW op, NEW t, Begin(w, op, t), t.pc \in Other PROVE Closure'
    BY <1>3, <2>1, IdleStands
  <2>2. /\ \A c, day, ok, st : [Idle EXCEPT !.pc = "decide", !.c = c, !.day = day, !.ok = ok,
                                            !.stage = st].pc \in Other
        /\ \A c, ok, day : [Idle EXCEPT !.pc = "approve", !.c = c, !.ok = ok, !.day = day].pc
                             \in Other
        /\ \A c : [Idle EXCEPT !.pc = "withdraw", !.c = c].pc \in Other
        /\ \A c, k : [Idle EXCEPT !.pc = "create", !.c = c, !.k = k].pc \in Other
        /\ \A c : [Idle EXCEPT !.pc = "pay", !.c = c].pc \in Other
    BY DEF Idle
  <2> HIDE DEF Other
  <2> QED
    BY <1>8, <2>1, <2>2 DEF StartDecide, StartApprove, StartWithdraw, StartCreate, StartPay
<1> QED
  BY <1>4, <1>5, <1>6, <1>7, <1>8 DEF Starting

\* A step that goes on in the closure or elsewhere: nothing it could have read is used.
LEMMA ContinuingReads ==
    ASSUME OneRequest, Typed, NEW w \in Workers, Continuing(w),
           task'[w].pc \in {"notice", "reinstate"} => sep'[task[w].c].stage # "Closed"
    PROVE  Reads'
<1>1. task'[w].pc = "idle" \/ (task'[w].pc \in Onward /\ task'[w].c = task[w].c)
  BY ContinuingMoves
<1>2. Stands(task'[w], sep', fnf', emp')
  BY <1>1 DEF Stands, Onward
<1> QED
  BY <1>2, OneReads

LEMMA NoneClosing ==
    ASSUME OneRequest, NEW w \in Workers, task[w].pc \notin Closing
    PROVE  \A v \in Workers : task[v].pc \in Closing => task'[v] = task[v]
  BY DEF OneRequest

\* Steps that write the settlement.
LEMMA FnfClosure ==
    ASSUME OneRequest, Typed, Closure, NEW w \in Workers, Save(w) \/ Verdict(w) \/ Pay(w)
    PROVE  Closure'
<1>1. sep' = sep /\ emp' = emp /\ crashes' = crashes
  BY DEF Save, Verdict, Pay
<1>2. held' = held
  BY Zenon DEF Save, Verdict, Pay
<1>3. task[w].pc \notin Closing /\ task[w].c \in Cases
  BY Carried DEF Save, Verdict, Pay, At, Closing
<1>4. \A c \in Cases : fnf[c] = "Paid" => fnf'[c] = "Paid"
  <2>1. Stands(task[w], sep, fnf, emp) /\ fnf \in [Cases -> FnfStatus]
    BY DEF Closure, Reads, Typed, DocsTyped, FnfTyped
  <2>2. CASE Save(w) \/ Verdict(w)
    <3>1. fnf[task[w].c] # "Paid"
      BY <2>1, <2>2 DEF Save, Verdict, At, Stands
    <3> QED
      BY <1>3, <2>1, <2>2, <3>1 DEF Save, Verdict
  <2>3. CASE Pay(w)
    BY <1>3, <2>1, <2>3 DEF Pay
  <2> QED
    BY <2>2, <2>3
<1>5. Continuing(w) /\ task'[w].pc \notin {"notice", "reinstate"}
  BY Arrives DEF Continuing, Save, Verdict, Pay, Onward
<1>6. Reads'
  BY <1>5, ContinuingReads
<1>7. Grown
  BY <1>1, KeptDocs
<1> QED
  BY <1>1, <1>2, <1>3, <1>4, <1>6, <1>7, NoneClosing, SameHeld, KeptClosure DEF Closed

\* Steps that write items.
LEMMA ItemClosure ==
    ASSUME OneRequest, Typed, Closure, NEW w \in Workers, Seed(w) \/ Create(w) PROVE Closure'
<1>1. sep' = sep /\ emp' = emp /\ fnf' = fnf /\ crashes' = crashes
  BY DEF Seed, Create
<1>2. held' = held
  BY Zenon DEF Seed, Create
<1>3. task[w].pc \notin Closing
  BY DEF Seed, Create, At, Closing
<1>4. task' = [task EXCEPT ![w] = Idle]
  BY DEF Seed, Create, Finish
<1>5. Reads'
  <2>1. task'[w].pc = "idle"
    BY <1>4, Arrives DEF Finish
  <2> QED
    BY <2>1, ContinuingReads DEF Continuing
<1>6. Grown
  BY <1>1, KeptDocs
<1> QED
  BY <1>1, <1>2, <1>3, <1>5, <1>6, NoneClosing, SameHeld, KeptClosure DEF Closed

\* Steps that move a case without closing it.
LEMMA CaseClosure ==
    ASSUME OneRequest, Typed, Closure, NEW w \in Workers,
           Decide(w) \/ Approve(w) \/ Withdraw(w) \/ Pend(w) \/ Approved(w) \/ Settle(w)
    PROVE  Closure'
<1>1. emp' = emp /\ fnf' = fnf /\ crashes' = crashes
  BY DEF Decide, Approve, Withdraw, Pend, Approved, Settle, ToStage
<1>2. held' = held
  BY Zenon DEF Decide, Approve, Withdraw, Pend, Approved, Settle, ToStage
<1>3. task[w].pc \notin Closing /\ task[w].c \in Cases
  BY Carried DEF Decide, Approve, Withdraw, Pend, Approved, Settle, ToStage, At, Closing
<1>4. Grown
  <2>1. {"FnfPending", "FnfApproved", "Settled"} \subseteq Stage \ {"None"}
    BY DEF Stage
  <2> QED
    BY <2>1, DecideTyped, ApproveTyped, WithdrawTyped, ToStageTyped DEF Pend, Approved, Settle
<1>5. \A c \in Cases : /\ Closed(c)' => Closed(c) /\ (sep[c].forced => sep'[c].forced)
                       /\ sep'[c].user => sep[c].user
  <2>1. CASE Decide(w)
    BY <1>3, <2>1, CaseTyped DEF Decide, Case, Closed
  <2>2. CASE Approve(w)
    BY <1>3, <2>2, CaseTyped DEF Approve, Case, Closed
  <2>3. CASE Withdraw(w) \/ Pend(w) \/ Approved(w) \/ Settle(w)
    BY <1>3, <2>3, CaseTyped DEF Withdraw, Pend, Approved, Settle, ToStage, Case, Closed
  <2> QED
    BY <2>1, <2>2, <2>3
<1>6. Reads'
  <2>1. task'[w].pc = "reinstate" => sep'[task[w].c].stage # "Closed"
    <3>1. CASE Withdraw(w)
      BY <1>3, <3>1, CaseTyped DEF Withdraw, Case
    <3>2. CASE ~Withdraw(w)
      BY <3>2, Arrives DEF Decide, Approve, Pend, Approved, Settle, ToStage, Onward
    <3> QED
      BY <3>1, <3>2
  <2>2. task'[w].pc # "notice"
    BY Arrives DEF Decide, Approve, Withdraw, Pend, Approved, Settle, ToStage, Onward
  <2> QED
    BY <2>1, <2>2, ContinuingReads DEF Continuing
<1> QED
  BY <1>1, <1>2, <1>3, <1>4, <1>5, <1>6, NoneClosing, SameHeld, KeptClosure

LEMMA InitiateClosure ==
    ASSUME OneRequest, Typed, Closure, NEW w \in Workers, Initiate(w) PROVE Closure'
<1> DEFINE t == task[w]
<1>1. emp' = emp /\ fnf' = fnf /\ crashes' = crashes
  BY DEF Initiate
<1>2. held' = held
  BY Zenon DEF Initiate
<1>3. t.c \in Cases /\ t.pc \notin Closing /\ (t.ok => emp.linked)
  BY Carried DEF Initiate, At, Closing, Closure, Reads, Stands
<1>4. /\ \A c \in Cases : c # t.c => sep'[c] = sep[c]
      /\ sep'[t.c].stage = "Initiated" /\ (sep'[t.c].user => t.ok)
  BY <1>3, CaseTyped DEF Initiate, NoCase
<1>5. Grown
  BY InitiateTyped
<1>6. UserLinked'
  BY <1>1, <1>3, <1>4 DEF Closure, UserLinked
<1>7. PaidFirst'
  BY <1>1, <1>4 DEF Closure, PaidFirst, Closed
<1>8. Reads'
  BY <1>4, ContinuingReads DEF Continuing
<1>9. Effects'
  <2> SUFFICES ASSUME crashes = 0, NEW c \in Cases, Closed(c)'
               PROVE  Gone(c)' /\ LoggedOff(c)' /\ Forfeited'
    BY <1>1 DEF Effects
  <2>1. Closed(c) /\ sep'[c] = sep[c]
    BY <1>4 DEF Closed
  <2>2. Gone(c) /\ LoggedOff(c) /\ Forfeited
    BY <2>1 DEF Closure, Effects
  <2>3. \A v \in Workers : task[v].pc \notin {"leave", "logoff", "forfeit"}
    BY <1>3 DEF OneRequest, Closing
  <2>4. Gone(c)'
    BY <1>1, <1>5, <2>2, <2>3 DEF Gone, AtCase, Grown
  <2>5. LoggedOff(c)'
    BY <1>1, <2>1, <2>2, <2>3 DEF LoggedOff, AtCase
  <2>6. Forfeited'
    BY <1>2, <2>2, <2>3, SameHeld DEF Forfeited
  <2> QED
    BY <2>4, <2>5, <2>6
<1> QED
  BY <1>6, <1>7, <1>8, <1>9 DEF Closure

\* The profile of the employee whose case was just raised or withdrawn.
LEMMA StatusClosure ==
    ASSUME OneRequest, Typed, Closure, NEW w \in Workers, Notice(w) \/ Reinstate(w)
    PROVE  Closure'
<1>1. sep' = sep /\ fnf' = fnf /\ crashes' = crashes
  BY DEF Notice, Reinstate
<1>2. held' = held
  BY Zenon DEF Notice, Reinstate
<1>3. task[w].c \in Cases /\ task[w].pc \notin Closing /\ sep[task[w].c].stage # "None"
      /\ sep[task[w].c].stage # "Closed"
  BY Carried DEF Notice, Reinstate, At, Fit, Closing, Closure, Reads, Stands
<1>4. emp'.login = emp.login /\ emp'.linked = emp.linked
  BY DEF Notice, Reinstate, Typed, DocsTyped, EmpTyped, Employee
<1>5. UserLinked' /\ PaidFirst'
  BY <1>1, <1>4 DEF Closure, UserLinked, PaidFirst, Closed
<1>6. Reads'
  <2>1. task'[w].pc = "idle"
    BY Arrives DEF Notice, Reinstate
  <2> QED
    BY <2>1, ContinuingReads DEF Continuing
<1>7. Effects'
  <2> SUFFICES ASSUME crashes = 0, NEW c \in Cases, Closed(c)
               PROVE  Gone(c)' /\ LoggedOff(c)' /\ Forfeited'
    BY <1>1 DEF Effects, Closed
  <2>1. LoggedOff(c) /\ Forfeited
    BY DEF Closure, Effects
  <2>2. \A v \in Workers : task[v].pc \notin {"leave", "logoff", "forfeit"}
    BY <1>3 DEF OneRequest, Closing
  <2>3. Gone(c)'
    BY <1>1, <1>3 DEF Gone, Closed
  <2>4. LoggedOff(c)'
    BY <1>1, <1>4, <2>1, <2>2 DEF LoggedOff, AtCase
  <2>5. Forfeited'
    BY <1>2, <2>1, <2>2, SameHeld DEF Forfeited
  <2> QED
    BY <2>3, <2>4, <2>5
<1> QED
  BY <1>5, <1>6, <1>7 DEF Closure

LEMMA CloseClosure ==
    ASSUME OneRequest, Typed, Closure, NEW w \in Workers, Close(w) PROVE Closure'
<1> DEFINE t == task[w]
<1>1. emp' = emp /\ fnf' = fnf /\ crashes' = crashes
  BY DEF Close
<1>2. held' = held
  BY Zenon DEF Close
<1>3. t.c \in Cases /\ t.pc \notin Closing /\ (~t.ok => fnf[t.c] = "Paid")
  BY Carried DEF Close, At, Closing, Closure, Reads, Stands
<1>4. /\ \A c \in Cases : c # t.c => sep'[c] = sep[c]
      /\ t.ok => sep'[t.c].forced
      /\ \A c \in Cases : sep'[c].user => sep[c].user
  BY <1>3, CaseTyped DEF Close, Case
<1>5. Grown
  BY CloseTyped
<1>6. task'[w].pc = "leave" /\ task'[w].c = t.c
  BY Arrives, ContinuingMoves DEF Close, Onward, Continuing
<1>7. UserLinked'
  BY <1>1, <1>4 DEF Closure, UserLinked
<1>8. PaidFirst'
  BY <1>1, <1>3, <1>4 DEF Closure, PaidFirst, Closed
<1>9. Reads'
  BY <1>6, ContinuingReads DEF Continuing
<1>10. Effects'
  <2> SUFFICES ASSUME crashes = 0, NEW c \in Cases, Closed(c)'
               PROVE  Gone(c)' /\ LoggedOff(c)' /\ Forfeited'
    BY <1>1 DEF Effects
  <2>1. Forfeited'
    BY <1>6 DEF Forfeited
  <2>2. CASE c = t.c
    BY <1>6, <2>1, <2>2 DEF Gone, LoggedOff, AtCase
  <2>3. CASE c # t.c
    <3>1. Gone(c) /\ LoggedOff(c)
      BY <1>4, <2>3 DEF Closure, Effects, Closed
    <3>2. \A v \in Workers : task[v].pc \notin {"leave", "logoff", "forfeit"}
      BY <1>3 DEF OneRequest, Closing
    <3> QED
      BY <1>1, <1>4, <1>5, <2>1, <3>1, <3>2 DEF Gone, LoggedOff, AtCase, Grown
  <2> QED
    BY <2>2, <2>3
<1> QED
  BY <1>7, <1>8, <1>9, <1>10 DEF Closure

LEMMA LeaveClosure ==
    ASSUME OneRequest, Typed, Closure, NEW w \in Workers, Leave(w) PROVE Closure'
<1> DEFINE t == task[w]
<1>1. sep' = sep /\ fnf' = fnf /\ crashes' = crashes
  BY DEF Leave
<1>2. emp'.status = "Left" /\ emp'.login = emp.login /\ emp'.linked = emp.linked
  BY DEF Leave, Typed, DocsTyped, EmpTyped, Employee
<1>3. /\ t.pc = "leave" /\ task'[w].c = t.c
      /\ sep[t.c].user => task'[w].pc = "logoff"
      /\ task'[w].pc \in {"logoff", "forfeit"}
  BY Arrives, ContinuingMoves DEF Leave, At, Onward, Continuing
<1>4. UserLinked' /\ PaidFirst'
  BY <1>1, <1>2 DEF Closure, UserLinked, PaidFirst, Closed
<1>5. Reads'
  BY <1>3, ContinuingReads DEF Continuing
<1>6. Effects'
  <2> SUFFICES ASSUME crashes = 0, NEW c \in Cases, Closed(c)
               PROVE  Gone(c)' /\ LoggedOff(c)' /\ Forfeited'
    BY <1>1 DEF Effects, Closed
  <2>1. LoggedOff(c)
    BY DEF Closure, Effects
  <2>2. LoggedOff(c)'
    <3> SUFFICES ASSUME sep[c].user, emp.login PROVE AtCase(c, {"leave", "logoff"})'
      BY <1>1, <1>2 DEF LoggedOff
    <3>1. t.c = c
      BY <2>1 DEF LoggedOff, AtCase, OneRequest
    <3> QED
      BY <1>3, <3>1 DEF AtCase
  <2>3. Gone(c)' /\ Forfeited'
    BY <1>2, <1>3 DEF Gone, Forfeited
  <2> QED
    BY <2>2, <2>3
<1> QED
  BY <1>4, <1>5, <1>6 DEF Closure

LEMMA LogOffClosure ==
    ASSUME OneRequest, Typed, Closure, NEW w \in Workers, LogOff(w) PROVE Closure'
<1>1. sep' = sep /\ fnf' = fnf /\ crashes' = crashes
  BY DEF LogOff
<1>2. emp'.status = emp.status /\ ~emp'.login /\ emp'.linked = emp.linked
  BY DEF LogOff, Typed, DocsTyped, EmpTyped, Employee
<1>3. task[w].pc = "logoff" /\ task'[w].pc = "forfeit"
  BY Arrives DEF LogOff, At, Onward
<1>4. UserLinked' /\ PaidFirst'
  BY <1>1, <1>2 DEF Closure, UserLinked, PaidFirst, Closed
<1>5. Reads'
  BY <1>3, ContinuingReads DEF Continuing
<1>6. Effects'
  <2> SUFFICES ASSUME crashes = 0, NEW c \in Cases, Closed(c)
               PROVE  Gone(c)' /\ LoggedOff(c)' /\ Forfeited'
    BY <1>1 DEF Effects, Closed
  <2>1. Gone(c)
    BY DEF Closure, Effects
  <2>2. Gone(c)'
    BY <1>1, <1>2, <1>3, <2>1 DEF Gone, AtCase, OneRequest
  <2>3. LoggedOff(c)' /\ Forfeited'
    BY <1>2, <1>3 DEF LoggedOff, Forfeited
  <2> QED
    BY <2>2, <2>3
<1> QED
  BY <1>4, <1>5, <1>6 DEF Closure

LEMMA ForfeitClosure ==
    ASSUME OneRequest, Typed, Closure, NEW w \in Workers, Forfeit(w) PROVE Closure'
<1>1. sep' = sep /\ fnf' = fnf /\ emp' = emp /\ crashes' = crashes
  BY DEF Forfeit
<1>2. ~StillHeld'
  BY Zenon DEF Forfeit, StillHeld
<1>3. task[w].pc = "forfeit" /\ task'[w].pc = "idle"
  BY Arrives DEF Forfeit, At
<1>4. UserLinked' /\ PaidFirst'
  BY <1>1 DEF Closure, UserLinked, PaidFirst, Closed
<1>5. Reads'
  BY <1>3, ContinuingReads DEF Continuing
<1>6. Effects'
  <2> SUFFICES ASSUME crashes = 0, NEW c \in Cases, Closed(c)
               PROVE  Gone(c)' /\ LoggedOff(c)' /\ Forfeited'
    BY <1>1 DEF Effects, Closed
  <2>1. Gone(c) /\ LoggedOff(c)
    BY DEF Closure, Effects
  <2>2. Gone(c)' /\ LoggedOff(c)'
    BY <1>1, <1>3, <2>1 DEF Gone, LoggedOff, AtCase, OneRequest
  <2> QED
    BY <1>2, <2>2 DEF Forfeited
<1> QED
  BY <1>4, <1>5, <1>6 DEF Closure

\* An account given to a profile that had none is nobody's whose case has one.
LEMMA LinkUserClosure ==
    ASSUME OneRequest, Typed, Closure, NEW w \in Workers, LinkUser(w) PROVE Closure'
<1>1. sep' = sep /\ fnf' = fnf /\ crashes' = crashes /\ task' = task
  BY DEF LinkUser
<1>2. held' = held
  BY Zenon DEF LinkUser
<1>3. emp'.status = emp.status /\ emp'.linked /\ ~emp.linked
  BY DEF LinkUser, Typed, DocsTyped, EmpTyped, Employee
<1>4. \A c \in Cases : ~sep[c].user
  BY <1>3 DEF Closure, UserLinked
<1>5. Reads' /\ UserLinked' /\ PaidFirst'
  BY <1>1, <1>3 DEF Closure, Reads, Stands, UserLinked, PaidFirst, Closed
<1>6. Effects'
  <2> SUFFICES ASSUME crashes = 0, NEW c \in Cases, Closed(c)
               PROVE  Gone(c)' /\ LoggedOff(c)' /\ Forfeited'
    BY <1>1 DEF Effects, Closed
  <2>1. Gone(c) /\ Forfeited
    BY DEF Closure, Effects
  <2>2. Gone(c)' /\ LoggedOff(c)'
    BY <1>1, <1>3, <1>4, <2>1 DEF Gone, LoggedOff, AtCase
  <2>3. Forfeited'
    BY <1>1, <1>2, <2>1, SameHeld DEF Forfeited
  <2> QED
    BY <2>2, <2>3
<1> QED
  BY <1>5, <1>6 DEF Closure

LEMMA ActClosure ==
    ASSUME OneRequest, Typed, Closure, NEW w \in Workers, ActOnItem(w) PROVE Closure'
<1>1. sep' = sep /\ fnf' = fnf /\ emp' = emp /\ crashes' = crashes /\ task' = task
  BY DEF ActOnItem
<1>2. held' = held
  BY Zenon DEF ActOnItem
<1>3. Reads' /\ Grown
  BY <1>1, KeptDocs DEF Closure, Reads, Stands
<1> QED
  BY <1>1, <1>2, <1>3, SameHeld, KeptClosure DEF Closed

\* The sweep and the passing of the days.
LEMMA ApartClosure ==
    ASSUME Typed, Closure, Apart PROVE Closure'
<1>1. crashes' = crashes
  BY DEF Apart, StartSweep, Begin, ReadOnly, Sweep, OpenFnf, Stamp, DayComes
<1>2. held' = held
  BY Zenon DEF Apart, StartSweep, Begin, ReadOnly, Sweep, OpenFnf, Stamp, DayComes
<1>3. emp'.status = emp.status /\ (emp'.login => emp.login) /\ (emp.linked => emp'.linked)
  <2>1. emp' = emp \/ emp' = [emp EXCEPT !.login = FALSE]
    BY DEF Apart, StartSweep, Begin, ReadOnly, Sweep, OpenFnf, Stamp, DayComes
  <2> QED
    BY <2>1 DEF Typed, DocsTyped, EmpTyped, Employee
<1>4. /\ Grown
      /\ \A c \in Cases : /\ Closed(c)' => Closed(c)
                          /\ sep[c].forced => sep'[c].forced
                          /\ sep'[c].user => sep[c].user
  <2>1. CASE Stamp
    <3>1. task[Cron].c \in Cases
      BY <2>1, SweepCarried DEF Stamp, At
    <3> QED
      BY <2>1, <3>1, CaseTyped, StampTyped DEF Stamp, Case, Closed
  <2>2. CASE DayComes
    <3>1. Grown
      BY <2>2, DayComesTyped
    <3>2. PICK d \in Cases : sep' = [sep EXCEPT ![d].over = TRUE]
      BY <2>2 DEF DayComes
    <3> QED
      BY <3>1, <3>2, CaseTyped DEF Case, Closed
  <2>3. CASE StartSweep \/ Sweep \/ OpenFnf
    <3>1. sep' = sep
      BY <2>3 DEF StartSweep, Begin, ReadOnly, Sweep, OpenFnf
    <3> QED
      BY <3>1, KeptDocs DEF Closed
  <2> QED
    BY <2>1, <2>2, <2>3 DEF Apart
<1>5. \A c \in Cases : /\ fnf[c] # "None" => fnf'[c] = fnf[c]
                       /\ fnf'[c] = fnf[c] \/ fnf'[c] = "Draft"
  <2>1. CASE OpenFnf
    BY <2>1 DEF OpenFnf, Typed, DocsTyped, FnfTyped
  <2>2. CASE ~OpenFnf
    BY <2>2 DEF Apart, StartSweep, Begin, ReadOnly, Sweep, Stamp, DayComes
  <2> QED
    BY <2>1, <2>2
<1>6. Reads'
  <2> SUFFICES ASSUME NEW w \in Workers PROVE Stands(task[w], sep', fnf', emp')
    BY ApartMoves DEF Reads
  <2>1. Stands(task[w], sep, fnf, emp) /\ (task[w].pc # "idle" => task[w].c \in Cases)
    BY Carried DEF Closure, Reads
  <2> QED
    BY <1>3, <1>4, <1>5, <2>1 DEF Stands, Closed
<1> QED
  BY <1>1, <1>2, <1>3, <1>4, <1>5, <1>6, ApartMoves, SameHeld, KeptClosure

LEMMA CrashClosure == ASSUME Typed, Closure, Crash PROVE Closure'
<1>1. sep' = sep /\ fnf' = fnf /\ emp' = emp /\ crashes' # 0
  BY DEF Crash, Typed, Misc
<1>2. \A w \in Workers : task'[w].pc = "idle"
  BY DEF Crash, Procs, Idle
<1>3. Reads'
  BY <1>2 DEF Reads, Stands
<1> QED
  BY <1>1, <1>3 DEF Closure, UserLinked, PaidFirst, Effects, Closed

LEMMA NextClosure == OneRequest /\ Typed /\ Closure /\ [Next]_vars => Closure'
<1> SUFFICES ASSUME OneRequest, Typed, Closure, [Next]_vars PROVE Closure'
  OBVIOUS
<1>1. ASSUME NEW w \in Workers, Step(w) PROVE Closure'
  BY <1>1, StartingClosure, InitiateClosure, StatusClosure, CaseClosure, ItemClosure, FnfClosure,
     CloseClosure, LeaveClosure, LogOffClosure, ForfeitClosure, LinkUserClosure, ActClosure
     DEF Step, Starting
<1>2. CASE UNCHANGED vars
  <2>1. sep' = sep /\ fnf' = fnf /\ emp' = emp /\ crashes' = crashes /\ task' = task
    BY <1>2 DEF vars
  <2>2. held' = held
    BY <1>2, Zenon DEF vars
  <2>3. Reads' /\ Grown
    BY <2>1, KeptDocs DEF Closure, Reads, Stands
  <2> QED
    BY <2>1, <2>2, <2>3, SameHeld, KeptClosure DEF Closed
<1> QED
  BY <1>1, <1>2, ApartClosure, CrashClosure DEF Next, RunSweep, Apart

LEMMA InitClosure == Init => Closure
<1> SUFFICES ASSUME Init PROVE Closure
  OBVIOUS
<1>1. \A w \in Workers : task[w].pc = "idle"
  BY DEF Init, Procs, Idle
<1>2. \A c \in Cases : ~sep[c].user /\ ~Closed(c)
  BY DEF Init, NoCase, Closed
<1> QED
  BY <1>1, <1>2 DEF Closure, Reads, Stands, UserLinked, PaidFirst, Effects

LEMMA ClosureIsProperty == Closure => ClosureHolds
<1> SUFFICES ASSUME Closure, NEW c \in Cases, Closed(c)
             PROVE  /\ ~sep[c].forced => fnf[c] = "Paid"
                    /\ (\A w \in Workers : task[w] = Idle) /\ crashes = 0 =>
                          /\ emp.status = "Left" \/ \E d \in Cases \ {c} : sep[d].stage # "None"
                          /\ sep[c].user => ~emp.login
                          /\ ~held
  BY Zenon DEF ClosureHolds, Closed
<1>1. ~sep[c].forced => fnf[c] = "Paid"
  BY DEF Closure, PaidFirst
<1>2. ASSUME \A w \in Workers : task[w] = Idle, crashes = 0
      PROVE  /\ emp.status = "Left" \/ \E d \in Cases \ {c} : sep[d].stage # "None"
             /\ sep[c].user => ~emp.login
             /\ ~StillHeld
  <2>1. \A w \in Workers : task[w].pc \notin {"leave", "logoff", "forfeit"}
    BY <1>2 DEF Idle
  <2>2. Gone(c) /\ LoggedOff(c) /\ Forfeited
    BY <1>2 DEF Closure, Effects
  <2> QED
    BY <2>1, <2>2 DEF Gone, LoggedOff, Forfeited, AtCase
<1> QED
  BY <1>1, <1>2, Zenon DEF StillHeld

\* As long as requests come one at a time, a case closed without force has its settlement
\* paid for good, and a closure takes effect: the employee has left, the login is off and
\* no hold is left, however the sweep and later cases fall around it.
THEOREM ClosureTakesEffect == OneRequest => (Spec => []ClosureHolds)
<1> SUFFICES ASSUME OneRequest PROVE Spec => []ClosureHolds
  OBVIOUS
<1>1. Typed /\ Closure /\ [Next]_vars => Closure'
  BY NextClosure
<1> QED
  BY InitTyped, NextTyped, InitClosure, ClosureIsProperty, <1>1, PTL DEF Spec

=============================================================================
