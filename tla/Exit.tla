-------------------------------- MODULE Exit --------------------------------
(***************************************************************************)
(* Separation of one employee (hrms_exit_service): cases from resignation  *)
(* to closure, the last working day and its approval, handover, clearance, *)
(* asset and access items, the full and final settlement, and the daily    *)
(* sweep that ends the login on the last working day.                      *)
(*                                                                         *)
(* What a handler reads is read as it starts; every write to the database  *)
(* is a step of its own, so the scheduler's sweep and a restart fall       *)
(* between any two writes.                                                 *)
(***************************************************************************)
EXTENDS Naturals, FiniteSets

CONSTANTS
    Cases,      \* separation numbers
    Kinds,      \* the kinds of exit item this instance has, one item of each
    Workers,    \* requests in flight at once
    Cron,       \* the scheduler's task
    Offered,    \* the entry points this instance exercises
    MaxCrashes  \* bound: process restarts

ASSUME ExitAssumption ==
    /\ "none" \notin Cases
    /\ Kinds \subseteq {"handover", "standard", "custom", "asset", "access"}
    /\ Cron \notin Workers
    /\ MaxCrashes \in Nat

VARIABLES
    emp,        \* the employee's profile and login
    sep,        \* hrms_separations
    item,       \* handover tasks, clearance tasks, asset returns, access clearances
    fnf,        \* hrms_fnf_settlements, one row a case
    held,       \* a variable pay hold is still Held
    crashes,    \* restarts of the process so far
    task        \* the handlers in flight, and the sweep

vars == <<emp, sep, item, fnf, held, crashes, task>>

Procs == Workers \cup {Cron}

Stage == {"None", "Initiated", "Handover", "FnfPending", "FnfApproved", "Settled", "Closed",
          "Withdrawn"}
ClosedStages == {"None", "Closed", "Withdrawn"}
Open(c) == sep[c].stage \notin ClosedStages

\* The employee resigned or was terminated: Left.  linked: the profile has a user_id.
Employee == [status: {"Active", "Notice", "Left"}, linked: BOOLEAN, login: BOOLEAN]

\* A last working day is the calculated one or an early one, which an approval allows.
Lwd == {"none", "early", "calc"}

\* user: the user_id copied at initiation; over: the calculated day has come.
Case == [stage: Stage, user: BOOLEAN, rec: Lwd, final: Lwd, waiver: BOOLEAN, over: BOOLEAN,
         swept: BOOLEAN, forced: BOOLEAN]
NoCase == [stage |-> "None", user |-> FALSE, rec |-> "none", final |-> "none", waiver |-> FALSE,
           over |-> FALSE, swept |-> FALSE, forced |-> FALSE]

DueMutant(c) == sep[c].rec = "early" \/ (sep[c].rec = "calc" /\ sep[c].over)

\* Its last working day has come: the approved one, never one only proposed.
Due(c) == sep[c].final = "early" \/ (sep[c].final = "calc" /\ sep[c].over)

\* Done: accepted, rejected, cleared, waived, returned, written off or disabled.
ItemStatus == {"None", "Pending", "Done"}
Clearance == {"standard", "custom"}
FnfStatus == {"None", "Draft", "Prepared", "Approved", "Paid", "Rejected"}

PCs == {"idle", "initiate", "notice", "decide", "seed", "approve", "withdraw", "reinstate",
        "create", "save", "pend", "verdict", "approved", "pay", "settle", "close", "leave",
        "logoff", "forfeit", "sweep", "open_fnf", "stamp"}

Task == [pc: PCs, c: Cases \cup {"none"}, k: Kinds \cup {"none"}, day: Lwd, stage: Stage,
         ok: BOOLEAN, cases: SUBSET (Cases \X Stage)]
Idle == [pc |-> "idle", c |-> "none", k |-> "none", day |-> "none", stage |-> "None",
         ok |-> FALSE, cases |-> {}]

TypeOK ==
    /\ emp \in Employee /\ (emp.login => emp.linked)
    /\ sep \in [Cases -> Case]
    /\ \A c \in Cases : sep[c].final = "none" => ~sep[c].swept
    /\ item \in [Cases -> [Kinds -> ItemStatus]]
    /\ fnf \in [Cases -> FnfStatus]
    /\ held \in BOOLEAN /\ crashes \in Nat
    /\ task \in [Procs -> Task]

Init ==
    /\ emp \in {[status |-> "Active", linked |-> b, login |-> b] : b \in BOOLEAN}
    /\ sep = [c \in Cases |-> NoCase]
    /\ item = [c \in Cases |-> [k \in Kinds |-> "None"]]
    /\ fnf = [c \in Cases |-> "None"]
    /\ held = TRUE /\ crashes = 0
    /\ task = [p \in Procs |-> Idle]

At(p, pc) == task[p].pc = pc
Goto(p, pc) == task' = [task EXCEPT ![p] = [Idle EXCEPT !.pc = pc, !.c = task[p].c]]
Finish(p) == task' = [task EXCEPT ![p] = Idle]
ReadOnly == UNCHANGED <<emp, sep, item, fnf, held, crashes>>

Begin(p, op, t) ==
    /\ op \in Offered
    /\ task[p] = Idle
    /\ task' = [task EXCEPT ![p] = t]
    /\ ReadOnly

-----------------------------------------------------------------------------
(* The case: initiate, decide, approve and withdraw                          *)

StartInitiate(w) == \E c \in Cases :
    /\ sep[c].stage = "None" /\ \A d \in Cases : ~Open(d)
    /\ Begin(w, "initiate", [Idle EXCEPT !.pc = "initiate", !.c = c, !.ok = emp.linked])

Initiate(w) ==
    LET t == task[w]
    IN  /\ At(w, "initiate")
        /\ sep[t.c].stage = "None"          \* a number is minted once
        /\ sep' = [sep EXCEPT ![t.c] = [NoCase EXCEPT !.stage = "Initiated", !.user = t.ok]]
        /\ IF t.ok THEN Goto(w, "notice") ELSE Finish(w)
        /\ UNCHANGED <<emp, item, fnf, held, crashes>>

\* update_profile finds a profile by its user_id: an employee without one stays Active.
Notice(w) ==
    /\ At(w, "notice")
    /\ emp' = [emp EXCEPT !.status = "Notice"]
    /\ Finish(w)
    /\ UNCHANGED <<sep, item, fnf, held, crashes>>

StartDecide(w) == \E c \in Cases, day \in {"early", "calc"}, ok \in BOOLEAN :
    /\ Open(c) /\ (ok => day = "calc")
    /\ Begin(w, "decide", [Idle EXCEPT !.pc = "decide", !.c = c, !.day = day, !.ok = ok,
                                       !.stage = sep[c].stage])

DecideMutant(w) ==
    LET t == task[w]
    IN  /\ At(w, "decide")
        /\ sep' = [sep EXCEPT
             ![t.c].rec = t.day,
             ![t.c].final = t.day,
             ![t.c].waiver = IF t.ok THEN FALSE ELSE @,
             ![t.c].stage = IF t.stage = "Initiated" THEN "Handover" ELSE @]
        /\ Goto(w, "seed")
        /\ UNCHANGED <<emp, item, fnf, held, crashes>>

\* ok: nothing is waived and the calculated day stands, which makes it final at once.
\* Otherwise the day is only proposed.
Decide(w) ==
    LET t == task[w]
    IN  /\ At(w, "decide")
        /\ sep' = [sep EXCEPT
             ![t.c].rec = t.day,
             ![t.c].final = IF t.ok THEN t.day ELSE @,
             ![t.c].waiver = IF t.ok THEN FALSE ELSE @,
             ![t.c].stage = IF t.stage = "Initiated" THEN "Handover" ELSE @]
        /\ Goto(w, "seed")
        /\ UNCHANGED <<emp, item, fnf, held, crashes>>

\* The standard clearance tasks, unless the case already has a clearance task.
Seed(w) ==
    LET c == task[w].c
    IN  /\ At(w, "seed")
        /\ item' = IF \E k \in Kinds \cap Clearance : item[c][k] # "None" THEN item
                   ELSE [item EXCEPT ![c] = [k \in Kinds |->
                           IF k = "standard" THEN "Pending" ELSE item[c][k]]]
        /\ Finish(w)
        /\ UNCHANGED <<emp, sep, fnf, held, crashes>>

\* Refused when a final day is on file, also one a newer proposal would change.
StartApprove(w) == \E c \in Cases, ok \in BOOLEAN :
    /\ Open(c) /\ sep[c].rec # "none" /\ sep[c].final = "none"
    /\ Begin(w, "approve", [Idle EXCEPT !.pc = "approve", !.c = c, !.ok = ok, !.day = sep[c].rec])

Approve(w) ==
    LET t == task[w]
    IN  /\ At(w, "approve")
        /\ sep' = [sep EXCEPT ![t.c].waiver = t.ok, ![t.c].final = IF t.ok THEN t.day ELSE @]
        /\ Finish(w)
        /\ UNCHANGED <<emp, item, fnf, held, crashes>>

\* At any open stage; the login a sweep has ended is not given back.
StartWithdraw(w) == \E c \in Cases :
    /\ Open(c)
    /\ Begin(w, "withdraw", [Idle EXCEPT !.pc = "withdraw", !.c = c])

Withdraw(w) ==
    LET c == task[w].c
    IN  /\ At(w, "withdraw")
        /\ sep' = [sep EXCEPT ![c].stage = "Withdrawn"]
        /\ IF sep[c].user THEN Goto(w, "reinstate") ELSE Finish(w)
        /\ UNCHANGED <<emp, item, fnf, held, crashes>>

Reinstate(w) ==
    /\ At(w, "reinstate")
    /\ emp' = [emp EXCEPT !.status = "Active"]
    /\ Finish(w)
    /\ UNCHANGED <<sep, item, fnf, held, crashes>>

-----------------------------------------------------------------------------
(* Handover tasks, clearance tasks, asset returns and access clearances      *)

StartCreate(w) == \E c \in Cases, k \in Kinds \ {"standard"} :
    /\ Open(c) /\ item[c][k] = "None"
    /\ Begin(w, "create", [Idle EXCEPT !.pc = "create", !.c = c, !.k = k])

Create(w) ==
    LET t == task[w]
    IN  /\ At(w, "create")
        /\ item' = [item EXCEPT ![t.c][t.k] = "Pending"]
        /\ Finish(w)
        /\ UNCHANGED <<emp, sep, fnf, held, crashes>>

\* Any status may be written over any other, also on a case that is closed.
ActOnItem(w) == \E c \in Cases, k \in Kinds, st \in {"Pending", "Done"} :
    /\ "act" \in Offered /\ task[w] = Idle
    /\ item[c][k] # "None"
    /\ item' = [item EXCEPT ![c][k] = st]
    /\ UNCHANGED <<emp, sep, fnf, held, crashes, task>>

-----------------------------------------------------------------------------
(* The full and final settlement                                            *)

\* Not once it is Approved or Paid; whether the case is still open is not asked.
StartSave(w) == \E c \in Cases :
    /\ sep[c].stage # "None" /\ fnf[c] \notin {"Approved", "Paid"}
    /\ Begin(w, "save", [Idle EXCEPT !.pc = "save", !.c = c, !.stage = sep[c].stage])

Save(w) ==
    LET t == task[w]
    IN  /\ At(w, "save")
        /\ fnf' = [fnf EXCEPT ![t.c] = "Prepared"]
        /\ IF t.stage # "FnfPending" THEN Goto(w, "pend") ELSE Finish(w)
        /\ UNCHANGED <<emp, sep, item, held, crashes>>

ToStage(w, pc, stage) ==
    /\ At(w, pc)
    /\ sep' = [sep EXCEPT ![task[w].c].stage = stage]
    /\ Finish(w)
    /\ UNCHANGED <<emp, item, fnf, held, crashes>>

Pend(w) == ToStage(w, "pend", "FnfPending")

StartVerdict(w) == \E c \in Cases, ok \in BOOLEAN :
    /\ fnf[c] = "Prepared"
    /\ Begin(w, "verdict", [Idle EXCEPT !.pc = "verdict", !.c = c, !.ok = ok])

Verdict(w) ==
    LET t == task[w]
    IN  /\ At(w, "verdict")
        /\ fnf' = [fnf EXCEPT ![t.c] = IF t.ok THEN "Approved" ELSE "Rejected"]
        /\ IF t.ok THEN Goto(w, "approved") ELSE Finish(w)
        /\ UNCHANGED <<emp, sep, item, held, crashes>>

Approved(w) == ToStage(w, "approved", "FnfApproved")

StartPay(w) == \E c \in Cases :
    /\ fnf[c] = "Approved"
    /\ Begin(w, "pay", [Idle EXCEPT !.pc = "pay", !.c = c])

Pay(w) ==
    /\ At(w, "pay")
    /\ fnf' = [fnf EXCEPT ![task[w].c] = "Paid"]
    /\ Goto(w, "settle")
    /\ UNCHANGED <<emp, sep, item, held, crashes>>

Settle(w) == ToStage(w, "settle", "Settled")

-----------------------------------------------------------------------------
(* close_separation                                                         *)

StartClose(w) == \E c \in Cases, force \in BOOLEAN :
    /\ Open(c)
    /\ ~force => /\ \A k \in Kinds : item[c][k] # "Pending"
                 /\ fnf[c] = "Paid"
    /\ Begin(w, "close", [Idle EXCEPT !.pc = "close", !.c = c, !.ok = force])

Close(w) ==
    LET t == task[w]
    IN  /\ At(w, "close")
        /\ sep' = [sep EXCEPT ![t.c].stage = "Closed", ![t.c].forced = t.ok]
        /\ Goto(w, "leave")
        /\ UNCHANGED <<emp, item, fnf, held, crashes>>

LeaveMutant(w) ==
    LET user == sep[task[w].c].user
    IN  /\ At(w, "leave")
        /\ emp' = IF user THEN [emp EXCEPT !.status = "Left"] ELSE emp
        /\ Goto(w, IF user THEN "logoff" ELSE "forfeit")
        /\ UNCHANGED <<sep, item, fnf, held, crashes>>

\* Through the login when the case has one, by employee code otherwise.
Leave(w) ==
    /\ At(w, "leave")
    /\ emp' = [emp EXCEPT !.status = "Left"]
    /\ Goto(w, IF sep[task[w].c].user THEN "logoff" ELSE "forfeit")
    /\ UNCHANGED <<sep, item, fnf, held, crashes>>

LogOff(w) ==
    /\ At(w, "logoff")
    /\ emp' = [emp EXCEPT !.login = FALSE]
    /\ Goto(w, "forfeit")
    /\ UNCHANGED <<sep, item, fnf, held, crashes>>

Forfeit(w) ==
    /\ At(w, "forfeit")
    /\ held' = FALSE
    /\ Finish(w)
    /\ UNCHANGED <<emp, sep, item, fnf, crashes>>

-----------------------------------------------------------------------------
(* run_lwd_sweep: the open cases whose final day has come, one by one       *)

StartSweep ==
    LET due == {c \in Cases : Open(c) /\ Due(c) /\ ~sep[c].swept}
    IN  /\ due # {}
        /\ Begin(Cron, "sweep", [Idle EXCEPT !.pc = "sweep",
                                             !.cases = {<<c, sep[c].stage>> : c \in due}])

SweepMutant ==
    /\ At(Cron, "sweep")
    /\ \E x \in task[Cron].cases :
         /\ task' = [task EXCEPT ![Cron].pc = "open_fnf", ![Cron].c = x[1],
                                 ![Cron].stage = x[2], ![Cron].cases = @ \ {x}]
         /\ sep' = [sep EXCEPT ![x[1]].swept = TRUE]
    /\ UNCHANGED <<emp, item, fnf, held, crashes>>

\* The login of the profile as it is now, whether or not the case knows it.
Sweep ==
    /\ At(Cron, "sweep")
    /\ \E x \in task[Cron].cases :
         task' = [task EXCEPT ![Cron].pc = "open_fnf", ![Cron].c = x[1],
                              ![Cron].stage = x[2], ![Cron].cases = @ \ {x}]
    /\ emp' = [emp EXCEPT !.login = FALSE]
    /\ UNCHANGED <<sep, item, fnf, held, crashes>>

\* A settlement is opened where there is none; ok: the case moves to FnfPending with it.
OpenFnf ==
    LET t == task[Cron]
    IN  /\ At(Cron, "open_fnf")
        /\ fnf' = IF fnf[t.c] = "None" THEN [fnf EXCEPT ![t.c] = "Draft"] ELSE fnf
        /\ task' = [task EXCEPT ![Cron].pc = "stamp",
              ![Cron].ok = /\ fnf[t.c] = "None"
                           /\ t.stage \notin {"FnfPending", "FnfApproved", "Settled"}]
        /\ UNCHANGED <<emp, sep, item, held, crashes>>

\* Whatever has become of the case since it was listed.
Stamp ==
    LET t == task[Cron]
    IN  /\ At(Cron, "stamp")
        /\ sep' = [sep EXCEPT ![t.c].swept = TRUE,
                              ![t.c].stage = IF t.ok THEN "FnfPending" ELSE @]
        /\ IF t.cases = {} THEN Finish(Cron)
           ELSE task' = [task EXCEPT ![Cron] = [Idle EXCEPT !.pc = "sweep", !.cases = t.cases]]
        /\ UNCHANGED <<emp, item, fnf, held, crashes>>

-----------------------------------------------------------------------------
(* Around the cases                                                         *)

\* link_user of hrms_employee_service: the profile gets an account.
LinkUser(w) ==
    /\ "link" \in Offered /\ task[w] = Idle
    /\ ~emp.linked
    /\ emp' = [emp EXCEPT !.linked = TRUE, !.login = TRUE]
    /\ UNCHANGED <<sep, item, fnf, held, crashes, task>>

\* The calculated last working day arrives.
DayComes == \E c \in Cases :
    /\ sep[c].stage # "None" /\ ~sep[c].over
    /\ sep' = [sep EXCEPT ![c].over = TRUE]
    /\ UNCHANGED <<emp, item, fnf, held, crashes, task>>

Crash ==
    /\ crashes < MaxCrashes
    /\ \E p \in Procs : task[p] # Idle
    /\ crashes' = crashes + 1
    /\ task' = [p \in Procs |-> Idle]
    /\ UNCHANGED <<emp, sep, item, fnf, held>>

Step(w) ==
    \/ StartInitiate(w) \/ Initiate(w) \/ Notice(w) \/ StartDecide(w) \/ Decide(w) \/ Seed(w)
    \/ StartApprove(w) \/ Approve(w) \/ StartWithdraw(w) \/ Withdraw(w) \/ Reinstate(w)
    \/ StartCreate(w) \/ Create(w) \/ ActOnItem(w)
    \/ StartSave(w) \/ Save(w) \/ Pend(w) \/ StartVerdict(w) \/ Verdict(w) \/ Approved(w)
    \/ StartPay(w) \/ Pay(w) \/ Settle(w)
    \/ StartClose(w) \/ Close(w) \/ Leave(w) \/ LogOff(w) \/ Forfeit(w) \/ LinkUser(w)

RunSweep == StartSweep \/ Sweep \/ OpenFnf \/ Stamp

Next == (\E w \in Workers : Step(w)) \/ RunSweep \/ DayComes \/ Crash

Spec == Init /\ [][Next]_vars

\* The scheduler runs the sweep every day, and it runs to its end; days pass.  Nobody is
\* obliged to send a request.
FairSpec == Spec /\ WF_vars(RunSweep) /\ WF_vars(DayComes)

-----------------------------------------------------------------------------
(* Properties                                                               *)

\* An early last working day is never in force without an approval on record, however
\* often the decision is revised afterwards (BR-016: decide_separation, approve_separation).
EarlyLeaveApproved ==
    \A c \in Cases : sep[c].final = "early" => sep[c].waiver

\* Once no request is at work, a case closed without force has its settlement paid,
\* whatever was saved, approved or refused since; and a closed case has taken effect, with
\* or without a login: the employee has left unless a later case was raised, their login is
\* off, and no held pay can be claimed, unless the process died halfway through the closure
\* (save_fnf to close_separation, together).
ClosureHolds ==
    \A c \in Cases : sep[c].stage = "Closed" =>
        /\ ~sep[c].forced => fnf[c] = "Paid"
        /\ (\A w \in Workers : task[w] = Idle) /\ crashes = 0 =>
              /\ emp.status = "Left" \/ \E d \in Cases \ {c} : sep[d].stage # "None"
              /\ sep[c].user => ~emp.login
              /\ ~held

\* A leaver does not keep access: when the final last working day of an open case has come
\* and the case is not stamped as swept, the login is ended sooner or later, even if the
\* process dies in the middle of the sweep, unless the case closes or is withdrawn first
\* (run_lwd_sweep stamps a case only after it has revoked the login).
LoginEndsWithLastDay ==
    \A c \in Cases :
        (Open(c) /\ Due(c) /\ sep[c].user /\ ~sep[c].swept) ~> (~emp.login \/ ~Open(c))
=============================================================================
