---------------------------- MODULE ConfigChange ----------------------------
(***************************************************************************)
(* Governed configuration, for one policy: its versions and the population *)
(* each is aimed at (hrms_policy_version_service), and the change requests *)
(* that carry a version through impact analysis, simulation, approval and  *)
(* activation (hrms_config_change_service).  Policy versions are always    *)
(* governed: Approved and Active are set by an activation and nowhere      *)
(* else.                                                                   *)
(*                                                                         *)
(* A database call that writes is one step; what a handler read before it  *)
(* is in its task.  A restart loses the tasks: an activation stops between *)
(* two of its writes and is completed by calling it again.                 *)
(***************************************************************************)
EXTENDS Naturals, FiniteSets

CONSTANTS
    Versions,   \* version numbers of the policy
    Scopes,     \* the populations an assignment may name
    Requests,   \* change requests
    People,     \* those who draft, request and approve
    Workers,    \* requests in flight at once
    Offered,    \* the entry points this instance exercises
    MaxCrashes  \* bound: process restarts

ASSUME ConfigAssumption ==
    /\ Versions \subseteq Nat \ {0}
    /\ "none" \notin People \cup Requests
    /\ MaxCrashes \in Nat

VARIABLES
    ver,        \* hrms_policy_versions
    scope,      \* hrms_policy_assignments: the active scopes of each version
    req,        \* hrms_config_change_requests
    crashes,    \* restarts of the process so far
    task        \* the request handlers in flight

vars == <<ver, scope, req, crashes, task>>

VerStatus == {"None", "Draft", "Pending", "Approved", "Active", "Superseded", "Retired"}
\* Analysed: ImpactAnalysed or Simulated, which every handler takes alike.
ReqStatus == {"None", "Draft", "Analysed", "Pending", "Approved", "Active", "Returned", "Rejected",
              "Withdrawn"}
DrafterStatuses == {"Draft", "Analysed", "Returned"}
Submittable == {"Analysed", "Returned"}

\* _TRANSITIONS: which status may follow which.
Follows == [None |-> {}, Draft |-> {"Pending", "Retired"},
            Pending |-> {"Approved", "Draft", "Retired"}, Approved |-> {"Active", "Retired"},
            Active |-> {"Superseded", "Retired"}, Superseded |-> {}, Retired |-> {}]

\* impact: the analysis ran, or was simulated.
Request == [status: ReqStatus, v: Versions \cup {0}, requester: People \cup {"none"},
            decider: People \cup {"none"}, impact: BOOLEAN]

PCs == {"idle", "save", "create", "analyse", "submit", "decide", "withdraw", "activate", "rivals", "supersede",
        "activate_write", "activate_request", "set_status", "assign"}

Task == [pc: PCs, r: Requests \cup {"none"}, v: Versions \cup {0}, who: People \cup {"none"},
         st: VerStatus \cup ReqStatus, rivals: SUBSET Versions, s: SUBSET Scopes]
Idle == [pc |-> "idle", r |-> "none", v |-> 0, who |-> "none", st |-> "None", rivals |-> {},
         s |-> {}]

TypeOK ==
    /\ ver \in [Versions -> VerStatus]
    /\ scope \in [Versions -> SUBSET Scopes]
    /\ req \in [Requests -> Request]
    /\ \A r \in Requests : req[r].status \in {"Approved", "Active"} => req[r].decider # "none"
    /\ crashes \in Nat
    /\ task \in [Workers -> Task]

Init ==
    /\ ver = [v \in Versions |-> "None"]
    /\ scope = [v \in Versions |-> {}]
    /\ req = [r \in Requests |-> [status |-> "None", v |-> 0, requester |-> "none",
                                  decider |-> "none", impact |-> FALSE]]
    /\ crashes = 0
    /\ task = [w \in Workers |-> Idle]

At(w, pc) == task[w].pc = pc
Finish(w) == task' = [task EXCEPT ![w] = Idle]
ReadOnly == UNCHANGED <<ver, scope, req, crashes>>

Begin(w, op, t) ==
    /\ op \in Offered
    /\ task[w] = Idle
    /\ task' = [task EXCEPT ![w] = t]
    /\ ReadOnly

-----------------------------------------------------------------------------
(* Versions: save_draft, set_status called directly, assign_scope and       *)
(* remove_assignment                                                        *)

\* A new version takes the next number.  The rules of one in Draft or Pending are edited
\* in place, which changes nothing here.
StartSave(w) == \E v \in Versions :
    /\ ver[v] = "None" /\ \A u \in Versions : u < v => ver[u] # "None"
    /\ Begin(w, "save", [Idle EXCEPT !.pc = "save", !.v = v])

Save(w) ==
    LET v == task[w].v
    IN  /\ At(w, "save")
        /\ ver' = [ver EXCEPT ![v] = "Draft"]
        /\ Finish(w)
        /\ UNCHANGED <<scope, req, crashes>>

StartSetStatusMutant(w) == \E v \in Versions, st \in VerStatus \ {"Active"} :
    /\ st \in Follows[ver[v]]
    /\ Begin(w, "set-status", [Idle EXCEPT !.pc = "set_status", !.v = v, !.st = st])

\* Approved and Active are the flow's to set.
StartSetStatus(w) == \E v \in Versions, st \in VerStatus \ {"Approved", "Active"} :
    /\ st \in Follows[ver[v]]
    /\ Begin(w, "set-status", [Idle EXCEPT !.pc = "set_status", !.v = v, !.st = st])

SetStatus(w) ==
    /\ At(w, "set_status")
    /\ ver' = [ver EXCEPT ![task[w].v] = task[w].st]
    /\ Finish(w)
    /\ UNCHANGED <<scope, req, crashes>>

\* At any time of a version's life.
StartAssign(w) == \E v \in Versions, s \in Scopes :
    /\ ver[v] # "None"
    /\ Begin(w, "assign", [Idle EXCEPT !.pc = "assign", !.v = v,
                             !.s = IF s \in scope[v] THEN scope[v] \ {s} ELSE scope[v] \cup {s}])

Assign(w) ==
    /\ At(w, "assign")
    /\ scope' = [scope EXCEPT ![task[w].v] = task[w].s]
    /\ Finish(w)
    /\ UNCHANGED <<ver, req, crashes>>

\* _scope_signature: without an assignment, the whole company.
Signature(v) == IF scope[v] = {} THEN {{}} ELSE {{s} : s \in scope[v]}

-----------------------------------------------------------------------------
(* The request: create_request, analyse_impact, record_simulation, submit,  *)
(* decide and withdraw                                                      *)

StartCreate(w) == \E r \in Requests, v \in Versions, who \in People :
    /\ req[r].status = "None" /\ ver[v] # "None"
    /\ Begin(w, "create", [Idle EXCEPT !.pc = "create", !.r = r, !.v = v, !.who = who])

Create(w) ==
    LET t == task[w]
    IN  /\ At(w, "create")
        /\ req' = [req EXCEPT ![t.r].status = "Draft", ![t.r].v = t.v, ![t.r].requester = t.who]
        /\ Finish(w)
        /\ UNCHANGED <<ver, scope, crashes>>

\* record_simulation asks for no analysis first, and submit accepts it in its place.
StartAnalyse(w) == \E r \in Requests :
    /\ req[r].status \in DrafterStatuses
    /\ Begin(w, "analyse", [Idle EXCEPT !.pc = "analyse", !.r = r])

Analyse(w) ==
    /\ At(w, "analyse")
    /\ req' = [req EXCEPT ![task[w].r].status = "Analysed", ![task[w].r].impact = TRUE]
    /\ Finish(w)
    /\ UNCHANGED <<ver, scope, crashes>>

StartSubmit(w) == \E r \in Requests :
    /\ req[r].status \in Submittable
    /\ Begin(w, "submit", [Idle EXCEPT !.pc = "submit", !.r = r])

Submit(w) ==
    /\ At(w, "submit")
    /\ req' = [req EXCEPT ![task[w].r].status = "Pending"]
    /\ Finish(w)
    /\ UNCHANGED <<ver, scope, crashes>>

\* Never the requester.
StartDecide(w) == \E r \in Requests, who \in People, st \in {"Approved", "Rejected", "Returned"} :
    /\ req[r].status = "Pending" /\ req[r].requester # who
    /\ Begin(w, "decide", [Idle EXCEPT !.pc = "decide", !.r = r, !.who = who, !.st = st])

Decide(w) ==
    LET t == task[w]
    IN  /\ At(w, "decide")
        /\ req' = [req EXCEPT ![t.r].status = t.st, ![t.r].decider = t.who]
        /\ Finish(w)
        /\ UNCHANGED <<ver, scope, crashes>>

\* Anything but an activated change, also one that was refused.
StartWithdraw(w) == \E r \in Requests :
    /\ req[r].status \notin {"None", "Active", "Withdrawn"}
    /\ Begin(w, "withdraw", [Idle EXCEPT !.pc = "withdraw", !.r = r])

Withdraw(w) ==
    /\ At(w, "withdraw")
    /\ req' = [req EXCEPT ![task[w].r].status = "Withdrawn"]
    /\ Finish(w)
    /\ UNCHANGED <<ver, scope, crashes>>

-----------------------------------------------------------------------------
(* activate and _policy_activate: the version is walked up its lifecycle    *)

StartActivateMutant(w) == \E r \in Requests :
    /\ req[r].status \in {"Pending", "Approved"}
    /\ Begin(w, "activate", [Idle EXCEPT !.pc = "activate", !.r = r, !.v = req[r].v])

StartActivate(w) == \E r \in Requests :
    /\ req[r].status = "Approved"
    /\ Begin(w, "activate", [Idle EXCEPT !.pc = "activate", !.r = r, !.v = req[r].v])

\* Draft to Pending, Pending to Approved; an interrupted walk goes on from where it is,
\* and one that reached Active has only the request left.
Walk(w) ==
    LET v == task[w].v
        now == ver[v]
    IN  /\ At(w, "activate")
        /\ CASE now \in {"Draft", "Pending"} ->
                  /\ ver' = [ver EXCEPT ![v] = IF now = "Draft" THEN "Pending" ELSE "Approved"]
                  /\ UNCHANGED task
             [] now = "Approved" -> task' = [task EXCEPT ![w].pc = "rivals"] /\ UNCHANGED ver
             [] now = "Active" -> task' = [task EXCEPT ![w].pc = "activate_request"] /\ UNCHANGED ver
             [] OTHER -> Finish(w) /\ UNCHANGED ver
        /\ UNCHANGED <<scope, req, crashes>>

RivalsMutant(w) ==
    LET v == task[w].v
        rivals == {u \in Versions : u < v /\ ver[u] = "Active" /\ Signature(u) = Signature(v)}
    IN  /\ At(w, "rivals")
        /\ task' = [task EXCEPT ![w].pc = IF rivals = {} THEN "activate_write" ELSE "supersede",
                                ![w].rivals = rivals]
        /\ ReadOnly

\* The Active versions aimed at exactly the same population.
Rivals(w) ==
    LET v == task[w].v
        rivals == {u \in Versions \ {v} : ver[u] = "Active" /\ Signature(u) = Signature(v)}
    IN  /\ At(w, "rivals")
        /\ task' = [task EXCEPT ![w].pc = IF rivals = {} THEN "activate_write" ELSE "supersede",
                                ![w].rivals = rivals]
        /\ ReadOnly

Supersede(w) ==
    LET t == task[w]
    IN  /\ At(w, "supersede")
        /\ \E u \in t.rivals :
             /\ ver' = [ver EXCEPT ![u] = "Superseded"]
             /\ task' = [task EXCEPT ![w].rivals = @ \ {u},
                           ![w].pc = IF t.rivals = {u} THEN "activate_write" ELSE "supersede"]
        /\ UNCHANGED <<scope, req, crashes>>

ActivateWrite(w) ==
    /\ At(w, "activate_write")
    /\ ver' = [ver EXCEPT ![task[w].v] = "Active"]
    /\ task' = [task EXCEPT ![w].pc = "activate_request"]
    /\ UNCHANGED <<scope, req, crashes>>

ActivateRequest(w) ==
    /\ At(w, "activate_request")
    /\ req' = [req EXCEPT ![task[w].r].status = "Active"]
    /\ Finish(w)
    /\ UNCHANGED <<ver, scope, crashes>>

-----------------------------------------------------------------------------
Crash ==
    /\ crashes < MaxCrashes
    /\ \E w \in Workers : task[w] # Idle
    /\ crashes' = crashes + 1
    /\ task' = [w \in Workers |-> Idle]
    /\ UNCHANGED <<ver, scope, req>>

Step(w) ==
    \/ StartSave(w) \/ Save(w) \/ StartSetStatus(w) \/ SetStatus(w) \/ StartAssign(w) \/ Assign(w)
    \/ StartCreate(w) \/ Create(w) \/ StartAnalyse(w) \/ Analyse(w)
    \/ StartSubmit(w) \/ Submit(w) \/ StartDecide(w) \/ Decide(w)
    \/ StartWithdraw(w) \/ Withdraw(w)
    \/ StartActivate(w) \/ Walk(w) \/ Rivals(w) \/ Supersede(w) \/ ActivateWrite(w)
    \/ ActivateRequest(w)

Next == (\E w \in Workers : Step(w)) \/ Crash

Spec == Init /\ [][Next]_vars

-----------------------------------------------------------------------------
(* Properties                                                               *)

\* No second door to Active: a version is Approved or beyond only if some request for
\* it was analysed or simulated and approved by somebody other than its requester,
\* whatever was withdrawn, returned, edited or interrupted on the way (activate and
\* set_status, together).
LiveWasApproved ==
    \A v \in Versions : ver[v] \in {"Approved", "Active", "Superseded"} =>
        \E r \in Requests :
            /\ req[r].v = v /\ req[r].impact
            /\ req[r].decider \notin {"none", req[r].requester}
            /\ req[r].status \in {"Approved", "Active", "Withdrawn"}

\* Activating a version leaves no other Active version aimed at the same population,
\* even when an earlier activation was cut short (set_status).
ActivationDisplaces ==
    [][\A v \in Versions : ver[v] # "Active" /\ ver'[v] = "Active" =>
          \A u \in Versions \ {v} :
              Signature(u) = Signature(v) => ver'[u] # "Active"]_vars
=============================================================================
