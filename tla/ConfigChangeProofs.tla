------------------------- MODULE ConfigChangeProofs -------------------------
(***************************************************************************)
(* Proofs about governed configuration, for any number of versions,        *)
(* populations, change requests and restarts: the documents and the tasks  *)
(* in flight have their types, and, when requests come one at a time, only *)
(* an approved version goes live and going live displaces the version it   *)
(* replaces.                                                               *)
(***************************************************************************)
EXTENDS ConfigChange, TLAPS

-----------------------------------------------------------------------------
(* Types                                                                    *)

VerTyped == ver \in [Versions -> VerStatus]
ScopeTyped == scope \in [Versions -> SUBSET Scopes]

\* A request that exists is for a version of the policy.
ReqTyped ==
    /\ req \in [Requests -> Request]
    /\ \A r \in Requests : req[r].status # "None" => req[r].v \in Versions
    /\ \A r \in Requests : req[r].status \in {"Approved", "Active"} => req[r].decider # "none"

DocsTyped == VerTyped /\ ScopeTyped /\ ReqTyped /\ crashes \in Nat

Activating == {"activate", "rivals", "supersede", "activate_write", "activate_request"}

\* What a task carries, against the requests q on file.
Fit(t, q) ==
    /\ t \in Task
    /\ t.pc \in {"save", "create", "set_status", "assign"} \cup Activating => t.v \in Versions
    /\ t.pc \in {"create", "analyse", "submit", "decide", "withdraw"} \cup Activating
         => t.r \in Requests
    /\ t.pc \in {"create", "decide"} => t.who \in People
    /\ t.pc = "decide" => t.st \in {"Approved", "Rejected", "Returned"}
    /\ t.pc = "set_status" => t.st \in VerStatus \ {"Approved", "Active"}
    /\ t.pc \in {"analyse", "submit", "withdraw"} => q[t.r].status # "None"
    /\ t.pc = "decide" => q[t.r].status # "None"
    /\ t.pc \in Activating => q[t.r].status # "None" /\ q[t.r].decider # "none"

Tasks ==
    /\ DOMAIN task = Workers /\ task = [w \in Workers |-> task[w]]
    /\ \A w \in Workers : Fit(task[w], req)

Typed == DocsTyped /\ Tasks

\* A request once there stays, and a decider once named stays named.
Grown ==
    \A r \in Requests :
        /\ req[r].status # "None" => req'[r].status # "None"
        /\ req[r].decider # "none" => req'[r].decider # "none"

LEMMA TypedIsTypeOK == Typed => TypeOK
<1> SUFFICES ASSUME Typed PROVE TypeOK
  OBVIOUS
<1>1. task \in [Workers -> Task]
  BY DEF Typed, Tasks, Fit
<1> QED
  BY <1>1 DEF Typed, DocsTyped, VerTyped, ScopeTyped, ReqTyped, TypeOK

LEMMA IdleFits == \A q : Fit(Idle, q)
  BY DEF Fit, Idle, Task, PCs, VerStatus, ReqStatus, Activating

\* Whatever a step does to the documents, the tasks that did not move still fit.
LEMMA Moved ==
    ASSUME Typed, DocsTyped', Grown, NEW w \in Workers, NEW t,
           task' = [task EXCEPT ![w] = t], Fit(t, req')
    PROVE  Typed'
<1>1. \A v \in Workers : Fit(task'[v], req')
  <2> SUFFICES ASSUME NEW v \in Workers PROVE Fit(task'[v], req')
    OBVIOUS
  <2>1. CASE v = w
    BY <2>1 DEF Typed, Tasks
  <2>2. CASE v # w
    <3>1. task'[v] = task[v] /\ Fit(task[v], req)
      BY <2>2 DEF Typed, Tasks
    <3> QED
      BY <3>1 DEF Fit, Grown, Activating
  <2> QED
    BY <2>1, <2>2
<1>2. DOMAIN task' = Workers /\ task' = [v \in Workers |-> task'[v]]
  BY DEF Typed, Tasks
<1> QED
  BY <1>1, <1>2 DEF Typed, Tasks

LEMMA KeptDocs ==
    ASSUME Typed
    PROVE  /\ ver' = ver => VerTyped'
           /\ scope' = scope => ScopeTyped'
           /\ req' = req => ReqTyped' /\ Grown
           /\ crashes' = crashes => crashes' \in Nat
  BY DEF Typed, DocsTyped, VerTyped, ScopeTyped, ReqTyped, Grown

LEMMA RequestTyped ==
    ASSUME Typed, NEW r \in Requests
    PROVE  /\ req \in [Requests -> Request] /\ req[r] \in Request
           /\ req[r].status # "None" => req[r].v \in Versions
           /\ req[r].status \in {"Approved", "Active"} => req[r].decider # "none"
  BY DEF Typed, DocsTyped, ReqTyped

LEMMA Carried == ASSUME Typed, NEW w \in Workers PROVE Fit(task[w], req) /\ task[w] \in Task
  BY DEF Typed, Tasks, Fit

LEMMA BeginTyped ==
    ASSUME Typed, NEW w \in Workers, NEW op, NEW t, Begin(w, op, t), Fit(t, req) PROVE Typed'
<1>1. /\ ver' = ver /\ scope' = scope /\ req' = req /\ crashes' = crashes
      /\ task' = [task EXCEPT ![w] = t]
  BY DEF Begin, ReadOnly
<1> QED
  BY <1>1, KeptDocs, Moved DEF DocsTyped

\* Requests that begin.
Starting(w) ==
    \/ StartSave(w) \/ StartSetStatus(w) \/ StartAssign(w) \/ StartCreate(w) \/ StartAnalyse(w)
    \/ StartSubmit(w) \/ StartDecide(w) \/ StartWithdraw(w) \/ StartActivate(w)

LEMMA StartingTyped ==
    ASSUME Typed, NEW w \in Workers, Starting(w) PROVE Typed'
<1>1. CASE StartSave(w)
  <2>1. PICK v \in Versions : Begin(w, "save", [Idle EXCEPT !.pc = "save", !.v = v])
    BY <1>1 DEF StartSave
  <2>2. Fit([Idle EXCEPT !.pc = "save", !.v = v], req)
    BY DEF Fit, Idle, Task, PCs, VerStatus, ReqStatus, Activating
  <2> QED
    BY <2>1, <2>2, BeginTyped
<1>2. CASE StartSetStatus(w)
  <2>1. PICK v \in Versions, st \in VerStatus \ {"Approved", "Active"} :
           Begin(w, "set-status", [Idle EXCEPT !.pc = "set_status", !.v = v, !.st = st])
    BY <1>2 DEF StartSetStatus
  <2>2. Fit([Idle EXCEPT !.pc = "set_status", !.v = v, !.st = st], req)
    BY DEF Fit, Idle, Task, PCs, VerStatus, ReqStatus, Activating
  <2> QED
    BY <2>1, <2>2, BeginTyped
<1>3. CASE StartAssign(w)
  <2>1. PICK v \in Versions, s \in Scopes :
           Begin(w, "assign", [Idle EXCEPT !.pc = "assign", !.v = v,
                    !.s = IF s \in scope[v] THEN scope[v] \ {s} ELSE scope[v] \cup {s}])
    BY <1>3 DEF StartAssign
  <2> DEFINE ss == IF s \in scope[v] THEN scope[v] \ {s} ELSE scope[v] \cup {s}
  <2>2. ss \in SUBSET Scopes
    BY DEF Typed, DocsTyped, ScopeTyped
  <2> HIDE DEF ss
  <2>3. Fit([Idle EXCEPT !.pc = "assign", !.v = v, !.s = ss], req)
    BY <2>2 DEF Fit, Idle, Task, PCs, VerStatus, ReqStatus, Activating
  <2>4. Begin(w, "assign", [Idle EXCEPT !.pc = "assign", !.v = v, !.s = ss])
    BY <2>1, Zenon DEF ss
  <2> QED
    BY <2>3, <2>4, BeginTyped
<1>4. CASE StartCreate(w)
  <2>1. PICK r \in Requests, v \in Versions, who \in People :
           Begin(w, "create", [Idle EXCEPT !.pc = "create", !.r = r, !.v = v, !.who = who])
    BY <1>4 DEF StartCreate
  <2>2. Fit([Idle EXCEPT !.pc = "create", !.r = r, !.v = v, !.who = who], req)
    BY DEF Fit, Idle, Task, PCs, VerStatus, ReqStatus, Activating
  <2> QED
    BY <2>1, <2>2, BeginTyped
<1>5. CASE StartAnalyse(w)
  <2>1. PICK r \in Requests :
           /\ req[r].status \in DrafterStatuses
           /\ Begin(w, "analyse", [Idle EXCEPT !.pc = "analyse", !.r = r])
    BY <1>5 DEF StartAnalyse
  <2>2. Fit([Idle EXCEPT !.pc = "analyse", !.r = r], req)
    BY <2>1 DEF Fit, Idle, Task, PCs, VerStatus, ReqStatus, Activating, DrafterStatuses
  <2> QED
    BY <2>1, <2>2, BeginTyped
<1>6. CASE StartSubmit(w)
  <2>1. PICK r \in Requests :
           /\ req[r].status \in Submittable
           /\ Begin(w, "submit", [Idle EXCEPT !.pc = "submit", !.r = r])
    BY <1>6 DEF StartSubmit
  <2>2. Fit([Idle EXCEPT !.pc = "submit", !.r = r], req)
    BY <2>1 DEF Fit, Idle, Task, PCs, VerStatus, ReqStatus, Activating, Submittable
  <2> QED
    BY <2>1, <2>2, BeginTyped
<1>7. CASE StartDecide(w)
  <2>1. PICK r \in Requests, who \in People, st \in {"Approved", "Rejected", "Returned"} :
           /\ req[r].status = "Pending"
           /\ Begin(w, "decide", [Idle EXCEPT !.pc = "decide", !.r = r, !.who = who, !.st = st])
    BY <1>7 DEF StartDecide
  <2>2. Fit([Idle EXCEPT !.pc = "decide", !.r = r, !.who = who, !.st = st], req)
    BY <2>1 DEF Fit, Idle, Task, PCs, VerStatus, ReqStatus, Activating
  <2> QED
    BY <2>1, <2>2, BeginTyped
<1>8. CASE StartWithdraw(w)
  <2>1. PICK r \in Requests :
           /\ req[r].status # "None"
           /\ Begin(w, "withdraw", [Idle EXCEPT !.pc = "withdraw", !.r = r])
    BY <1>8 DEF StartWithdraw
  <2>2. Fit([Idle EXCEPT !.pc = "withdraw", !.r = r], req)
    BY <2>1 DEF Fit, Idle, Task, PCs, VerStatus, ReqStatus, Activating
  <2> QED
    BY <2>1, <2>2, BeginTyped
<1>9. CASE StartActivate(w)
  <2>1. PICK r \in Requests :
           /\ req[r].status = "Approved"
           /\ Begin(w, "activate", [Idle EXCEPT !.pc = "activate", !.r = r, !.v = req[r].v])
    BY <1>9 DEF StartActivate
  <2>2. req[r].v \in Versions /\ req[r].decider # "none"
    BY <2>1, RequestTyped
  <2>3. Fit([Idle EXCEPT !.pc = "activate", !.r = r, !.v = req[r].v], req)
    BY <2>1, <2>2 DEF Fit, Idle, Task, PCs, VerStatus, ReqStatus, Activating
  <2> QED
    BY <2>1, <2>3, BeginTyped
<1> QED
  BY <1>1, <1>2, <1>3, <1>4, <1>5, <1>6, <1>7, <1>8, <1>9 DEF Starting

LEMMA FinishTyped ==
    ASSUME Typed, DocsTyped', Grown, NEW w \in Workers, Finish(w) PROVE Typed'
  BY IdleFits, Moved DEF Finish

\* Steps that write one version and end.
LEMMA VersionTyped ==
    ASSUME Typed, NEW w \in Workers, Save(w) \/ SetStatus(w) PROVE Typed'
<1>1. VerTyped'
  <2>1. CASE Save(w)
    BY <2>1 DEF Save, Typed, DocsTyped, VerTyped, VerStatus
  <2>2. CASE SetStatus(w)
    <3>1. task[w].st \in VerStatus
      BY <2>2, Carried DEF SetStatus, At, Fit
    <3> QED
      BY <2>2, <3>1 DEF SetStatus, Typed, DocsTyped, VerTyped
  <2> QED
    BY <2>1, <2>2
<1>2. scope' = scope /\ req' = req /\ crashes' = crashes /\ Finish(w)
  BY DEF Save, SetStatus
<1> QED
  BY <1>1, <1>2, KeptDocs, FinishTyped DEF DocsTyped

LEMMA AssignTyped ==
    ASSUME Typed, NEW w \in Workers, Assign(w) PROVE Typed'
<1>1. ScopeTyped'
  BY Carried DEF Assign, Typed, DocsTyped, ScopeTyped, Task
<1>2. ver' = ver /\ req' = req /\ crashes' = crashes /\ Finish(w)
  BY DEF Assign
<1> QED
  BY <1>1, <1>2, KeptDocs, FinishTyped DEF DocsTyped

\* A request rewritten into one that exists, keeps its decider and has its version.
LEMMA Rewritten ==
    ASSUME Typed, NEW r \in Requests, NEW x \in Request, req' = [req EXCEPT ![r] = x],
           x.status # "None", x.v \in Versions, req[r].decider # "none" => x.decider # "none",
           x.status \in {"Approved", "Active"} => x.decider # "none"
    PROVE  ReqTyped' /\ Grown
  BY DEF Typed, DocsTyped, ReqTyped, Grown

\* Steps that write the request.
Writing(w) == Create(w) \/ Analyse(w) \/ Submit(w) \/ Decide(w) \/ Withdraw(w) \/ ActivateRequest(w)

LEMMA WritingGrows ==
    ASSUME Typed, NEW w \in Workers, Writing(w) PROVE ReqTyped' /\ Grown
<1> DEFINE r == task[w].r
<1>1. r \in Requests /\ req[r] \in Request /\ req \in [Requests -> Request]
  BY Carried, RequestTyped
     DEF Writing, Create, Analyse, Submit, Decide, Withdraw, ActivateRequest, At, Fit, Activating
<1>2. ~Create(w) => req[r].status # "None" /\ req[r].v \in Versions
  BY <1>1, Carried, RequestTyped
     DEF Writing, Analyse, Submit, Decide, Withdraw, ActivateRequest, At, Fit, Activating
<1>3. CASE Create(w)
  <2> DEFINE x == [req[r] EXCEPT !.status = "Draft", !.v = task[w].v, !.requester = task[w].who]
  <2>1. task[w].v \in Versions /\ task[w].who \in People
    BY <1>3, Carried DEF Create, At, Fit
  <2>2. x \in Request /\ x.status = "Draft" /\ x.v \in Versions /\ x.decider = req[r].decider
    BY <1>1, <2>1 DEF Request, ReqStatus
  <2>3. req' = [req EXCEPT ![r] = x]
    BY <1>1, <1>3 DEF Create, Request
  <2> HIDE DEF x, r
  <2> QED
    BY <1>1, <2>2, <2>3, Rewritten
<1>4. CASE Analyse(w)
  <2> DEFINE x == [req[r] EXCEPT !.status = "Analysed", !.impact = TRUE]
  <2>1. x \in Request /\ x.status = "Analysed" /\ x.v = req[r].v /\ x.decider = req[r].decider
    BY <1>1 DEF Request, ReqStatus
  <2>2. req' = [req EXCEPT ![r] = x]
    BY <1>1, <1>4 DEF Analyse, Request
  <2>3. ~Create(w)
    BY <1>4 DEF Analyse, Create, At
  <2> HIDE DEF x, r
  <2> QED
    BY <1>1, <1>2, <2>1, <2>2, <2>3, Rewritten
<1>5. CASE Decide(w)
  <2> DEFINE x == [req[r] EXCEPT !.status = task[w].st, !.decider = task[w].who]
  <2>1. task[w].st \in {"Approved", "Rejected", "Returned"} /\ task[w].who \in People
    BY <1>5, Carried DEF Decide, At, Fit
  <2>2. x \in Request /\ x.status = task[w].st /\ x.v = req[r].v /\ x.decider = task[w].who
    BY <1>1, <2>1 DEF Request, ReqStatus
  <2>3. req' = [req EXCEPT ![r] = x]
    BY <1>1, <1>5 DEF Decide, Request
  <2>4. ~Create(w) /\ task[w].who # "none"
    BY <1>5, <2>1, ConfigAssumption DEF Decide, Create, At
  <2> HIDE DEF x, r
  <2> QED
    BY <1>1, <1>2, <2>1, <2>2, <2>3, <2>4, Rewritten
<1>6. ASSUME NEW st \in {"Pending", "Withdrawn", "Active"}, ~Create(w),
             req' = [req EXCEPT ![r].status = st], st = "Active" => req[r].decider # "none"
      PROVE  ReqTyped' /\ Grown
  <2> DEFINE x == [req[r] EXCEPT !.status = st]
  <2>1. x \in Request /\ x.status = st /\ x.v = req[r].v /\ x.decider = req[r].decider
    BY <1>1 DEF Request, ReqStatus
  <2>2. req' = [req EXCEPT ![r] = x]
    BY <1>1, <1>6 DEF Request
  <2> HIDE DEF x, r
  <2> QED
    BY <1>1, <1>2, <1>6, <2>1, <2>2, Rewritten
<1>7. CASE Submit(w) \/ Withdraw(w)
  BY <1>6, <1>7 DEF Submit, Withdraw, Create, At
<1>8. CASE ActivateRequest(w)
  BY <1>6, <1>8, Carried DEF ActivateRequest, Create, At, Fit, Activating
<1> QED
  BY <1>3, <1>4, <1>5, <1>7, <1>8 DEF Writing

LEMMA WritingTyped ==
    ASSUME Typed, NEW w \in Workers, Writing(w) PROVE Typed'
<1>1. ver' = ver /\ scope' = scope /\ crashes' = crashes /\ Finish(w)
  BY DEF Writing, Create, Analyse, Submit, Decide, Withdraw, ActivateRequest
<1> QED
  BY <1>1, WritingGrows, KeptDocs, FinishTyped DEF DocsTyped

\* The activation up to the version.
LEMMA OnwardTyped ==
    ASSUME Typed, VerTyped', NEW w \in Workers, NEW pc \in Activating,
           NEW rivals \in SUBSET Versions, task[w].pc \in Activating,
           task' = [task EXCEPT ![w] = [task[w] EXCEPT !.pc = pc, !.rivals = rivals]],
           scope' = scope, req' = req, crashes' = crashes
    PROVE  Typed'
<1> DEFINE t == [task[w] EXCEPT !.pc = pc, !.rivals = rivals]
<1>1. t \in Task
  BY Carried DEF Task, PCs, Activating
<1>2. t.pc = pc /\ t.v = task[w].v /\ t.r = task[w].r
  BY Carried DEF Task
<1>3. Fit(t, req)
  <2> HIDE DEF t
  <2> QED
    BY <1>1, <1>2, Carried DEF Fit, Activating
<1> HIDE DEF t
<1> QED
  BY <1>3, KeptDocs, Moved DEF DocsTyped, t

LEMMA WalkTyped ==
    ASSUME Typed, NEW w \in Workers, Walk(w) PROVE Typed'
<1> DEFINE v == task[w].v
<1>1. scope' = scope /\ req' = req /\ crashes' = crashes /\ task[w].pc = "activate" /\ v \in Versions
  BY Carried DEF Walk, At, Fit, Activating
<1>2. VerTyped'
  BY DEF Walk, Typed, DocsTyped, VerTyped, VerStatus
<1>3. DocsTyped' /\ Grown
  BY <1>1, <1>2, KeptDocs DEF DocsTyped
<1>4. CASE task' = task
  BY <1>1, <1>3, <1>4 DEF Typed, Tasks
<1>5. CASE Finish(w)
  BY <1>3, <1>5, FinishTyped
<1>6. ASSUME NEW pc \in {"rivals", "activate_request"}, task' = [task EXCEPT ![w].pc = pc]
      PROVE  Typed'
  <2>1. task' = [task EXCEPT ![w] = [task[w] EXCEPT !.pc = pc, !.rivals = task[w].rivals]]
    BY <1>6, Carried DEF Task, Typed, Tasks
  <2>2. task[w].rivals \in SUBSET Versions /\ task[w].pc \in Activating /\ pc \in Activating
    BY <1>1, <1>6, Carried DEF Task, Activating
  <2> QED
    BY <1>1, <1>2, <2>1, <2>2, OnwardTyped
<1> QED
  BY <1>4, <1>5, <1>6 DEF Walk

LEMMA RivalsTyped ==
    ASSUME Typed, NEW w \in Workers, Rivals(w) PROVE Typed'
<1> DEFINE v == task[w].v
           rivals == {u \in Versions \ {v} : ver[u] = "Active" /\ Signature(u) = Signature(v)}
           pc == IF rivals = {} THEN "activate_write" ELSE "supersede"
<1>1. scope' = scope /\ req' = req /\ crashes' = crashes /\ ver' = ver /\ task[w].pc \in Activating
  BY DEF Rivals, At, ReadOnly, Activating
<1>2. rivals \in SUBSET Versions /\ pc \in Activating
  BY DEF Activating
<1>3. task' = [task EXCEPT ![w] = [task[w] EXCEPT !.pc = pc, !.rivals = rivals]]
  <2>1. task' = [task EXCEPT ![w].pc = pc, ![w].rivals = rivals]
    BY DEF Rivals
  <2> HIDE DEF pc, rivals
  <2> QED
    BY <2>1, Carried DEF Task, Typed, Tasks
<1> HIDE DEF pc, rivals
<1> QED
  BY <1>1, <1>2, <1>3, KeptDocs, OnwardTyped

LEMMA SupersedeTyped ==
    ASSUME Typed, NEW w \in Workers, Supersede(w) PROVE Typed'
<1>1. PICK u \in task[w].rivals :
         /\ ver' = [ver EXCEPT ![u] = "Superseded"]
         /\ task' = [task EXCEPT ![w].rivals = @ \ {u},
                       ![w].pc = IF task[w].rivals = {u} THEN "activate_write" ELSE "supersede"]
  BY DEF Supersede
<1> DEFINE rivals == task[w].rivals \ {u}
           pc == IF task[w].rivals = {u} THEN "activate_write" ELSE "supersede"
<1>2. scope' = scope /\ req' = req /\ crashes' = crashes /\ task[w].pc \in Activating
  BY DEF Supersede, At, Activating
<1>3. rivals \in SUBSET Versions /\ pc \in Activating
  BY Carried DEF Activating, Task
<1>4. task' = [task EXCEPT ![w] = [task[w] EXCEPT !.pc = pc, !.rivals = rivals]]
  BY <1>1, Carried DEF Task, Typed, Tasks
<1>5. VerTyped'
  BY <1>1 DEF Typed, DocsTyped, VerTyped, VerStatus
<1> HIDE DEF pc, rivals
<1> QED
  BY <1>2, <1>3, <1>4, <1>5, OnwardTyped

LEMMA ActivateWriteTyped ==
    ASSUME Typed, NEW w \in Workers, ActivateWrite(w) PROVE Typed'
<1>1. scope' = scope /\ req' = req /\ crashes' = crashes /\ task[w].pc \in Activating
  BY DEF ActivateWrite, At, Activating
<1>2. task' = [task EXCEPT ![w] = [task[w] EXCEPT !.pc = "activate_request",
                                                  !.rivals = task[w].rivals]]
  BY Carried DEF ActivateWrite, Task, Typed, Tasks
<1>3. VerTyped'
  BY DEF ActivateWrite, Typed, DocsTyped, VerTyped, VerStatus
<1>4. task[w].rivals \in SUBSET Versions /\ "activate_request" \in Activating
  BY Carried DEF Task, Activating
<1> QED
  BY <1>1, <1>2, <1>3, <1>4, OnwardTyped

LEMMA InitTyped == Init => Typed
<1> SUFFICES ASSUME Init PROVE Typed
  OBVIOUS
<1>1. DocsTyped
  BY DEF Init, DocsTyped, VerTyped, ScopeTyped, ReqTyped, VerStatus, Request, ReqStatus
<1>2. Tasks
  BY IdleFits DEF Init, Tasks
<1> QED
  BY <1>1, <1>2 DEF Typed

LEMMA NextTyped == Typed /\ [Next]_vars => Typed'
<1> SUFFICES ASSUME Typed, [Next]_vars PROVE Typed'
  OBVIOUS
<1>1. ASSUME NEW w \in Workers, Step(w) PROVE Typed'
  BY <1>1, StartingTyped, VersionTyped, AssignTyped, WritingTyped, WalkTyped, RivalsTyped,
     SupersedeTyped, ActivateWriteTyped
     DEF Step, Starting, Writing
<1>2. CASE Crash
  <2>1. DocsTyped'
    BY <1>2 DEF Crash, Typed, DocsTyped, VerTyped, ScopeTyped, ReqTyped
  <2>2. Tasks'
    BY <1>2, IdleFits DEF Crash, Tasks
  <2> QED
    BY <2>1, <2>2 DEF Typed
<1>3. CASE UNCHANGED vars
  BY <1>3, KeptDocs DEF vars, Typed, DocsTyped, Tasks
<1> QED
  BY <1>1, <1>2, <1>3 DEF Next

\* However many requests are in flight and wherever a restart falls, the documents and the
\* tasks keep their types: an approved or activated request names who decided it.
THEOREM TypeCorrect == Spec => []TypeOK
<1> QED
  BY InitTyped, NextTyped, TypedIsTypeOK, PTL DEF Spec

-----------------------------------------------------------------------------
(* Only what was approved goes live                                          *)

\* Requests come one at a time; a restart may fall between any two of their writes.
OneRequest == \A v, w \in Workers : v = w

\* The request r carries the version v, analysed and approved by another.
Carries(r, v) ==
    /\ req[r].v = v /\ req[r].impact
    /\ req[r].decider \notin {"none", req[r].requester}
    /\ req[r].status \in {"Approved", "Active", "Withdrawn"}

Vouched(v) == \E r \in Requests : Carries(r, v)

\* Past the analysis there was one, and past the approval the approver is another.
Reviewed ==
    \A r \in Requests :
        /\ req[r].status \in {"Analysed", "Pending", "Approved", "Active", "Returned"} => req[r].impact
        /\ req[r].status \in {"Approved", "Active"} => req[r].decider # req[r].requester

\* What a task read as it began still stands when it writes, and an activation knows the
\* Active versions in its way.
Stands(t) ==
    /\ t.pc = "create" => req[t.r].status = "None"
    /\ t.pc = "analyse" => req[t.r].status \in DrafterStatuses
    /\ t.pc = "submit" => req[t.r].status \in Submittable
    /\ t.pc = "decide" => req[t.r].status = "Pending" /\ req[t.r].requester # t.who
    /\ t.pc = "withdraw" => req[t.r].status \notin {"None", "Active", "Withdrawn"}
    /\ t.pc = "save" => ver[t.v] = "None"
    /\ t.pc = "set_status" => t.st \in Follows[ver[t.v]]
    /\ t.pc \in Activating => req[t.r].status = "Approved" /\ req[t.r].v = t.v
    /\ t.pc = "supersede" => \A u \in t.rivals : ver[u] = "Active"

InTheWay(t) ==
    t.pc \in {"supersede", "activate_write"} =>
        \A u \in Versions \ {t.v} :
            ver[u] = "Active" /\ Signature(u) = Signature(t.v) => t.pc = "supersede" /\ u \in t.rivals

Reads == \A w \in Workers : Stands(task[w]) /\ InTheWay(task[w])

Live == {"Approved", "Active", "Superseded"}

LiveVouched == \A v \in Versions : ver[v] \in Live => Vouched(v)

Governed == Reviewed /\ Reads /\ LiveVouched

LEMMA GovernedIsProperty == Governed => LiveWasApproved
  BY DEF Governed, LiveVouched, Vouched, Carries, LiveWasApproved, Live

LEMMA OneReads ==
    ASSUME OneRequest, NEW w \in Workers, Stands(task[w])', InTheWay(task[w])' PROVE Reads'
  BY DEF OneRequest, Reads

LEMMA Moves ==
    ASSUME Typed, NEW w \in Workers, NEW t, task' = [task EXCEPT ![w] = t] PROVE task'[w] = t
  BY DEF Typed, Tasks

\* A request that has ended, or is about to do something else, owes nothing.
LEMMA IdleReads ==
    ASSUME OneRequest, Typed, NEW w \in Workers, Finish(w) PROVE Reads'
<1>1. task'[w] = Idle
  BY Moves DEF Finish
<1>2. task'[w].pc = "idle"
  BY <1>1 DEF Idle
<1> QED
  BY <1>2, OneReads DEF Stands, InTheWay, Activating

\* Nothing on file changes when a request begins.
LEMMA BeginGoverned ==
    ASSUME OneRequest, Typed, Governed, NEW w \in Workers, NEW op, NEW t, Begin(w, op, t),
           Stands(t), t.pc \notin {"supersede", "activate_write"}
    PROVE  Governed'
<1>1. ver' = ver /\ scope' = scope /\ req' = req /\ task'[w] = t
  BY Moves DEF Begin, ReadOnly
<1>2. Stands(task[w])'
  BY <1>1 DEF Stands
<1>3. InTheWay(task[w])'
  BY <1>1 DEF InTheWay
<1>4. Reads'
  BY <1>2, <1>3, OneReads
<1> QED
  BY <1>1, <1>4 DEF Governed, Reviewed, LiveVouched, Vouched, Carries

LEMMA StartingGoverned ==
    ASSUME OneRequest, Typed, Governed, NEW w \in Workers, Starting(w) PROVE Governed'
<1> DEFINE Sound(t) == Stands(t) /\ t.pc \notin {"supersede", "activate_write"}
<1>1. ASSUME NEW op, NEW t, Begin(w, op, t), Sound(t) PROVE Governed'
  BY <1>1, BeginGoverned
<1>2. CASE StartSave(w)
  <2>1. PICK v \in Versions :
           ver[v] = "None" /\ Begin(w, "save", [Idle EXCEPT !.pc = "save", !.v = v])
    BY <1>2 DEF StartSave
  <2>2. Sound([Idle EXCEPT !.pc = "save", !.v = v])
    BY <2>1 DEF Stands, Idle, Activating
  <2> QED
    BY <1>1, <2>1, <2>2
<1>3. CASE StartSetStatus(w)
  <2>1. PICK v \in Versions, st \in VerStatus \ {"Approved", "Active"} :
           /\ st \in Follows[ver[v]]
           /\ Begin(w, "set-status", [Idle EXCEPT !.pc = "set_status", !.v = v, !.st = st])
    BY <1>3 DEF StartSetStatus
  <2>2. Sound([Idle EXCEPT !.pc = "set_status", !.v = v, !.st = st])
    BY <2>1 DEF Stands, Idle, Activating
  <2> QED
    BY <1>1, <2>1, <2>2
<1>4. CASE StartAssign(w)
  <2>1. PICK v \in Versions : \E ss :
           Begin(w, "assign", [Idle EXCEPT !.pc = "assign", !.v = v, !.s = ss])
    BY <1>4, Zenon DEF StartAssign
  <2> PICK ss : Begin(w, "assign", [Idle EXCEPT !.pc = "assign", !.v = v, !.s = ss])
    BY <2>1
  <2>2. Sound([Idle EXCEPT !.pc = "assign", !.v = v, !.s = ss])
    BY DEF Stands, Idle, Activating
  <2> QED
    BY <1>1, <2>2
<1>5. CASE StartCreate(w)
  <2>1. PICK r \in Requests, v \in Versions, who \in People :
           /\ req[r].status = "None"
           /\ Begin(w, "create", [Idle EXCEPT !.pc = "create", !.r = r, !.v = v, !.who = who])
    BY <1>5 DEF StartCreate
  <2>2. Sound([Idle EXCEPT !.pc = "create", !.r = r, !.v = v, !.who = who])
    BY <2>1 DEF Stands, Idle, Activating
  <2> QED
    BY <1>1, <2>1, <2>2
<1>6. CASE StartAnalyse(w)
  <2>1. PICK r \in Requests :
           /\ req[r].status \in DrafterStatuses
           /\ Begin(w, "analyse", [Idle EXCEPT !.pc = "analyse", !.r = r])
    BY <1>6 DEF StartAnalyse
  <2>2. Sound([Idle EXCEPT !.pc = "analyse", !.r = r])
    BY <2>1 DEF Stands, Idle, Activating
  <2> QED
    BY <1>1, <2>1, <2>2
<1>7. CASE StartSubmit(w)
  <2>1. PICK r \in Requests :
           /\ req[r].status \in Submittable
           /\ Begin(w, "submit", [Idle EXCEPT !.pc = "submit", !.r = r])
    BY <1>7 DEF StartSubmit
  <2>2. Sound([Idle EXCEPT !.pc = "submit", !.r = r])
    BY <2>1 DEF Stands, Idle, Activating
  <2> QED
    BY <1>1, <2>1, <2>2
<1>8. CASE StartDecide(w)
  <2>1. PICK r \in Requests, who \in People, st \in {"Approved", "Rejected", "Returned"} :
           /\ req[r].status = "Pending" /\ req[r].requester # who
           /\ Begin(w, "decide", [Idle EXCEPT !.pc = "decide", !.r = r, !.who = who, !.st = st])
    BY <1>8 DEF StartDecide
  <2>2. Sound([Idle EXCEPT !.pc = "decide", !.r = r, !.who = who, !.st = st])
    BY <2>1 DEF Stands, Idle, Activating
  <2> QED
    BY <1>1, <2>1, <2>2
<1>9. CASE StartWithdraw(w)
  <2>1. PICK r \in Requests :
           /\ req[r].status \notin {"None", "Active", "Withdrawn"}
           /\ Begin(w, "withdraw", [Idle EXCEPT !.pc = "withdraw", !.r = r])
    BY <1>9 DEF StartWithdraw
  <2>2. Sound([Idle EXCEPT !.pc = "withdraw", !.r = r])
    BY <2>1 DEF Stands, Idle, Activating
  <2> QED
    BY <1>1, <2>1, <2>2
<1>10. CASE StartActivate(w)
  <2>1. PICK r \in Requests :
           /\ req[r].status = "Approved"
           /\ Begin(w, "activate", [Idle EXCEPT !.pc = "activate", !.r = r, !.v = req[r].v])
    BY <1>10 DEF StartActivate
  <2>2. Sound([Idle EXCEPT !.pc = "activate", !.r = r, !.v = req[r].v])
    BY <2>1 DEF Stands, Idle, Activating
  <2> QED
    BY <1>1, <2>1, <2>2
<1> QED
  BY <1>2, <1>3, <1>4, <1>5, <1>6, <1>7, <1>8, <1>9, <1>10 DEF Starting

LEMMA Standing ==
    ASSUME Typed, Governed, NEW w \in Workers
    PROVE  /\ Fit(task[w], req) /\ Stands(task[w]) /\ InTheWay(task[w])
  BY Carried DEF Governed, Reads

\* Steps of versions outside an activation: nothing becomes Approved or Active, and only an
\* Active version becomes Superseded.
LEMMA VersionGoverned ==
    ASSUME OneRequest, Typed, Governed, NEW w \in Workers, Save(w) \/ SetStatus(w) PROVE Governed'
<1> DEFINE v == task[w].v
<1>1. req' = req /\ scope' = scope /\ Finish(w)
  BY DEF Save, SetStatus
<1>2. v \in Versions
  BY Standing DEF Save, SetStatus, At, Fit
<1>3. ver \in [Versions -> VerStatus]
  BY DEF Typed, DocsTyped, VerTyped
<1>4. LiveVouched'
  <2>1. ver'[v] \in Live => ver[v] \in Live
    <3>1. CASE Save(w)
      BY <1>2, <1>3, <3>1 DEF Save, Live
    <3>2. CASE SetStatus(w)
      <4>1. task[w].st \in Follows[ver[v]] /\ task[w].st \notin {"Approved", "Active"}
        BY <3>2, Standing DEF SetStatus, At, Stands, Fit
      <4>2. task[w].st = "Superseded" => ver[v] = "Active"
        BY <1>2, <1>3, <4>1 DEF Follows, VerStatus
      <4> QED
        BY <1>2, <1>3, <3>2, <4>1, <4>2 DEF SetStatus, Live
    <3> QED
      BY <3>1, <3>2
  <2>2. \A u \in Versions : u # v => ver'[u] = ver[u]
    BY <1>3 DEF Save, SetStatus
  <2> QED
    BY <1>1, <2>1, <2>2 DEF Governed, LiveVouched, Vouched, Carries
<1> QED
  BY <1>1, <1>4, IdleReads DEF Governed, Reviewed

LEMMA AssignGoverned ==
    ASSUME OneRequest, Typed, Governed, NEW w \in Workers, Assign(w) PROVE Governed'
<1>1. req' = req /\ ver' = ver /\ Finish(w)
  BY DEF Assign
<1> QED
  BY <1>1, IdleReads DEF Governed, Reviewed, LiveVouched, Vouched, Carries

\* A request that vouches for a version goes on doing so, and whoever writes one has read
\* what the review needs.
LEMMA RewriteGoverned ==
    ASSUME OneRequest, Typed, Governed, NEW w \in Workers, Finish(w), ver' = ver,
           NEW r \in Requests, \A q \in Requests : q # r => req'[q] = req[q],
           \A v \in Versions : Carries(r, v) => Carries(r, v)',
           req'[r].status \in {"Analysed", "Pending", "Approved", "Active", "Returned"}
             => req'[r].impact,
           req'[r].status \in {"Approved", "Active"} => req'[r].decider # req'[r].requester
    PROVE  Governed'
<1>1. Reviewed'
  BY DEF Governed, Reviewed
<1>2. LiveVouched'
  <2> SUFFICES ASSUME NEW v \in Versions, ver[v] \in Live PROVE Vouched(v)'
    BY DEF LiveVouched
  <2>1. PICK q \in Requests : Carries(q, v)
    BY DEF Governed, LiveVouched, Vouched
  <2>2. CASE q = r
    BY <2>1, <2>2 DEF Vouched
  <2>3. CASE q # r
    BY <2>1, <2>3 DEF Vouched, Carries
  <2> QED
    BY <2>2, <2>3
<1> QED
  BY <1>1, <1>2, IdleReads DEF Governed

LEMMA WritingGoverned ==
    ASSUME OneRequest, Typed, Governed, NEW w \in Workers, Writing(w) PROVE Governed'
<1>0. PICK r \in Requests : r = task[w].r
  BY Carried
     DEF Writing, Create, Analyse, Submit, Decide, Withdraw, ActivateRequest, At, Fit, Activating
<1>1. r = task[w].r /\ req[r] \in Request /\ req \in [Requests -> Request]
  BY <1>0, RequestTyped
<1>2. ver' = ver /\ Finish(w)
  BY DEF Writing, Create, Analyse, Submit, Decide, Withdraw, ActivateRequest
<1>3. \A q \in Requests : q # r => req'[q] = req[q]
  BY <1>1 DEF Writing, Create, Analyse, Submit, Decide, Withdraw, ActivateRequest
<1>4. /\ req[r].status \in {"Analysed", "Pending", "Approved", "Active", "Returned"} => req[r].impact
      /\ req[r].status \in {"Approved", "Active"} => req[r].decider # req[r].requester
  BY <1>1 DEF Governed, Reviewed
<1>5. CASE Create(w)
  <2>1. req[r].status = "None"
    BY <1>5, <1>1, Standing DEF Create, At, Stands
  <2>2. req'[r].status = "Draft" /\ \A v : ~Carries(r, v)
    BY <1>1, <1>5, <2>1 DEF Create, Carries, Request
  <2> QED
    BY <1>1, <1>2, <1>3, <2>2, RewriteGoverned
<1>6. CASE Analyse(w)
  <2>1. req[r].status \in DrafterStatuses
    BY <1>6, <1>1, Standing DEF Analyse, At, Stands
  <2>2. req'[r].status = "Analysed" /\ req'[r].impact /\ \A v : ~Carries(r, v)
    BY <1>1, <1>6, <2>1 DEF Analyse, Carries, Request, DrafterStatuses
  <2> QED
    BY <1>1, <1>2, <1>3, <2>2, RewriteGoverned
<1>7. CASE Submit(w)
  <2>1. req[r].status \in Submittable
    BY <1>7, <1>1, Standing DEF Submit, At, Stands
  <2>2. req'[r].status = "Pending" /\ req'[r].impact /\ \A v : ~Carries(r, v)
    BY <1>1, <1>4, <1>7, <2>1 DEF Submit, Carries, Request, Submittable
  <2> QED
    BY <1>1, <1>2, <1>3, <2>2, RewriteGoverned
<1>8. CASE Decide(w)
  <2>1. req[r].status = "Pending" /\ req[r].requester # task[w].who
    BY <1>8, <1>1, Standing DEF Decide, At, Stands
  <2>2. /\ req'[r].impact /\ req'[r].decider # req'[r].requester
        /\ \A v : ~Carries(r, v)
    BY <1>1, <1>4, <1>8, <2>1 DEF Decide, Carries, Request
  <2> QED
    BY <1>1, <1>2, <1>3, <2>2, RewriteGoverned
<1>9. CASE Withdraw(w)
  <2>1. req'[r] = [req[r] EXCEPT !.status = "Withdrawn"]
    BY <1>1, <1>9 DEF Withdraw
  <2>2. req'[r].status = "Withdrawn" /\ \A v \in Versions : Carries(r, v) => Carries(r, v)'
    BY <1>1, <2>1 DEF Carries, Request
  <2> QED
    BY <1>1, <1>2, <1>3, <2>2, RewriteGoverned
<1>10. CASE ActivateRequest(w)
  <2>1. req[r].status = "Approved"
    BY <1>10, <1>1, Standing DEF ActivateRequest, At, Stands, Activating
  <2>2. req'[r] = [req[r] EXCEPT !.status = "Active"]
    BY <1>1, <1>10 DEF ActivateRequest
  <2>3. /\ req'[r].impact /\ req'[r].decider # req'[r].requester
        /\ \A v \in Versions : Carries(r, v) => Carries(r, v)'
    BY <1>1, <1>4, <2>1, <2>2 DEF Carries, Request
  <2> QED
    BY <1>1, <1>2, <1>3, <2>3, RewriteGoverned
<1> QED
  BY <1>5, <1>6, <1>7, <1>8, <1>9, <1>10 DEF Writing

\* The version an activation is for is vouched for by its request.
LEMMA ActivatingVouched ==
    ASSUME Typed, Governed, NEW w \in Workers, task[w].pc \in Activating
    PROVE  task[w].v \in Versions /\ Vouched(task[w].v)
<1>1. task[w].r \in Requests /\ task[w].v \in Versions
      /\ req[task[w].r].status = "Approved" /\ req[task[w].r].v = task[w].v
  BY Standing DEF Fit, Stands, Activating
<1>2. req[task[w].r].decider # "none" /\ req[task[w].r].impact
      /\ req[task[w].r].decider # req[task[w].r].requester
  BY <1>1, RequestTyped DEF Governed, Reviewed
<1> QED
  BY <1>1, <1>2 DEF Vouched, Carries

\* A step of the activation, by what it does to the versions and what it then knows.
LEMMA OnwardGoverned ==
    ASSUME OneRequest, Typed, Governed, NEW w \in Workers, task[w].pc \in Activating,
           req' = req,
           \A u \in Versions : ver'[u] \in Live => ver[u] \in Live \/ u = task[w].v,
           task'[w].pc \in Activating, task'[w].r = task[w].r, task'[w].v = task[w].v,
           task'[w].pc = "supersede" => \A u \in task'[w].rivals : ver'[u] = "Active",
           InTheWay(task[w])'
    PROVE  Governed'
<1>1. Stands(task[w])'
  BY Standing DEF Stands, Activating
<1>2. LiveVouched'
  BY ActivatingVouched DEF Governed, LiveVouched, Vouched, Carries
<1> QED
  BY <1>1, <1>2, OneReads DEF Governed, Reviewed

LEMMA WalkGoverned ==
    ASSUME OneRequest, Typed, Governed, NEW w \in Workers, Walk(w) PROVE Governed'
<1> DEFINE v == task[w].v
<1>1. req' = req /\ scope' = scope /\ task[w].pc = "activate" /\ v \in Versions
      /\ ver \in [Versions -> VerStatus]
  BY Carried DEF Walk, At, Fit, Activating, Typed, DocsTyped, VerTyped
<1>2. \A u \in Versions : ver'[u] \in Live => ver[u] \in Live \/ u = v
  BY <1>1 DEF Walk
<1>3. CASE Finish(w)
  <2>1. ver' = ver
    <3>1. task' # task
      <4>1. task'[w] = Idle
        BY <1>3, Moves DEF Finish
      <4> QED
        BY <1>1, <4>1 DEF Idle
    <3> QED
      BY <3>1 DEF Walk
  <2> QED
    BY <1>1, <1>3, <2>1, IdleReads DEF Governed, Reviewed, LiveVouched, Vouched, Carries
<1>4. ASSUME task'[w].pc \in {"activate", "rivals", "activate_request"},
             task'[w].r = task[w].r, task'[w].v = v
      PROVE  Governed'
  <2>1. InTheWay(task[w])'
    BY <1>4 DEF InTheWay
  <2> QED
    BY <1>1, <1>2, <1>4, <2>1, OnwardGoverned DEF Activating
<1>5. CASE task' = task
  BY <1>1, <1>4, <1>5
<1>6. ASSUME NEW pc \in {"rivals", "activate_request"}, task' = [task EXCEPT ![w].pc = pc]
      PROVE  Governed'
  <2>1. task'[w] = [task[w] EXCEPT !.pc = pc]
    BY <1>6 DEF Typed, Tasks
  <2>2. task'[w].pc = pc /\ task'[w].r = task[w].r /\ task'[w].v = v
    BY <2>1, Carried DEF Task
  <2> QED
    BY <1>4, <1>6, <2>2
<1> QED
  BY <1>3, <1>5, <1>6 DEF Walk

LEMMA RivalsGoverned ==
    ASSUME OneRequest, Typed, Governed, NEW w \in Workers, Rivals(w) PROVE Governed'
<1> DEFINE v == task[w].v
           rivals == {u \in Versions \ {v} : ver[u] = "Active" /\ Signature(u) = Signature(v)}
           pc == IF rivals = {} THEN "activate_write" ELSE "supersede"
<1>1. req' = req /\ scope' = scope /\ ver' = ver /\ task[w].pc \in Activating
  BY DEF Rivals, At, ReadOnly, Activating
<1>2. task'[w] = [task[w] EXCEPT !.pc = pc, !.rivals = rivals]
  <2>1. task' = [task EXCEPT ![w].pc = pc, ![w].rivals = rivals]
    BY DEF Rivals
  <2> HIDE DEF pc, rivals
  <2> QED
    BY <2>1, Carried DEF Task, Typed, Tasks
<1>3. task'[w].pc = pc /\ task'[w].r = task[w].r /\ task'[w].v = v /\ task'[w].rivals = rivals
  <2> HIDE DEF pc, rivals
  <2> QED
    BY <1>2, Carried DEF Task
<1>4. InTheWay(task[w])'
  <2> SUFFICES ASSUME NEW u \in Versions \ {v}, ver[u] = "Active", Signature(u) = Signature(v)
               PROVE  pc = "supersede" /\ u \in rivals
    BY <1>1, <1>3 DEF InTheWay, Signature
  <2> QED
    OBVIOUS
<1>5. pc \in Activating /\ \A u \in rivals : ver[u] = "Active"
  BY DEF Activating
<1> HIDE DEF pc, rivals
<1> QED
  BY <1>1, <1>3, <1>4, <1>5, OnwardGoverned

LEMMA SupersedeGoverned ==
    ASSUME OneRequest, Typed, Governed, NEW w \in Workers, Supersede(w) PROVE Governed'
<1> DEFINE t == task[w]
<1>1. PICK u \in t.rivals :
         /\ ver' = [ver EXCEPT ![u] = "Superseded"]
         /\ task' = [task EXCEPT ![w].rivals = @ \ {u},
                       ![w].pc = IF task[w].rivals = {u} THEN "activate_write" ELSE "supersede"]
  BY DEF Supersede
<1> DEFINE pc == IF t.rivals = {u} THEN "activate_write" ELSE "supersede"
<1>2. task'[w].pc = pc /\ task'[w].r = t.r /\ task'[w].v = t.v /\ task'[w].rivals = t.rivals \ {u}
  <2>1. task' = [task EXCEPT ![w].rivals = @ \ {u}, ![w].pc = pc]
    BY <1>1
  <2> HIDE DEF pc
  <2> QED
    BY <2>1, Carried DEF Task, Typed, Tasks
<1>3. /\ req' = req /\ scope' = scope /\ t.pc = "supersede" /\ u \in Versions
      /\ ver \in [Versions -> VerStatus] /\ \A x \in t.rivals : x \in Versions /\ ver[x] = "Active"
  BY Standing, Carried DEF Supersede, At, Stands, Typed, DocsTyped, VerTyped, Task
<1>4. /\ \A x \in Versions : ver'[x] \in Live => ver[x] \in Live
      /\ \A x \in Versions : x # u => ver'[x] = ver[x]
      /\ ver'[u] = "Superseded"
  BY <1>1, <1>3 DEF Live
<1>5. InTheWay(task[w])'
  <2> SUFFICES ASSUME NEW x \in Versions \ {t.v}, ver'[x] = "Active", Signature(x) = Signature(t.v)
               PROVE  pc = "supersede" /\ x \in t.rivals \ {u}
    BY <1>2, <1>3 DEF InTheWay, Signature
  <2>1. x # u /\ ver[x] = "Active"
    BY <1>4
  <2>2. x \in t.rivals
    BY <1>3, <2>1, Standing DEF InTheWay
  <2> QED
    BY <2>1, <2>2
<1>6. pc \in Activating /\ t.pc \in Activating
  BY <1>3 DEF Activating
<1>7. \A x \in t.rivals \ {u} : ver'[x] = "Active"
  BY <1>3, <1>4
<1> HIDE DEF pc
<1> QED
  BY <1>2, <1>3, <1>4, <1>5, <1>6, <1>7, OnwardGoverned

LEMMA ActivateWriteGoverned ==
    ASSUME OneRequest, Typed, Governed, NEW w \in Workers, ActivateWrite(w) PROVE Governed'
<1>1. req' = req /\ task[w].pc \in Activating /\ ver \in [Versions -> VerStatus]
  BY DEF ActivateWrite, At, Activating, Typed, DocsTyped, VerTyped
<1>2. task'[w].pc = "activate_request" /\ task'[w].r = task[w].r /\ task'[w].v = task[w].v
  BY Carried DEF ActivateWrite, Task, Typed, Tasks
<1>3. \A u \in Versions : ver'[u] \in Live => ver[u] \in Live \/ u = task[w].v
  BY <1>1 DEF ActivateWrite
<1>4. InTheWay(task[w])' /\ task'[w].pc \in Activating
  BY <1>2 DEF InTheWay, Activating
<1> QED
  BY <1>1, <1>2, <1>3, <1>4, OnwardGoverned

LEMMA InitGoverned == Init => Governed
<1> SUFFICES ASSUME Init PROVE Governed
  OBVIOUS
<1>1. \A w \in Workers : task[w].pc = "idle"
  BY DEF Init, Idle
<1> QED
  BY <1>1 DEF Init, Governed, Reviewed, Reads, Stands, InTheWay, Activating, LiveVouched, Live

LEMMA NextGoverned == OneRequest /\ Typed /\ Governed /\ [Next]_vars => Governed'
<1> SUFFICES ASSUME OneRequest, Typed, Governed, [Next]_vars PROVE Governed'
  OBVIOUS
<1>1. ASSUME NEW w \in Workers, Step(w) PROVE Governed'
  BY <1>1, StartingGoverned, VersionGoverned, AssignGoverned, WritingGoverned, WalkGoverned,
     RivalsGoverned, SupersedeGoverned, ActivateWriteGoverned
     DEF Step, Starting, Writing
<1>2. CASE Crash
  <2>1. ver' = ver /\ req' = req /\ \A w \in Workers : task'[w].pc = "idle"
    BY <1>2 DEF Crash, Idle
  <2>2. Reads'
    BY <2>1 DEF Reads, Stands, InTheWay, Activating
  <2> QED
    BY <2>1, <2>2 DEF Governed, Reviewed, LiveVouched, Vouched, Carries
<1>3. CASE UNCHANGED vars
  <2>1. ver' = ver /\ scope' = scope /\ req' = req /\ task' = task
    BY <1>3 DEF vars
  <2>2. ASSUME NEW w \in Workers PROVE Stands(task[w])' /\ InTheWay(task[w])'
    <3>1. Stands(task[w]) /\ InTheWay(task[w])
      BY DEF Governed, Reads
    <3>2. Stands(task[w])'
      BY <2>1, <3>1 DEF Stands
    <3>3. InTheWay(task[w])'
      BY <2>1, <3>1 DEF InTheWay, Signature
    <3> QED
      BY <3>2, <3>3
  <2>3. Reviewed' /\ LiveVouched'
    BY <2>1 DEF Governed, Reviewed, LiveVouched, Vouched, Carries
  <2> QED
    BY <2>2, <2>3 DEF Governed, Reads
<1> QED
  BY <1>1, <1>2, <1>3 DEF Next

\* As long as requests come one at a time, no version is Approved, Active or Superseded
\* without a change request for it that was analysed and approved by another than its
\* requester, whatever was withdrawn or interrupted, for any number of versions and requests.
THEOREM OnlyApprovedLive == OneRequest => (Spec => []LiveWasApproved)
<1> SUFFICES ASSUME OneRequest PROVE Spec => []LiveWasApproved
  OBVIOUS
<1>1. Typed /\ Governed /\ [Next]_vars => Governed'
  BY NextGoverned
<1> QED
  BY InitTyped, NextTyped, InitGoverned, GovernedIsProperty, <1>1, PTL DEF Spec

\* The only step that makes a version Active is the activation's, which by then has
\* superseded every Active version aimed at the same population.
LEMMA NextDisplaces ==
    ASSUME Typed, Governed, [Next]_vars,
           NEW v \in Versions, ver[v] # "Active", ver'[v] = "Active",
           NEW u \in Versions \ {v}, Signature(u) = Signature(v)
    PROVE  ver'[u] # "Active"
<1>1. ver \in [Versions -> VerStatus]
  BY DEF Typed, DocsTyped, VerTyped
<1>2. PICK w \in Workers : Step(w)
  BY DEF Next, Crash, vars
<1>3. ASSUME ActivateWrite(w) PROVE ver'[u] # "Active"
  <2>1. v = task[w].v /\ task[w].pc = "activate_write" /\ ver'[u] = ver[u]
    BY <1>1, <1>3, Carried DEF ActivateWrite, At, Fit, Activating
  <2> QED
    BY <2>1, Standing DEF InTheWay
<1>4. ASSUME SetStatus(w) PROVE FALSE
  BY <1>1, <1>4, Carried DEF SetStatus, At, Fit
<1>5. ASSUME Save(w) \/ Walk(w) \/ Supersede(w) PROVE FALSE
  BY <1>1, <1>5 DEF Save, Walk, Supersede
<1>6. ASSUME Starting(w) PROVE ver' = ver
  BY <1>6 DEF Starting, StartSave, StartSetStatus, StartAssign, StartCreate, StartAnalyse,
              StartSubmit, StartDecide, StartWithdraw, StartActivate, Begin, ReadOnly
<1>7. ASSUME Assign(w) \/ Writing(w) \/ Rivals(w) PROVE ver' = ver
  BY <1>7 DEF Assign, Writing, Create, Analyse, Submit, Decide, Withdraw, ActivateRequest, Rivals,
              ReadOnly
<1> QED
  BY <1>2, <1>3, <1>4, <1>5, <1>6, <1>7 DEF Step, Starting, Writing

\* As long as requests come one at a time, going live leaves no other Active version aimed
\* at the same population, even after an activation that was cut short.
THEOREM LiveDisplaces == OneRequest => (Spec => ActivationDisplaces)
<1> SUFFICES ASSUME OneRequest PROVE Spec => ActivationDisplaces
  OBVIOUS
<1>1. Typed /\ Governed /\ [Next]_vars => Governed'
  BY NextGoverned
<1>2. Typed /\ Governed /\ [Next]_vars =>
        [\A v \in Versions : ver[v] # "Active" /\ ver'[v] = "Active" =>
            \A u \in Versions \ {v} : Signature(u) = Signature(v) => ver'[u] # "Active"]_vars
  BY NextDisplaces
<1> QED
  BY InitTyped, NextTyped, InitGoverned, <1>1, <1>2, PTL DEF Spec, ActivationDisplaces

=============================================================================
