-------------------------- MODULE LeadershipProofs --------------------------
(***************************************************************************)
(* Proofs about a cycle of leadership feedback, for any numbers of leaders,*)
(* givers, overlapping requests and restarts: the documents and requests   *)
(* have their types, an invitation yields one response at most, a          *)
(* submitted one is answered, frozen scores are whole and published ones   *)
(* stay.                                                                   *)
(***************************************************************************)
EXTENDS Leadership, FiniteSetTheorems, TLAPS

-----------------------------------------------------------------------------
(* Types                                                                    *)

ClockTyped == now \in Times /\ crashes \in Nat
ExcusedTyped == excused \in BOOLEAN
CycleTyped == status \in CycleStatus /\ opens \in Times /\ closes \in Times
EnrolledTyped == enrolled \subseteq Leaders
InvTyped == inv \in [Leaders -> [Givers -> {"none", "out", "submitted"}]]
MintedTyped == minted \in [Leaders -> Count]
RespTyped == resp \in [Leaders -> Count]
FrozenTyped == frozen \in [Leaders -> [Givers -> 0..(MaxMint + 1)]]
DocsTyped == /\ ClockTyped /\ ExcusedTyped /\ CycleTyped /\ EnrolledTyped /\ InvTyped /\ MintedTyped
             /\ RespTyped /\ FrozenTyped

\* What a request in flight carries.
Fit(t) ==
    /\ t \in Task
    /\ t.pc \in {"claim", "record", "release", "add_insert", "panel_create", "panel_drop",
                 "rm_links", "rm_subject", "snap_write"} => t.l \in Leaders
    /\ t.pc \in {"claim", "record", "release"} => t.g \in Givers

Tasks == DOMAIN task = Workers /\ task = [w \in Workers |-> task[w]] /\ \A w \in Workers : Fit(task[w])

Typed == DocsTyped /\ Tasks

LEMMA TypedIsTypeOK == Typed => TypeOK
<1> SUFFICES ASSUME Typed PROVE TypeOK
  OBVIOUS
<1>1. task \in [Workers -> Task]
  BY DEF Typed, Tasks, Fit
<1> QED
  BY <1>1, Zenon DEF TypeOK, Typed, DocsTyped, ClockTyped, ExcusedTyped, CycleTyped, EnrolledTyped, InvTyped,
     MintedTyped, RespTyped, FrozenTyped

LEMMA NoneIsCount == None \in Count
  BY LeadershipAssumption DEF None, Count

LEMMA NotFrozenTyped == NotFrozen \in [Givers -> 0..(MaxMint + 1)]
  BY LeadershipAssumption DEF NotFrozen

LEMMA IdleFits == Fit(Idle) /\ Idle.pc = "idle"
  BY LeadershipAssumption DEF Fit, Idle, Task, None, CycleStatus, Times, Never

\* A request that moves keeps the others where they are.
LEMMA Moved ==
    ASSUME Typed, DocsTyped', NEW w \in Workers, NEW t, task' = [task EXCEPT ![w] = t], Fit(t)
    PROVE  Typed'
  BY DEF Typed, Tasks

LEMMA MovedTo ==
    ASSUME Typed, DocsTyped', NEW w \in Workers, NEW pc, Goto(w, pc), Fit([task[w] EXCEPT !.pc = pc])
    PROVE  Typed'
<1>1. task' = [task EXCEPT ![w] = [task[w] EXCEPT !.pc = pc]]
  BY DEF Goto, Typed, Tasks
<1> QED
  BY <1>1, Moved

LEMMA Finished ==
    ASSUME Typed, DocsTyped', NEW w \in Workers, Finish(w) PROVE Typed'
  BY Moved, IdleFits DEF Finish

LEMMA DerivedTyped == ASSUME Typed PROVE Derived \in CycleStatus
  BY DEF Typed, DocsTyped, CycleTyped, Derived, CycleStatus, Manual

LEMMA SyncTyped == ASSUME Typed, Sync PROVE CycleTyped'
<1>1. opens' = opens /\ closes' = closes /\ status' \in CycleStatus
  BY DerivedTyped DEF Sync
<1> QED
  BY <1>1 DEF Typed, DocsTyped, CycleTyped

\* The documents a step leaves alone keep their types.
LEMMA Kept ==
    ASSUME Typed
    PROVE  /\ UNCHANGED <<now, crashes>> => ClockTyped'
           /\ UNCHANGED excused => ExcusedTyped'
           /\ UNCHANGED cycle => CycleTyped'
           /\ UNCHANGED enrolled => EnrolledTyped'
           /\ UNCHANGED inv => InvTyped'
           /\ UNCHANGED minted => MintedTyped'
           /\ UNCHANGED resp => RespTyped'
           /\ UNCHANGED frozen => FrozenTyped'
  BY DEF Typed, DocsTyped, ClockTyped, ExcusedTyped, CycleTyped, EnrolledTyped, InvTyped, MintedTyped,
     RespTyped, FrozenTyped, cycle

LEMMA BeginTyped ==
    ASSUME Typed, NEW w \in Workers, NEW t, Begin(w, t), CycleTyped', Fit(t)
    PROVE  Typed'
<1>1. DocsTyped'
  BY Kept DEF Begin, DocsTyped, panel
<1>2. task' = [task EXCEPT ![w] = t]
  BY DEF Begin
<1> QED
  BY <1>1, <1>2, Moved

LEMMA StartTyped ==
    ASSUME Typed, NEW w \in Workers,
           StartDelete(w) \/ StartAdd(w) \/ StartRemove(w) \/ StartPanel(w) \/ StartSubmit(w)
             \/ StartPatch(w)
    PROVE  Typed'
<1>1. CASE StartDelete(w)
  <2>1. Fit([Idle EXCEPT !.pc = "del_subjects"])
    BY IdleFits DEF Fit, Task, Idle
  <2> QED
    BY <1>1, <2>1, SyncTyped, BeginTyped DEF StartDelete
<1>2. CASE StartAdd(w)
  <2>1. PICK l \in Leaders \ enrolled :
            Sync /\ Begin(w, [Idle EXCEPT !.pc = "add_insert", !.l = l])
    BY <1>2 DEF StartAdd
  <2>2. Fit([Idle EXCEPT !.pc = "add_insert", !.l = l])
    BY IdleFits DEF Fit, Task, Idle
  <2> QED
    BY <2>1, <2>2, SyncTyped, BeginTyped
<1>3. CASE StartRemove(w)
  <2>1. PICK l \in Leaders :
            UNCHANGED cycle /\ Begin(w, [Idle EXCEPT !.pc = "rm_links", !.l = l])
    BY <1>3 DEF StartRemove
  <2>2. Fit([Idle EXCEPT !.pc = "rm_links", !.l = l])
    BY IdleFits DEF Fit, Task, Idle
  <2> QED
    BY <2>1, <2>2, Kept, BeginTyped
<1>4. CASE StartPanel(w)
  <2>1. PICK l \in enrolled, G \in SUBSET Givers :
            /\ Sync
            /\ Begin(w, [Idle EXCEPT !.pc = IF G = {} THEN "panel_drop" ELSE "panel_create",
                                     !.l = l, !.givers = G, !.wanted = G])
    BY <1>4 DEF StartPanel
  <2>2. l \in Leaders
    BY DEF Typed, DocsTyped, EnrolledTyped
  <2>3. Fit([Idle EXCEPT !.pc = IF G = {} THEN "panel_drop" ELSE "panel_create",
                         !.l = l, !.givers = G, !.wanted = G])
    BY <2>2, IdleFits DEF Fit, Task, Idle
  <2> QED
    BY <2>1, <2>3, SyncTyped, BeginTyped
<1>5. CASE StartSubmit(w)
  <2>1. PICK l \in Leaders, g \in Givers :
            /\ IF status = "none" THEN UNCHANGED cycle ELSE Sync
            /\ Begin(w, [Idle EXCEPT !.pc = "claim", !.l = l, !.g = g, !.no = minted[l][g]])
    BY <1>5 DEF StartSubmit
  <2>2. Fit([Idle EXCEPT !.pc = "claim", !.l = l, !.g = g, !.no = minted[l][g]])
    <3>1. minted[l][g] \in 0..MaxMint
      BY DEF Typed, DocsTyped, MintedTyped, Count
    <3> QED
      BY <3>1, IdleFits DEF Fit, Task, Idle
  <2>3. CycleTyped'
    BY <2>1, SyncTyped, Kept
  <2> QED
    BY <2>1, <2>2, <2>3, BeginTyped
<1>6. CASE StartPatch(w)
  <2>1. CycleTyped'
    BY <1>6, SyncTyped DEF StartPatch
  <2>2. PICK to \in CycleStatus, at \in Times \cup {Never} :
            Begin(w, [Idle EXCEPT !.pc = "upd_write", !.to = to, !.at = at])
    BY <1>6 DEF StartPatch
  <2>3. Fit([Idle EXCEPT !.pc = "upd_write", !.to = to, !.at = at])
    BY IdleFits DEF Fit, Task, Idle
  <2> QED
    BY <2>1, <2>2, <2>3, BeginTyped
<1> QED
  BY <1>1, <1>2, <1>3, <1>4, <1>5, <1>6

\* The steps that end a request or send it on, whatever they write.
LEMMA CycleStepTyped ==
    ASSUME Typed, NEW w \in Workers,
           DeleteSubjects(w) \/ DeleteLinks(w) \/ DeleteScores(w) \/ DeleteCycle(w) \/ UpdWrite(w)
    PROVE  Typed'
<1>1. CASE DeleteSubjects(w) \/ DeleteLinks(w) \/ DeleteScores(w)
  <2>1. EnrolledTyped' /\ InvTyped' /\ FrozenTyped'
    <3>1. CASE DeleteSubjects(w)
      BY <3>1, Kept DEF DeleteSubjects, EnrolledTyped
    <3>2. CASE DeleteLinks(w)
      BY <3>2, Kept DEF DeleteLinks, InvTyped
    <3>3. CASE DeleteScores(w)
      BY <3>3, Kept, NotFrozenTyped DEF DeleteScores, FrozenTyped, panel
    <3> QED
      BY <1>1, <3>1, <3>2, <3>3
  <2>2. DocsTyped'
    BY <1>1, <2>1, Kept DEF DeleteSubjects, DeleteLinks, DeleteScores, DocsTyped, panel
  <2>3. \A pc \in {"del_links", "del_scores", "del_cycle"} : Fit([task[w] EXCEPT !.pc = pc])
    <3>1. Fit(task[w])
      BY DEF Typed, Tasks
    <3> QED
      BY <3>1 DEF Fit, Task
  <2>4. \E pc \in {"del_links", "del_scores", "del_cycle"} : Goto(w, pc)
    BY <1>1 DEF DeleteSubjects, DeleteLinks, DeleteScores
  <2> QED
    BY <2>2, <2>3, <2>4, MovedTo
<1>2. CASE DeleteCycle(w)
  <2>1. CycleTyped'
    BY <1>2 DEF DeleteCycle, CycleTyped, CycleStatus, Typed, DocsTyped
  <2>2. DocsTyped'
    BY <1>2, <2>1, Kept DEF DeleteCycle, DocsTyped, panel
  <2> QED
    BY <1>2, <2>2, Finished DEF DeleteCycle
<1>3. CASE UpdWrite(w)
  <2>1. Fit(task[w])
    BY DEF Typed, Tasks
  <2>2. CycleTyped'
    BY <1>3, <2>1 DEF UpdWrite, cycle, CycleTyped, Typed, DocsTyped, Fit, Task, Never
  <2>3. DocsTyped'
    <3>1. excused' = excused \/ excused' = (excused \/ Overtaken(task[w]) \/ KeepsOpen(task[w]) \/ Underneath(w))
      BY <1>3 DEF UpdWrite
    <3>2. ExcusedTyped'
      BY <3>1, Zenon DEF ExcusedTyped, Typed, DocsTyped
    <3> QED
      BY <1>3, <2>2, <3>2, Kept DEF UpdWrite, DocsTyped, panel
  <2>4. Fit([task[w] EXCEPT !.pc = "snap_list"])
    BY <2>1 DEF Fit, Task
  <2> QED
    BY <1>3, <2>3, <2>4, MovedTo, Finished DEF UpdWrite
<1> QED
  BY <1>1, <1>2, <1>3

LEMMA EnrolStepTyped ==
    ASSUME Typed, NEW w \in Workers, AddInsert(w) \/ RemoveLinks(w) \/ RemoveSubject(w)
    PROVE  Typed'
<1>1. Fit(task[w])
  BY DEF Typed, Tasks
<1>2. CASE AddInsert(w)
  <2>1. EnrolledTyped'
    BY <1>1, <1>2 DEF AddInsert, At, Fit, EnrolledTyped, Typed, DocsTyped
  <2>2. DocsTyped'
    BY <1>2, <2>1, Kept DEF AddInsert, DocsTyped
  <2> QED
    BY <1>2, <2>2, Finished DEF AddInsert
<1>3. CASE RemoveLinks(w)
  <2>1. InvTyped'
    BY <1>1, <1>3 DEF RemoveLinks, At, Fit, InvTyped, Typed, DocsTyped
  <2>2. DocsTyped'
    BY <1>3, <2>1, Kept DEF RemoveLinks, DocsTyped
  <2>3. Fit([task[w] EXCEPT !.pc = "rm_subject"])
    BY <1>1, <1>3 DEF Fit, Task, RemoveLinks, At
  <2> QED
    BY <1>3, <2>2, <2>3, MovedTo DEF RemoveLinks
<1>4. CASE RemoveSubject(w)
  <2>1. EnrolledTyped'
    BY <1>4 DEF RemoveSubject, EnrolledTyped, Typed, DocsTyped
  <2>2. DocsTyped'
    BY <1>4, <2>1, Kept DEF RemoveSubject, DocsTyped
  <2> QED
    BY <1>4, <2>2, Finished DEF RemoveSubject
<1> QED
  BY <1>2, <1>3, <1>4

LEMMA PanelStepTyped ==
    ASSUME Typed, NEW w \in Workers, PanelCreate(w) \/ PanelDrop(w) PROVE Typed'
<1>1. Fit(task[w])
  BY DEF Typed, Tasks
<1>2. CASE PanelCreate(w)
  <2> DEFINE t == task[w]
  <2>1. PICK g \in t.givers :
          /\ IF inv[t.l][g] = "none"
             THEN /\ minted[t.l][g] < MaxMint
                  /\ inv' = [inv EXCEPT ![t.l][g] = "out"]
                  /\ minted' = [minted EXCEPT ![t.l][g] = minted[t.l][g] + 1]
             ELSE UNCHANGED <<inv, minted>>
          /\ task' = [task EXCEPT ![w].givers = t.givers \ {g},
                                  ![w].pc = IF t.givers = {g} THEN "panel_drop" ELSE "panel_create"]
    BY <1>2 DEF PanelCreate
  <2>2. t.l \in Leaders /\ g \in Givers /\ t \in Task
    BY <1>1, <1>2 DEF PanelCreate, At, Fit, Task
  <2>3. InvTyped'
    BY <2>1, <2>2, Kept DEF InvTyped, Typed, DocsTyped
  <2>4. MintedTyped'
    BY <2>1, <2>2, Kept, LeadershipAssumption DEF MintedTyped, Count, Typed, DocsTyped
  <2>5. DocsTyped'
    BY <1>2, <2>3, <2>4, Kept DEF PanelCreate, DocsTyped
  <2> DEFINE pc == IF t.givers = {g} THEN "panel_drop" ELSE "panel_create"
  <2> DEFINE u == [t EXCEPT !.givers = t.givers \ {g}, !.pc = pc]
  <2>6. task' = [task EXCEPT ![w] = u]
    BY <2>1 DEF Typed, Tasks
  <2>7. Fit(u)
    BY <2>2, <1>1 DEF Fit, Task
  <2> QED
    BY <2>5, <2>6, <2>7, Moved
<1>3. CASE PanelDrop(w)
  <2>1. InvTyped'
    <3>1. task[w].l \in Leaders
      BY <1>1, <1>3 DEF PanelDrop, At, Fit
    <3>2. UNCHANGED inv \/ \E g \in Givers : inv' = [inv EXCEPT ![task[w].l][g] = "none"]
      BY <1>3 DEF PanelDrop
    <3>3. CASE UNCHANGED inv
      BY <3>3, Kept
    <3>4. ASSUME NEW g \in Givers, inv' = [inv EXCEPT ![task[w].l][g] = "none"] PROVE InvTyped'
      BY <3>1, <3>4 DEF InvTyped, Typed, DocsTyped
    <3> QED
      BY <3>2, <3>3, <3>4
  <2>2. DocsTyped'
    BY <1>3, <2>1, Kept DEF PanelDrop, DocsTyped
  <2>3. CASE Finish(w)
    BY <2>2, <2>3, Finished
  <2>4. CASE UNCHANGED task
    BY <2>2, <2>4 DEF Typed, Tasks
  <2> QED
    BY <1>3, <2>3, <2>4 DEF PanelDrop
<1> QED
  BY <1>2, <1>3

LEMMA SubmitStepTyped ==
    ASSUME Typed, NEW w \in Workers, Claim(w) \/ Record(w) \/ Release(w) PROVE Typed'
<1>1. Fit(task[w])
  BY DEF Typed, Tasks
<1>2. CASE Claim(w)
  <2>1. task[w].l \in Leaders /\ task[w].g \in Givers
    BY <1>1, <1>2 DEF Claim, At, Fit
  <2>2. InvTyped'
    BY <1>2, <2>1, Kept DEF Claim, InvTyped, Typed, DocsTyped
  <2>3. DocsTyped'
    BY <1>2, <2>2, Kept DEF Claim, DocsTyped
  <2>4. Fit([task[w] EXCEPT !.pc = "record"])
    BY <1>1, <2>1 DEF Fit, Task
  <2> QED
    BY <1>2, <2>3, <2>4, MovedTo, Finished DEF Claim
<1>3. CASE Record(w)
  <2>1. task[w].l \in Leaders /\ task[w].g \in Givers
    BY <1>1, <1>3 DEF Record, At, Fit
  <2>2. RespTyped'
    BY <1>3, <2>1, Kept, LeadershipAssumption DEF Record, RespTyped, Count, Typed, DocsTyped
  <2>3. DocsTyped'
    BY <1>3, <2>2, Kept DEF Record, DocsTyped, panel
  <2>4. Fit([task[w] EXCEPT !.pc = "release"])
    BY <1>1, <2>1 DEF Fit, Task
  <2> QED
    BY <1>3, <2>3, <2>4, MovedTo, Finished DEF Record
<1>4. CASE Release(w)
  <2>1. task[w].l \in Leaders /\ task[w].g \in Givers
    BY <1>1, <1>4 DEF Release, At, Fit
  <2>2. InvTyped'
    BY <1>4, <2>1, Kept DEF Release, InvTyped, Typed, DocsTyped
  <2>3. DocsTyped'
    BY <1>4, <2>2, Kept DEF Release, DocsTyped
  <2> QED
    BY <1>4, <2>3, Finished DEF Release
<1> QED
  BY <1>2, <1>3, <1>4

LEMMA SnapStepTyped ==
    ASSUME Typed, NEW w \in Workers, SnapList(w) \/ SnapRead(w) \/ SnapWrite(w) PROVE Typed'
<1>1. Fit(task[w])
  BY DEF Typed, Tasks
<1>2. CASE SnapList(w)
  <2>1. CycleTyped'
    BY <1>2, SyncTyped, Kept DEF SnapList
  <2>2. DocsTyped'
    BY <1>2, <2>1, Kept DEF SnapList, DocsTyped, panel
  <2> DEFINE u == [task[w] EXCEPT !.leaders = enrolled, !.pc = "snap_read"]
  <2>3. task' = [task EXCEPT ![w] = u]
    BY <1>2 DEF SnapList, Typed, Tasks
  <2>4. Fit(u)
    BY <1>1 DEF Fit, Task, Typed, DocsTyped, EnrolledTyped
  <2> QED
    BY <2>2, <2>3, <2>4, Moved
<1>3. CASE SnapRead(w)
  <2>1. DocsTyped'
    BY <1>3, Kept DEF SnapRead, DocsTyped, panel
  <2>2. CASE Finish(w)
    BY <2>1, <2>2, Finished
  <2>3. ASSUME NEW l \in task[w].leaders,
               task' = [task EXCEPT ![w].l = l, ![w].saw = resp[l],
                                    ![w].leaders = task[w].leaders \ {l}, ![w].pc = "snap_write"]
        PROVE  Typed'
    <3> DEFINE u == [task[w] EXCEPT !.l = l, !.saw = resp[l], !.leaders = task[w].leaders \ {l},
                                    !.pc = "snap_write"]
    <3>1. task' = [task EXCEPT ![w] = u]
      BY <2>3 DEF Typed, Tasks
    <3>2. l \in Leaders
      BY <1>1 DEF Fit, Task
    <3>3. resp[l] \in [Givers -> 0..(MaxMint + 1)]
      BY <3>2, LeadershipAssumption DEF Typed, DocsTyped, RespTyped, Count
    <3>4. Fit(u)
      BY <1>1, <3>2, <3>3 DEF Fit, Task
    <3> QED
      BY <2>1, <3>1, <3>4, Moved
  <2> QED
    BY <1>3, <2>2, <2>3 DEF SnapRead
<1>4. CASE SnapWrite(w)
  <2>1. FrozenTyped'
    BY <1>1, <1>4 DEF SnapWrite, At, Fit, Task, FrozenTyped, Typed, DocsTyped
  <2>2. DocsTyped'
    BY <1>4, <2>1, Kept DEF SnapWrite, DocsTyped, panel
  <2>3. Fit([task[w] EXCEPT !.pc = "snap_read"])
    BY <1>1 DEF Fit, Task
  <2> QED
    BY <1>4, <2>2, <2>3, MovedTo DEF SnapWrite
<1> QED
  BY <1>2, <1>3, <1>4

LEMMA EnvStepTyped == ASSUME Typed, CreateCycle \/ Tick \/ Sweep \/ Crash PROVE Typed'
<1>1. CASE CreateCycle
  <2>1. CycleTyped'
    BY <1>1 DEF CreateCycle, CycleTyped, CycleStatus
  <2> QED
    BY <1>1, <2>1, Kept DEF CreateCycle, Typed, DocsTyped, Tasks, panel
<1>2. CASE Tick
  <2>1. ClockTyped'
    BY <1>2, LeadershipAssumption DEF Tick, ClockTyped, Times, Typed, DocsTyped
  <2> QED
    BY <1>2, <2>1, Kept DEF Tick, Typed, DocsTyped, Tasks, panel
<1>3. CASE Sweep
  BY <1>3, SyncTyped, Kept DEF Sweep, Typed, DocsTyped, Tasks, panel
<1>4. CASE Crash
  <2>1. ClockTyped'
    BY <1>4 DEF Crash, ClockTyped, Typed, DocsTyped
  <2>2. DocsTyped'
    BY <1>4, <2>1, Kept DEF Crash, DocsTyped, panel
  <2> QED
    BY <1>4, <2>2, IdleFits DEF Crash, Typed, Tasks
<1> QED
  BY <1>1, <1>2, <1>3, <1>4

LEMMA InitTyped == Init => Typed
<1> SUFFICES ASSUME Init PROVE Typed
  OBVIOUS
<1>1. ClockTyped /\ CycleTyped /\ EnrolledTyped
  BY LeadershipAssumption DEF Init, ClockTyped, CycleTyped, EnrolledTyped, Times, CycleStatus
<1>2. InvTyped /\ MintedTyped /\ RespTyped /\ FrozenTyped /\ ExcusedTyped
  BY NoneIsCount, NotFrozenTyped
     DEF Init, InvTyped, MintedTyped, RespTyped, FrozenTyped, ExcusedTyped
<1>3. Tasks
  BY IdleFits DEF Init, Tasks
<1> QED
  BY <1>1, <1>2, <1>3 DEF Typed, DocsTyped

LEMMA NextTyped == Typed /\ [Next]_vars => Typed'
<1> SUFFICES ASSUME Typed, [Next]_vars PROVE Typed'
  OBVIOUS
<1>1. ASSUME NEW w \in Workers, Step(w) PROVE Typed'
  BY <1>1, StartTyped, CycleStepTyped, EnrolStepTyped, PanelStepTyped, SubmitStepTyped, SnapStepTyped
     DEF Step
<1>2. CASE CreateCycle \/ Tick \/ Sweep \/ Crash
  BY <1>2, EnvStepTyped
<1>3. CASE UNCHANGED vars
  BY <1>3, Kept DEF vars, panel, Typed, DocsTyped, Tasks
<1> QED
  BY <1>1, <1>2, <1>3 DEF Next

\* The cycle, its panels, the feedback, the frozen scores and every request in flight keep
\* their types (the documents of leadership_service and leadership_link_service).
THEOREM TypeCorrect == Spec => []TypeOK
<1>1. Init => Typed
  BY InitTyped
<1>2. Typed /\ [Next]_vars => Typed'
  BY NextTyped
<1>3. Typed => TypeOK
  BY TypedIsTypeOK
<1> QED
  BY <1>1, <1>2, <1>3, PTL DEF Spec

-----------------------------------------------------------------------------
(* One response for each invitation.  An invitation is out, claimed by a    *)
(* submission in flight, or has become a response: it is never two of them. *)

Hand(f, l, g) == {v \in Workers : f[v].pc \in {"record", "release"} /\ f[v].l = l /\ f[v].g = g}

Tokens ==
    \A l \in Leaders, g \in Givers :
        resp[l][g] + Cardinality(Hand(task, l, g)) + (IF inv[l][g] = "out" THEN 1 ELSE 0)
          <= minted[l][g]

LEMMA HandFinite ==
    ASSUME NEW l, NEW g
    PROVE  /\ IsFiniteSet(Hand(task, l, g)) /\ Cardinality(Hand(task, l, g)) \in Nat
           /\ IsFiniteSet(Hand(task', l, g)) /\ Cardinality(Hand(task', l, g)) \in Nat
<1>1. Hand(task, l, g) \subseteq Workers /\ Hand(task', l, g) \subseteq Workers
  BY DEF Hand
<1> QED
  BY <1>1, LeadershipAssumption, FS_Subset, FS_CardinalityType

LEMMA Numbers ==
    ASSUME Typed, NEW l \in Leaders, NEW g \in Givers
    PROVE  resp[l][g] \in Nat /\ minted[l][g] \in Nat
  BY LeadershipAssumption DEF Typed, DocsTyped, RespTyped, MintedTyped, Count

\* A request that is in none of the steps between claim and response, before and after.
LEMMA NotInHand ==
    ASSUME Typed, NEW w \in Workers, NEW t, task' = [task EXCEPT ![w] = t],
           task[w].pc \notin {"record", "release"}, t.pc \notin {"record", "release"},
           NEW l, NEW g
    PROVE  Hand(task', l, g) = Hand(task, l, g)
  BY DEF Hand, Typed, Tasks

\* Nothing that counts grows.
LEMMA TokensKept ==
    ASSUME Typed, Tokens,
           resp' = resp, \A l \in Leaders, g \in Givers :
               /\ Hand(task', l, g) = Hand(task, l, g)
               /\ inv'[l][g] = "out" => inv[l][g] = "out"
               /\ minted'[l][g] = minted[l][g]
    PROVE  Tokens'
<1> SUFFICES ASSUME NEW l \in Leaders, NEW g \in Givers
             PROVE  resp'[l][g] + Cardinality(Hand(task', l, g)) + (IF inv'[l][g] = "out" THEN 1 ELSE 0)
                      <= minted'[l][g]
  BY DEF Tokens
<1> DEFINE n == Cardinality(Hand(task, l, g))
<1>1. n \in Nat /\ Cardinality(Hand(task', l, g)) = n
  BY HandFinite
<1>2. resp[l][g] + n + (IF inv[l][g] = "out" THEN 1 ELSE 0) <= minted[l][g]
  BY DEF Tokens
<1>3. resp[l][g] \in Nat /\ minted[l][g] \in Nat
  BY Numbers
<1> HIDE DEF n
<1> QED
  BY <1>1, <1>2, <1>3

LEMMA BeginTokens ==
    ASSUME Typed, NEW w \in Workers, NEW t, Begin(w, t),
           t.pc \notin {"record", "release"}, Tokens
    PROVE  Tokens'
<1>1. task[w].pc \notin {"record", "release"} /\ task' = [task EXCEPT ![w] = t]
  BY IdleFits DEF Begin
<1>2. \A l, g : Hand(task', l, g) = Hand(task, l, g)
  BY <1>1, NotInHand
<1>3. UNCHANGED <<resp, inv, minted>>
  BY DEF Begin, panel
<1> QED
  BY <1>2, <1>3, TokensKept

LEMMA StartTokens ==
    ASSUME Typed, Tokens, NEW w \in Workers,
           StartDelete(w) \/ StartAdd(w) \/ StartRemove(w) \/ StartPanel(w) \/ StartSubmit(w)
             \/ StartPatch(w)
    PROVE  Tokens'
<1>1. \E t : Begin(w, t) /\ t.pc \notin {"record", "release"}
  <2>1. Idle.pc = "idle" /\ DOMAIN Idle = DOMAIN Idle
    BY IdleFits
  <2>2. CASE StartDelete(w)
    <3>1. [Idle EXCEPT !.pc = "del_subjects"].pc = "del_subjects"
      BY DEF Idle
    <3> QED
      BY <2>2, <3>1 DEF StartDelete
  <2>3. CASE StartAdd(w)
    <3>1. \A l : [Idle EXCEPT !.pc = "add_insert", !.l = l].pc = "add_insert"
      BY DEF Idle
    <3> QED
      BY <2>3, <3>1 DEF StartAdd
  <2>4. CASE StartRemove(w)
    <3>1. \A l : [Idle EXCEPT !.pc = "rm_links", !.l = l].pc = "rm_links"
      BY DEF Idle
    <3> QED
      BY <2>4, <3>1 DEF StartRemove
  <2>5. CASE StartPanel(w)
    <3>1. \A l, G : [Idle EXCEPT !.pc = IF G = {} THEN "panel_drop" ELSE "panel_create", !.l = l,
                                 !.givers = G, !.wanted = G].pc \in {"panel_drop", "panel_create"}
      BY DEF Idle
    <3> QED
      BY <2>5, <3>1 DEF StartPanel
  <2>6. CASE StartSubmit(w)
    <3>1. \A l, g : [Idle EXCEPT !.pc = "claim", !.l = l, !.g = g, !.no = minted[l][g]].pc = "claim"
      BY DEF Idle
    <3> QED
      BY <2>6, <3>1 DEF StartSubmit
  <2>7. CASE StartPatch(w)
    <3>1. \A to, at : [Idle EXCEPT !.pc = "upd_write", !.to = to, !.at = at].pc = "upd_write"
      BY DEF Idle
    <3> QED
      BY <2>7, <3>1 DEF StartPatch
  <2> QED
    BY <2>2, <2>3, <2>4, <2>5, <2>6, <2>7
<1> QED
  BY <1>1, BeginTokens

\* The steps of a request that is not a submission, and what they leave of the panel.
LEMMA OtherTokens ==
    ASSUME Typed, Tokens, NEW w \in Workers, NEW t, task' = [task EXCEPT ![w] = t],
           task[w].pc \notin {"record", "release"}, t.pc \notin {"record", "release"},
           resp' = resp, minted' = minted,
           \A l \in Leaders, g \in Givers : inv'[l][g] = "out" => inv[l][g] = "out"
    PROVE  Tokens'
<1>1. \A l, g : Hand(task', l, g) = Hand(task, l, g)
  BY NotInHand
<1> QED
  BY <1>1, TokensKept

LEMMA GotoIs ==
    ASSUME Typed, NEW w \in Workers, NEW pc, Goto(w, pc)
    PROVE  \E t : task' = [task EXCEPT ![w] = t] /\ t.pc = pc /\ t.l = task[w].l /\ t.g = task[w].g
<1> DEFINE t == [task[w] EXCEPT !.pc = pc]
<1>1. task' = [task EXCEPT ![w] = t]
  BY DEF Goto, Typed, Tasks
<1>2. t.pc = pc /\ t.l = task[w].l /\ t.g = task[w].g
  BY DEF Typed, Tasks, Fit, Task
<1> QED
  BY <1>1, <1>2

LEMMA FinishIs ==
    ASSUME Typed, NEW w \in Workers, Finish(w)
    PROVE  \E t : task' = [task EXCEPT ![w] = t] /\ t.pc = "idle"
  BY IdleFits DEF Finish

LEMMA CycleTokens ==
    ASSUME Typed, Tokens, NEW w \in Workers,
           DeleteSubjects(w) \/ DeleteLinks(w) \/ DeleteScores(w) \/ DeleteCycle(w) \/ UpdWrite(w)
    PROVE  Tokens'
<1>1. CASE DeleteSubjects(w) \/ DeleteLinks(w) \/ DeleteScores(w)
  <2>1. /\ task[w].pc \notin {"record", "release"} /\ resp' = resp /\ minted' = minted
        /\ \E pc \in {"del_links", "del_scores", "del_cycle"} : Goto(w, pc)
    BY <1>1 DEF DeleteSubjects, DeleteLinks, DeleteScores, At, panel
  <2>2. \A l \in Leaders, g \in Givers : inv'[l][g] = "out" => inv[l][g] = "out"
    BY <1>1 DEF DeleteSubjects, DeleteLinks, DeleteScores, panel
  <2> QED
    BY <2>1, <2>2, GotoIs, OtherTokens
<1>2. CASE DeleteCycle(w)
  <2>1. task[w].pc = "del_cycle" /\ Finish(w) /\ UNCHANGED <<resp, minted, inv>>
    BY <1>2 DEF DeleteCycle, At, panel
  <2> QED
    BY <2>1, FinishIs, OtherTokens
<1>3. CASE UpdWrite(w)
  <2>1. /\ task[w].pc = "upd_write" /\ UNCHANGED <<resp, minted, inv>>
        /\ Goto(w, "snap_list") \/ Finish(w)
    BY <1>3 DEF UpdWrite, At, panel
  <2> QED
    BY <2>1, FinishIs, GotoIs, OtherTokens
<1> QED
  BY <1>1, <1>2, <1>3

LEMMA EnrolTokens ==
    ASSUME Typed, Tokens, NEW w \in Workers, AddInsert(w) \/ RemoveLinks(w) \/ RemoveSubject(w)
    PROVE  Tokens'
<1>1. CASE AddInsert(w)
  <2>1. task[w].pc = "add_insert" /\ Finish(w) /\ UNCHANGED <<resp, minted, inv>>
    BY <1>1 DEF AddInsert, At
  <2> QED
    BY <2>1, FinishIs, OtherTokens
<1>2. CASE RemoveLinks(w)
  <2>1. task[w].pc = "rm_links" /\ Goto(w, "rm_subject") /\ UNCHANGED <<resp, minted>>
    BY <1>2 DEF RemoveLinks, At
  <2>2. \A l \in Leaders, g \in Givers : inv'[l][g] = "out" => inv[l][g] = "out"
    BY <1>2 DEF RemoveLinks, Typed, DocsTyped, InvTyped
  <2> QED
    BY <2>1, <2>2, GotoIs, OtherTokens
<1>3. CASE RemoveSubject(w)
  <2>1. task[w].pc = "rm_subject" /\ Finish(w) /\ UNCHANGED <<resp, minted, inv>>
    BY <1>3 DEF RemoveSubject, At
  <2> QED
    BY <2>1, FinishIs, OtherTokens
<1> QED
  BY <1>1, <1>2, <1>3

LEMMA SnapTokens ==
    ASSUME Typed, Tokens, NEW w \in Workers, SnapList(w) \/ SnapRead(w) \/ SnapWrite(w)
    PROVE  Tokens'
<1>1. Fit(task[w]) /\ task = [v \in Workers |-> task[v]]
  BY DEF Typed, Tasks
<1>2. CASE SnapList(w)
  <2> DEFINE u == [task[w] EXCEPT !.leaders = enrolled, !.pc = "snap_read"]
  <2>1. task' = [task EXCEPT ![w] = u] /\ u.pc = "snap_read"
    BY <1>1, <1>2 DEF SnapList, Fit, Task
  <2>2. task[w].pc = "snap_list" /\ UNCHANGED <<resp, minted, inv>>
    BY <1>2 DEF SnapList, At, panel
  <2> QED
    BY <2>1, <2>2, OtherTokens
<1>3. CASE SnapRead(w)
  <2>1. task[w].pc = "snap_read" /\ UNCHANGED <<resp, minted, inv>>
    BY <1>3 DEF SnapRead, At, panel
  <2>2. CASE Finish(w)
    BY <2>1, <2>2, FinishIs, OtherTokens
  <2>3. ASSUME NEW l \in task[w].leaders,
               task' = [task EXCEPT ![w].l = l, ![w].saw = resp[l],
                                    ![w].leaders = task[w].leaders \ {l}, ![w].pc = "snap_write"]
        PROVE  Tokens'
    <3> DEFINE u == [task[w] EXCEPT !.l = l, !.saw = resp[l], !.leaders = task[w].leaders \ {l},
                                    !.pc = "snap_write"]
    <3>1. task' = [task EXCEPT ![w] = u] /\ u.pc = "snap_write"
      BY <1>1, <2>3 DEF Fit, Task
    <3> HIDE DEF u
    <3> QED
      BY <2>1, <3>1, OtherTokens
  <2> QED
    BY <1>3, <2>2, <2>3 DEF SnapRead
<1>4. CASE SnapWrite(w)
  <2>1. task[w].pc = "snap_write" /\ Goto(w, "snap_read") /\ UNCHANGED <<resp, minted, inv>>
    BY <1>4 DEF SnapWrite, At, panel
  <2> QED
    BY <2>1, GotoIs, OtherTokens
<1> QED
  BY <1>2, <1>3, <1>4

LEMMA PanelTokens ==
    ASSUME Typed, Tokens, NEW w \in Workers, PanelCreate(w) \/ PanelDrop(w) PROVE Tokens'
<1>1. Fit(task[w]) /\ task = [v \in Workers |-> task[v]]
  BY DEF Typed, Tasks
<1>2. CASE PanelCreate(w)
  <2> DEFINE t == task[w]
  <2>1. PICK x \in t.givers :
          /\ IF inv[t.l][x] = "none"
             THEN /\ minted[t.l][x] < MaxMint
                  /\ inv' = [inv EXCEPT ![t.l][x] = "out"]
                  /\ minted' = [minted EXCEPT ![t.l][x] = minted[t.l][x] + 1]
             ELSE UNCHANGED <<inv, minted>>
          /\ task' = [task EXCEPT ![w].givers = t.givers \ {x},
                                  ![w].pc = IF t.givers = {x} THEN "panel_drop" ELSE "panel_create"]
    BY <1>2 DEF PanelCreate
  <2> DEFINE pc == IF t.givers = {x} THEN "panel_drop" ELSE "panel_create"
  <2> DEFINE u == [t EXCEPT !.givers = t.givers \ {x}, !.pc = pc]
  <2>2. task' = [task EXCEPT ![w] = u] /\ u.pc = pc
    BY <1>1, <2>1 DEF Fit, Task
  <2>3. t.l \in Leaders /\ x \in Givers /\ t.pc = "panel_create" /\ resp' = resp
    BY <1>1, <1>2 DEF PanelCreate, At, Fit, Task
  <2>4. pc \notin {"record", "release"} /\ t.pc \notin {"record", "release"}
    BY <2>3
  <2> HIDE DEF u, pc
  <2>5. \A l, g : Hand(task', l, g) = Hand(task, l, g)
    BY <2>2, <2>4, NotInHand
  <2>6. CASE UNCHANGED <<inv, minted>>
    BY <2>3, <2>5, <2>6, TokensKept
  <2>7. CASE inv[t.l][x] = "none"
    <3>1. inv' = [inv EXCEPT ![t.l][x] = "out"] /\ minted' = [minted EXCEPT ![t.l][x] = minted[t.l][x] + 1]
      BY <2>1, <2>7
    <3> SUFFICES ASSUME NEW l \in Leaders, NEW g \in Givers
                 PROVE  resp'[l][g] + Cardinality(Hand(task', l, g)) + (IF inv'[l][g] = "out" THEN 1 ELSE 0)
                          <= minted'[l][g]
      BY DEF Tokens
    <3> DEFINE n == Cardinality(Hand(task, l, g))
    <3>2. n \in Nat /\ Cardinality(Hand(task', l, g)) = n /\ resp' = resp
      BY <2>3, <2>5, HandFinite
    <3>3. resp[l][g] + n + (IF inv[l][g] = "out" THEN 1 ELSE 0) <= minted[l][g]
      BY DEF Tokens
    <3>4. resp[l][g] \in Nat /\ minted[l][g] \in Nat
      BY Numbers
    <3>5. inv \in [Leaders -> [Givers -> {"none", "out", "submitted"}]] /\ minted \in [Leaders -> Count]
      BY DEF Typed, DocsTyped, InvTyped, MintedTyped
    <3> HIDE DEF n
    <3>6. CASE l = t.l /\ g = x
      <4>1. inv'[l][g] = "out" /\ minted'[l][g] = minted[l][g] + 1
        BY <2>3, <3>1, <3>5, <3>6 DEF Count
      <4>2. inv[l][g] # "out"
        BY <2>7, <3>6
      <4> QED
        BY <3>2, <3>3, <3>4, <4>1, <4>2
    <3>7. CASE ~(l = t.l /\ g = x)
      <4>1. inv'[l][g] = inv[l][g] /\ minted'[l][g] = minted[l][g]
        BY <2>3, <3>1, <3>5, <3>7 DEF Count
      <4> QED
        BY <3>2, <3>3, <3>4, <4>1
    <3> QED
      BY <3>6, <3>7
  <2> QED
    BY <2>1, <2>6, <2>7
<1>3. CASE PanelDrop(w)
  <2>1. UNCHANGED inv \/ \E g \in Givers : inv' = [inv EXCEPT ![task[w].l][g] = "none"]
    BY <1>3 DEF PanelDrop
  <2>2. \A l \in Leaders, g \in Givers : inv'[l][g] = "out" => inv[l][g] = "out"
    <3>1. ASSUME NEW x \in Givers, inv' = [inv EXCEPT ![task[w].l][x] = "none"],
                 NEW l \in Leaders, NEW g \in Givers, inv'[l][g] = "out"
          PROVE  inv[l][g] = "out"
      <4>1. inv \in [Leaders -> [Givers -> {"none", "out", "submitted"}]]
        BY DEF Typed, DocsTyped, InvTyped
      <4>2. CASE l = task[w].l
        BY <3>1, <4>1, <4>2
      <4>3. CASE l # task[w].l
        BY <3>1, <4>1, <4>3
      <4> QED
        BY <4>2, <4>3
    <3> QED
      BY <2>1, <3>1
  <2>3. task[w].pc = "panel_drop" /\ UNCHANGED <<resp, minted>> /\ (Finish(w) \/ UNCHANGED task)
    BY <1>3 DEF PanelDrop, At
  <2>4. CASE UNCHANGED task
    <3>1. \A l, g : Hand(task', l, g) = Hand(task, l, g)
      BY <2>4 DEF Hand
    <3> QED
      BY <2>2, <2>3, <3>1, TokensKept
  <2> QED
    BY <2>2, <2>3, <2>4, FinishIs, OtherTokens
<1> QED
  BY <1>2, <1>3

\* A submission that moves changes what is in hand for its own invitation only: f and h
\* are the requests before and after.
Others(f, h, w) == \A v \in Workers : v # w => h[v] = f[v]
Counts(t) == t.pc \in {"record", "release"}

LEMMA HandElsewhere ==
    ASSUME NEW f, NEW h, NEW w \in Workers, Others(f, h, w), NEW L, NEW G,
           f[w].l = L, f[w].g = G, Counts(h[w]) => h[w].l = L /\ h[w].g = G,
           NEW l, NEW g, ~(l = L /\ g = G)
    PROVE  Hand(h, l, g) = Hand(f, l, g)
  BY DEF Hand, Others, Counts

LEMMA HandTaken ==
    ASSUME NEW f, NEW h, NEW w \in Workers, Others(f, h, w), NEW L, NEW G,
           Counts(h[w]), h[w].l = L, h[w].g = G
    PROVE  Hand(h, L, G) = Hand(f, L, G) \cup {w}
  BY DEF Hand, Others, Counts

LEMMA HandGiven ==
    ASSUME NEW f, NEW h, NEW w \in Workers, Others(f, h, w), NEW L, NEW G, ~Counts(h[w])
    PROVE  Hand(h, L, G) = Hand(f, L, G) \ {w}
  BY DEF Hand, Others, Counts

LEMMA HandHeld ==
    ASSUME NEW f, NEW w \in Workers, NEW L, NEW G, f[w].l = L, f[w].g = G
    PROVE  w \in Hand(f, L, G) <=> Counts(f[w])
  BY DEF Hand, Counts

LEMMA MovedOthers ==
    ASSUME Typed, NEW w \in Workers, NEW t, task' = [task EXCEPT ![w] = t]
    PROVE  Others(task, task', w) /\ task'[w] = t
  BY DEF Typed, Tasks, Others

\* The sizes: one more in hand, or one less.
LEMMA HandSizes ==
    ASSUME NEW H, NEW w, IsFiniteSet(H)
    PROVE  /\ w \notin H => Cardinality(H \cup {w}) = Cardinality(H) + 1
           /\ w \in H => Cardinality(H \ {w}) = Cardinality(H) - 1
  BY FS_AddElement, FS_RemoveElement

\* It is enough to look at the invitation of the submission that moved.
Elsewhere(L, G) ==
    \A l \in Leaders, g \in Givers : ~(l = L /\ g = G) =>
        resp'[l][g] = resp[l][g] /\ inv'[l][g] = inv[l][g] /\ Hand(task', l, g) = Hand(task, l, g)

NoMore(L, G) ==
    resp'[L][G] + Cardinality(Hand(task', L, G)) + (IF inv'[L][G] = "out" THEN 1 ELSE 0)
      <= resp[L][G] + Cardinality(Hand(task, L, G)) + (IF inv[L][G] = "out" THEN 1 ELSE 0)

LEMMA OneInvitation ==
    ASSUME Typed, Tokens, NEW L \in Leaders, NEW G \in Givers, minted' = minted,
           Elsewhere(L, G), NoMore(L, G), resp'[L][G] \in Nat
    PROVE  Tokens'
<1> SUFFICES ASSUME NEW l \in Leaders, NEW g \in Givers
             PROVE  resp'[l][g] + Cardinality(Hand(task', l, g)) + (IF inv'[l][g] = "out" THEN 1 ELSE 0)
                      <= minted'[l][g]
  BY DEF Tokens
<1>1. resp[l][g] + Cardinality(Hand(task, l, g)) + (IF inv[l][g] = "out" THEN 1 ELSE 0) <= minted[l][g]
  BY DEF Tokens
<1>2. CASE l = L /\ g = G
  <2> DEFINE n == Cardinality(Hand(task, L, G))
             m == Cardinality(Hand(task', L, G))
  <2>1. n \in Nat /\ m \in Nat
    BY HandFinite
  <2>2. resp[L][G] \in Nat /\ minted[L][G] \in Nat
    BY Numbers
  <2>3. resp[L][G] + n + (IF inv[L][G] = "out" THEN 1 ELSE 0) <= minted[L][G]
    BY <1>1, <1>2
  <2>4. resp'[L][G] + m + (IF inv'[L][G] = "out" THEN 1 ELSE 0)
          <= resp[L][G] + n + (IF inv[L][G] = "out" THEN 1 ELSE 0)
    BY DEF NoMore
  <2> HIDE DEF n, m
  <2>5. resp'[L][G] + m + (IF inv'[L][G] = "out" THEN 1 ELSE 0) <= minted'[L][G]
    BY <2>1, <2>2, <2>3, <2>4
  <2> QED
    BY <1>2, <2>5 DEF m
<1>3. CASE ~(l = L /\ g = G)
  <2>1. Cardinality(Hand(task', l, g)) = Cardinality(Hand(task, l, g))
        /\ resp'[l][g] = resp[l][g] /\ inv'[l][g] = inv[l][g]
    BY <1>3 DEF Elsewhere
  <2> QED
    BY <1>1, <1>3, <2>1
<1> QED
  BY <1>2, <1>3

LEMMA ClaimTokens == ASSUME Typed, Tokens, NEW w \in Workers, Claim(w) PROVE Tokens'
<1>1. Fit(task[w])
  BY DEF Typed, Tasks
<1>2. PICK L \in Leaders, G \in Givers : task[w].l = L /\ task[w].g = G
  BY <1>1 DEF Claim, At, Fit
<1>3. task[w].pc = "claim" /\ UNCHANGED <<resp, minted>>
  BY DEF Claim, At
<1>4. CASE Finish(w) /\ UNCHANGED inv
  BY <1>3, <1>4, FinishIs, OtherTokens
<1>5. CASE inv[L][G] = "out" /\ inv' = [inv EXCEPT ![L][G] = "submitted"] /\ Goto(w, "record")
  <2>1. PICK t : task' = [task EXCEPT ![w] = t] /\ t.pc = "record" /\ t.l = L /\ t.g = G
    BY <1>2, <1>5, GotoIs
  <2>2. /\ \A l, g : ~(l = L /\ g = G) => Hand(task', l, g) = Hand(task, l, g)
        /\ Hand(task', L, G) = Hand(task, L, G) \cup {w} /\ w \notin Hand(task, L, G)
    <3>1. Others(task, task', w) /\ task'[w] = t
      BY <2>1, MovedOthers
    <3>2. Counts(task'[w]) /\ task'[w].l = L /\ task'[w].g = G
      BY <2>1, <3>1 DEF Counts
    <3>3. ~Counts(task[w]) /\ task[w].l = L /\ task[w].g = G
      BY <1>2, <1>3 DEF Counts
    <3>4. ASSUME NEW l, NEW g, ~(l = L /\ g = G) PROVE Hand(task', l, g) = Hand(task, l, g)
      BY <3>1, <3>2, <3>3, <3>4, HandElsewhere
    <3>5. Hand(task', L, G) = Hand(task, L, G) \cup {w}
      BY <3>1, <3>2, HandTaken
    <3>6. w \notin Hand(task, L, G)
      BY <3>3, HandHeld
    <3> QED
      BY <3>4, <3>5, <3>6
  <2> DEFINE n == Cardinality(Hand(task, L, G))
             m == Cardinality(Hand(task', L, G))
  <2>3. n \in Nat /\ m = n + 1
    BY <2>2, HandFinite, HandSizes
  <2>4. inv \in [Leaders -> [Givers -> {"none", "out", "submitted"}]]
    BY DEF Typed, DocsTyped, InvTyped
  <2>5. /\ inv'[L][G] = "submitted"
        /\ \A l \in Leaders, g \in Givers : ~(l = L /\ g = G) => inv'[l][g] = inv[l][g]
    BY <1>5, <2>4
  <2>6. resp[L][G] \in Nat
    BY Numbers
  <2> HIDE DEF n, m
  <2>7. resp'[L][G] + m + (IF inv'[L][G] = "out" THEN 1 ELSE 0)
          <= resp[L][G] + n + (IF inv[L][G] = "out" THEN 1 ELSE 0)
    BY <1>3, <1>5, <2>3, <2>5, <2>6
  <2>8. NoMore(L, G)
    BY <2>7 DEF NoMore, n, m
  <2>9. Elsewhere(L, G)
    BY <1>3, <2>2, <2>5 DEF Elsewhere
  <2> QED
    BY <1>3, <2>6, <2>8, <2>9, OneInvitation
<1> QED
  BY <1>2, <1>4, <1>5 DEF Claim

LEMMA RecordTokens == ASSUME Typed, Tokens, NEW w \in Workers, Record(w) PROVE Tokens'
<1>1. Fit(task[w])
  BY DEF Typed, Tasks
<1>2. PICK L \in Leaders, G \in Givers : task[w].l = L /\ task[w].g = G
  BY <1>1 DEF Record, At, Fit
<1>3. task[w].pc = "record" /\ UNCHANGED <<inv, minted>>
  BY DEF Record, At, panel
<1>4. CASE Goto(w, "release") /\ UNCHANGED resp
  <2>1. PICK t : task' = [task EXCEPT ![w] = t] /\ t.pc = "release" /\ t.l = L /\ t.g = G
    BY <1>2, <1>4, GotoIs
  <2>2. /\ \A l, g : ~(l = L /\ g = G) => Hand(task', l, g) = Hand(task, l, g)
        /\ Hand(task', L, G) = Hand(task, L, G) \cup {w} /\ w \in Hand(task, L, G)
    <3>1. Others(task, task', w) /\ task'[w] = t
      BY <2>1, MovedOthers
    <3>2. Counts(task'[w]) /\ task'[w].l = L /\ task'[w].g = G
      BY <2>1, <3>1 DEF Counts
    <3>3. Counts(task[w]) /\ task[w].l = L /\ task[w].g = G
      BY <1>2, <1>3 DEF Counts
    <3>4. ASSUME NEW l, NEW g, ~(l = L /\ g = G) PROVE Hand(task', l, g) = Hand(task, l, g)
      BY <3>1, <3>2, <3>3, <3>4, HandElsewhere
    <3>5. Hand(task', L, G) = Hand(task, L, G) \cup {w}
      BY <3>1, <3>2, HandTaken
    <3>6. w \in Hand(task, L, G)
      BY <3>3, HandHeld
    <3> QED
      BY <3>4, <3>5, <3>6
  <2>3. \A l, g : Hand(task', l, g) = Hand(task, l, g)
    BY <2>2
  <2> QED
    BY <1>3, <1>4, <2>3, TokensKept
<1>5. CASE resp' = [resp EXCEPT ![L][G] = resp[L][G] + 1] /\ Finish(w)
  <2>1. PICK t : task' = [task EXCEPT ![w] = t] /\ t.pc = "idle"
    BY <1>5, FinishIs
  <2>2. /\ \A l, g : ~(l = L /\ g = G) => Hand(task', l, g) = Hand(task, l, g)
        /\ Hand(task', L, G) = Hand(task, L, G) \ {w} /\ w \in Hand(task, L, G)
    <3>1. Others(task, task', w) /\ task'[w] = t
      BY <2>1, MovedOthers
    <3>2. ~Counts(task'[w])
      BY <2>1, <3>1 DEF Counts
    <3>3. Counts(task[w]) /\ task[w].l = L /\ task[w].g = G
      BY <1>2, <1>3 DEF Counts
    <3>4. ASSUME NEW l, NEW g, ~(l = L /\ g = G) PROVE Hand(task', l, g) = Hand(task, l, g)
      BY <3>1, <3>2, <3>3, <3>4, HandElsewhere
    <3>5. Hand(task', L, G) = Hand(task, L, G) \ {w}
      BY <3>1, <3>2, HandGiven
    <3>6. w \in Hand(task, L, G)
      BY <3>3, HandHeld
    <3> QED
      BY <3>4, <3>5, <3>6
  <2> DEFINE n == Cardinality(Hand(task, L, G))
             m == Cardinality(Hand(task', L, G))
  <2>3. n \in Nat /\ m \in Nat /\ m = n - 1
    BY <2>2, HandFinite, HandSizes
  <2>4. resp \in [Leaders -> Count]
    BY DEF Typed, DocsTyped, RespTyped
  <2>5. /\ resp'[L][G] = resp[L][G] + 1
        /\ \A l \in Leaders, g \in Givers : ~(l = L /\ g = G) => resp'[l][g] = resp[l][g]
    BY <1>5, <2>4 DEF Count
  <2>6. resp[L][G] \in Nat
    BY Numbers
  <2> HIDE DEF n, m
  <2>7. resp'[L][G] + m + (IF inv'[L][G] = "out" THEN 1 ELSE 0)
          <= resp[L][G] + n + (IF inv[L][G] = "out" THEN 1 ELSE 0)
    BY <1>3, <2>3, <2>5, <2>6
  <2>8. NoMore(L, G)
    BY <2>7 DEF NoMore, n, m
  <2>9. Elsewhere(L, G) /\ resp'[L][G] \in Nat
    BY <1>3, <2>2, <2>5, <2>6 DEF Elsewhere
  <2> QED
    BY <1>3, <2>8, <2>9, OneInvitation
<1> QED
  BY <1>2, <1>4, <1>5 DEF Record

LEMMA ReleaseTokens == ASSUME Typed, Tokens, NEW w \in Workers, Release(w) PROVE Tokens'
<1>1. Fit(task[w])
  BY DEF Typed, Tasks
<1>2. PICK L \in Leaders, G \in Givers : task[w].l = L /\ task[w].g = G
  BY <1>1 DEF Release, At, Fit
<1>3. task[w].pc = "release" /\ UNCHANGED <<resp, minted>> /\ Finish(w)
  BY DEF Release, At
<1>4. \/ inv[L][G] = "submitted" /\ inv' = [inv EXCEPT ![L][G] = "out"]
      \/ UNCHANGED inv
  BY <1>2 DEF Release
<1>5. PICK t : task' = [task EXCEPT ![w] = t] /\ t.pc = "idle"
  BY <1>3, FinishIs
<1>6. /\ \A l, g : ~(l = L /\ g = G) => Hand(task', l, g) = Hand(task, l, g)
      /\ Hand(task', L, G) = Hand(task, L, G) \ {w} /\ w \in Hand(task, L, G)
  <2>1. Others(task, task', w) /\ task'[w] = t
    BY <1>5, MovedOthers
  <2>2. ~Counts(task'[w])
    BY <1>5, <2>1 DEF Counts
  <2>3. Counts(task[w]) /\ task[w].l = L /\ task[w].g = G
    BY <1>2, <1>3 DEF Counts
  <2>4. ASSUME NEW l, NEW g, ~(l = L /\ g = G) PROVE Hand(task', l, g) = Hand(task, l, g)
    BY <2>1, <2>2, <2>3, <2>4, HandElsewhere
  <2>5. Hand(task', L, G) = Hand(task, L, G) \ {w}
    BY <2>1, <2>2, HandGiven
  <2>6. w \in Hand(task, L, G)
    BY <2>3, HandHeld
  <2> QED
    BY <2>4, <2>5, <2>6
<1> DEFINE n == Cardinality(Hand(task, L, G))
           m == Cardinality(Hand(task', L, G))
<1>7. n \in Nat /\ m \in Nat /\ m = n - 1
  BY <1>6, HandFinite, HandSizes
<1>8. inv \in [Leaders -> [Givers -> {"none", "out", "submitted"}]]
  BY DEF Typed, DocsTyped, InvTyped
<1>9. \A l \in Leaders, g \in Givers : ~(l = L /\ g = G) => inv'[l][g] = inv[l][g]
  BY <1>4, <1>8
<1>10. inv'[L][G] = "out" => inv[L][G] \in {"out", "submitted"}
  BY <1>4, <1>8
<1>11. resp[L][G] \in Nat
  BY Numbers
<1> HIDE DEF n, m
<1>12. resp'[L][G] + m + (IF inv'[L][G] = "out" THEN 1 ELSE 0)
        <= resp[L][G] + n + (IF inv[L][G] = "out" THEN 1 ELSE 0)
  BY <1>3, <1>7, <1>11
<1>13. NoMore(L, G)
  BY <1>12 DEF NoMore, n, m
<1>14. Elsewhere(L, G)
  BY <1>3, <1>6, <1>9 DEF Elsewhere
<1> QED
  BY <1>3, <1>11, <1>13, <1>14, OneInvitation

LEMMA EnvTokens == ASSUME Typed, Tokens, CreateCycle \/ Tick \/ Sweep \/ Crash PROVE Tokens'
<1>1. CASE CreateCycle \/ Tick \/ Sweep
  <2>1. UNCHANGED <<resp, inv, minted, task>>
    BY <1>1 DEF CreateCycle, Tick, Sweep, panel
  <2>2. \A l, g : Hand(task', l, g) = Hand(task, l, g)
    BY <2>1 DEF Hand
  <2> QED
    BY <2>1, <2>2, TokensKept
<1>2. CASE Crash
  <2>1. UNCHANGED <<resp, inv, minted>> /\ task' = [w \in Workers |-> Idle]
    BY <1>2 DEF Crash, panel
  <2>2. \A l, g : Hand(task', l, g) = {}
    BY <2>1, IdleFits DEF Hand
  <2> SUFFICES ASSUME NEW l \in Leaders, NEW g \in Givers
               PROVE  resp'[l][g] + Cardinality(Hand(task', l, g)) + (IF inv'[l][g] = "out" THEN 1 ELSE 0)
                        <= minted'[l][g]
    BY DEF Tokens
  <2> DEFINE n == Cardinality(Hand(task, l, g))
  <2>3. n \in Nat /\ Cardinality(Hand(task', l, g)) = 0
    BY <2>2, HandFinite, FS_EmptySet
  <2>4. resp[l][g] + n + (IF inv[l][g] = "out" THEN 1 ELSE 0) <= minted[l][g]
    BY DEF Tokens
  <2>5. resp[l][g] \in Nat /\ minted[l][g] \in Nat
    BY Numbers
  <2> HIDE DEF n
  <2> QED
    BY <2>1, <2>3, <2>4, <2>5
<1> QED
  BY <1>1, <1>2

LEMMA InitTokens == Init => Tokens
<1> SUFFICES ASSUME Init, NEW l \in Leaders, NEW g \in Givers
             PROVE  resp[l][g] + Cardinality(Hand(task, l, g)) + (IF inv[l][g] = "out" THEN 1 ELSE 0)
                      <= minted[l][g]
  BY DEF Tokens
<1>1. Hand(task, l, g) = {}
  BY IdleFits DEF Init, Hand
<1>2. Cardinality(Hand(task, l, g)) = 0
  BY <1>1, FS_EmptySet
<1>3. resp[l][g] = 0 /\ minted[l][g] = 0 /\ inv[l][g] = "none"
  BY DEF Init, None
<1> QED
  BY <1>2, <1>3

LEMMA NextTokens == Typed /\ Tokens /\ [Next]_vars => Tokens'
<1> SUFFICES ASSUME Typed, Tokens, [Next]_vars PROVE Tokens'
  OBVIOUS
<1>1. ASSUME NEW w \in Workers, Step(w) PROVE Tokens'
  BY <1>1, StartTokens, CycleTokens, EnrolTokens, PanelTokens, SnapTokens, ClaimTokens, RecordTokens,
     ReleaseTokens DEF Step
<1>2. CASE CreateCycle \/ Tick \/ Sweep \/ Crash
  BY <1>2, EnvTokens
<1>3. CASE UNCHANGED vars
  <2>1. UNCHANGED <<resp, inv, minted, task>>
    BY <1>3 DEF vars, panel
  <2>2. \A l, g : Hand(task', l, g) = Hand(task, l, g)
    BY <2>1 DEF Hand
  <2> QED
    BY <2>1, <2>2, TokensKept
<1> QED
  BY <1>1, <1>2, <1>3 DEF Next

LEMMA TokensBound == Typed /\ Tokens => OneResponseEach
<1> SUFFICES ASSUME Typed, Tokens, NEW l \in Leaders, NEW g \in Givers
             PROVE  resp[l][g] + Cardinality(InFlight(l, g, {"record"})) <= minted[l][g]
  BY DEF OneResponseEach
<1> DEFINE n == Cardinality(Hand(task, l, g))
           k == Cardinality(InFlight(l, g, {"record"}))
<1>1. InFlight(l, g, {"record"}) \subseteq Hand(task, l, g)
  BY DEF Hand, InFlight
<1>2. n \in Nat /\ k \in Nat /\ k <= n
  BY <1>1, HandFinite, FS_Subset, FS_CardinalityType
<1>3. resp[l][g] + n + (IF inv[l][g] = "out" THEN 1 ELSE 0) <= minted[l][g]
  BY DEF Tokens
<1>4. resp[l][g] \in Nat /\ minted[l][g] \in Nat
  BY Numbers
<1> HIDE DEF n, k
<1>5. resp[l][g] + k <= minted[l][g]
  BY <1>2, <1>3, <1>4
<1> QED
  BY <1>5 DEF k

\* An invitation yields one response at most, however many submissions, refusals, panel
\* edits and restarts overlap (claim_for_submission, release_claim, create_assignment).
THEOREM OneResponse == Spec => []OneResponseEach
<1>1. Init => Typed /\ Tokens
  BY InitTyped, InitTokens
<1>2. (Typed /\ Tokens) /\ [Next]_vars => (Typed /\ Tokens)'
  BY NextTyped, NextTokens
<1>3. Typed /\ Tokens => OneResponseEach
  BY TokensBound
<1> QED
  BY <1>1, <1>2, <1>3, PTL DEF Spec

-----------------------------------------------------------------------------
(* A submitted invitation is answered.  Whoever claimed it still holds the   *)
(* invitation as it was minted, until the response is there or it is given   *)
(* back; an older holder of the same panel place gives back nothing.         *)

Holds(t, l, g, n) == t.pc \in {"record", "release"} /\ t.l = l /\ t.g = g /\ t.no = n

Answered ==
    crashes = 0 =>
        \A l \in Leaders, g \in Givers :
            inv[l][g] = "submitted" =>
                resp[l][g] > 0 \/ \E v \in Workers : Holds(task[v], l, g, minted[l][g])

\* A step of a request that holds nothing, and submits nothing.
LEMMA AnsweredKept ==
    ASSUME Typed, Answered, NEW w \in Workers, NEW t, task' = [task EXCEPT ![w] = t],
           task[w].pc \notin {"record", "release"}, resp' = resp, crashes' = crashes,
           \A l \in Leaders, g \in Givers :
               inv'[l][g] = "submitted" => inv[l][g] = "submitted" /\ minted'[l][g] = minted[l][g]
    PROVE  Answered'
<1> SUFFICES ASSUME crashes = 0, NEW l \in Leaders, NEW g \in Givers, inv'[l][g] = "submitted",
                    ~(resp[l][g] > 0)
             PROVE  \E v \in Workers : Holds(task'[v], l, g, minted'[l][g])
  BY DEF Answered
<1>1. PICK v \in Workers : Holds(task[v], l, g, minted[l][g])
  BY DEF Answered
<1>2. task'[v] = task[v]
  BY <1>1 DEF Holds, Typed, Tasks
<1> QED
  BY <1>1, <1>2

\* The same for steps that write neither invitations nor feedback.
LEMMA AnsweredStill ==
    ASSUME Typed, Answered, NEW w \in Workers, NEW t, task' = [task EXCEPT ![w] = t],
           task[w].pc \notin {"record", "release"}, UNCHANGED <<inv, minted, resp, crashes>>
    PROVE  Answered'
BY AnsweredKept

LEMMA StartAnswered ==
    ASSUME Typed, Answered, NEW w \in Workers,
           StartDelete(w) \/ StartAdd(w) \/ StartRemove(w) \/ StartPanel(w) \/ StartSubmit(w)
             \/ StartPatch(w)
    PROVE  Answered'
<1>1. PICK t : Begin(w, t)
  BY DEF StartDelete, StartAdd, StartRemove, StartPanel, StartSubmit, StartPatch
<1>2. task[w].pc = "idle"
  BY <1>1, IdleFits DEF Begin
<1> QED
  BY <1>1, <1>2, AnsweredStill DEF Begin, panel

LEMMA OtherAnswered ==
    ASSUME Typed, Answered, NEW w \in Workers,
           \/ DeleteSubjects(w) \/ DeleteLinks(w) \/ DeleteScores(w) \/ DeleteCycle(w)
           \/ AddInsert(w) \/ RemoveLinks(w) \/ RemoveSubject(w)
           \/ UpdWrite(w) \/ SnapList(w) \/ SnapRead(w) \/ SnapWrite(w) \/ PanelCreate(w)
           \/ PanelDrop(w)
    PROVE  Answered'
<1>1. task[w].pc \notin {"record", "release"} /\ resp' = resp /\ crashes' = crashes
  BY DEF DeleteSubjects, DeleteLinks, DeleteScores, DeleteCycle, AddInsert, RemoveLinks, RemoveSubject,
     UpdWrite, SnapList, SnapRead, SnapWrite, PanelCreate, PanelDrop, At
<1>2. Fit(task[w]) /\ inv \in [Leaders -> [Givers -> {"none", "out", "submitted"}]]
  BY DEF Typed, Tasks, DocsTyped, InvTyped
<1>3. \E t : task' = [task EXCEPT ![w] = t]
  <2>1. CASE PanelDrop(w) /\ UNCHANGED task
    <3>1. task' = [task EXCEPT ![w] = task[w]]
      BY <2>1 DEF Typed, Tasks
    <3> QED
      BY <3>1
  <2>2. CASE SnapList(w)
    <3>1. task' = [task EXCEPT ![w] = [task[w] EXCEPT !.leaders = enrolled, !.pc = "snap_read"]]
      BY <2>2 DEF SnapList, Typed, Tasks
    <3> QED
      BY <3>1
  <2>3. ASSUME NEW l \in task[w].leaders,
               task' = [task EXCEPT ![w].l = l, ![w].saw = resp[l],
                                    ![w].leaders = task[w].leaders \ {l}, ![w].pc = "snap_write"]
        PROVE  \E t : task' = [task EXCEPT ![w] = t]
    <3>1. task' = [task EXCEPT ![w] = [task[w] EXCEPT !.l = l, !.saw = resp[l],
                                         !.leaders = task[w].leaders \ {l}, !.pc = "snap_write"]]
      BY <2>3 DEF Typed, Tasks
    <3> QED
      BY <3>1
  <2>4. ASSUME NEW g \in task[w].givers, NEW pc,
               task' = [task EXCEPT ![w].givers = task[w].givers \ {g}, ![w].pc = pc]
        PROVE  \E t : task' = [task EXCEPT ![w] = t]
    <3>1. task' = [task EXCEPT ![w] = [task[w] EXCEPT !.givers = task[w].givers \ {g}, !.pc = pc]]
      BY <2>4 DEF Typed, Tasks
    <3> QED
      BY <3>1
  <2>5. CASE Finish(w)
    BY <2>5 DEF Finish
  <2>6. ASSUME NEW pc, Goto(w, pc) PROVE \E t : task' = [task EXCEPT ![w] = t]
    BY <2>6, GotoIs
  <2> QED
    BY <2>1, <2>2, <2>3, <2>4, <2>5, <2>6
       DEF DeleteSubjects, DeleteLinks, DeleteScores, DeleteCycle, AddInsert, RemoveLinks, RemoveSubject, UpdWrite, SnapRead,
       SnapWrite, PanelCreate, PanelDrop
<1>4. \A l \in Leaders, g \in Givers :
          inv'[l][g] = "submitted" => inv[l][g] = "submitted" /\ minted'[l][g] = minted[l][g]
  <2>1. CASE PanelCreate(w)
    <3>1. task[w].l \in Leaders /\ task[w].givers \subseteq Givers
      BY <1>2, <2>1 DEF PanelCreate, At, Fit, Task
    <3>2. PICK h \in task[w].givers :
              \/ /\ inv' = [inv EXCEPT ![task[w].l][h] = "out"]
                 /\ minted' = [minted EXCEPT ![task[w].l][h] = minted[task[w].l][h] + 1]
              \/ UNCHANGED <<inv, minted>>
      BY <2>1 DEF PanelCreate
    <3>3. minted \in [Leaders -> Count]
      BY DEF Typed, DocsTyped, MintedTyped
    <3> QED
      BY <1>2, <3>1, <3>2, <3>3 DEF Count
  <2>2. CASE PanelDrop(w)
    <3>1. task[w].l \in Leaders
      BY <1>2, <2>2 DEF PanelDrop, At, Fit
    <3>2. UNCHANGED minted
          /\ (UNCHANGED inv \/ \E h \in Givers : inv' = [inv EXCEPT ![task[w].l][h] = "none"])
      BY <2>2 DEF PanelDrop
    <3>3. CASE UNCHANGED inv
      BY <3>2, <3>3
    <3>4. ASSUME NEW h \in Givers, inv' = [inv EXCEPT ![task[w].l][h] = "none"],
                 NEW l \in Leaders, NEW g \in Givers, inv'[l][g] = "submitted"
          PROVE  inv[l][g] = "submitted"
      BY <1>2, <3>1, <3>4
    <3> QED
      BY <3>2, <3>3, <3>4
  <2>3. CASE RemoveLinks(w)
    <3>1. task[w].l \in Leaders
      BY <1>2, <2>3 DEF RemoveLinks, At, Fit
    <3> QED
      BY <1>2, <2>3, <3>1 DEF RemoveLinks
  <2>4. CASE DeleteLinks(w)
    BY <2>4 DEF DeleteLinks
  <2>5. CASE \/ DeleteSubjects(w) \/ DeleteScores(w) \/ DeleteCycle(w) \/ AddInsert(w) \/ RemoveSubject(w) \/ UpdWrite(w) \/ SnapList(w)
             \/ SnapRead(w) \/ SnapWrite(w)
    <3>1. UNCHANGED <<inv, minted>>
      BY <2>5 DEF DeleteSubjects, DeleteScores, DeleteCycle, AddInsert, RemoveSubject, UpdWrite, SnapList, SnapRead, SnapWrite,
         panel
    <3> QED
      BY <3>1
  <2> QED
    BY <2>1, <2>2, <2>3, <2>4, <2>5
<1> QED
  BY <1>1, <1>3, <1>4, AnsweredKept

LEMMA SubmitAnswered ==
    ASSUME Typed, Answered, NEW w \in Workers, Claim(w) \/ Record(w) \/ Release(w)
    PROVE  Answered'
<1>1. Fit(task[w]) /\ inv \in [Leaders -> [Givers -> {"none", "out", "submitted"}]]
  BY DEF Typed, Tasks, DocsTyped, InvTyped
<1>2. resp \in [Leaders -> Count] /\ UNCHANGED <<minted, crashes>>
  BY DEF Typed, DocsTyped, RespTyped, Claim, Record, Release, panel
<1>3. PICK L \in Leaders, G \in Givers : task[w].l = L /\ task[w].g = G
  BY <1>1 DEF Claim, Record, Release, At, Fit
<1>4. PICK t : task' = [task EXCEPT ![w] = t]
  <2>1. \A pc : Goto(w, pc) => \E t : task' = [task EXCEPT ![w] = t]
    BY GotoIs
  <2>2. Finish(w) => \E t : task' = [task EXCEPT ![w] = t]
    BY DEF Finish
  <2> QED
    BY <2>1, <2>2 DEF Claim, Record, Release
<1>5. task'[w] = t /\ \A v \in Workers : v # w => task'[v] = task[v]
  BY <1>4 DEF Typed, Tasks
<1> SUFFICES ASSUME crashes = 0, NEW l \in Leaders, NEW g \in Givers, inv'[l][g] = "submitted",
                    ~(resp'[l][g] > 0)
             PROVE  \E v \in Workers : Holds(task'[v], l, g, minted[l][g])
  BY <1>2 DEF Answered
<1>6. resp[l][g] = 0
  BY <1>2, <1>3 DEF Claim, Record, Release, Count
<1>7. ASSUME NEW v \in Workers, v # w, Holds(task[v], l, g, minted[l][g])
      PROVE  \E u \in Workers : Holds(task'[u], l, g, minted[l][g])
  BY <1>5, <1>7
<1>8. inv[l][g] = "submitted" => \E v \in Workers : Holds(task[v], l, g, minted[l][g])
  BY <1>6 DEF Answered
<1>9. CASE Claim(w)
  <2>1. task[w].pc = "claim"
    BY <1>9 DEF Claim, At
  <2>2. CASE inv[l][g] = "submitted"
    BY <1>7, <1>8, <2>1, <2>2 DEF Holds
  <2>3. CASE inv[l][g] # "submitted"
    <3>1. Same(task[w]) /\ inv' = [inv EXCEPT ![L][G] = "submitted"] /\ Goto(w, "record")
      BY <1>3, <1>9, <2>3 DEF Claim
    <3>2. l = L /\ g = G
      BY <1>1, <2>3, <3>1
    <3>3. task'[w] = [task[w] EXCEPT !.pc = "record"]
      BY <3>1 DEF Goto, Typed, Tasks
    <3>4. Holds(task'[w], l, g, minted[l][g])
      BY <1>1, <1>3, <3>1, <3>2, <3>3 DEF Holds, Same, Fit, Task
    <3> QED
      BY <3>4
  <2> QED
    BY <2>2, <2>3
<1>10. CASE Record(w)
  <2>1. inv' = inv /\ task[w].pc = "record"
    BY <1>10 DEF Record, At, panel
  <2>2. PICK v \in Workers : Holds(task[v], l, g, minted[l][g])
    BY <1>8, <2>1
  <2>3. CASE v = w
    <3>1. l = L /\ g = G
      BY <1>3, <2>2, <2>3 DEF Holds
    <3>2. Goto(w, "release")
      <4>1. CASE resp' = [resp EXCEPT ![L][G] = resp[L][G] + 1]
        <5>1. resp'[l][g] = 1
          BY <1>2, <1>6, <3>1, <4>1 DEF Count
        <5> QED
          BY <5>1
      <4> QED
        BY <1>3, <1>10, <4>1 DEF Record
    <3>3. task'[w] = [task[w] EXCEPT !.pc = "release"]
      BY <3>2 DEF Goto, Typed, Tasks
    <3>4. Holds(task'[w], l, g, minted[l][g])
      BY <1>1, <2>2, <2>3, <3>3 DEF Holds, Fit, Task
    <3> QED
      BY <3>4
  <2> QED
    BY <1>7, <2>2, <2>3
<1>11. CASE Release(w)
  <2>1. \/ Same(task[w]) /\ inv[L][G] = "submitted" /\ inv' = [inv EXCEPT ![L][G] = "out"]
        \/ ~(Same(task[w]) /\ inv[L][G] = "submitted") /\ inv' = inv
    BY <1>3, <1>11 DEF Release
  <2>2. inv[l][g] = "submitted"
    BY <1>1, <2>1
  <2>3. PICK v \in Workers : Holds(task[v], l, g, minted[l][g])
    BY <1>8, <2>2
  <2>4. v # w
    <3> SUFFICES ASSUME v = w PROVE FALSE
      OBVIOUS
    <3>1. l = L /\ g = G /\ Same(task[w])
      BY <1>3, <2>3 DEF Holds, Same
    <3>2. inv' = [inv EXCEPT ![L][G] = "out"]
      BY <2>1, <2>2, <3>1
    <3> QED
      BY <1>1, <3>1, <3>2
  <2> QED
    BY <1>7, <2>3, <2>4
<1> QED
  BY <1>9, <1>10, <1>11

LEMMA EnvAnswered == ASSUME Typed, Answered, CreateCycle \/ Tick \/ Sweep \/ Crash PROVE Answered'
<1>1. CASE Crash
  <2>1. crashes' # 0
    BY <1>1 DEF Crash, Typed, DocsTyped, ClockTyped
  <2> QED
    BY <2>1 DEF Answered
<1>2. CASE CreateCycle \/ Tick \/ Sweep
  BY <1>2 DEF CreateCycle, Tick, Sweep, panel, Answered
<1> QED
  BY <1>1, <1>2

\* Nobody is told "already submitted" without an answer: whatever submissions, refusals,
\* panel edits and removals overlap, a submitted invitation has its response, or the
\* handler that claimed it, until the process dies (claim_for_submission, release_claim,
\* remove_subject).
THEOREM SubmissionsAnswered == Spec => []SubmittedIsAnswered
<1>1. Init => Typed /\ Answered
  BY InitTyped DEF Init, Answered
<1>2. ASSUME Typed, Answered, [Next]_vars PROVE Answered'
  <2>1. ASSUME NEW w \in Workers, Step(w) PROVE Answered'
    BY <1>2, <2>1, StartAnswered, OtherAnswered, SubmitAnswered DEF Step
  <2>2. CASE UNCHANGED vars
    BY <1>2, <2>2 DEF vars, panel, Answered
  <2> QED
    BY <1>2, <2>1, <2>2, EnvAnswered DEF Next
<1>3. (Typed /\ Answered) /\ [Next]_vars => (Typed /\ Answered)'
  BY <1>2, NextTyped
<1>4. Typed /\ Answered => SubmittedIsAnswered
  BY DEF Answered, Holds, SubmittedIsAnswered, InFlight
<1> QED
  BY <1>1, <1>3, <1>4, PTL DEF Spec

-----------------------------------------------------------------------------
(* Published scores.  As long as every patch wrote what it had judged, shut  *)
(* the window with the scores and had no unsettled request under it, a       *)
(* frozen cycle has left its window for good; nobody is about to add         *)
(* feedback or a leader, a deletion under way leaves no leader enrolled, and *)
(* one snapshot at most is at work.                                          *)

Adding == {"claim", "record", "add_insert"}
Erasing == {"del_links", "del_scores", "del_cycle"}
Snaps == {"snap_list", "snap_read", "snap_write"}

Shut ==
    /\ closes < now
    /\ \A w \in Workers : /\ task[w].pc \notin Adding
                          /\ task[w].pc \in Erasing => enrolled = {}
    /\ status = "published" => \A w \in Workers : task[w].pc \notin {"del_subjects"} \cup Erasing \cup Snaps

OneSnapshot == \A v, w \in Workers : task[v].pc \in Snaps /\ task[w].pc \in Snaps => v = w

\* Frozen rows are the feedback there is, for the leaders the snapshot has passed.
Frozen(L) == \A l \in L : frozen[l] = resp[l]
Passed(t) ==
    /\ t.pc = "snap_read" => Frozen(enrolled \ t.leaders)
    /\ t.pc = "snap_write" => Frozen(enrolled \ (t.leaders \cup {t.l})) /\ t.saw = resp[t.l]

Whole ==
    crashes = 0 =>
        /\ Frozen(enrolled) \/ Snapping
        /\ \A w \in Workers : Passed(task[w])

Governed == ~excused /\ status \in Manual => Shut /\ OneSnapshot /\ Whole

LEMMA SyncFacts ==
    ASSUME Sync
    PROVE  /\ status \in Manual => status' = status
           /\ status' \in Manual => status' = status
           /\ status' # "none"
           /\ opens' = opens /\ closes' = closes
BY DEF Sync, Derived, Manual

\* A step that is no patch's: what it must leave alone once the scores are frozen.
LEMMA OrdinaryGoverned ==
    ASSUME Typed, Governed, NEW w \in Workers, NEW t, task' = [task EXCEPT ![w] = t],
           task[w].pc \notin Snaps, t.pc \notin Snaps, UNCHANGED <<now, crashes, excused>>,
           ~excused /\ status' \in Manual =>
               /\ UNCHANGED <<status, closes>>
               /\ t.pc \notin Adding /\ (t.pc \in Erasing => enrolled' = {})
               /\ enrolled' \subseteq enrolled /\ resp' = resp
               /\ enrolled' = {} \/ frozen' = frozen,
           ~excused /\ status' = "published" => t.pc \notin {"del_subjects"} \cup Erasing
    PROVE  Governed'
<1> SUFFICES ASSUME ~excused, status' \in Manual PROVE (Shut /\ OneSnapshot /\ Whole)'
  BY DEF Governed
<1>1. task'[w] = t /\ \A v \in Workers : v # w => task'[v] = task[v]
  BY DEF Typed, Tasks
<1>2. /\ UNCHANGED <<status, closes, now, crashes>> /\ resp' = resp
      /\ enrolled' \subseteq enrolled /\ (enrolled' = {} \/ frozen' = frozen)
      /\ Shut /\ OneSnapshot /\ Whole
  BY DEF Governed
<1>3. Shut'
  BY <1>1, <1>2 DEF Shut, Manual
<1>4. OneSnapshot'
  BY <1>1, <1>2 DEF OneSnapshot
<1>5. Whole'
  <2>1. \A L : Frozen(L) /\ frozen' = frozen => Frozen(L)'
    BY <1>2 DEF Frozen
  <2>2. Snapping => Snapping'
    BY <1>1 DEF Snapping, Snaps
  <2>3. crashes = 0 => Frozen(enrolled)' \/ Snapping'
    BY <1>2, <2>2 DEF Whole, Frozen
  <2>4. crashes = 0 => \A v \in Workers : Passed(task[v])'
    <3> SUFFICES ASSUME crashes = 0, NEW v \in Workers PROVE Passed(task[v])'
      OBVIOUS
    <3>1. CASE v = w
      BY <1>1, <3>1 DEF Passed, Snaps
    <3>2. CASE v # w
      BY <1>1, <1>2, <3>2 DEF Whole, Passed, Frozen
    <3> QED
      BY <3>1, <3>2
  <2> QED
    BY <1>2, <2>3, <2>4 DEF Whole
<1> QED
  BY <1>3, <1>4, <1>5

LEMMA BeginGoverned ==
    ASSUME Typed, Governed, NEW w \in Workers, NEW t, Begin(w, t), t.pc \notin Snaps \cup Erasing,
           ~excused /\ status' \in Manual => UNCHANGED <<status, closes>> /\ t.pc \notin Adding,
           status' = "published" => t.pc # "del_subjects"
    PROVE  Governed'
<1>1. /\ task' = [task EXCEPT ![w] = t] /\ task[w] = Idle
      /\ UNCHANGED <<now, crashes, excused, enrolled, resp, frozen>>
  BY DEF Begin, panel
<1>2. task[w].pc \notin Snaps
  BY <1>1, IdleFits DEF Snaps
<1> QED
  BY <1>1, <1>2, OrdinaryGoverned

LEMMA StartGoverned ==
    ASSUME Typed, Governed, NEW w \in Workers,
           StartDelete(w) \/ StartAdd(w) \/ StartRemove(w) \/ StartPanel(w) \/ StartSubmit(w)
             \/ StartPatch(w)
    PROVE  Governed'
<1> USE DEF Adding, Erasing, Snaps
<1>1. CASE StartDelete(w)
  <2> DEFINE t == [Idle EXCEPT !.pc = "del_subjects"]
  <2>1. Sync /\ status' # "published" /\ Begin(w, t) /\ t.pc = "del_subjects"
    BY <1>1 DEF StartDelete, Idle
  <2> HIDE DEF t
  <2> QED
    BY <2>1, SyncFacts, BeginGoverned
<1>2. CASE StartAdd(w)
  <2>1. PICK l \in Leaders : /\ Sync /\ status' \in Collecting
                             /\ Begin(w, [Idle EXCEPT !.pc = "add_insert", !.l = l])
    BY <1>2 DEF StartAdd
  <2> DEFINE t == [Idle EXCEPT !.pc = "add_insert", !.l = l]
  <2>2. t.pc = "add_insert" /\ Begin(w, t)
    BY <2>1 DEF Idle
  <2> HIDE DEF t
  <2>3. status' \notin Manual
    BY <2>1 DEF Collecting, Manual
  <2> QED
    BY <2>2, <2>3, BeginGoverned
<1>3. CASE StartRemove(w)
  <2>1. PICK l \in Leaders :
            UNCHANGED cycle /\ Begin(w, [Idle EXCEPT !.pc = "rm_links", !.l = l])
    BY <1>3 DEF StartRemove
  <2> DEFINE t == [Idle EXCEPT !.pc = "rm_links", !.l = l]
  <2>2. t.pc = "rm_links" /\ Begin(w, t)
    BY <2>1 DEF Idle
  <2> HIDE DEF t
  <2> QED
    BY <2>1, <2>2, BeginGoverned DEF cycle
<1>4. CASE StartPanel(w)
  <2>1. PICK l \in enrolled, G \in SUBSET Givers :
            /\ Sync /\ status' \in Collecting
            /\ Begin(w, [Idle EXCEPT !.pc = IF G = {} THEN "panel_drop" ELSE "panel_create",
                                     !.l = l, !.givers = G, !.wanted = G])
    BY <1>4 DEF StartPanel
  <2> DEFINE t == [Idle EXCEPT !.pc = IF G = {} THEN "panel_drop" ELSE "panel_create",
                               !.l = l, !.givers = G, !.wanted = G]
  <2>2. t.pc \in {"panel_drop", "panel_create"} /\ Begin(w, t)
    BY <2>1 DEF Idle
  <2> HIDE DEF t
  <2>3. status' \notin Manual
    BY <2>1 DEF Collecting, Manual
  <2> QED
    BY <2>2, <2>3, BeginGoverned DEF Manual
<1>5. CASE StartSubmit(w)
  <2>1. PICK l \in Leaders, g \in Givers :
            /\ IF status = "none" THEN UNCHANGED cycle ELSE Sync
            /\ status # "none" => WindowOpen
            /\ Begin(w, [Idle EXCEPT !.pc = "claim", !.l = l, !.g = g, !.no = minted[l][g]])
    BY <1>5 DEF StartSubmit
  <2> DEFINE t == [Idle EXCEPT !.pc = "claim", !.l = l, !.g = g, !.no = minted[l][g]]
  <2>2. t.pc = "claim" /\ Begin(w, t)
    BY <2>1 DEF Idle
  <2> HIDE DEF t
  <2>3. ~excused => status \notin Manual
    <3>1. ~excused /\ status \in Manual => status # "none" /\ closes < now
      BY DEF Governed, Shut, Manual
    <3>2. now \in Nat /\ closes \in Nat
      BY LeadershipAssumption DEF Typed, DocsTyped, ClockTyped, CycleTyped, Times
    <3> QED
      BY <2>1, <3>1, <3>2 DEF WindowOpen
  <2>4. ~excused => status' \notin Manual
    BY <2>1, <2>3, SyncFacts DEF cycle
  <2> QED
    BY <2>2, <2>4, BeginGoverned
<1>6. CASE StartPatch(w)
  <2>1. PICK to \in CycleStatus, at \in Times \cup {Never} :
            Sync /\ Begin(w, [Idle EXCEPT !.pc = "upd_write", !.to = to, !.at = at])
    BY <1>6 DEF StartPatch
  <2> DEFINE t == [Idle EXCEPT !.pc = "upd_write", !.to = to, !.at = at]
  <2>2. t.pc = "upd_write" /\ Begin(w, t)
    BY <2>1 DEF Idle
  <2> HIDE DEF t
  <2> QED
    BY <2>1, <2>2, SyncFacts, BeginGoverned
<1> QED
  BY <1>1, <1>2, <1>3, <1>4, <1>5, <1>6

\* The steps of a request under way that is no patch.
Deletes(w) == DeleteSubjects(w) \/ DeleteLinks(w) \/ DeleteScores(w) \/ DeleteCycle(w)
Ordinary(w) ==
    \/ Deletes(w) \/ AddInsert(w) \/ RemoveLinks(w) \/ RemoveSubject(w)
    \/ PanelCreate(w) \/ PanelDrop(w) \/ Claim(w) \/ Record(w) \/ Release(w)

\* Where such a step takes its request.
LEMMA OrdinaryMoves ==
    ASSUME Typed, NEW w \in Workers, Ordinary(w)
    PROVE  /\ task[w].pc \notin Snaps
           /\ \E t : /\ task' = [task EXCEPT ![w] = t]
                     /\ t.pc \notin Snaps
                     /\ t.pc \in Adding => task[w].pc \in Adding
                     /\ t.pc # "del_subjects"
                     /\ t.pc \in Erasing => DeleteSubjects(w) \/ task[w].pc \in Erasing
<1> USE DEF Adding, Erasing, Snaps
<1>1. task[w].pc \notin Snaps
  BY DEF Ordinary, Deletes, DeleteSubjects, DeleteLinks, DeleteScores, DeleteCycle, AddInsert,
     RemoveLinks, RemoveSubject, PanelCreate, PanelDrop, Claim, Record, Release, At
<1> DEFINE Good(t) == /\ task' = [task EXCEPT ![w] = t]
                      /\ t.pc \notin Snaps
                      /\ t.pc \in Adding => task[w].pc \in Adding
                      /\ t.pc # "del_subjects"
                      /\ t.pc \in Erasing => DeleteSubjects(w) \/ task[w].pc \in Erasing
<1>2. CASE Finish(w)
  <2>1. PICK t : task' = [task EXCEPT ![w] = t] /\ t.pc = "idle"
    BY <1>2, FinishIs
  <2>2. Good(t)
    BY <2>1
  <2> QED
    BY <1>1, <2>2
<1>3. ASSUME NEW pc, Goto(w, pc), pc \notin Snaps \cup {"del_subjects"},
             pc \in Adding => task[w].pc \in Adding,
             pc \in Erasing => DeleteSubjects(w) \/ task[w].pc \in Erasing
      PROVE  \E t : Good(t)
  <2>1. PICK t : task' = [task EXCEPT ![w] = t] /\ t.pc = pc
    BY <1>3, GotoIs
  <2>2. Good(t)
    BY <1>3, <2>1
  <2> QED
    BY <2>2
<1>4. CASE PanelCreate(w)
  <2>1. PICK g \in task[w].givers :
          task' = [task EXCEPT ![w].givers = task[w].givers \ {g},
                               ![w].pc = IF task[w].givers = {g} THEN "panel_drop" ELSE "panel_create"]
    BY <1>4 DEF PanelCreate
  <2> DEFINE pc == IF task[w].givers = {g} THEN "panel_drop" ELSE "panel_create"
             t == [task[w] EXCEPT !.givers = task[w].givers \ {g}, !.pc = pc]
  <2>2. task' = [task EXCEPT ![w] = t]
    BY <2>1 DEF Typed, Tasks
  <2>3. t.pc = pc
    BY DEF Typed, Tasks, Fit, Task
  <2>4. pc \in {"panel_drop", "panel_create"}
    OBVIOUS
  <2> HIDE DEF pc, t
  <2>5. Good(t)
    BY <2>2, <2>3, <2>4
  <2> QED
    BY <1>1, <2>5
<1>5. CASE PanelDrop(w) /\ UNCHANGED task
  <2>1. task' = [task EXCEPT ![w] = task[w]]
    BY <1>5 DEF Typed, Tasks
  <2>2. Good(task[w])
    BY <1>5, <2>1 DEF PanelDrop, At
  <2> QED
    BY <1>1, <2>2
<1>6. CASE DeleteSubjects(w)
  <2>1. Goto(w, "del_links")
    BY <1>6 DEF DeleteSubjects
  <2> QED
    BY <1>1, <1>3, <1>6, <2>1
<1>7. CASE DeleteLinks(w) \/ DeleteScores(w)
  <2>1. (Goto(w, "del_scores") \/ Goto(w, "del_cycle")) /\ task[w].pc \in Erasing
    BY <1>7 DEF DeleteLinks, DeleteScores, At
  <2> QED
    BY <1>1, <1>3, <2>1
<1>8. CASE RemoveLinks(w) \/ Claim(w) \/ Record(w)
  <2>1. \/ Finish(w) \/ Goto(w, "rm_subject") \/ Goto(w, "release")
        \/ Goto(w, "record") /\ task[w].pc = "claim"
    BY <1>8 DEF RemoveLinks, Claim, Record, At
  <2> QED
    BY <1>1, <1>2, <1>3, <2>1
<1> QED
  BY <1>2, <1>4, <1>5, <1>6, <1>7, <1>8
     DEF Ordinary, Deletes, DeleteCycle, AddInsert, RemoveSubject, PanelDrop, Release

LEMMA StepGoverned ==
    ASSUME Typed, Governed, NEW w \in Workers, Ordinary(w) PROVE Governed'
<1> USE DEF Ordinary, Deletes
<1>1. PICK t : /\ task' = [task EXCEPT ![w] = t]
               /\ t.pc \notin Snaps
               /\ t.pc \in Adding => task[w].pc \in Adding
               /\ t.pc # "del_subjects"
               /\ t.pc \in Erasing => DeleteSubjects(w) \/ task[w].pc \in Erasing
  BY OrdinaryMoves
<1>2. task[w].pc \notin Snaps
  BY OrdinaryMoves
<1>3. UNCHANGED <<now, crashes, excused>>
  BY DEF DeleteSubjects, DeleteLinks, DeleteScores, DeleteCycle, AddInsert, RemoveLinks, RemoveSubject,
     PanelCreate, PanelDrop, Claim, Record, Release
<1>4. status' # "none" => UNCHANGED <<status, closes>>
  BY DEF DeleteSubjects, DeleteLinks, DeleteScores, DeleteCycle, AddInsert, RemoveLinks, RemoveSubject,
     PanelCreate, PanelDrop, Claim, Record, Release, cycle
<1>5. task[w].pc \notin Adding => enrolled' \subseteq enrolled /\ resp' = resp
  BY DEF DeleteSubjects, DeleteLinks, DeleteScores, DeleteCycle, AddInsert, RemoveLinks, RemoveSubject,
     PanelCreate, PanelDrop, Claim, Record, Release, panel, At, Adding
<1>6. frozen' = frozen \/ (task[w].pc \in Erasing /\ enrolled' = enrolled)
  BY DEF DeleteSubjects, DeleteLinks, DeleteScores, DeleteCycle, AddInsert, RemoveLinks, RemoveSubject,
     PanelCreate, PanelDrop, Claim, Record, Release, panel, At, Erasing
<1>7. DeleteSubjects(w) => enrolled' = {} /\ task[w].pc = "del_subjects"
  BY DEF DeleteSubjects, At
<1>8. ~excused /\ status' \in Manual =>
          /\ UNCHANGED <<status, closes>> /\ task[w].pc \notin Adding
          /\ task[w].pc \in Erasing => enrolled = {}
  BY <1>4 DEF Governed, Shut, Manual
<1>9. ~excused /\ status' = "published" => task[w].pc \notin {"del_subjects"} \cup Erasing
  BY <1>8 DEF Governed, Shut, Manual
<1>10. ~excused /\ status' \in Manual =>
          /\ UNCHANGED <<status, closes>> /\ t.pc \notin Adding /\ (t.pc \in Erasing => enrolled' = {})
          /\ enrolled' \subseteq enrolled /\ resp' = resp /\ (enrolled' = {} \/ frozen' = frozen)
  <2> SUFFICES ASSUME ~excused, status' \in Manual
               PROVE  /\ UNCHANGED <<status, closes>> /\ t.pc \notin Adding
                      /\ t.pc \in Erasing => enrolled' = {}
                      /\ enrolled' \subseteq enrolled /\ resp' = resp
                      /\ enrolled' = {} \/ frozen' = frozen
    OBVIOUS
  <2>1. /\ UNCHANGED <<status, closes>> /\ task[w].pc \notin Adding
        /\ enrolled' \subseteq enrolled /\ resp' = resp
        /\ task[w].pc \in Erasing => enrolled' = {}
    BY <1>5, <1>8
  <2> HIDE DEF Ordinary, Deletes
  <2> QED
    BY <1>1, <1>6, <1>7, <2>1
<1>11. ~excused /\ status' = "published" => t.pc \notin {"del_subjects"} \cup Erasing
  BY <1>1, <1>7, <1>9
<1> HIDE DEF Ordinary, Deletes
<1> QED
  BY <1>1, <1>2, <1>3, <1>10, <1>11, OrdinaryGoverned

\* The write of a patch that is not excused: it fits the cycle as it is, shuts the window
\* with the scores, and has nobody unsettled under it.
LEMMA UpdGoverned ==
    ASSUME Typed, Governed, NEW w \in Workers, UpdWrite(w) PROVE Governed'
<1> DEFINE to == task[w].to
           at == task[w].at
<1> SUFFICES ASSUME ~excused', status' \in Manual PROVE (Shut /\ OneSnapshot /\ Whole)'
  BY DEF Governed
<1>1. UNCHANGED <<now, crashes, enrolled, resp, frozen>> /\ task[w].pc = "upd_write"
  BY DEF UpdWrite, At, panel
<1>2. /\ status # "none" /\ status' = (IF to = "none" THEN status ELSE to)
      /\ closes' = (IF at # Never THEN at ELSE closes)
      /\ excused' = (excused \/ Overtaken(task[w]) \/ KeepsOpen(task[w]) \/ Underneath(w))
  BY DEF UpdWrite, cycle, Manual
<1>3. ~excused /\ ~Overtaken(task[w]) /\ ~KeepsOpen(task[w]) /\ ~Underneath(w)
  BY <1>2, Zenon
<1>4. MayPatch(Derived, to, at)
  BY <1>3 DEF Overtaken
<1>5. \A v \in Workers : v # w => task[v].pc \notin Adding \cup {"del_subjects"} \cup Erasing \cup Snaps
  BY <1>3 DEF Underneath, Unsettled, Adding, Erasing, Snaps
<1>6. now \in Nat /\ closes' \in Nat
  <2>1. now \in Nat /\ closes \in Nat
    BY LeadershipAssumption DEF Typed, DocsTyped, ClockTyped, CycleTyped, Times
  <2>2. at \in Times \cup {Never}
    BY DEF Typed, Tasks, Fit, Task
  <2> QED
    BY <1>2, <2>1, <2>2, LeadershipAssumption DEF Times
<1>7. to # "computed" => status \in Manual /\ at = Never
  <2>1. to = "none" => status \in Manual
    BY <1>2
  <2>2. to # "computed" /\ to # "none" => to = "published"
    BY <1>2 DEF Manual
  <2>3. to = "published" => status \in Manual
    BY <1>4 DEF MayPatch, MayMove, Derived, Manual
  <2>4. status \in Manual => at = Never
    <3>1. status \in Manual => Derived = status
      BY DEF Derived
    <3> QED
      BY <1>4, <3>1 DEF MayPatch
  <2> QED
    BY <2>1, <2>2, <2>3, <2>4
<1>8. closes' < now
  <2>1. CASE to = "computed"
    BY <1>3, <1>6, <2>1 DEF KeepsOpen
  <2>2. CASE to # "computed"
    BY <1>2, <1>3, <1>7, <2>2 DEF Governed, Shut
  <2> QED
    BY <2>1, <2>2
<1>9. PICK t : /\ task' = [task EXCEPT ![w] = t]
               /\ t.pc = IF to = "computed" THEN "snap_list" ELSE "idle"
  <2>1. CASE to = "computed"
    <3>1. Goto(w, "snap_list")
      BY <2>1 DEF UpdWrite
    <3> QED
      BY <2>1, <3>1, GotoIs
  <2>2. CASE to # "computed"
    <3>1. Finish(w)
      BY <2>2 DEF UpdWrite
    <3> QED
      BY <2>2, <3>1, FinishIs
  <2> QED
    BY <2>1, <2>2
<1>10. task'[w] = t /\ \A v \in Workers : v # w => task'[v] = task[v]
  BY <1>9 DEF Typed, Tasks
<1>11. status' = "published" => to # "computed"
  BY <1>2
<1> HIDE DEF to, at
<1>12. Shut'
  BY <1>1, <1>5, <1>8, <1>9, <1>10, <1>11 DEF Shut, Adding, Erasing, Snaps
<1>13. OneSnapshot'
  BY <1>5, <1>10 DEF OneSnapshot
<1>14. Whole'
  <2>1. \A v \in Workers : Passed(task[v])'
    BY <1>5, <1>9, <1>10 DEF Passed, Snaps
  <2>2. CASE to = "computed"
    BY <1>9, <1>10, <2>1, <2>2 DEF Whole, Snapping
  <2>3. CASE to # "computed"
    <3>1. ~Snapping
      BY <1>1, <1>5 DEF Snapping, Snaps
    <3>2. crashes = 0 => Frozen(enrolled)
      BY <1>3, <1>7, <2>3, <3>1 DEF Governed, Whole
    <3>3. crashes = 0 => Frozen(enrolled)'
      BY <1>1, <3>2 DEF Frozen
    <3> QED
      BY <1>1, <2>1, <3>3 DEF Whole
  <2> QED
    BY <2>2, <2>3
<1> QED
  BY <1>12, <1>13, <1>14

\* A step of the snapshot keeps the cycle, and what it has passed.
LEMMA SnapGoverned ==
    ASSUME Typed, Governed, NEW w \in Workers, task[w].pc \in Snaps,
           NEW t, task' = [task EXCEPT ![w] = t], t.pc \in Snaps \cup {"idle"},
           UNCHANGED <<now, crashes, excused, enrolled, resp>>,
           status' \in Manual => UNCHANGED <<status, closes>>,
           Whole /\ crashes = 0 => /\ t.pc = "idle" => Frozen(enrolled)'
                                   /\ Passed(task[w])'
    PROVE  Governed'
<1> SUFFICES ASSUME ~excused, status' \in Manual PROVE (Shut /\ OneSnapshot /\ Whole)'
  BY DEF Governed
<1>1. /\ UNCHANGED <<status, closes>> /\ status # "published"
      /\ Shut /\ OneSnapshot /\ Whole
  BY DEF Governed, Shut
<1>2. task'[w] = t /\ \A v \in Workers : v # w => task'[v] = task[v] /\ task[v].pc \notin Snaps
  BY <1>1 DEF OneSnapshot, Typed, Tasks
<1>3. Shut'
  BY <1>1, <1>2 DEF Shut, Adding, Erasing, Snaps
<1>4. OneSnapshot'
  BY <1>2 DEF OneSnapshot
<1>5. Whole'
  <2>1. t.pc # "idle" => Snapping'
    BY <1>2 DEF Snapping, Snaps
  <2>2. \A v \in Workers : v # w => Passed(task[v])'
    BY <1>2 DEF Passed, Snaps
  <2> QED
    BY <1>1, <2>1, <2>2 DEF Whole
<1> QED
  BY <1>3, <1>4, <1>5

LEMMA SnapStepGoverned ==
    ASSUME Typed, Governed, NEW w \in Workers, SnapList(w) \/ SnapRead(w) \/ SnapWrite(w)
    PROVE  Governed'
<1> DEFINE r == task[w]
<1>1. r.pc \in Snaps /\ Fit(r)
  BY DEF SnapList, SnapRead, SnapWrite, At, Snaps, Typed, Tasks
<1>2. UNCHANGED <<now, crashes, excused, enrolled, resp>>
  BY DEF SnapList, SnapRead, SnapWrite, panel
<1>3. status' \in Manual => UNCHANGED <<status, closes>>
  BY SyncFacts DEF SnapList, SnapRead, SnapWrite, cycle
<1>4. Whole /\ crashes = 0 => Passed(r)
  BY DEF Whole
<1>5. CASE SnapList(w)
  <2> DEFINE t == [r EXCEPT !.leaders = enrolled, !.pc = "snap_read"]
  <2>1. task' = [task EXCEPT ![w] = t]
    BY <1>5 DEF SnapList, Typed, Tasks
  <2>2. t.pc = "snap_read" /\ t.leaders = enrolled
    BY <1>1 DEF Fit, Task
  <2> HIDE DEF t
  <2>3. Passed(task[w])'
    <3>1. task'[w] = t
      BY <2>1 DEF Typed, Tasks
    <3> QED
      BY <1>2, <2>2, <3>1 DEF Passed, Frozen
  <2> QED
    BY <1>1, <1>2, <1>3, <2>1, <2>2, <2>3, SnapGoverned DEF Snaps
<1>6. CASE SnapRead(w)
  <2>1. r.pc = "snap_read" /\ frozen' = frozen
    BY <1>6 DEF SnapRead, At
  <2>2. Whole /\ crashes = 0 => Frozen(enrolled \ r.leaders)
    BY <1>4, <2>1 DEF Passed
  <2>3. CASE r.leaders = {} /\ Finish(w)
    <3>1. PICK t : task' = [task EXCEPT ![w] = t] /\ t.pc = "idle"
      BY <2>3, FinishIs
    <3>2. Whole /\ crashes = 0 => Frozen(enrolled)'
      BY <1>2, <2>1, <2>2, <2>3 DEF Frozen
    <3>3. Passed(task[w])'
      BY <3>1 DEF Passed, Typed, Tasks
    <3> QED
      BY <1>1, <1>2, <1>3, <3>1, <3>2, <3>3, SnapGoverned
  <2>4. ASSUME NEW l \in r.leaders,
               task' = [task EXCEPT ![w].l = l, ![w].saw = resp[l],
                                    ![w].leaders = r.leaders \ {l}, ![w].pc = "snap_write"]
        PROVE  Governed'
    <3> DEFINE t == [r EXCEPT !.l = l, !.saw = resp[l], !.leaders = r.leaders \ {l},
                              !.pc = "snap_write"]
    <3>1. task' = [task EXCEPT ![w] = t]
      BY <2>4 DEF Typed, Tasks
    <3>2. t.pc = "snap_write" /\ t.l = l /\ t.saw = resp[l] /\ t.leaders = r.leaders \ {l}
      BY <1>1 DEF Fit, Task
    <3> HIDE DEF t
    <3>3. Whole /\ crashes = 0 => Passed(task[w])'
      <4>1. task'[w] = t
        BY <3>1 DEF Typed, Tasks
      <4> QED
        BY <1>2, <2>1, <2>2, <3>2, <4>1 DEF Passed, Frozen
    <3> QED
      BY <1>1, <1>2, <1>3, <3>1, <3>2, <3>3, SnapGoverned DEF Snaps
  <2> QED
    BY <1>6, <2>3, <2>4 DEF SnapRead
<1>7. CASE SnapWrite(w)
  <2>1. r.pc = "snap_write" /\ Goto(w, "snap_read") /\ frozen' = [frozen EXCEPT ![r.l] = r.saw]
    BY <1>7 DEF SnapWrite, At
  <2> DEFINE t == [r EXCEPT !.pc = "snap_read"]
  <2>2. task' = [task EXCEPT ![w] = t]
    BY <2>1 DEF Goto, Typed, Tasks
  <2>3. t.pc = "snap_read" /\ t.leaders = r.leaders
    BY <1>1 DEF Fit, Task
  <2> HIDE DEF t
  <2>4. Whole /\ crashes = 0 => Frozen(enrolled \ (r.leaders \cup {r.l})) /\ r.saw = resp[r.l]
    BY <1>4, <2>1 DEF Passed
  <2>5. enrolled \subseteq Leaders /\ DOMAIN frozen = Leaders
    BY DEF Typed, DocsTyped, EnrolledTyped, FrozenTyped
  <2>6. Whole /\ crashes = 0 => \A l \in enrolled' \ r.leaders : frozen'[l] = resp'[l]
    BY <1>2, <2>1, <2>4, <2>5 DEF Frozen
  <2>7. Whole /\ crashes = 0 => Passed(task[w])'
    <3>1. task'[w] = t
      BY <2>2 DEF Typed, Tasks
    <3> QED
      BY <2>3, <2>6, <3>1 DEF Passed, Frozen
  <2> QED
    BY <1>1, <1>2, <1>3, <2>2, <2>3, <2>7, SnapGoverned DEF Snaps
<1> QED
  BY <1>5, <1>6, <1>7

LEMMA EnvGoverned == ASSUME Typed, Governed, CreateCycle \/ Tick \/ Sweep \/ Crash PROVE Governed'
<1>1. now \in Nat /\ closes \in Nat
  BY LeadershipAssumption DEF Typed, DocsTyped, ClockTyped, CycleTyped, Times
<1>2. CASE CreateCycle
  BY <1>2 DEF CreateCycle, Governed, Manual
<1>3. CASE Tick \/ Sweep
  <2>1. /\ UNCHANGED <<excused, crashes, enrolled, resp, frozen, task, closes>>
        /\ now' \in Nat /\ now <= now'
        /\ status' \in Manual => status' = status
    BY <1>1, <1>3, SyncFacts DEF Tick, Sweep, cycle, panel
  <2>2. closes < now => closes' < now'
    BY <1>1, <2>1
  <2> QED
    BY <2>1, <2>2 DEF Governed, Shut, OneSnapshot, Whole, Frozen, Passed, Snapping, Manual
<1>4. CASE Crash
  <2>1. /\ UNCHANGED <<now, status, closes, excused>> /\ crashes' # 0
        /\ task' = [w \in Workers |-> Idle]
    BY <1>4 DEF Crash, cycle, Typed, DocsTyped, ClockTyped
  <2>2. \A w \in Workers : task'[w].pc = "idle"
    BY <2>1, IdleFits
  <2> QED
    BY <2>1, <2>2 DEF Governed, Shut, OneSnapshot, Adding, Erasing, Snaps, Whole
<1> QED
  BY <1>2, <1>3, <1>4

LEMMA InitGoverned == Init => Governed
  BY DEF Init, Governed, Manual

LEMMA NextGoverned ==
    ASSUME Typed, Governed, [Next]_vars PROVE Governed'
<1>1. ASSUME NEW w \in Workers, Step(w) PROVE Governed'
  BY <1>1, StartGoverned, StepGoverned, UpdGoverned, SnapStepGoverned DEF Step, Ordinary, Deletes
<1>2. CASE UNCHANGED vars
  BY <1>2 DEF vars, cycle, panel, Governed, Shut, OneSnapshot, Whole, Frozen, Passed, Snapping
<1> QED
  BY <1>1, <1>2, EnvGoverned DEF Next

LEMMA WholeScores == Governed => FrozenIsWhole
<1> SUFFICES ASSUME Governed, status \in Manual, ~Snapping, crashes = 0, ~excused
             PROVE  \A l \in enrolled : frozen[l] = resp[l]
  BY DEF FrozenIsWhole
<1> QED
  BY DEF Governed, Whole, Frozen

\* A frozen score counts the feedback there is, for any leaders, givers, moments and
\* overlapping requests, patches of the cycle among them: until a patch overwrites what it
\* did not read, freezes the scores with the window open, or freezes them under a request
\* that had passed its checks (update_cycle, snapshot_cycle_scores).
THEOREM ScoresWhole == Spec => []FrozenIsWhole
<1>1. Init => Typed /\ Governed
  BY InitTyped, InitGoverned
<1>2. (Typed /\ Governed) /\ [Next]_vars => (Typed /\ Governed)'
  BY NextTyped, NextGoverned
<1>3. Typed /\ Governed => FrozenIsWhole
  BY WholeScores
<1> QED
  BY <1>1, <1>2, <1>3, PTL DEF Spec

LEMMA NextFinal ==
    ASSUME Typed, Governed, [Next]_vars, ~excused'
    PROVE  /\ status = "published" => status' = "published" /\ frozen' = frozen
           /\ status \in Manual => resp' = resp
<1> DEFINE Final == /\ status = "published" => status' = "published" /\ frozen' = frozen
                    /\ status \in Manual => resp' = resp
<1>1. CASE UNCHANGED vars
  BY <1>1 DEF vars, cycle
<1>2. CASE CreateCycle \/ Tick \/ Sweep \/ Crash
  BY <1>2, SyncFacts DEF CreateCycle, Tick, Sweep, Crash, cycle, Manual
<1>3. ASSUME NEW w \in Workers, Step(w) PROVE Final
  <2>1. CASE \/ StartDelete(w) \/ StartAdd(w) \/ StartRemove(w) \/ StartPanel(w)
             \/ StartSubmit(w) \/ StartPatch(w)
    <3>1. UNCHANGED <<resp, frozen>>
      BY <2>1 DEF StartDelete, StartAdd, StartRemove, StartPanel, StartSubmit, StartPatch, Begin
    <3>2. Sync \/ UNCHANGED cycle
      BY <2>1 DEF StartDelete, StartAdd, StartRemove, StartPanel, StartSubmit, StartPatch
    <3> QED
      BY <3>1, <3>2, SyncFacts DEF cycle, Manual
  <2>2. CASE Ordinary(w)
    <3> USE DEF Ordinary, Deletes
    <3>1. task[w].pc \in Adding \/ resp' = resp
      BY <2>2 DEF DeleteSubjects, DeleteLinks, DeleteScores, DeleteCycle, AddInsert, RemoveLinks,
         RemoveSubject, PanelCreate, PanelDrop, Claim, Record, Release, At, Adding, panel
    <3>2. task[w].pc \in Erasing \/ (frozen' = frozen /\ status' = status)
      BY <2>2 DEF DeleteSubjects, DeleteLinks, DeleteScores, DeleteCycle, AddInsert, RemoveLinks,
         RemoveSubject, PanelCreate, PanelDrop, Claim, Record, Release, At, Erasing, cycle
    <3>3. ~excused
      BY <2>2 DEF DeleteSubjects, DeleteLinks, DeleteScores, DeleteCycle, AddInsert, RemoveLinks,
         RemoveSubject, PanelCreate, PanelDrop, Claim, Record, Release
    <3> QED
      BY <3>1, <3>2, <3>3 DEF Governed, Shut, Manual
  <2>3. CASE UpdWrite(w)
    <3>1. UNCHANGED <<resp, frozen>>
      BY <2>3 DEF UpdWrite
    <3>2. ASSUME status = "published" PROVE status' = "published"
      <4>1. /\ status' = (IF task[w].to = "none" THEN status ELSE task[w].to)
            /\ excused' = (excused \/ Overtaken(task[w]) \/ KeepsOpen(task[w]) \/ Underneath(w))
        BY <2>3, <3>2 DEF UpdWrite
      <4>2. ~Overtaken(task[w])
        BY <4>1, Zenon
      <4>3. Derived = "published"
        BY <3>2 DEF Derived, Manual
      <4>4. task[w].to # "none" => MayMove("published", task[w].to)
        BY <4>2, <4>3 DEF Overtaken, MayPatch
      <4> QED
        BY <3>2, <4>1, <4>4 DEF MayMove
    <3> QED
      BY <3>1, <3>2
  <2>4. CASE SnapList(w) \/ SnapRead(w) \/ SnapWrite(w)
    <3>1. task[w].pc \in Snaps /\ resp' = resp /\ excused' = excused
      BY <2>4 DEF SnapList, SnapRead, SnapWrite, At, Snaps
    <3>2. ~excused
      BY <3>1, Zenon
    <3>3. status # "published"
      BY <3>1, <3>2 DEF Governed, Shut, Manual
    <3> QED
      BY <3>1, <3>3
  <2> HIDE DEF Final
  <2> QED
    BY <1>3, <2>1, <2>2, <2>3, <2>4 DEF Step, Ordinary, Deletes
<1> QED
  BY <1>1, <1>2, <1>3 DEF Next

\* What leaders were shown does not change, for any leaders, givers, moments and overlapping
\* requests, and across restarts: but for the same three kinds of patch, a published cycle
\* and its frozen scores stay, and no feedback arrives once the scores are frozen
\* (update_cycle, derived_status, submit_response).
THEOREM PublishedStays == Spec => PublishedIsFinal
<1>1. Init => Typed /\ Governed
  BY InitTyped, InitGoverned
<1>2. (Typed /\ Governed) /\ [Next]_vars => (Typed /\ Governed)'
  BY NextTyped, NextGoverned
<1>3. (Typed /\ Governed) /\ [Next]_vars =>
          [~excused' =>
             /\ status = "published" => status' = "published" /\ frozen' = frozen
             /\ status \in Manual => resp' = resp]_vars
  BY NextFinal
<1> QED
  BY <1>1, <1>2, <1>3, PTL DEF Spec, PublishedIsFinal
=============================================================================
