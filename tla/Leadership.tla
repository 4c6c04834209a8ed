----------------------------- MODULE Leadership -----------------------------
(***************************************************************************)
(* One cycle of leadership feedback at one company (leadership_service,    *)
(* leadership_link_service and routes/leadership.py): the cycle and its    *)
(* window, the leaders enrolled, the panel of givers each has, the         *)
(* feedback they submit, and the scores frozen and published.              *)
(*                                                                         *)
(* The reads a handler starts with are one step, every call that writes is *)
(* another, and the handlers interleave.  get_cycle also brings the stored *)
(* status in line with the clock; its compare and set makes the read and   *)
(* that write one step, and the Sweep stands for whoever reads last.       *)
(***************************************************************************)
EXTENDS Naturals, FiniteSets

CONSTANTS
    Leaders, Givers,
    MaxNow,     \* bound: moments of the clock
    MaxMint,    \* bound: times one giver is invited for one leader
    Workers,    \* requests in flight at once
    MaxCrashes  \* bound: process restarts

ASSUME LeadershipAssumption ==
    /\ IsFiniteSet(Leaders) /\ IsFiniteSet(Givers) /\ IsFiniteSet(Workers)
    /\ "none" \notin Leaders \cup Givers
    /\ MaxNow \in Nat /\ MaxMint \in Nat /\ MaxCrashes \in Nat

VARIABLES
    now,        \* the clock
    status,     \* tpms_leadership_cycles: status, "none" when there is no cycle
    opens,      \* .. and its window
    closes,
    enrolled,   \* tpms_leadership_subjects
    inv,        \* tpms_leadership_assignments: status, by leader and giver
    resp,       \* tpms_leadership_responses: documents; the giver is known to the model only
    frozen,     \* tpms_leadership_scores: the responses a frozen score counts
    minted,     \* audit: invitations created so far
    excused,    \* history: a patch has written what the properties do not hold the code to
    crashes,    \* restarts of the process so far
    task        \* the request handlers in flight

cycle == <<status, opens, closes>>
panel == <<enrolled, inv, minted>>
vars == <<now, cycle, panel, resp, frozen, excused, crashes, task>>

Manual == {"computed", "published"}
Collecting == {"draft", "open"}
CycleStatus == {"none", "draft", "open", "closed"} \cup Manual
Times == 0..MaxNow
Never == MaxNow + 1
Count == [Givers -> 0..MaxMint]
None == [g \in Givers |-> 0]
NotFrozen == [g \in Givers |-> MaxMint + 1]

\* l, g and no: the leader, the giver and which of their invitations; givers: those left to write or drop; leaders:
\* those left to freeze; to, at: status and close date of a patch; saw: responses read.
Task == [pc: {"idle", "claim", "record", "release", "add_insert", "panel_create", "panel_drop",
              "rm_links", "rm_subject", "del_subjects", "del_links",
              "del_scores", "del_cycle", "upd_write", "snap_list", "snap_read", "snap_write"},
         l: Leaders \cup {"none"}, g: Givers \cup {"none"}, no: 0..MaxMint, givers: SUBSET Givers,
         wanted: SUBSET Givers, leaders: SUBSET Leaders, to: CycleStatus, at: Times \cup {Never},
         saw: [Givers -> 0..(MaxMint + 1)]]
Idle == [pc |-> "idle", l |-> "none", g |-> "none", no |-> 0, givers |-> {}, wanted |-> {},
         leaders |-> {}, to |-> "none", at |-> Never, saw |-> None]

TypeOK ==
    /\ now \in Times /\ status \in CycleStatus /\ opens \in Times /\ closes \in Times
    /\ enrolled \subseteq Leaders
    /\ inv \in [Leaders -> [Givers -> {"none", "out", "submitted"}]]
    /\ resp \in [Leaders -> Count]
    /\ frozen \in [Leaders -> [Givers -> 0..(MaxMint + 1)]]
    /\ minted \in [Leaders -> Count]
    /\ excused \in BOOLEAN /\ crashes \in Nat
    /\ task \in [Workers -> Task]

Init ==
    /\ now = 0 /\ status = "none" /\ opens = 0 /\ closes = 0
    /\ enrolled = {}
    /\ inv = [l \in Leaders |-> [g \in Givers |-> "none"]]
    /\ resp = [l \in Leaders |-> None]
    /\ frozen = [l \in Leaders |-> NotFrozen]
    /\ minted = [l \in Leaders |-> None]
    /\ excused = FALSE /\ crashes = 0
    /\ task = [w \in Workers |-> Idle]

At(w, pc) == task[w].pc = pc
Goto(w, pc) == task' = [task EXCEPT ![w].pc = pc]
Finish(w) == task' = [task EXCEPT ![w] = Idle]

-----------------------------------------------------------------------------
(* The window and the status it gives                                       *)

WindowOpen == opens <= now /\ now <= closes

\* derived_status: the window decides, until the scores are frozen.
DerivedMutant == IF status \in Manual THEN status
                 ELSE IF now < opens THEN "pending" ELSE IF now > closes THEN "closed" ELSE "open"
Derived == IF status \in Manual THEN status
           ELSE IF now < opens THEN "draft" ELSE IF now > closes THEN "closed" ELSE "open"

\* get_cycle: the status as read, which is also what it leaves stored.
Sync == status' = Derived /\ UNCHANGED <<opens, closes>>

Tick == now < MaxNow /\ now' = now + 1 /\ UNCHANGED <<cycle, panel, resp, frozen, excused, crashes, task>>

\* sync_all_cycle_statuses, or anybody reading the cycle.
Sweep == /\ status # "none"
         /\ Sync
         /\ UNCHANGED <<now, panel, resp, frozen, excused, crashes, task>>

Begin(w, t) ==
    /\ task[w] = Idle
    /\ task' = [task EXCEPT ![w] = t]
    /\ UNCHANGED <<now, panel, resp, frozen, excused, crashes>>

-----------------------------------------------------------------------------
(* create_cycle and delete_cycle                                            *)

CreateCycle == \E o \in Times, c \in Times :
    /\ status = "none" /\ o < c
    /\ status' = "draft" /\ opens' = o /\ closes' = c
    /\ UNCHANGED <<now, panel, resp, frozen, excused, crashes, task>>

StartDelete(w) ==
    /\ status # "none" /\ Sync
    /\ status' # "published"
    /\ \A l \in Leaders : resp[l] = None
    /\ Begin(w, [Idle EXCEPT !.pc = "del_subjects"])

\* One delete_many after the other; discussions and briefings are not modelled.
DeleteSubjects(w) ==
    /\ At(w, "del_subjects")
    /\ enrolled' = {}
    /\ Goto(w, "del_links")
    /\ UNCHANGED <<now, cycle, inv, minted, resp, frozen, excused, crashes>>

DeleteLinks(w) ==
    /\ At(w, "del_links")
    /\ inv' = [l \in Leaders |-> [g \in Givers |-> "none"]]
    /\ Goto(w, "del_scores")
    /\ UNCHANGED <<now, cycle, enrolled, minted, resp, frozen, excused, crashes>>

DeleteScores(w) ==
    /\ At(w, "del_scores")
    /\ frozen' = [l \in Leaders |-> NotFrozen]
    /\ Goto(w, "del_cycle")
    /\ UNCHANGED <<now, cycle, panel, resp, excused, crashes>>

DeleteCycle(w) ==
    /\ At(w, "del_cycle")
    /\ status' = "none"
    /\ Finish(w)
    /\ UNCHANGED <<now, opens, closes, panel, resp, frozen, excused, crashes>>

-----------------------------------------------------------------------------
(* add_subject, remove_subject                                              *)

StartAdd(w) == \E l \in Leaders \ enrolled :
    /\ status # "none" /\ Sync
    /\ status' \in Collecting
    /\ Begin(w, [Idle EXCEPT !.pc = "add_insert", !.l = l])

AddInsert(w) ==
    /\ At(w, "add_insert")
    /\ enrolled' = enrolled \cup {task[w].l}
    /\ Finish(w)
    /\ UNCHANGED <<now, cycle, inv, minted, resp, frozen, excused, crashes>>

StartRemove(w) == \E l \in Leaders :
    /\ resp[l] = None
    /\ l \in enrolled \/ \E g \in Givers : inv[l][g] # "none"
    /\ UNCHANGED cycle
    /\ Begin(w, [Idle EXCEPT !.pc = "rm_links", !.l = l])

RemoveLinks(w) ==
    /\ At(w, "rm_links")
    /\ inv' = [inv EXCEPT ![task[w].l] = [g \in Givers |-> "none"]]
    /\ Goto(w, "rm_subject")
    /\ UNCHANGED <<now, cycle, enrolled, minted, resp, frozen, excused, crashes>>

RemoveSubject(w) ==
    /\ At(w, "rm_subject")
    /\ enrolled' = enrolled \ {task[w].l}
    /\ Finish(w)
    /\ UNCHANGED <<now, cycle, inv, minted, resp, frozen, excused, crashes>>

-----------------------------------------------------------------------------
(* set_panel                                                                *)

StartPanel(w) == \E l \in enrolled, G \in SUBSET Givers :
    /\ status # "none" /\ Sync
    /\ status' \in Collecting
    /\ resp[l] = None
    /\ Begin(w, [Idle EXCEPT !.pc = IF G = {} THEN "panel_drop" ELSE "panel_create",
                             !.l = l, !.givers = G, !.wanted = G])

\* create_assignment for one giver after the other: an existing invitation is kept.
PanelCreate(w) ==
    LET t == task[w]
    IN  /\ At(w, "panel_create")
        /\ \E g \in t.givers :
             /\ IF inv[t.l][g] = "none"
                THEN /\ minted[t.l][g] < MaxMint
                     /\ inv' = [inv EXCEPT ![t.l][g] = "out"]
                     /\ minted' = [minted EXCEPT ![t.l][g] = minted[t.l][g] + 1]
                ELSE UNCHANGED <<inv, minted>>
             /\ task' = [task EXCEPT ![w].givers = t.givers \ {g},
                                     ![w].pc = IF t.givers = {g} THEN "panel_drop"
                                               ELSE "panel_create"]
        /\ UNCHANGED <<now, cycle, enrolled, resp, frozen, excused, crashes>>

\* remove_assignment for whoever is no longer wanted and has not submitted.
PanelDrop(w) ==
    LET t == task[w]
        left == {g \in Givers \ t.wanted : inv[t.l][g] = "out"}
    IN  /\ At(w, "panel_drop")
        /\ IF left = {} THEN Finish(w) /\ UNCHANGED inv
           ELSE \E g \in left : inv' = [inv EXCEPT ![t.l][g] = "none"] /\ UNCHANGED task
        /\ UNCHANGED <<now, cycle, enrolled, minted, resp, frozen, excused, crashes>>

-----------------------------------------------------------------------------
(* submit_response                                                          *)

\* The link resolves, is not submitted, and the window is open.
StartSubmit(w) == \E l \in Leaders, g \in Givers :
    /\ inv[l][g] = "out"
    /\ IF status = "none" THEN UNCHANGED cycle ELSE Sync
    /\ status # "none" => WindowOpen
    /\ Begin(w, [Idle EXCEPT !.pc = "claim", !.l = l, !.g = g, !.no = minted[l][g]])

\* The invitation a request resolved, which is gone for good once removed.
Same(t) == minted[t.l][t.g] = t.no

ClaimMutant(w) ==
    LET t == task[w]
    IN  /\ At(w, "claim")
        /\ IF Same(t) THEN inv' = [inv EXCEPT ![t.l][t.g] = "submitted"] /\ Goto(w, "record")
           ELSE Finish(w) /\ UNCHANGED inv
        /\ UNCHANGED <<now, cycle, enrolled, minted, resp, frozen, excused, crashes>>

\* claim_for_submission: the filter on the status is the lock.
Claim(w) ==
    LET t == task[w]
    IN  /\ At(w, "claim")
        /\ IF Same(t) /\ inv[t.l][t.g] = "out"
           THEN inv' = [inv EXCEPT ![t.l][t.g] = "submitted"] /\ Goto(w, "record")
           ELSE Finish(w) /\ UNCHANGED inv
        /\ UNCHANGED <<now, cycle, enrolled, minted, resp, frozen, excused, crashes>>

\* record_response: the answers are refused, or inserted whatever became of the
\* leader and the cycle meanwhile.
Record(w) ==
    LET t == task[w]
    IN  /\ At(w, "record")
        /\ \/ Goto(w, "release") /\ UNCHANGED resp
           \/ /\ resp[t.l][t.g] < MaxMint
              /\ resp' = [resp EXCEPT ![t.l][t.g] = resp[t.l][t.g] + 1]
              /\ Finish(w)
        /\ UNCHANGED <<now, cycle, panel, frozen, excused, crashes>>

ReleaseMutant(w) == At(w, "release") /\ Finish(w) /\ UNCHANGED <<now, cycle, panel, resp, frozen, excused, crashes>>

\* release_claim.
Release(w) ==
    LET t == task[w]
    IN  /\ At(w, "release")
        /\ IF Same(t) /\ inv[t.l][t.g] = "submitted"
           THEN inv' = [inv EXCEPT ![t.l][t.g] = "out"]
           ELSE UNCHANGED inv
        /\ Finish(w)
        /\ UNCHANGED <<now, cycle, enrolled, minted, resp, frozen, excused, crashes>>

-----------------------------------------------------------------------------
(* update_cycle: a new close date, a step of the lifecycle, or both         *)

\* CYCLE_TRANSITIONS, for what is left to people: a repeated status is no move.
MayMove(from, to) ==
    \/ to = from
    \/ <<from, to>> \in {<<"closed", "computed">>, <<"computed", "closed">>,
                         <<"computed", "published">>}

MayPatchMutant(from, to, at) ==
    /\ to # "none" => MayMove(from, to)
    /\ at # Never => opens < at

\* What update_cycle judges: the status asked for, if any, and the date, if any.
MayPatch(from, to, at) ==
    /\ to # "none" => MayMove(from, to)
    /\ at # Never => from \notin Manual /\ opens < at

StartPatch(w) == \E to \in CycleStatus, at \in Times \cup {Never} :
    /\ status # "none" /\ Sync
    /\ to # "none" \/ at # Never
    /\ MayPatch(status', to, at)
    /\ Begin(w, [Idle EXCEPT !.pc = "upd_write", !.to = to, !.at = at])

\* What excuses the code at the write of a patch.  It was judged on a cycle that no
\* longer is what it was read as; it computes the cycle and leaves its window open by the
\* date it carries; it freezes or publishes the scores under a request that has passed
\* its checks, or under the snapshot of another.
Overtaken(t) == ~MayPatch(Derived, t.to, t.at)
KeepsOpen(t) == t.to = "computed" /\ now <= closes'
Unsettled == {"add_insert", "claim", "record", "del_subjects", "del_links", "del_scores", "del_cycle",
              "snap_list", "snap_read", "snap_write"}
Underneath(w) == status' \in Manual /\ \E v \in Workers \ {w} : task[v].pc \in Unsettled

\* The update is by company and cycle alone; nothing says the status is still the one read.
UpdWrite(w) ==
    LET t == task[w]
    IN  /\ At(w, "upd_write")
        /\ \/ status = "none" /\ UNCHANGED <<cycle, excused>>
           \/ /\ status # "none"
              /\ status' = IF t.to = "none" THEN status ELSE t.to
              /\ closes' = IF t.at # Never THEN t.at ELSE closes
              /\ excused' = (excused \/ Overtaken(t) \/ KeepsOpen(t) \/ Underneath(w))
              /\ UNCHANGED opens
        /\ IF t.to = "computed" THEN Goto(w, "snap_list") ELSE Finish(w)
        /\ UNCHANGED <<now, panel, resp, frozen, crashes>>

\* snapshot_cycle_scores.
SnapList(w) ==
    /\ At(w, "snap_list")
    /\ task' = [task EXCEPT ![w].leaders = enrolled, ![w].pc = "snap_read"]
    /\ IF status = "none" THEN UNCHANGED cycle ELSE Sync
    /\ UNCHANGED <<now, panel, resp, frozen, excused, crashes>>

SnapRead(w) ==
    LET t == task[w]
    IN  /\ At(w, "snap_read")
        /\ \/ t.leaders = {} /\ Finish(w)
           \/ \E l \in t.leaders : task' = [task EXCEPT ![w].l = l, ![w].saw = resp[l],
                                               ![w].leaders = t.leaders \ {l},
                                               ![w].pc = "snap_write"]
        /\ UNCHANGED <<now, cycle, panel, resp, frozen, excused, crashes>>

SnapWriteMutant(w) ==
    /\ At(w, "snap_write")
    /\ frozen' = [frozen EXCEPT ![task[w].l] = IF frozen[task[w].l] = NotFrozen THEN task[w].saw
                                               ELSE frozen[task[w].l]]
    /\ Goto(w, "snap_read")
    /\ UNCHANGED <<now, cycle, panel, resp, excused, crashes>>

SnapWrite(w) ==
    /\ At(w, "snap_write")
    /\ frozen' = [frozen EXCEPT ![task[w].l] = task[w].saw]
    /\ Goto(w, "snap_read")
    /\ UNCHANGED <<now, cycle, panel, resp, excused, crashes>>

-----------------------------------------------------------------------------
Crash ==
    /\ crashes < MaxCrashes
    /\ \E w \in Workers : task[w] # Idle
    /\ crashes' = crashes + 1
    /\ task' = [w \in Workers |-> Idle]
    /\ UNCHANGED <<now, cycle, panel, resp, frozen, excused>>

Step(w) ==
    \/ StartDelete(w) \/ DeleteSubjects(w) \/ DeleteLinks(w) \/ DeleteScores(w) \/ DeleteCycle(w)
    \/ StartAdd(w) \/ AddInsert(w) \/ StartRemove(w) \/ RemoveLinks(w) \/ RemoveSubject(w)
    \/ StartPanel(w) \/ PanelCreate(w) \/ PanelDrop(w)
    \/ StartSubmit(w) \/ Claim(w) \/ Record(w) \/ Release(w)
    \/ StartPatch(w) \/ UpdWrite(w) \/ SnapList(w) \/ SnapRead(w) \/ SnapWrite(w)

Next == (\E w \in Workers : Step(w)) \/ CreateCycle \/ Tick \/ Sweep \/ Crash

Spec == Init /\ [][Next]_vars

-----------------------------------------------------------------------------
(* Properties                                                               *)

InFlight(l, g, pcs) == {w \in Workers : task[w].pc \in pcs /\ task[w].l = l /\ task[w].g = g}
Snapping == \E w \in Workers : task[w].pc \in {"snap_list", "snap_read", "snap_write"}

\* An invitation gives one response at most, although no response says who gave it:
\* however many submissions, refused answers, releases and panel edits overlap
\* (claim_for_submission, release_claim).
OneResponseEach ==
    \A l \in Leaders, g \in Givers :
        resp[l][g] + Cardinality(InFlight(l, g, {"record"})) <= minted[l][g]

\* Nobody is told "already submitted" without their answer being there: unless the
\* process died, a submitted invitation has its response or a handler about to write it
\* or to give the link back.
SubmittedIsAnswered ==
    crashes = 0 =>
        \A l \in Leaders, g \in Givers :
            inv[l][g] = "submitted" =>
                resp[l][g] > 0 \/ InFlight(l, g, {"record", "release"}) # {}

\* A frozen score counts the feedback there is: once a cycle is computed or published
\* and no snapshot is at work, every enrolled leader's frozen row is made of exactly the
\* responses received, through every reopening, extension and recomputation and whatever
\* requests overlap them, but for a patch that came too late, kept the window open or
\* froze the scores under another request (snapshot_cycle_scores, update_cycle).
FrozenIsWhole ==
    status \in Manual /\ ~Snapping /\ crashes = 0 /\ ~excused =>
        \A l \in enrolled : frozen[l] = resp[l]

\* What leaders were shown does not change: but for such a patch, a published cycle stays
\* published, its frozen scores stay, and no feedback arrives any more; nor does any while
\* computed scores wait for HR, unless HR takes the computation back (update_cycle,
\* derived_status, submit_response).
PublishedIsFinal ==
    [][~excused' =>
        /\ status = "published" => status' = "published" /\ frozen' = frozen
        /\ status \in Manual => resp' = resp]_vars

\* "Feedback arriving after publication is exactly what the closed / computed / published
\* split exists to prevent" (leadership_service.py:831): a published cycle takes no
\* response.  The code judges a patch's dates by the status before the patch, so that one
\* patch computes the cycle and opens its window again.
NoFeedbackOncePublished == [][status = "published" => resp' = resp]_vars
=============================================================================
