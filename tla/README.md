# A verification of Sparsh's HRMS and leadership feedback

Sparsh 2.0 is a FastAPI monolith over MongoDB (`src/backend`) with a React client
(`src/frontend`). Its largest part by far is the HRMS: hiring from the requisition to the
employee record, then attendance, leave, payroll, disbursal and separation, under governed
configuration. Beside it stands leadership feedback, in which the people around a leader score
them in confidence. This directory holds TLA+ models of the parts of it where several people act on
the same records, the TLC runs that check them, and machine-checked proofs about them.

## 1. What runs, and what can interleave

* One uvicorn process serves the API (`backend/main.py`) and runs one background loop
  (`reminder_scheduler.start_reminder_scheduler`). The container is `restart: always`.
* Every handler is an `async def` over Motor. Nothing holds a lock and nothing uses a
  transaction: **a handler may be overtaken by any other at each `await`**, that is, between any
  two of its database calls. A restart loses the handlers in flight and the loop's memory, and
  keeps the collections; there is no recovery code.
* Three things protect a document: a *compare-and-swap* (an update whose filter carries the
  status the handler read), a *unique index*, and a check of a copy read earlier. The first two
  are atomic. The third is what most of the hazards are about. Requisitions, onboarding and the
  job ledgers use the first two; leave, payroll, disbursal, configuration and exit use the third
  almost everywhere, and repair by being callable again.

So in every model a database call is one action, a request in flight is a record of what it is
about to do and what it has read (`task`), and the collections are functions from keys to
documents. A handler `f` is `StartF` (its reads and guards before the first write that matters)
followed by one action per later call; it ends in `Finish`, and `Crash` empties every `task`.

## 2. Inventory

| Component (`backend/app/services`) | State | Operations | What makes it hard | What makes it correct |
|---|---|---|---|---|
| Requisitions, JDs (`hrms_requisition_service`) | requisition status, sanction snapshot, escalation ladder; JD status and text | create, update, delete, act (7 actions), close, edit JD, finalise | several verdicts at once; requisition and JD are two writes; the last step and the last signature land in either order | every requisition has a JD and they agree; no approval around the ladder; none left behind |
| Scorecards (`hrms_scorecard_service`) | criteria, managerial flag, approvals | draft, edit, sign, send back | a signature for criteria that change under it | the approved bar is the one signed |
| Sanctioned strength (`hrms_sanction_service`) | a figure per position | set, delete, `is_over_sanction` | check and commitment are far apart | approved seats fit the figure, or the MD knew |
| Candidate stages (`hrms_candidate_service`) | `application_status` | move, screen, delete; `assert_stage_has_backing_record` | every move is read, graph check, blind write | each stage is backed by the record it claims |
| Offers (`hrms_offer_service`) | offer documents | create, approve, edit, send, revoke, delete, respond (public link) | the candidate answers while HR acts | sent at the approved salary, answered once |
| Appointment letters (`hrms_appointment_service`) | one letter per candidate | generate, send, open, acknowledge, cancel | sending moves the stage and opens onboarding | an acknowledgement is not undone |
| Onboarding, employees (`hrms_onboarding_service`, `hrms_employee_service`) | the case and its Employee ID; employee profiles | open, generate ID, KYC, joining, checklist, link a login | ID claimed before the record exists; released when it fails | one employee per candidate |
| Scheduled jobs (`reminder_scheduler`, `hrms_scheduler_service`) | `tpms_job_runs`, `hrms_job_runs`; memory of the loop | claim, take over, finish, drop; `already_ran`, `record_run` | restart in the middle of a job; overlapping processes; a job that raises | run once a day, and not lost |
| Attendance (`hrms_attendance_service`, `hrms_attendance_rules_service`, `hrms_self_punch_service`) | day rows, corrections, outdoor duties, the monthly lock | mark, punch, import, re-judge, request and decide, lock, unlock | eight handlers write a row, and the lock is kept twice | what was decided is on the day; a locked day stays |
| Leave (`hrms_leave_service`) | leave requests, yearly balance, C-Off batches | apply, act, cancel, claim, decide a claim, adjust, expire | debit, calendar and decision are three writes; a cancellation undoes them all | the books agree with the approved leaves; nothing is promised twice |
| Payroll (`hrms_payroll_service`, `hrms_salary_advance_service`, `hrms_variable_pay_service`) | runs, records, lines, carry-forwards; advances; quarters, variable pay, holds | create, calculate, edit, submit, check, decide, staged approval, lock, post-lock adjustment; advance and quarter decisions | months between calculating what is owed and settling it; the matrix changes between signatures | maker is never checker; frozen once locked; ledgers agree with payslips |
| Disbursal (`hrms_disbursal_service`) | batches, payments, retry links, the run's Paid and Closed | generate, retry, record a status, refresh, close | no write is conditional; a retry is several writes | Paid means everyone was paid; a retry is real |
| Governed configuration (`hrms_config_change_service`, `hrms_policy_version_service`) | versions, scopes, change requests | draft, analyse, submit, decide, withdraw, activate; set status, assign | two services write a version's status; activation is many writes | nothing live that nobody approved; one live version per population |
| Separation (`hrms_exit_service`) | cases, items, settlement; profile, login, held pay | initiate, decide, approve an early day, withdraw, items, settlement, close, sweep | the sweep runs beside the requests; closing is five writes | no early leaving unapproved; a closure takes effect; access ends |
| Pipeline before selection | screening, assessments, interview rounds, shortlist | decisions on each | several panellists | a decision only on a complete panel |
| Postings and public links | links, expiry, one active posting | publish, revoke, resolve | revoked while in use | a revoked link does nothing |
| Probation, movements, PIP, discipline, retirement | one document each | short approvals | few | decided once |
| Leadership feedback (`leadership_service`, `leadership_link_service`) | cycle and window, leaders, invitations, anonymous responses, frozen scores | create, patch, delete, enrol, set a panel, submit, compute, publish | a response names nobody, so nothing can be counted or repaired afterwards; the window moves while scores are frozen | one response per invitation; frozen scores are whole, and final once published |
| Training programmes (TPMS) | sessions, form links, escalations | schedule, submit, escalate | calendars and e-mail | a form submitted once |
| Client hiring, documents and purge, policies, surveys | one document each | short approvals | few | as above |
| Tasks, calendar, audits, users, assistant, delivery, reports, web client | records | CRUD, read-only or best effort | little protocol | - |

They interact by direct calls and shared collections. Two chains matter. *Hiring*: an Approved
requisition needs an Approved scorecard and fits the sanctioned strength; a candidate on it is
Selected, gets an offer, accepts it, gets a letter, whose sending opens an onboarding case, which
yields an employee, who counts against the sanctioned strength. *Pay*: leave, corrections and
duties and the clock write day rows; the month is locked; a payroll run is calculated on that lock and on the
advance, the variable pay and the adjustments then outstanding; approved and locked, it settles
them; its records are paid in batches, and when all are paid it is closed. A separation ends the
profile, the login and what variable pay is held. Leadership feedback shares only the user
records with the rest. `PROJECT.json` lists every component with its
files and status, and every hazard at its line.

## 3. Modules

    Requisition ── RequisitionProofs        Hire (abstract)
        │                                     ▲ ImplementsHire (refinement)
    MCRequisition                           Hiring ── MCHiring, HiringProofs
    Scheduler ── JobsAndLeaveProofs         Attendance ◄── Leave ── MCLeave, JobsAndLeaveProofs
        │                                   Payroll ── MCPayroll, PayrollProofs
    MCScheduler                             Disbursal ── MCDisbursal ── DisbursalProofs
    ConfigChange ── MCConfigChange ── ConfigChangeProofs
    Exit ── MCExit ── ExitProofs
    Leadership ── MCLeadership ── LeadershipProofs

**Requisition.** One position of one company. `req`, `jd`, `card` are the three collections, keyed
by request number (a scorecard is found through its requisition); `sanctioned` and `actual` are
the two inputs of `position_status`. `act` is `StartAct`, `ActEval` (headcount, for the two
verifying actions), `ActCard` (the scorecard gate), `ActCas` (the swap), `ActJd`, then `FinReq`,
`FinCard`, `FinAct` for `finalise_requisition_if_approvals_complete`. A failing insert is
`InsertReq`'s second disjunct, and its compensation `UndoJd` is the one the code runs. The
escalation chain is kept as its length, the rungs marked Approved and the current level; the
approvals array as its signers and its identity (entries carry the time of signing, so two
non-empty arrays are equal only when they are the same one); criteria as a version number. `seen`
is history: the versions the signers had read. `Legacy` are requisitions found at the budget step
that no longer has an entry.

**Hiring** and **Hire**. `Hire` says what the pipeline promises about one person: applicant,
accepted, lettered, onboarding, employee, in order, each once, never back. `Hiring` is the code:
`stage`, `offer`, `letter`, `onb`, `staff` are the five collections and `answer`, `issued` remember
what the candidate did. `_advance_candidate` (and the three copies of it) is `MoveRead`,
`MoveWrite`; sending a letter runs on through `After` to opening the case; `id_mint`, `id_claim`,
`emp_insert`, `id_release` are `generate_employee_id`. The refinement mapping reads the phase from
the records that cannot be taken back: a reply on file, a letter issued, a case, a profile. Stages
before Selected are `Pipeline`; joining, KYC and the checklist are blockers that an environment
may clear at any time.

**Scheduler.** `Procs` run the loop: one is what is deployed, two is what the ledgers were written
for (a restart that overlaps). A tick goes through `Order`, reading the clock where the code does.
`_claim_job` is `FindClaim`, `InsertClaim`, `TakeOver`; `_finish_job` is `FinishJob`, `Drop`;
`record_run` is `RecordRun`, `WriteRun`. `memo` and `nudged` are the loop's dictionaries, lost in a
`Kill`. A claim's start time is kept as *within* or *past* its lease. `LeaseEnds` needs no dead
process, because nothing bounds how long a job takes; `excused` remembers the pairs whose lease
ended or whose ledger call raised, and the safety properties speak of the others.

**Attendance** and **Leave.** One employee and one month. `Attendance` has the day rows (status,
`locked`, `leave_ref`, `pre_leave_status`), the lock of the month, corrections (`act_on_regularization`
writes the day first and decides after), outdoor duties (`act_on_od` decides first), marking and
lock/unlock; and the days' own clock: `punch` is `StartPunch`, `PunchWrite`, `import_biometric` is
`StartImport`, then `ImportRead`, `ImportMonth`, `ImportWrite` per day, and `_rejudge_range` is
`StartRejudge`, which lists the days, and a `Rejudge` per day. Who asks for which lock is as the code has
it: marking and requests ask for both, corrections and duties for the month, check-ins, leave and its
cancellation for the row, an import for the row and, where there is none, for the month. `late` is history: the
requests that a lock overtook. `Leave` EXTENDS it and shares `task`, so that leave handlers and attendance handlers
write the same rows; it adds the requests, the balance as `granted` and `used`, and the C-Off
batches with what each leave drew (`took`). An approval is `DebitRead`/`DebitInc` or
`CoffRead`/`CoffTake`/`CoffNote`, then `DayRead`/`DayWrite` per day, then `ActWrite`; a cancellation
is `CancelWrite`, `UndoRead`/`UndoRow`, `GiveBackCoff`, `GiveBack`. `applied` and `stuck` are
history: whose effect reached a day, and which days an undo had to leave because they were locked.
Days are counted in halves.

**Payroll.** The runs of one employee over consecutive months, an advance of one unit, one quarter of
variable pay, and post-lock adjustments. `calculate_payroll` is `CalcLock` (the attendance stamp),
`CalcCarry`, `CalcDelete`, `CalcAdvance`, `CalcVp`, `CalcInsert`, `CalcMark`, `CalcWrite`; `submit_run`
is `SubmitLock`, `SubmitLines`, `SubmitWrite`; `check_run`, `decide_run` and `act_on_stage` share
`StartSign`, `SignRead`, `SignWrite`, and which of them may sign comes from the matrix in force
(`policy`), which `NewPolicy` changes at any time; `lock_run` is `LockWrite`, `LockRecords`,
`AdvanceRead`/`AdvanceWrite`, `VpPaid`, `CarryApplied`. Locking and unlocking a month is `AttendanceRun`,
`AttendanceWrite`. *Locked* stands for Locked, Paid and Closed, and *Returned* for Returned and Rejected.

**Disbursal.** One locked run. `generate_batch` is `GenRetry`, `GenAlready`, `GenBatch`, `GenPayments`,
`GenLink`; `update_payment` and each row of `import_statuses` are `UpdateWrite` followed by
`_refresh_batch` (`RefreshRows` to `RefreshWrite`); `close_run` is `CloseSummary`, `CloseWrite`.
`confirmed` is the audit trail: who has had a payment Processed at some time.

**ConfigChange.** One policy, its versions, their scopes and the change requests. The direct route
(`set_status`) and the flow (`activate`, then `_policy_activate`: `Walk`, `Rivals`, `Supersede`,
`ActivateWrite`, `ActivateRequest`) write the same status. *Analysed* is ImpactAnalysed or Simulated.

**Exit.** One employee, several cases. `decide_separation` is `Decide`, `Seed`; the settlement is
`Save`/`Pend`, `Verdict`/`Approved`, `Pay`/`Settle`; `close_separation` is `Close`, `Leave`, `LogOff`,
`Forfeit`; `run_lwd_sweep` is `StartSweep`, then `Sweep`, `OpenFnf`, `Stamp` per case, by `Cron`, which
overlaps any request. A last working day is *none*, *early* (any revised date) or *calc*; one item
stands for each kind of exit item.

**Leadership.** One cycle of one company on a clock of a few moments. `inv` are the invitations, `resp`
counts a leader's response documents by the giver who wrote them (the documents do not say; the model
does), `frozen` is what a frozen score was computed from. `get_cycle` is `Sync`, as it writes the
status the clock gives; `set_panel` is `StartPanel`, `PanelCreate`, `PanelDrop`; `submit_response` is
`StartSubmit`, `Claim`, `Record`, `Release`; `update_cycle` is `StartPatch`, `UpdWrite` and, for a
computation, `snapshot_cycle_scores` as `SnapList`, `SnapRead`, `SnapWrite`. `minted` is history: the
invitations created, and a request knows which one it resolved (`no`), as the code filters by its id.
`delete_cycle` is one delete after another. A patch carries a status, a date or both. `excused` is history
too: `UpdWrite` sets it when the patch no longer fits the cycle it is written to (`Overtaken`), when it
computes the cycle and leaves its window open (`KeepsOpen`), and when it leaves the cycle computed or
published under a request that has passed its checks and has yet to add or delete, or under another
snapshot (`Underneath`). Each of these, down to each kind of request, breaks the two properties about
frozen scores if it is not excepted; nothing else does.

## 4. Runs

| Run | Instance | What it asks |
|---|---|---|
| `req` | 1 requisition, new or at the legacy step, ladders of 0 or 2 rungs; 2 requests at once over eleven entry points, with 1 restart; every entry point 1 request at a time | types; every requisition has a JD; verdicts agree; no way round the ladder; none stranded; the approved bar is the bar that was signed |
| `hiring` | 1 candidate, 2 offers; 2 requests at once over twelve entry points; every entry point 1 request at a time, 2 salaries, 1 restart | one employee; stages are earned; ID claims are true; sent at the approved salary; `Hire` is implemented |
| `sched` | 2 processes, 2 days, a daily job and a sweep, 1 crash or failure, fair | one runner; no replay; sweeps are never lost; a failed daily job is retried |
| `leave` | 2 dates, 2 leaves, a correction, a duty, a C-Off batch, 1 request at a time, 5 requests, 1 restart, every entry point | the books agree with the leaves; decisions reach the day; nothing is promised twice |
| `leave_races` | 1 date, 1 leave, a correction, a duty, 2 requests at once, 6 requests, 1 restart, everything that reads or sets a lock or writes a day | only what a lock overtook changes a locked day |
| `leave_lock` | as `leave`, without restarts | **expects a violation**: no day is added to a locked month (`hrms_attendance_service.py:302-303`) |
| `pay` | 1 request at a time: 1 month, 3 people, 4 matrices changing at any time, 2 attendance locks; 2 months, an advance, a quarter, an adjustment, any two of these at once, 1 restart | the maker has approved nothing of their own; ledgers and payslips agree |
| `disbursal` | 2 employees, 2 batches, 2 requests at once, 3 statuses recorded, 1 restart | Paid if and only if confirmed; a retry is real |
| `config` | 2 versions, 2 requests, 2 people, 1 scope, 1 request at a time, 1 restart | nothing live unapproved; an activation displaces its rivals |
| `exit` | 1 case, 1 request at a time beside the sweep, 1 restart, standard clearance and access, every entry point, fair | no early day without an approval; a closure takes effect; the login ends |
| `leader` | 1 leader, 1 giver invited up to twice, 3 moments, 2 requests at once, 1 restart, every entry point | one response per invitation; who is marked submitted was heard; frozen scores are whole and published is final, both but for an excused patch |
| `leader_patch` | 1 leader, 1 giver, 4 moments, 1 request at a time | **expects a violation**: a published cycle takes no feedback (the comment at `leadership_service.py:828-832`) |

**Three kinds of question.** `req`, `hiring`, `leave_races`, `disbursal`, `sched` and `leader` ask what holds
under any interleaving of requests. In `exit` the sweep interleaves with one request. The
other runs have one request at a time, over the full set of entry points in any order and, except
`leave_lock`, `leader_patch` and the signing half of `pay`, with a restart between any two writes: the
hazard there is a long sequence of legal calls, of several people and months, and
the guards judge copies, so that several of these properties fail as soon as two requests overlap
(section 6 says which). They are stated of the schedule the code is written for. Two properties of `req` and
`hiring` are of this kind too: `ApprovedBarIsSignedBar` and `SentAtApprovedFigure` fail when an edit overlaps
with a signature or an approval, which these runs keep apart.

**Scopes.** Three runs join two questions about one component that would be too large multiplied by each
other; the CONSTRAINT `Scope` of their MC module says where exploration stops. In `MCRequisition` and
`MCHiring` two requests overlap only in `RaceOps` and only over documents of the simplest shape (`Plain`: one
vacancy or salary, nothing edited, closed, parked or deleted), and a restart comes over these only; all else
happens one request at a time, whatever came before. The proofs cover any overlap and any restart. In
`MCPayroll` the approval of one month (`Signing`) and what two months settle (`Settling`, of one maker and
one approver) stand side by side.

**Bounds.** Two requests suffice for a race between a check and a write, because a handler here races
with *one* write of another. Two offers, two leaves, two versions, two months and two batches are
what "one of them" properties need; two salaries tell the approved one from another; three people
are a maker, a checker and an approver; four matrices are the standard one, one without a checker,
and chains of two and three stages. A ladder of two rungs has an intermediate rung; the proof covers every
length. `MaxCrashes` is 1 because recovery here is a second call, and a second crash only repeats
the first. `MaxActs` 5 in `leave` is apply, approve and cancel one leave while another waits and a
lock intervenes; 6 in `leave_races` is a leave applied for, approved twice and cancelled over a lock and an unlock. Four moments are before, at, within and after a window that is then extended, and two
invitations are one dropped and made again. `exit` has one case because TLC shows that two may be open at once (section 6); the
`EarlyLeaveApproved` and `ClosureHolds` proofs cover any number. `CHECK_DEADLOCK FALSE` in all but
`sched`: the numbers, dates and requests of an instance run out, and then no request comes. The
scheduler never stops and is checked for deadlock. Symmetry is declared over sets of people,
employees, givers, offers, requests, leaves or adjustments that are only compared for equality, in runs without liveness.

**Fairness.** `FairSpec` of `Scheduler` is weak fairness of every step of the loop (the event loop resumes
a coroutine whose await has completed) and that
time passes (`HourStrikes`, `NextDay`, `LeaseEnds`) and that the container is restarted; a failing
job is bounded, not unfair. `FairSpec` of `Exit` is weak fairness of the sweep, which the scheduler runs every
day and, after a restart, again (`SweepRuns` is what the scheduler's own model shows), and of the
calendar. Requests are not fair there either: the property is conditional on the case staying open.

## 5. Proofs

tlapm checks every leaf. The theorems hold for any sets of keys, people, requests in flight and
bounds; the assumptions on constants are the named ASSUME of each module and what a theorem states.

**RequisitionProofs**

1. `TypeCorrect`. `TypeOK` is not inductive, as a step writes what a handler holds. `Typed` adds
   `WellFormed`: what each program counter implies about the handler's fields.
2. `ReqHasJd`. The requisition is inserted after its JD and deleted before it, so the argument is
   about numbers: `MintedFirst` (a document has a minted number), `CreatedAlone` (one creator per
   number), `JdFirst` (a creator about to insert has its JD in place, one about to undo has no
   requisition). With `Typed` these are `Paired`, which is inductive.
3. `VerdictsAgree`. `Decided` adds `VerdictFirst`: a handler on its way to write a verdict into a
   JD holds the one its requisition has, because decided requisitions do not move.
4. `LaddersClimbed`. `OnRoute` adds that the cleared rungs are exactly those below the level, in
   the documents *and* in what handlers hold; a stale rewrite may lower the level, but it never
   leaves a gap, so the last rung still stands for all.
5. `StatusOnTable`, an action property, from `Typed` and the shape of each step.
6. `NobodyStranded`. `NoneStranded` speaks of requests at rest, and nothing at rest says who was to
   finish. `Attended` does: until a restart, a requisition whose scorecard is approved while it waits at the gate has
   a handler on its way to swap it (`Saves`), and an approved one has its JD approved or a handler `Deciding`
   so. It rests on `OnRoute` (a second approval takes nothing back), `Decided`, and `Drafts` (a scorecard
   is inserted unsigned, so no insert makes a requisition ready).
7. `BarSigned` assumes `OneRequest`. `SignedAsRead`: every signature on a scorecard is of the
   version it has, and who is about to sign holds the card as it is (`Holds`). With two requests both fail,
   which section 6 describes.

**HiringProofs**, for any number of requests at once and any restarts. `Sound` says that what a
stage rests on is never lost: candidates with an accepted offer (`A`), a sent letter (`issued`) and an
open case (`O`) only grow, each set inside the one before, and what a request read it still knows
(`Knows`), since it knows only that something was earned. The stage itself is not inductive, because it
is written on a stale read; what it needs (`Due`) is.

1. `TypeCorrect` and `StagesEarned` from `Sound`.
2. `OneEmployeeEach` adds `One`: who is about to write or release a record holds the case's claim,
   alone, and there is no record yet.
3. `ClaimsTrue` adds `Claims`: until a restart, a claim without a record has a request behind it.
4. `Implements`: with `Sound` and `One` the phase is read off the three sets and the records; an answer,
   a letter sent, a case opened and a record made each promote their candidate or change nothing, and
   every other step leaves all phases alone.
5. `SentAsApproved` assumes `OneRequest`. `Priced` says that an approval is of the salary the offer has
   (`AtFigure`: an edit that changes it takes the approval back) and that the offer a request read is the one it
   writes (`AsRead`), which a send racing an edit would break.

**JobsAndLeaveProofs** holds the proofs of two small components that share neither state nor names.

*Scheduled jobs*: `JobsTypeCorrect`, `JobsExclusive` and `JobsNotReplayed`, for any processes, days,
crashes and failures. One invariant (`JobsSafe`) says of every pair that is not excused who holds its claim and
at which step.

*Leave and attendance*, for any dates, leaves, corrections, duties and batches. `LeaveDaysFrozen` holds for any
number of requests at once and any restarts, and does not need the types. Its invariant is `Guarded`: whatever a
request is about to write, its handler has found unlocked (the month, the row or both, `Clear`), unless a lock has
overtaken it; an unlocking step keeps this for everyone else, and a lock makes every other request an overtaken one.

The others assume `OneRequest`, with a restart anywhere: `LeaveTypeCorrect`, `LeaveBooksBalance`,
`LeavePromisesCovered` and `LeaveDecisionsTakeEffect`. What they say is of requests at rest, or rests on what a request read earlier, so
`Inv` says where things stand while one is served:

1. What it has read still stands (`SeesMonth`, `SeesRequests`, `SeesLeave`, `SeesBooks`: the lock, the
   correction or duty it decides, the leave, the balance and the batches). `TypeOK` rests on it, since a draw
   planned on a stale batch would leave it below zero. No two open or approved leaves share a date (`Apart`).
2. The books differ from the approved leaves by what this request has charged and not yet recorded, or
   has cancelled and not yet given back (`Charged`, `Held`), by equality until a restart.
3. A day shown On Leave has an owner (`Owned`): an approved leave, the leave being marked or undone, or one
   whose undo found it locked. This part alone needs `"OnLeave" \notin Marks`: `mark_attendance` lets HR override
   a day to On Leave by hand (`hrms_attendance_service.py:459`), and such a day belongs to nobody.
4. `Headroom` is what the balance has left over its open requests. Applying takes at most what it has, an
   approval moves a leave from one side to the other (`HeadroomKept`).

The books are sums over sets, and no induction is needed for them: `Total(f, S)` is the cardinality of the set
of units `f[x]` contributes for `x` in `S`, so that `TotalAdded`, `TotalRemoved` and `TotalSame` follow from the
library's facts about unions and products. That C-Off is drawn first from the batch that expires first takes a least batch
(`MinFound`), from the library's well-foundedness of strict inclusion.

**PayrollProofs**: `TypeCorrect` for any number of requests at once. `DutiesSegregated` assumes
`OneRequest` (an approval racing a recalculation is outside it) and holds for any months, people and
approval matrices, whichever is in force at a signature. `Audited` says that a run on its way does not have
its submitter among its signers nor, once approved, as its decider (`Books`), and that what a request has read still
stands (`Stands`): a signer at `sign_write` holds the run as it is, so the refusal it passed is about the
signatures it adds to. `DuesSettled` has the same assumption. The property speaks of requests at rest, so its
invariant says where the books stand in between. For each request (`Agree`): what it has gathered or read is still
so (`Knows`); the advance has been recovered by what the locked payslips deducted less what `lock_run` has
still to add (`Due`), by equality until a restart loses it (`AdvanceBooked`); and an adjustment on a payslip is marked Included
or Applied, but for those of the month being rebuilt or locked at this moment (`CarryBooked`). An
advance not yet approved is on no payslip (`Unpaid`), so a new one cannot erase what was deducted. The deductions are
counted as the set of months `Taken`, which only a lock enlarges, by one: `FS_AddElement` is all the arithmetic
on sets there is.

**DisbursalProofs**, for any number of requests at once:

1. `TypeCorrect`, from `Typed`: what a task carries fits its step (`WellFormed`), and a batch it
   generates has a number already drawn (`Minted`).
2. `RetriesReal`. `Linked` adds `OwnBatch` (the batch being generated is nobody else's and newer than
   the one retried) and `RowsFirst` (the rows of a retry exist before anything links to them).
3. `PaidMeansConfirmed`. `Confirmed` adds `Trail` (Processed leaves a trace), `SawPaid` (who is about
   to mark the run has seen everyone paid, and the trail only grows), and, for the second half,
   `Told`: while everyone is paid and the run is Locked, some request is on its way to say so.

**ConfigChangeProofs**: `TypeCorrect` for any number of requests at once. `OnlyApprovedLive` and
`LiveDisplaces` assume `OneRequest` (requests one at a time; restarts anywhere), without which both
fail, and hold for any versions, populations, change requests and people. `Governed` says that what a task has read still stands
(`Stands`), that an activation knows every Active version in its way (`InTheWay`), and that a live
version is vouched for by a request that can no longer lose its approval (`LiveVouched`, `Reviewed`).

**ExitProofs**: `TypeCorrect` for any number of requests at once. `EarlyOnlyApproved` and
`ClosureTakesEffect` assume `OneRequest`, beside the sweep and restarts, and hold for any number of
cases. `Early` adds that an approval in flight finds no final day. `Closure` adds that a read still
stands, that a case with a login belongs to a linked profile (so that a later link is nobody's whose
case has one), and, per effect of a closure, that it is done or the closure is about to do it.

**LeadershipProofs**, for any number of requests at once and any restarts: `TypeCorrect`; `OneResponse`
from `Tokens`. An invitation is a token: a giver's responses, the requests that hold their claim (about
to record or to release) and the invitation if it is out never outnumber what was minted. A claim
moves the token from the invitation to the request, a release moves it back, a removal burns it.
`SubmissionsAnswered` needs more than the count: `Answered` says that, until a restart, a submitted invitation has a
response or a request that holds it *as it was last minted*, so that a release by an older holder of the same place,
whose link was since replaced, gives back nothing of the newer one.
`ScoresWhole` and `PublishedStays` hold of every interleaving, patches of the cycle included, up to an excused
patch. `Governed` says of a cycle computed or published and not excused: its window is behind it, nobody is on
the way to add feedback or a leader, and a deletion under way has already left no leader enrolled and, once
published, is not there (`Shut`); one snapshot at most is at work (`OneSnapshot`); and the rows frozen so far are
the feedback there is (`Whole`). The write of a patch establishes it because a patch that is not excused fits the
cycle it finds, so that it publishes only what was computed, and whoever could break it is not in flight.

Only model-checked: the liveness properties `SweepRuns`, `FailedRunRetried` and `LoginEndsWithLastDay`,
which rest on fairness and ENABLED, out of the prover's reach. Every invariant and action property a run
checks is a theorem, under the assumptions named above.

## 6. Where the code and its documentation disagree

Met while modelling, most of them as TLC counterexamples on an instance with two requests at once, or of
a property that did not survive. The runs `leave_lock` and `leader_patch` show two of them. *(The line is where it bites.)*

* **Requisitions.** Two `escalate-approve` that read the same rung both pass the swap, which filters on
  the status only, and the later one writes back a ladder with fewer rungs cleared
  (`hrms_requisition_service.py:1207`), against the header's "two concurrent approvals cannot both
  succeed" (lines 20-22). A signature is swapped on the approvals array alone, so with no approvals yet it
  covers criteria its signer never read (`hrms_scorecard_service.py:519`). Two requisitions verified
  before either is approved share one seat (`hrms_sanction_service.py:263`). `update_requisition`,
  `delete_requisition`, `update_jd` and `update_scorecard` judge a copy and write without its status.
  A restart between the swap and the JD's write leaves the JD Pending for good.
* **Hiring.** `revoke_offer` overwrites an acceptance that landed after its check
  (`hrms_offer_service.py:677`). A candidate at *Appointment Letter Sent* can be deleted
  (`hrms_candidate_service.py:922`). Two requests create two active offers
  (`hrms_offer_service.py:359`). A cancelled letter cannot be generated again, because the unique
  index has no filter on the status. A crash after an Employee ID is claimed leaves a case that can
  never get one.
* **Scheduled jobs.** A process killed in the middle of a daily job and restarted within the lease
  takes the job as somebody else's and never looks again that day (`reminder_scheduler.py:43`).
  `last_nudge_day` is set even when the nudge sweep raised (line 186, against the comment at 172).
* **Leave and attendance.** Two approvals at once overdraw a balance, because the debit is an `$inc`
  without a condition; a restart between the debit and the decision charges the leave twice when it
  is approved again. Cancelling a leave erases an outdoor duty granted on its day. A leave cancelled
  in a locked month gives the balance back while the day stays On Leave. Rows are added to a locked
  month by a check-in and by the approval of a leave, which ask for the row's lock only
  (`hrms_self_punch_service.py:194`, `hrms_leave_service.py:530`, against `hrms_attendance_service.py:302-303`):
  the run `leave_lock`. A request that asked before the lock may write after it, and marking, punches and imports
  then also write `locked: False`. A check-in on a day On Leave overwrites its status (lines 214-224),
  which an import is careful not to (`hrms_attendance_rules_service.py:59-60`).
* **Payroll.** Attendance may be unlocked, edited and locked again after a run was submitted, which is
  then approved on the older basis. Two months calculated before either is locked recover the same
  advance and pay the same variable pay. An adjustment whose target month is already Calculated is
  carried by no run. A restart in the middle of `lock_run` loses the settlement, and nothing calls it
  again; one in the middle of `calculate_payroll` has deleted the records, which its docstring
  (1705-1708) calls safe to rerun, together with hand-entered inputs. `calculate_quarter` does not ask the status. A
  chain configured in mid-run lets a checker pass a second stage. `act_on_hold` moves no money.
* **Disbursal.** A failed payment may be included in a new batch that is not a retry, and the old row
  then reported Processed: paid twice. Two batches generated at once pay the same people. A Paid run
  is not reopened when a payment later fails, and a late refresh may write Paid over Closed.
* **Configuration.** The rules of a Draft or Pending version remain editable after its request is
  approved, and go live as edited. A returned request may be submitted without a fresh analysis, and a
  simulation is accepted in place of one. Concurrent activations leave two versions Active; a restart
  between superseding and activating leaves none until it is called again. An activation does not
  notice that its request was withdrawn meanwhile.
* **Separation.** `save_fnf` does not ask whether the case is open, so it reopens a withdrawn or forced
  one, beside a newer case ("one open case at a time, enforced in code"). A custom clearance task
  created before the decision prevents the five standard ones every case is to get. A notice revised
  after a final day is on file can never be approved. The sweep writes a stage it derived from its
  list over a case withdrawn since. Withdrawing after the sweep leaves the login off. A restart in the
  middle of a closure leaves the rest undone, and a closed case cannot be closed again. `approve_fnf` does not tell
  maker from checker. `initiate` accepts an employee who has resigned, and withdrawing makes them Active.

* **Leadership.** The window is frozen for a cycle that is already computed, not for the patch that
  computes it (`leadership_service.py:833`, against the comment at 828-832): status and a later close date
  in one patch give a published cycle that still collects, which the run `leader_patch` shows and the
  findings record. A leader is removed while a submission is between its claim and its insert, and the response belongs to
  nobody (line 1184, against 1177-1178). `update_cycle` writes without the status it judged, so a withdrawn
  computation may overtake a publication, and a computation misses feedback still arriving: these are the
  patches `excused` tells apart. A restart between the claim of a link and the insert of its response locks the giver
  out unheard; one between *computed* and its snapshot leaves the scores unfrozen until HR computes
  again. A relation weighted 0 counts as 1 above the line and as 0 below it, which gives a score above 100
  (line 1486, against the header's "0..100"). The threshold counts all responses, the score only those of the
  effective degree (line 1603, against `models/leadership.py:120`).

## 7. Abstractions, and what is not modelled

* Capability checks: any caller who could have the capability is tried. Wording, audit rows,
  notifications, SLA stamps and document filing: no decision reads them.
* An insert that raises has written nothing. Reads at the start of a handler with no write of
  anyone's between them that could matter are one step with it.
* Hiring: the salary band, budget exceptions, negotiation, reference and background checks gate an
  offer and are gates that may pass.
* Scheduler: what the jobs do (except the exit sweep, in `Exit`), and the reminders' own retries.
* Leave: a day is not marked On Leave by hand in the run (`Marks`); Rejected and Returned are one status; a balance row exists; leaves drawn before `coff_usage` was
  kept; the status of a request for flexible hours, punch segments, and which check-in is the first of its day; the pending requests and the cut-off that may block a closure; hours, late marks, encashment and year-end.
* Payroll: amounts and arithmetic are units; `require_attendance_lock` is on; re-posting an unchanged line
  keeps its approval; an approval racing a recalculation is not asked about (one request at a time).
* Configuration: governed entities other than policy versions; the analyses' content; rules edits.
* Exit: amounts and recoveries, exit interview, nominees, alumni; the reads of a closure are one step.
* Leadership: a response is a document, not its answers: the rubric, the weighted groups, the score's
  arithmetic and its thresholds are left out, as pure functions of what `frozen` counts; reminders,
  WhatsApp delivery and who may read what. Only close dates move, as opening dates are compared the same way.
* The components marked `not_modelled` in `PROJECT.json`, each with its reason: mostly record keeping
  around one document, pure arithmetic, rendering, delivery or read-only aggregation. What is left that
  has a protocol of its own is the next part of the plan.

## 8. Plan

Done: `Requisition`, `RequisitionProofs`, `Hire`, `Hiring`, `HiringProofs`, `Scheduler`;
`Attendance`, `Leave`, `JobsAndLeaveProofs`; `Payroll`, `Disbursal`, `ConfigChange`, `Exit`, `DisbursalProofs`,
`ConfigChangeProofs`, `ExitProofs`, `PayrollProofs`;
`Leadership`, `LeadershipProofs`.

Next, in this order:

1. `Links`: the registry of public links (offer, letter, onboarding) and postings, with an
   abstract single-use link; probation; the proposed-then-approved purge.
2. `LeadershipScore`: `_compute_subject_score` over every small distribution of answers, against a mean of
   groups in exact fractions; the invitation's delivery (cooldown, rotation and expiry of links).
3. The composition of `Leave` and `Payroll` at the monthly lock, whose two halves each model now.
