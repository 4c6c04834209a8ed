------------------------------- MODULE Scheduler -------------------------------
(***************************************************************************)
(* The background loop (reminder_scheduler) and its two run ledgers: the   *)
(* daily jobs claim (job, day) in tpms_job_runs before they run, the HRMS  *)
(* sweeps record (job, day) in hrms_job_runs after they have run           *)
(* (hrms_scheduler_service).  The task nudges run under the same claim,    *)
(* behind a day flag of their own.                                         *)
(*                                                                         *)
(* Each process runs the loop once; every database call and every job is   *)
(* an await, so processes interleave there, and a process may be killed    *)
(* there.  A claim's start time is kept only as whether its lease is over. *)
(*                                                                         *)
(* No name of this module is one of Leave's: one module has the proofs     *)
(* about both.                                                             *)
(***************************************************************************)
EXTENDS Integers, Sequences

CONSTANTS
    Procs,        \* processes running the loop: a restart may overlap another
    Order,        \* the jobs of one pass of the loop, in order
    MaxDay,       \* bound: days 1..MaxDay
    MaxTrouble    \* bound: processes killed, and jobs and ledger calls that raise

ASSUME ConstantsAssumption ==
    /\ Order \in Seq({"nudges", "feed", "sync", "sweep"})
    /\ \A i, k \in 1..Len(Order): Order[i] = Order[k] => i = k
    /\ Order # <<>>
    /\ MaxDay \in Nat \ {0}
    /\ MaxTrouble \in Nat

VARIABLES
    day,          \* the date
    open,         \* whether the hour at which the jobs fall due has struck
    up,           \* the processes that are alive
    pc,           \* where each process is in its tick
    memo,         \* per process: the in-memory stamp of each job (0 for none)
    nudged,       \* per process: last_nudge_day
    claim,        \* tpms_job_runs, unique on (job, stamp)
    swept,        \* hrms_job_runs: last_stamp of the sweep (0 for no row)
    ran,          \* history: the (job, day) pairs that ran to the end
    excused,      \* history: the pairs whose lease ran out or whose ledger call raised
    kills, faults

clock == <<day, open>>
memory == <<memo, nudged>>
history == <<ran, excused>>
jobsVars == <<clock, up, pc, memory, claim, swept, history, kills, faults>>

-----------------------------------------------------------------------------
(* The loop                                                                 *)

\* The loop passes the nudges, then the daily jobs -- of which the feed and the
\* sync stand for all five, each the same call of _run_job -- then the sweeps.
Jobs == {Order[i]: i \in 1..Len(Order)}
Claimed == Jobs \ {"sweep"}
Day == 1..MaxDay
Runs == Claimed \X Day

\* A document of tpms_job_runs.  "lapsed" is running, past its lease; doc tells
\* the documents inserted for one (job, stamp) apart, as their _id does.
ClaimDoc == [status: {"none", "running", "lapsed", "done"}, doc: Nat]

PCs == {"idle", "next", "insert", "takeover", "run", "finish", "drop",
        "record", "first", "update"}
Tick == [at: PCs, job: 1..Len(Order), stamp: Day, due: BOOLEAN, doc: Nat]
NoTick == [at |-> "idle", job |-> 1, stamp |-> 1, due |-> FALSE, doc |-> 0]

Job(p) == Order[pc[p].job]
Stamp(p) == pc[p].stamp
ClaimRow(p) == claim[Job(p)][Stamp(p)]

JobsInit ==
    /\ day = 1
    /\ open = FALSE
    /\ up = Procs
    /\ pc = [p \in Procs |-> NoTick]
    /\ memo = [p \in Procs |-> [j \in Jobs |-> 0]]
    /\ nudged = [p \in Procs |-> 0]
    /\ claim = [j \in Claimed |-> [d \in Day |-> [status |-> "none", doc |-> 0]]]
    /\ swept = 0
    /\ ran = {}
    /\ excused = {}
    /\ kills = 0
    /\ faults = 0

TickAt(p, at) == p \in up /\ pc[p].at = at
TickTo(p, at) == pc' = [pc EXCEPT ![p].at = at]

\* The clock is read again for the daily jobs and for the sweeps, once for each.
Advance(p) ==
    LET j == pc[p].job + 1 IN
    pc' = [pc EXCEPT ![p] =
             IF j > Len(Order) THEN NoTick
             ELSE IF Order[j] = "sync" THEN [@ EXCEPT !.at = "next", !.job = j]
             ELSE [NoTick EXCEPT !.at = "next", !.job = j, !.stamp = day, !.due = open]]

\* Mutant: the next day's stamp.
RememberMutant(p) == memo' = [memo EXCEPT ![p][Job(p)] = Stamp(p) + 1]
Remember(p) == memo' = [memo EXCEPT ![p][Job(p)] = Stamp(p)]

\* The loop sets last_nudge_day whenever _run_job returns, and it always does.
Returned(p) == nudged' = IF Job(p) = "nudges" THEN [nudged EXCEPT ![p] = Stamp(p)] ELSE nudged

SetClaim(p, s) == claim' = [claim EXCEPT ![Job(p)][Stamp(p)].status = s]

StartTick(p) ==
    /\ TickAt(p, "idle")
    /\ pc' = [pc EXCEPT ![p] = [NoTick EXCEPT !.at = "next", !.stamp = day, !.due = open]]
    /\ UNCHANGED <<clock, up, memory, claim, swept, history, kills, faults>>

Wanted(p) ==
    /\ pc[p].due
    /\ memo[p][Job(p)] # Stamp(p)
    /\ Job(p) = "nudges" => nudged[p] # Stamp(p)

\* The jobs that are not due, and those the process remembers.
Skip(p) ==
    /\ TickAt(p, "next")
    /\ ~Wanted(p)
    /\ Advance(p)
    /\ IF pc[p].due THEN Returned(p) ELSE UNCHANGED nudged
    /\ UNCHANGED <<clock, up, memo, claim, swept, history, kills, faults>>

-----------------------------------------------------------------------------
(* _claim_job, _finish_job and _run_job                                     *)

\* Losing the claim: remember the day, so as not to look again.
Lose(p) == Advance(p) /\ Remember(p) /\ Returned(p)

FindClaim(p) ==
    /\ TickAt(p, "next")
    /\ Wanted(p)
    /\ Job(p) \in Claimed
    /\ \/ /\ ClaimRow(p).status \in {"done", "running"}
          /\ Lose(p)
       \/ /\ ClaimRow(p).status = "lapsed"
          /\ pc' = [pc EXCEPT ![p].at = "takeover", ![p].doc = ClaimRow(p).doc]
          /\ UNCHANGED memory
       \/ /\ ClaimRow(p).status = "none"
          /\ TickTo(p, "insert")
          /\ UNCHANGED memory
    /\ UNCHANGED <<clock, up, claim, swept, history, kills, faults>>

\* Mutant: no unique index on (job, stamp).
InsertClaimMutant(p) ==
    /\ TickAt(p, "insert")
    /\ claim' = [claim EXCEPT ![Job(p)][Stamp(p)] = [status |-> "running", doc |-> 1]]
    /\ TickTo(p, "run")
    /\ UNCHANGED <<clock, up, memory, swept, history, kills, faults>>

InsertClaim(p) ==
    /\ TickAt(p, "insert")
    /\ \/ /\ ClaimRow(p).status = "none"
          /\ claim' = [claim EXCEPT ![Job(p)][Stamp(p)] =
                         [status |-> "running", doc |-> @.doc + 1]]
          /\ TickTo(p, "run")
          /\ UNCHANGED memory
       \/ /\ ClaimRow(p).status # "none"              \* duplicate key
          /\ Lose(p)
          /\ UNCHANGED claim
    /\ UNCHANGED <<clock, up, swept, history, kills, faults>>

\* The update names the document it read and nothing else; if that one is gone
\* it changes nothing, and the run starts all the same.
TakeOver(p) ==
    /\ TickAt(p, "takeover")
    /\ IF ClaimRow(p).status # "none" /\ ClaimRow(p).doc = pc[p].doc
       THEN SetClaim(p, "running") ELSE UNCHANGED claim
    /\ TickTo(p, "run")
    /\ UNCHANGED <<clock, up, memory, swept, history, kills, faults>>

RunEnds(p) ==
    /\ TickAt(p, "run")
    /\ Job(p) \in Claimed
    /\ ran' = ran \cup {<<Job(p), Stamp(p)>>}
    /\ Remember(p)
    /\ TickTo(p, "finish")
    /\ UNCHANGED <<clock, up, nudged, claim, swept, excused, kills, faults>>

\* Mutant: the day is remembered whether or not the job raised.
RunRaisesMutant(p) ==
    /\ TickAt(p, "run")
    /\ Job(p) \in Claimed
    /\ kills + faults < MaxTrouble
    /\ faults' = faults + 1
    /\ Remember(p)
    /\ TickTo(p, "drop")
    /\ UNCHANGED <<clock, up, nudged, claim, swept, history, kills>>

RunRaises(p) ==
    /\ TickAt(p, "run")
    /\ Job(p) \in Claimed
    /\ kills + faults < MaxTrouble
    /\ faults' = faults + 1
    /\ TickTo(p, "drop")
    /\ UNCHANGED <<clock, up, memory, claim, swept, history, kills>>

\* Mutant: the claim is dropped after a run that succeeded, too.
FinishJobMutant(p) ==
    /\ TickAt(p, "finish")
    /\ SetClaim(p, "none")
    /\ Advance(p)
    /\ Returned(p)
    /\ UNCHANGED <<clock, up, memo, swept, history, kills, faults>>

FinishJob(p) ==
    /\ TickAt(p, "finish")
    /\ IF ClaimRow(p).status # "none" THEN SetClaim(p, "done") ELSE UNCHANGED claim
    /\ Advance(p)
    /\ Returned(p)
    /\ UNCHANGED <<clock, up, memo, swept, history, kills, faults>>

Drop(p) ==
    /\ TickAt(p, "drop")
    /\ SetClaim(p, "none")
    /\ Advance(p)
    /\ Returned(p)
    /\ UNCHANGED <<clock, up, memo, swept, history, kills, faults>>

\* A ledger call that raises: a claim is then taken for granted, a result lost.
LedgerRaises(p) ==
    /\ p \in up
    /\ Job(p) \in Claimed
    /\ kills + faults < MaxTrouble
    /\ faults' = faults + 1
    /\ excused' = excused \cup {<<Job(p), Stamp(p)>>}
    /\ \/ /\ \/ TickAt(p, "next") /\ Wanted(p)
             \/ pc[p].at \in {"insert", "takeover"}
          /\ TickTo(p, "run")
          /\ UNCHANGED nudged
       \/ /\ pc[p].at \in {"finish", "drop"}
          /\ Advance(p)
          /\ Returned(p)
    /\ UNCHANGED <<clock, up, memo, claim, swept, ran, kills>>

-----------------------------------------------------------------------------
(* run_due_jobs: already_ran, the job, record_run                           *)

\* Mutant: any earlier run counts, whatever its day.
AlreadyRanMutant(p) ==
    /\ TickAt(p, "next")
    /\ Wanted(p)
    /\ Job(p) = "sweep"
    /\ IF swept # 0 THEN Remember(p) /\ Advance(p)
                    ELSE TickTo(p, "run") /\ UNCHANGED memo
    /\ UNCHANGED <<clock, up, nudged, claim, swept, history, kills, faults>>

AlreadyRan(p) ==
    /\ TickAt(p, "next")
    /\ Wanted(p)
    /\ Job(p) = "sweep"
    /\ IF swept = Stamp(p) THEN Remember(p) /\ Advance(p)
                           ELSE TickTo(p, "run") /\ UNCHANGED memo
    /\ UNCHANGED <<clock, up, nudged, claim, swept, history, kills, faults>>

SweepEnds(p) ==
    /\ TickAt(p, "run")
    /\ Job(p) = "sweep"
    /\ ran' = ran \cup {<<"sweep", Stamp(p)>>}
    /\ TickTo(p, "record")
    /\ UNCHANGED <<clock, up, memory, claim, swept, excused, kills, faults>>

RecordRun(p) ==
    /\ TickAt(p, "record")
    /\ \/ swept = 0 /\ TickTo(p, "first") /\ UNCHANGED memo
       \/ swept = Stamp(p) /\ Remember(p) /\ Advance(p)
       \/ swept \notin {0, Stamp(p)} /\ TickTo(p, "update") /\ UNCHANGED memo
    /\ UNCHANGED <<clock, up, nudged, claim, swept, history, kills, faults>>

\* Losing the insert, or the conditional update, is taken for recorded.
WriteRun(p) ==
    /\ p \in up
    /\ \/ pc[p].at = "first" /\ swept' = IF swept = 0 THEN Stamp(p) ELSE swept
       \/ pc[p].at = "update" /\ swept' = Stamp(p)
    /\ Remember(p)
    /\ Advance(p)
    /\ UNCHANGED <<clock, up, nudged, claim, history, kills, faults>>

\* Mutant: a sweep that raised is remembered like one that ended.

\* The sweep, or a call of its ledger, raises: the next tick tries again.  Only
\* the insert's own exception is caught by record_run.
SweepRaises(p) ==
    /\ p \in up
    /\ Job(p) = "sweep"
    /\ (pc[p].at = "next" /\ Wanted(p)) \/ pc[p].at \in {"run", "record", "first", "update"}
    /\ kills + faults < MaxTrouble
    /\ faults' = faults + 1
    /\ Advance(p)
    /\ IF pc[p].at = "first" THEN Remember(p) ELSE UNCHANGED memo
    /\ UNCHANGED <<clock, up, nudged, claim, swept, history, kills>>

-----------------------------------------------------------------------------
(* Time, and the process                                                    *)

HourStrikes ==
    /\ ~open
    /\ open' = TRUE
    /\ UNCHANGED <<day, up, pc, memory, claim, swept, history, kills, faults>>

NextDay ==
    /\ open
    /\ day < MaxDay
    /\ day' = day + 1
    /\ open' = FALSE
    /\ UNCHANGED <<up, pc, memory, claim, swept, history, kills, faults>>

\* Thirty minutes pass.  Nothing bounds a run, so its process may be alive.
LeaseEnds(j, d) ==
    /\ claim[j][d].status = "running"
    /\ claim' = [claim EXCEPT ![j][d].status = "lapsed"]
    /\ excused' = excused \cup {<<j, d>>}
    /\ UNCHANGED <<clock, up, pc, memory, swept, ran, kills, faults>>

Kill(p) ==
    /\ p \in up
    /\ kills + faults < MaxTrouble
    /\ kills' = kills + 1
    /\ up' = up \ {p}
    /\ pc' = [pc EXCEPT ![p] = NoTick]
    /\ memo' = [memo EXCEPT ![p] = [j \in Jobs |-> 0]]
    /\ nudged' = [nudged EXCEPT ![p] = 0]
    /\ UNCHANGED <<clock, claim, swept, history, faults>>

StartProcess(p) ==
    /\ p \notin up
    /\ up' = up \cup {p}
    /\ UNCHANGED <<clock, pc, memory, claim, swept, history, kills, faults>>

\* What a process that is left alone does next.
Step(p) ==
    \/ StartTick(p) \/ Skip(p)
    \/ FindClaim(p) \/ InsertClaim(p) \/ TakeOver(p)
    \/ RunEnds(p) \/ FinishJob(p) \/ Drop(p)
    \/ AlreadyRan(p) \/ SweepEnds(p) \/ RecordRun(p) \/ WriteRun(p)

Raise(p) == RunRaises(p) \/ LedgerRaises(p) \/ SweepRaises(p)

JobsNext ==
    \/ \E p \in Procs: Step(p) \/ Raise(p) \/ Kill(p) \/ StartProcess(p)
    \/ \E j \in Claimed, d \in Day: LeaseEnds(j, d)
    \/ HourStrikes \/ NextDay

JobsSpec == JobsInit /\ [][JobsNext]_jobsVars

\* The event loop resumes the task, every job returns, time passes, and the
\* container restarts a dead process (restart: always).
Fairness ==
    /\ \A p \in Procs: WF_jobsVars(Step(p)) /\ WF_jobsVars(StartProcess(p))
    /\ \A j \in Claimed, d \in Day: WF_jobsVars(LeaseEnds(j, d))
    /\ WF_jobsVars(HourStrikes) /\ WF_jobsVars(NextDay)

FairSpec == JobsSpec /\ Fairness

-----------------------------------------------------------------------------
(* Properties                                                               *)

JobsTypeOK ==
    /\ day \in Day
    /\ open \in BOOLEAN
    /\ up \in SUBSET Procs
    /\ pc \in [Procs -> Tick]
    /\ memo \in [Procs -> [Jobs -> 0..MaxDay]]
    /\ nudged \in [Procs -> 0..MaxDay]
    /\ claim \in [Claimed -> [Day -> ClaimDoc]]
    /\ swept \in 0..MaxDay
    /\ ran \in SUBSET (Jobs \X Day)
    /\ excused \in SUBSET Runs
    /\ kills \in 0..MaxTrouble
    /\ faults \in 0..MaxTrouble

Holds(p, j, d) == pc[p].at \in {"run", "finish", "drop"} /\ Job(p) = j /\ Stamp(p) = d

\* While its lease lasts and the ledger answers, one process at a time runs a
\* daily job for a day: _claim_job's find and insert are two calls, and another
\* process may do anything in between.
OneRunner ==
    \A p, q \in Procs: \A r \in Runs \ excused:
        Holds(p, r[1], r[2]) /\ Holds(q, r[1], r[2]) => p = q

\* And once it has run to the end it does not run again that day, even when the
\* process was killed before it could say so.
NeverReplayed ==
    [][\A p \in Procs: \A r \in ran \ excused':
          r[1] \in Claimed /\ Holds(p, r[1], r[2])' /\ pc'[p].at = "run"
            => Holds(p, r[1], r[2])]_jobsVars

Due == day = MaxDay /\ open
Last(j) == <<j, MaxDay>> \in ran

\* A sweep is never lost for the day: not to a run that raises, not to a process
\* killed at any point of it, not to another process recording an earlier day.
SweepRuns == Due ~> ("sweep" \in Jobs => Last("sweep"))

\* Nor is a daily job lost to a run that raises, as long as no process is killed
\* in the middle of one.
FailedRunRetried == [](kills = 0) => (Due ~> \A j \in Claimed \ {"nudges"}: Last(j))
=============================================================================
