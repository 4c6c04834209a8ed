------------------------------ MODULE Disbursal ------------------------------
(***************************************************************************)
(* Salary disbursal of one locked payroll (hrms_disbursal_service, and     *)
(* close_run of hrms_payroll_service): payment batches, the status the     *)
(* bank reports for each payment, retry batches for the payments that      *)
(* failed, and the run marked Paid and closed.                             *)
(*                                                                         *)
(* A database call is one step; the handlers of several requests           *)
(* interleave and none of their writes is conditional.                     *)
(***************************************************************************)
EXTENDS Naturals, FiniteSets

CONSTANTS
    Employees,  \* those with net pay above zero
    MaxBatch,   \* bound: batch numbers
    Workers,    \* requests in flight at once
    Offered,    \* the entry points this instance exercises
    MaxActs,    \* bound: statuses recorded
    MaxCrashes  \* bound: process restarts

ASSUME DisbursalAssumption ==
    /\ IsFiniteSet(Employees) /\ Employees # {} /\ "none" \notin Employees
    /\ MaxBatch \in Nat /\ MaxActs \in Nat /\ MaxCrashes \in Nat

VARIABLES
    run,        \* hrms_payroll_runs: status
    reason,     \* the run was closed with a reason
    batch,      \* hrms_payment_batches: status
    pay,        \* hrms_payments: status, by batch and employee
    retried,    \* hrms_payments: retry_batch_no, 0 when there is none
    number,     \* the payment_batch counter
    confirmed,  \* audit trail: employees some payment of whom was Processed
    acts,       \* statuses recorded so far
    crashes,    \* restarts of the process so far
    task        \* the request handlers in flight

vars == <<run, reason, batch, pay, retried, number, confirmed, acts, crashes, task>>

Batches == 1..MaxBatch
PayStatus == {"None", "Pending", "Processed", "Failed"}     \* Failed: or Rejected
BatchStatus == {"None", "Generated", "Processed", "Partially Failed", "Failed",
                "Partially Processed"}
OpenOrPaid == {"Pending", "Processed"}

\* b: the batch updated or retried (0: none); new: the batch being generated;
\* wanted and who: employees; saw: the batch status, and all: everyone paid, as read.
Task == [pc: {"idle", "gen_retry", "gen_already", "gen_batch", "gen_payments", "gen_link",
              "update_write", "refresh_rows", "refresh_batch", "refresh_summary", "refresh_run",
              "refresh_write", "close_summary", "close_write"},
         b: 0..MaxBatch, new: 0..MaxBatch, wanted: SUBSET Employees, who: Employees \cup {"none"},
         st: PayStatus, saw: BatchStatus, all: BOOLEAN, ok: BOOLEAN]
Idle == [pc |-> "idle", b |-> 0, new |-> 0, wanted |-> {}, who |-> "none", st |-> "None",
         saw |-> "None", all |-> FALSE, ok |-> FALSE]

TypeOK ==
    /\ run \in {"Locked", "Paid", "Closed"} /\ reason \in BOOLEAN
    /\ batch \in [Batches -> BatchStatus]
    /\ pay \in [Batches -> [Employees -> PayStatus]]
    /\ retried \in [Batches -> [Employees -> 0..MaxBatch]]
    /\ number \in 0..MaxBatch /\ acts \in Nat /\ crashes \in Nat
    /\ confirmed \subseteq Employees
    /\ task \in [Workers -> Task]

Init ==
    /\ run = "Locked" /\ reason = FALSE
    /\ batch = [b \in Batches |-> "None"]
    /\ pay = [b \in Batches |-> [e \in Employees |-> "None"]]
    /\ retried = [b \in Batches |-> [e \in Employees |-> 0]]
    /\ number = 0 /\ confirmed = {} /\ acts = 0 /\ crashes = 0
    /\ task = [w \in Workers |-> Idle]

At(w, pc) == task[w].pc = pc
Goto(w, pc) == task' = [task EXCEPT ![w].pc = pc]
Finish(w) == task' = [task EXCEPT ![w] = Idle]
ReadOnly == UNCHANGED <<run, reason, batch, pay, retried, number, confirmed, acts, crashes>>

Begin(w, op, t) ==
    /\ op \in Offered
    /\ task[w] = Idle
    /\ task' = [task EXCEPT ![w] = t]
    /\ ReadOnly

Has(e, statuses) == \E b \in Batches : pay[b][e] \in statuses
AllPaid == \A e \in Employees : Has(e, {"Processed"})

-----------------------------------------------------------------------------
(* generate_batch                                                           *)

StartGenerate(w) ==
    /\ run # "Closed"
    /\ number < MaxBatch
    /\ \/ Begin(w, "generate", [Idle EXCEPT !.pc = "gen_already", !.wanted = Employees])
       \/ \E b \in Batches : batch[b] # "None" /\ Begin(w, "retry", [Idle EXCEPT !.pc = "gen_retry",
                                                                          !.b = b])

\* The failed payments of that batch no retry has taken yet.
GenRetry(w) ==
    LET b == task[w].b
        rows == {e \in Employees : pay[b][e] = "Failed" /\ retried[b][e] = 0}
    IN  /\ At(w, "gen_retry")
        /\ IF rows = {} THEN Finish(w)
           ELSE task' = [task EXCEPT ![w].pc = "gen_already", ![w].wanted = rows]
        /\ ReadOnly

\* Whoever is paid or in a pending batch is left out, and so is whoever has no bank
\* details on the profile that day.
GenAlready(w) ==
    LET left == {e \in task[w].wanted : ~Has(e, OpenOrPaid)}
    IN  /\ At(w, "gen_already")
        /\ \/ \E some \in SUBSET left \ {{}} :
                 task' = [task EXCEPT ![w].pc = "gen_batch", ![w].wanted = some]
           \/ Finish(w)
        /\ ReadOnly

GenBatchMutant(w) ==
    /\ At(w, "gen_batch")
    /\ number < MaxBatch
    /\ number' = number + 1
    /\ batch' = [batch EXCEPT ![number'] = "Generated"]
    /\ task' = [task EXCEPT ![w].pc = IF task[w].b = 0 THEN "gen_payments" ELSE "gen_link", ![w].new = number']
    /\ UNCHANGED <<run, reason, pay, retried, confirmed, acts, crashes>>

GenBatch(w) ==
    /\ At(w, "gen_batch")
    /\ number < MaxBatch
    /\ number' = number + 1
    /\ batch' = [batch EXCEPT ![number'] = "Generated"]
    /\ task' = [task EXCEPT ![w].pc = "gen_payments", ![w].new = number']
    /\ UNCHANGED <<run, reason, pay, retried, confirmed, acts, crashes>>

GenPayments(w) ==
    LET t == task[w]
    IN  /\ At(w, "gen_payments")
        /\ pay' = [pay EXCEPT ![t.new] = [e \in Employees |-> IF e \in t.wanted THEN "Pending"
                                                              ELSE "None"]]
        /\ IF t.b # 0 THEN Goto(w, "gen_link") ELSE Finish(w)
        /\ UNCHANGED <<run, reason, batch, retried, number, confirmed, acts, crashes>>

\* One payment of the retried batch after the other.
GenLink(w) ==
    LET t == task[w]
    IN  /\ At(w, "gen_link")
        /\ \E e \in t.wanted :
             /\ retried' = [retried EXCEPT ![t.b][e] = t.new]
             /\ IF t.wanted = {e} THEN Finish(w)
                ELSE task' = [task EXCEPT ![w].wanted = @ \ {e}]
        /\ UNCHANGED <<run, reason, batch, pay, number, confirmed, acts, crashes>>

-----------------------------------------------------------------------------
(* update_payment, also for each row of import_statuses, and _refresh_batch *)

\* Refused for a payment that was retried; otherwise any status may follow any other.
StartUpdate(w) == \E b \in Batches, e \in Employees, st \in PayStatus \ {"None"} :
    /\ pay[b][e] # "None" /\ retried[b][e] = 0 /\ acts < MaxActs
    /\ Begin(w, "update", [Idle EXCEPT !.pc = "update_write", !.b = b, !.who = e, !.st = st])

UpdateWrite(w) ==
    LET t == task[w]
    IN  /\ At(w, "update_write")
        /\ pay' = [pay EXCEPT ![t.b][t.who] = t.st]
        /\ confirmed' = IF t.st = "Processed" THEN confirmed \cup {t.who} ELSE confirmed
        /\ acts' = acts + 1 /\ Goto(w, "refresh_rows")
        /\ UNCHANGED <<run, reason, batch, retried, number, crashes>>

DerivedMutant(b) ==
    LET rows == {pay[b][e] : e \in Employees} \ {"None"}
    IN  CASE rows = {"Processed"} -> "Processed"
          [] "Failed" \in rows /\ "Processed" \in rows -> "Partially Failed"
          [] "Failed" \in rows /\ "Processed" \notin rows -> "Failed"
          [] rows = {"Processed", "Pending"} -> "Partially Processed"
          [] OTHER -> "Pending"

\* The status of a batch from those of its payments.
Derived(b) ==
    LET rows == {pay[b][e] : e \in Employees} \ {"None"}
    IN  CASE rows = {"Processed"} -> "Processed"
          [] "Failed" \in rows /\ "Processed" \in rows -> "Partially Failed"
          [] "Failed" \in rows /\ "Processed" \notin rows -> "Failed"
          [] rows = {"Processed", "Pending"} -> "Partially Processed"
          [] OTHER -> "Generated"

RefreshRows(w) ==
    /\ At(w, "refresh_rows")
    /\ task' = [task EXCEPT ![w].pc = "refresh_batch", ![w].saw = Derived(task[w].b)]
    /\ ReadOnly

RefreshBatch(w) ==
    /\ At(w, "refresh_batch")
    /\ batch' = [batch EXCEPT ![task[w].b] = task[w].saw]
    /\ Goto(w, "refresh_summary")
    /\ UNCHANGED <<run, reason, pay, retried, number, confirmed, acts, crashes>>

RefreshSummaryMutant(w) ==
    /\ At(w, "refresh_summary")
    /\ task' = [task EXCEPT ![w].pc = "refresh_run", ![w].all = task[w].saw = "Processed"]
    /\ ReadOnly

\* payment_summary over every batch of the period: nobody is unpaid.
RefreshSummary(w) ==
    /\ At(w, "refresh_summary")
    /\ task' = [task EXCEPT ![w].pc = "refresh_run", ![w].all = AllPaid]
    /\ ReadOnly

RefreshRun(w) ==
    /\ At(w, "refresh_run")
    /\ IF run = "Locked" /\ task[w].all THEN Goto(w, "refresh_write") ELSE Finish(w)
    /\ ReadOnly

RefreshWrite(w) ==
    /\ At(w, "refresh_write")
    /\ run' = "Paid"
    /\ Finish(w)
    /\ UNCHANGED <<reason, batch, pay, retried, number, confirmed, acts, crashes>>

-----------------------------------------------------------------------------
(* close_run                                                                *)

StartClose(w) == \E ok \in BOOLEAN :
    /\ run # "Closed"
    /\ Begin(w, "close", [Idle EXCEPT !.pc = "close_summary", !.ok = ok])

\* A payment that failed and was not retried, or one still pending, stops it; people
\* unpaid for another cause need a reason.
CloseSummary(w) ==
    LET stuck == {e \in Employees :
            /\ ~Has(e, {"Processed"})
            /\ \/ Has(e, {"Pending"})
               \/ \E b \in Batches : pay[b][e] = "Failed" /\ retried[b][e] = 0}
    IN  /\ At(w, "close_summary")
        /\ IF stuck = {} /\ (AllPaid \/ task[w].ok) THEN Goto(w, "close_write") ELSE Finish(w)
        /\ ReadOnly

CloseWrite(w) ==
    /\ At(w, "close_write")
    /\ run' = "Closed" /\ reason' = task[w].ok
    /\ Finish(w)
    /\ UNCHANGED <<batch, pay, retried, number, confirmed, acts, crashes>>

-----------------------------------------------------------------------------
Crash ==
    /\ crashes < MaxCrashes
    /\ \E w \in Workers : task[w] # Idle
    /\ crashes' = crashes + 1
    /\ task' = [w \in Workers |-> Idle]
    /\ UNCHANGED <<run, reason, batch, pay, retried, number, confirmed, acts>>

Step(w) ==
    \/ StartGenerate(w) \/ GenRetry(w) \/ GenAlready(w) \/ GenBatch(w) \/ GenPayments(w)
    \/ GenLink(w)
    \/ StartUpdate(w) \/ UpdateWrite(w) \/ RefreshRows(w) \/ RefreshBatch(w)
    \/ RefreshSummary(w) \/ RefreshRun(w) \/ RefreshWrite(w)
    \/ StartClose(w) \/ CloseSummary(w) \/ CloseWrite(w)

Next == (\E w \in Workers : Step(w)) \/ Crash

Spec == Init /\ [][Next]_vars

-----------------------------------------------------------------------------
(* Properties                                                               *)

\* A payment that says it was reprocessed names a later batch that really pays that
\* employee: the new rows are there before the old one is linked, even when the
\* process dies in between, so a payment is never written off against a retry that
\* does not exist (generate_batch).
RetryIsReal ==
    \A b \in Batches, e \in Employees :
        retried[b][e] # 0 => retried[b][e] > b /\ pay[retried[b][e]][e] # "None"

\* Nobody is forgotten, and the last confirmation is not lost.  A run is marked Paid, or
\* closed without a reason, only when every payable employee's payment has been
\* confirmed at some time, whichever batches, retries and concurrent updates it took;
\* and when everyone is paid and no request is at work, it is no longer merely Locked,
\* unless the process died before it could say so (_refresh_batch, close_run).
PaidIffConfirmed ==
    /\ run = "Paid" \/ (run = "Closed" /\ ~reason) => Employees \subseteq confirmed
    /\ (\A w \in Workers : task[w] = Idle) /\ crashes = 0 /\ AllPaid => run # "Locked"
=============================================================================
