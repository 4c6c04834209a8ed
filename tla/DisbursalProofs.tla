--------------------------- MODULE DisbursalProofs ---------------------------
(* Proofs about Disbursal, for every set of employees and of requests in     *)
(* flight, any number of batches and of restarts.                            *)
EXTENDS Disbursal, TLAPS

\* What a request is known to hold at each step, when n numbers are handed out.
WellFormed(t, n) ==
    /\ t.pc \in {"gen_payments", "gen_link"} => t.new # 0 /\ t.new <= n /\ t.b < t.new
    /\ t.pc = "gen_link" => t.b # 0
    /\ t.pc \in {"gen_retry", "gen_already", "gen_batch"} => t.b <= n
    /\ t.pc \in {"update_write", "refresh_rows", "refresh_batch"} => t.b # 0 /\ t.b <= n
    /\ t.pc = "update_write" => t.who # "none" /\ t.st # "None"

Tasks == task \in [Workers -> Task] /\ \A w \in Workers : WellFormed(task[w], number)

\* Only numbers that were handed out are in use.
Minted ==
    \A b \in Batches : b > number =>
        batch[b] = "None" /\ \A e \in Employees : pay[b][e] = "None"

Typed == TypeOK /\ Minted /\ \A w \in Workers : WellFormed(task[w], number)

-----------------------------------------------------------------------------
(* Typing                                                                    *)

LEMMA Numbers == Typed => MaxBatch \in Nat /\ number \in 0..MaxBatch
  BY DisbursalAssumption DEF Typed, TypeOK

LEMMA IdleTyped == Idle \in Task /\ \A n : WellFormed(Idle, n)
  BY DisbursalAssumption DEF Idle, Task, BatchStatus, PayStatus, WellFormed

LEMMA DerivedTyped == ASSUME NEW b PROVE Derived(b) \in BatchStatus
  BY DEF Derived, BatchStatus

\* A request may hold anything well formed next, and numbers only grow.
LEMMA Moved ==
    ASSUME Tasks, number \in 0..MaxBatch, number' \in 0..MaxBatch, number <= number',
           NEW w \in Workers, NEW t \in Task, WellFormed(t, number'), task' = [task EXCEPT ![w] = t]
    PROVE  Tasks'
<1>1. task' \in [Workers -> Task]
  BY DEF Tasks
<1>2. ASSUME NEW v \in Workers PROVE WellFormed(task'[v], number')
  <2>1. CASE v = w
    BY <2>1 DEF Tasks
  <2>2. CASE v # w
    <3>1. task'[v] = task[v] /\ WellFormed(task[v], number) /\ task[v] \in Task
      BY <2>2 DEF Tasks
    <3>2. task[v].new \in 0..MaxBatch /\ task[v].b \in 0..MaxBatch
      BY <3>1 DEF Task
    <3> QED
      BY <3>1, <3>2, DisbursalAssumption DEF WellFormed
  <2> QED
    BY <2>1, <2>2
<1> QED
  BY <1>1, <1>2 DEF Tasks

\* A step of a request that only reads is typed when what it holds next is.
LEMMA ReadTyped ==
    ASSUME Typed, ReadOnly, Tasks' PROVE Typed'
<1>1. /\ run' = run /\ batch' = batch /\ pay' = pay /\ retried' = retried
      /\ number' = number /\ confirmed' = confirmed /\ acts' = acts /\ crashes' = crashes
  BY DEF ReadOnly
<1>2. reason' \in BOOLEAN
  BY Zenon DEF Typed, TypeOK, ReadOnly
<1>3. TypeOK'
  BY <1>1, <1>2 DEF Typed, TypeOK, Tasks
<1>4. Minted'
  BY <1>1 DEF Typed, Minted
<1> QED
  BY <1>3, <1>4 DEF Typed, Tasks

LEMMA ReadMoved ==
    ASSUME Typed, ReadOnly, NEW w \in Workers, NEW t \in Task, WellFormed(t, number),
           task' = [task EXCEPT ![w] = t]
    PROVE  Typed'
<1>1. Tasks
  BY DEF Typed, TypeOK, Tasks
<1>2. number' = number /\ number \in 0..MaxBatch /\ MaxBatch \in Nat
  BY Numbers DEF ReadOnly
<1>3. number' \in 0..MaxBatch /\ number <= number' /\ WellFormed(t, number')
  BY <1>2
<1>4. Tasks'
  BY <1>1, <1>2, <1>3, Moved
<1> QED
  BY <1>4, ReadTyped

LEMMA InitTyped == Init => Typed
<1> SUFFICES ASSUME Init PROVE Typed
  OBVIOUS
<1>1. task \in [Workers -> Task]
  BY IdleTyped DEF Init
<1>2. pay \in [Batches -> [Employees -> PayStatus]]
  BY DEF Init, PayStatus
<1>3. retried \in [Batches -> [Employees -> 0..MaxBatch]]
  BY DisbursalAssumption DEF Init
<1>4. batch \in [Batches -> BatchStatus]
  BY DEF Init, BatchStatus
<1>b. reason \in BOOLEAN
  BY Zenon DEF Init
<1>5. TypeOK
  BY <1>1, <1>2, <1>3, <1>4, <1>b, DisbursalAssumption DEF Init, TypeOK
<1>6. Minted
  BY DEF Init, Minted
<1> QED
  BY <1>5, <1>6, IdleTyped DEF Typed, Init

LEMMA StartGenerateTyped ==
    ASSUME Typed, NEW w \in Workers, StartGenerate(w) PROVE Typed'
<1>1. ReadOnly
  BY DEF StartGenerate, Begin
<1>2. CASE task' = [task EXCEPT ![w] = [Idle EXCEPT !.pc = "gen_already", !.wanted = Employees]]
  <2> DEFINE u == [Idle EXCEPT !.pc = "gen_already", !.wanted = Employees]
  <2>1. u \in Task
    BY IdleTyped DEF Task
  <2>2. WellFormed(u, number)
    BY Numbers DEF WellFormed, Idle
  <2> HIDE DEF u
  <2>3. task' = [task EXCEPT ![w] = u]
    BY <1>2 DEF u
  <2> QED
    BY <1>1, <2>1, <2>2, <2>3, ReadMoved
<1>3. ASSUME NEW b \in Batches, batch[b] # "None",
             task' = [task EXCEPT ![w] = [Idle EXCEPT !.pc = "gen_retry", !.b = b]]
      PROVE  Typed'
  <2> DEFINE u == [Idle EXCEPT !.pc = "gen_retry", !.b = b]
  <2>1. b <= number /\ b \in 0..MaxBatch
    BY <1>3, Numbers DEF Typed, Minted, Batches
  <2>2. u \in Task
    BY IdleTyped, <2>1 DEF Task
  <2>3. WellFormed(u, number)
    BY <2>1 DEF WellFormed, Idle
  <2> HIDE DEF u
  <2>4. task' = [task EXCEPT ![w] = u]
    BY <1>3 DEF u
  <2> QED
    BY <1>1, <2>2, <2>3, <2>4, ReadMoved
<1> QED
  BY <1>2, <1>3 DEF StartGenerate, Begin

\* What the collections hold, apart from reason.
LEMMA DocsTyped ==
    ASSUME Typed
    PROVE  /\ run \in {"Locked", "Paid", "Closed"}
           /\ batch \in [Batches -> BatchStatus]
           /\ pay \in [Batches -> [Employees -> PayStatus]]
           /\ retried \in [Batches -> [Employees -> 0..MaxBatch]]
           /\ acts \in Nat /\ crashes \in Nat
           /\ confirmed \subseteq Employees
           /\ Tasks
           /\ \A w \in Workers : task[w] \in Task /\ WellFormed(task[w], number)
  BY DEF Typed, TypeOK, Tasks

LEMMA Rebuilt ==
    ASSUME run' \in {"Locked", "Paid", "Closed"}, reason' \in BOOLEAN,
           batch' \in [Batches -> BatchStatus], pay' \in [Batches -> [Employees -> PayStatus]],
           retried' \in [Batches -> [Employees -> 0..MaxBatch]], number' \in 0..MaxBatch,
           acts' \in Nat, crashes' \in Nat, confirmed' \subseteq Employees, Minted', Tasks'
    PROVE  Typed'
  BY DEF Typed, TypeOK, Tasks

LEMMA ReasonKept == ASSUME Typed, UNCHANGED reason PROVE reason' \in BOOLEAN
  BY Zenon DEF Typed, TypeOK

LEMMA GenerateTyped ==
    ASSUME Typed, NEW w \in Workers, GenRetry(w) \/ GenAlready(w) PROVE Typed'
<1> DEFINE t == task[w]
<1>1. t \in Task /\ WellFormed(t, number)
  BY DocsTyped
<1>2. ReadOnly
  BY DEF GenRetry, GenAlready
<1>3. CASE task' = [task EXCEPT ![w] = Idle]
  BY <1>2, <1>3, IdleTyped, ReadMoved
<1>4. CASE GenRetry(w)
  <2> DEFINE rows == {e \in Employees : pay[t.b][e] = "Failed" /\ retried[t.b][e] = 0}
             u == [t EXCEPT !.pc = "gen_already", !.wanted = rows]
  <2>1. u \in Task
    BY <1>1 DEF Task
  <2>2. WellFormed(u, number)
    BY <1>1, <1>4 DEF WellFormed, GenRetry, At, Task
  <2>3. task' = [task EXCEPT ![w] = u] \/ task' = [task EXCEPT ![w] = Idle]
    BY <1>4 DEF GenRetry, Finish
  <2> HIDE DEF u
  <2> QED
    BY <1>2, <1>3, <2>1, <2>2, <2>3, ReadMoved
<1>5. CASE GenAlready(w)
  <2>1. ASSUME NEW some \in SUBSET t.wanted,
               task' = [task EXCEPT ![w] = [t EXCEPT !.pc = "gen_batch", !.wanted = some]]
        PROVE  Typed'
    <3> DEFINE u == [t EXCEPT !.pc = "gen_batch", !.wanted = some]
    <3>1. u \in Task
      BY <1>1 DEF Task
    <3>2. WellFormed(u, number)
      BY <1>1, <1>5 DEF WellFormed, GenAlready, At, Task
    <3>3. task' = [task EXCEPT ![w] = u]
      BY <2>1
    <3> HIDE DEF u
    <3> QED
      BY <1>2, <3>1, <3>2, <3>3, ReadMoved
  <2>2. \/ \E some \in SUBSET t.wanted :
              task' = [task EXCEPT ![w] = [t EXCEPT !.pc = "gen_batch", !.wanted = some]]
        \/ task' = [task EXCEPT ![w] = Idle]
    BY <1>5 DEF GenAlready, Finish
  <2> QED
    BY <1>3, <2>1, <2>2
<1> QED
  BY <1>4, <1>5

LEMMA GenBatchTyped ==
    ASSUME Typed, NEW w \in Workers, GenBatch(w) PROVE Typed'
<1> DEFINE t == task[w]
           u == [t EXCEPT !.pc = "gen_payments", !.new = number']
<1>1. t \in Task /\ WellFormed(t, number) /\ t.b \in 0..MaxBatch
  BY DocsTyped DEF Task
<1>2. number' = number + 1 /\ number' \in 0..MaxBatch /\ number' \in Batches
  BY Numbers DEF GenBatch, Batches
<1>3. u \in Task
  BY <1>1, <1>2 DEF Task
<1>4. WellFormed(u, number')
  BY <1>1, <1>2, Numbers DEF WellFormed, GenBatch, At, Task
<1>5. task' = [task EXCEPT ![w] = u]
  BY DEF GenBatch
<1> HIDE DEF u
<1>6. Tasks'
  <2>1. number' \in 0..MaxBatch /\ number <= number' /\ number \in 0..MaxBatch /\ Tasks
    BY <1>2, Numbers, DocsTyped
  <2> QED
    BY <1>3, <1>4, <1>5, <2>1, Moved
<1>7. batch' \in [Batches -> BatchStatus]
  BY DocsTyped DEF GenBatch, BatchStatus
<1>8. Minted'
  <2>1. \A b \in Batches : b > number' => b > number /\ b # number'
    BY <1>2, Numbers DEF Batches
  <2>2. pay' = pay /\ \A b \in Batches : b # number' => batch'[b] = batch[b]
    BY DocsTyped DEF GenBatch
  <2> QED
    BY <2>1, <2>2 DEF Typed, Minted
<1>9. reason' \in BOOLEAN
  BY ReasonKept DEF GenBatch
<1> QED
  BY <1>2, <1>6, <1>7, <1>8, <1>9, DocsTyped, Rebuilt DEF GenBatch

LEMMA GenPaymentsTyped ==
    ASSUME Typed, NEW w \in Workers, GenPayments(w) PROVE Typed'
<1> DEFINE t == task[w]
           u == [t EXCEPT !.pc = "gen_link"]
<1>1. t \in Task /\ WellFormed(t, number) /\ t.b \in 0..MaxBatch /\ t.new \in 0..MaxBatch
  BY DocsTyped DEF Task
<1>2. t.new \in Batches /\ t.new <= number /\ t.b < t.new
  BY <1>1, Numbers DEF WellFormed, GenPayments, At, Batches
<1>3. number' = number /\ number \in 0..MaxBatch
  BY Numbers DEF GenPayments
<1>4. t.b # 0 => u \in Task /\ WellFormed(u, number)
  BY <1>1, <1>2 DEF Task, WellFormed
<1>5. IF t.b # 0 THEN task' = [task EXCEPT ![w] = u] ELSE task' = [task EXCEPT ![w] = Idle]
  BY DEF GenPayments, Goto, Finish
<1> HIDE DEF u
<1>6. Tasks'
  BY <1>3, <1>4, <1>5, Moved, DocsTyped, Numbers, IdleTyped
<1>7. pay' \in [Batches -> [Employees -> PayStatus]]
  <2>1. [e \in Employees |-> IF e \in t.wanted THEN "Pending" ELSE "None"]
           \in [Employees -> PayStatus]
    BY DEF PayStatus
  <2> QED
    BY <2>1, DocsTyped DEF GenPayments
<1>8. Minted'
  <2>1. \A b \in Batches : b > number => b # t.new
    BY <1>1, <1>2, Numbers DEF Batches
  <2>2. batch' = batch /\ \A b \in Batches : b # t.new => pay'[b] = pay[b]
    BY DocsTyped DEF GenPayments
  <2> QED
    BY <1>3, <2>1, <2>2 DEF Typed, Minted
<1>9. reason' \in BOOLEAN
  BY ReasonKept DEF GenPayments
<1> QED
  BY <1>3, <1>6, <1>7, <1>8, <1>9, DocsTyped, Rebuilt DEF GenPayments

LEMMA GenLinkTyped ==
    ASSUME Typed, NEW w \in Workers, GenLink(w) PROVE Typed'
<1> DEFINE t == task[w]
<1>1. t \in Task /\ WellFormed(t, number) /\ t.new \in 0..MaxBatch
  BY DocsTyped DEF Task
<1>2. PICK e \in t.wanted :
         /\ retried' = [retried EXCEPT ![t.b][e] = t.new]
         /\ \/ task' = [task EXCEPT ![w] = Idle]
            \/ task' = [task EXCEPT ![w] = [t EXCEPT !.wanted = t.wanted \ {e}]]
  BY DEF GenLink, Finish
<1> DEFINE u == [t EXCEPT !.wanted = t.wanted \ {e}]
<1>3. u \in Task
  BY <1>1 DEF Task
<1>4. WellFormed(u, number)
  BY <1>1 DEF WellFormed, Task
<1>5. task' = [task EXCEPT ![w] = u] \/ task' = [task EXCEPT ![w] = Idle]
  BY <1>2
<1> HIDE DEF u
<1>6. number' = number /\ number \in 0..MaxBatch
  BY Numbers DEF GenLink
<1>7. Tasks'
  <2>1. number' \in 0..MaxBatch /\ number <= number'
    BY <1>6, Numbers
  <2>2. Tasks /\ Idle \in Task /\ WellFormed(Idle, number') /\ WellFormed(u, number')
    BY <1>4, <1>6, DocsTyped, IdleTyped
  <2> QED
    BY <1>3, <1>5, <1>6, <2>1, <2>2, Moved
<1>8. retried' \in [Batches -> [Employees -> 0..MaxBatch]]
  BY <1>1, <1>2, DocsTyped
<1>9. Minted'
  BY <1>6 DEF GenLink, Typed, Minted
<1>10. reason' \in BOOLEAN
  BY ReasonKept DEF GenLink
<1> QED
  BY <1>6, <1>7, <1>8, <1>9, <1>10, DocsTyped, Rebuilt DEF GenLink

LEMMA StartUpdateTyped ==
    ASSUME Typed, NEW w \in Workers, StartUpdate(w) PROVE Typed'
<1>1. PICK b \in Batches, e \in Employees, st \in PayStatus \ {"None"} :
         /\ pay[b][e] # "None" /\ ReadOnly
         /\ task' = [task EXCEPT ![w] = [Idle EXCEPT !.pc = "update_write", !.b = b, !.who = e,
                                                     !.st = st]]
  BY DEF StartUpdate, Begin
<1> DEFINE u == [Idle EXCEPT !.pc = "update_write", !.b = b, !.who = e, !.st = st]
<1>2. b \in 0..MaxBatch /\ b # 0 /\ b <= number
  BY <1>1, Numbers DEF Typed, Minted, Batches
<1>3. u \in Task
  BY <1>2, IdleTyped DEF Task
<1>4. WellFormed(u, number)
  BY <1>2, DisbursalAssumption DEF WellFormed, Idle
<1>5. task' = [task EXCEPT ![w] = u]
  BY <1>1
<1> HIDE DEF u
<1> QED
  BY <1>1, <1>3, <1>4, <1>5, ReadMoved

LEMMA UpdateWriteTyped ==
    ASSUME Typed, NEW w \in Workers, UpdateWrite(w) PROVE Typed'
<1> DEFINE t == task[w]
           u == [t EXCEPT !.pc = "refresh_rows"]
<1>1. t \in Task /\ WellFormed(t, number) /\ number \in 0..MaxBatch /\ Tasks
  BY DocsTyped, Numbers
<1>2. /\ t.b \in Batches /\ t.b <= number
      /\ t.who \in Employees /\ t.st \in PayStatus
  BY <1>1 DEF Task, WellFormed, UpdateWrite, At, Batches
<1>3. u \in Task
  BY <1>1 DEF Task
<1>4. WellFormed(u, number)
  BY <1>1, <1>2 DEF WellFormed, Task, Batches, UpdateWrite, At
<1>5. number' = number /\ number <= number'
  BY <1>1 DEF UpdateWrite
<1>6. task' = [task EXCEPT ![w] = u]
  BY DEF UpdateWrite, Goto
<1> HIDE DEF u
<1>7. WellFormed(u, number') /\ number' \in 0..MaxBatch
  BY <1>1, <1>4, <1>5
<1>8. Tasks'
  BY <1>1, <1>3, <1>5, <1>6, <1>7, Moved
<1>9. pay' \in [Batches -> [Employees -> PayStatus]] /\ confirmed' \subseteq Employees
  BY <1>2, DocsTyped DEF UpdateWrite
<1>10. Minted'
  <2>1. \A b \in Batches : b > number => b # t.b
    BY <1>1, <1>2, Numbers DEF Batches
  <2>2. batch' = batch /\ \A b \in Batches : b # t.b => pay'[b] = pay[b]
    BY DocsTyped DEF UpdateWrite
  <2> QED
    BY <1>5, <2>1, <2>2 DEF Typed, Minted
<1>11. reason' \in BOOLEAN
  BY ReasonKept DEF UpdateWrite
<1>12. acts' \in Nat
  BY DocsTyped DEF UpdateWrite
<1> QED
  BY <1>7, <1>8, <1>9, <1>10, <1>11, <1>12, DocsTyped, Rebuilt DEF UpdateWrite

LEMMA RefreshTyped ==
    ASSUME Typed, NEW w \in Workers,
           RefreshRows(w) \/ RefreshSummary(w) \/ RefreshRun(w) \/ CloseSummary(w)
    PROVE  Typed'
<1> DEFINE t == task[w]
           rows == [t EXCEPT !.pc = "refresh_batch", !.saw = Derived(t.b)]
           summary == [t EXCEPT !.pc = "refresh_run", !.all = AllPaid]
           write == [t EXCEPT !.pc = "refresh_write"]
           close == [t EXCEPT !.pc = "close_write"]
<1>1. t \in Task /\ WellFormed(t, number)
  BY DocsTyped
<1>2. rows \in Task
  BY <1>1, DerivedTyped DEF Task
<1>3. summary \in Task /\ write \in Task /\ close \in Task
  <2>1. AllPaid \in BOOLEAN
    BY DEF AllPaid
  <2> QED
    BY <1>1, <2>1 DEF Task
<1>4. /\ RefreshRows(w) => WellFormed(rows, number)
      /\ WellFormed(summary, number) /\ WellFormed(write, number) /\ WellFormed(close, number)
  BY <1>1 DEF WellFormed, RefreshRows, At, Task
<1>5. \/ RefreshRows(w) /\ task' = [task EXCEPT ![w] = rows]
      \/ task' = [task EXCEPT ![w] = summary]
      \/ task' = [task EXCEPT ![w] = write]
      \/ task' = [task EXCEPT ![w] = close]
      \/ task' = [task EXCEPT ![w] = Idle]
  BY DEF RefreshRows, RefreshSummary, RefreshRun, CloseSummary, Goto, Finish
<1>6. ReadOnly
  BY DEF RefreshRows, RefreshSummary, RefreshRun, CloseSummary
<1> HIDE DEF rows, summary, write, close
<1>7. ASSUME NEW u \in Task, WellFormed(u, number), task' = [task EXCEPT ![w] = u] PROVE Typed'
  BY <1>6, <1>7, ReadMoved
<1>8. Idle \in Task /\ WellFormed(Idle, number)
  BY IdleTyped
<1> QED
  BY <1>2, <1>3, <1>4, <1>5, <1>7, <1>8

LEMMA WriteTyped ==
    ASSUME Typed, NEW w \in Workers, RefreshBatch(w) \/ RefreshWrite(w) \/ CloseWrite(w)
    PROVE  Typed'
<1> DEFINE t == task[w]
           u == [t EXCEPT !.pc = "refresh_summary"]
<1>1. t \in Task /\ WellFormed(t, number) /\ number \in 0..MaxBatch /\ Tasks
  BY DocsTyped, Numbers
<1>2. u \in Task
  BY <1>1 DEF Task
<1>3. WellFormed(u, number) /\ Idle \in Task /\ WellFormed(Idle, number)
  BY <1>1, IdleTyped DEF WellFormed, Task
<1>4. number' = number /\ number <= number'
  BY <1>1 DEF RefreshBatch, RefreshWrite, CloseWrite
<1>5. task' = [task EXCEPT ![w] = u] \/ task' = [task EXCEPT ![w] = Idle]
  BY DEF RefreshBatch, RefreshWrite, CloseWrite, Goto, Finish
<1> HIDE DEF u
<1>6. WellFormed(u, number') /\ number' \in 0..MaxBatch /\ WellFormed(Idle, number')
  BY <1>1, <1>3, <1>4
<1>7. Tasks'
  BY <1>1, <1>2, <1>3, <1>4, <1>5, <1>6, Moved
<1>8. CASE RefreshBatch(w)
  <2>1. t.b \in Batches /\ t.b <= number /\ t.saw \in BatchStatus
    BY <1>1, <1>8 DEF Task, WellFormed, RefreshBatch, At, Batches
  <2>2. batch' \in [Batches -> BatchStatus]
    BY <1>8, <2>1, DocsTyped DEF RefreshBatch
  <2>3. Minted'
    <3>1. \A b \in Batches : b > number => b # t.b
      BY <1>1, <2>1, Numbers DEF Batches
    <3>2. pay' = pay /\ \A b \in Batches : b # t.b => batch'[b] = batch[b]
      BY <1>8, DocsTyped DEF RefreshBatch
    <3> QED
      BY <1>4, <3>1, <3>2 DEF Typed, Minted
  <2>4. reason' \in BOOLEAN
    BY <1>8, ReasonKept DEF RefreshBatch
  <2> QED
    BY <1>6, <1>7, <1>8, <2>2, <2>3, <2>4, DocsTyped, Rebuilt DEF RefreshBatch
<1>9. CASE RefreshWrite(w)
  <2>1. Minted'
    BY <1>4, <1>9 DEF RefreshWrite, Typed, Minted
  <2>2. reason' \in BOOLEAN
    BY <1>9, ReasonKept DEF RefreshWrite
  <2> QED
    BY <1>6, <1>7, <1>9, <2>1, <2>2, DocsTyped, Rebuilt DEF RefreshWrite
<1>10. CASE CloseWrite(w)
  <2>1. Minted'
    BY <1>4, <1>10 DEF CloseWrite, Typed, Minted
  <2>2. reason' \in BOOLEAN
    BY <1>1, <1>10 DEF CloseWrite, Task
  <2> QED
    BY <1>6, <1>7, <1>10, <2>1, <2>2, DocsTyped, Rebuilt DEF CloseWrite
<1> QED
  BY <1>8, <1>9, <1>10

LEMMA StartCloseTyped ==
    ASSUME Typed, NEW w \in Workers, StartClose(w) PROVE Typed'
<1>1. PICK ok \in BOOLEAN : /\ ReadOnly
         /\ task' = [task EXCEPT ![w] = [Idle EXCEPT !.pc = "close_summary", !.ok = ok]]
  BY DEF StartClose, Begin
<1> DEFINE u == [Idle EXCEPT !.pc = "close_summary", !.ok = ok]
<1>2. u \in Task
  BY IdleTyped DEF Task
<1>3. WellFormed(u, number)
  BY DEF WellFormed, Idle
<1>4. task' = [task EXCEPT ![w] = u]
  BY <1>1
<1> HIDE DEF u
<1> QED
  BY <1>1, <1>2, <1>3, <1>4, ReadMoved

LEMMA CrashTyped == ASSUME Typed, Crash PROVE Typed'
<1>1. Tasks'
  BY IdleTyped DEF Crash, Tasks
<1>2. Minted'
  BY DEF Crash, Typed, Minted
<1>3. reason' \in BOOLEAN
  BY ReasonKept DEF Crash
<1>4. crashes' \in Nat
  BY DocsTyped DEF Crash
<1> QED
  BY <1>1, <1>2, <1>3, <1>4, DocsTyped, Numbers, Rebuilt DEF Crash

LEMMA NextTyped == Typed /\ [Next]_vars => Typed'
<1> SUFFICES ASSUME Typed, [Next]_vars PROVE Typed'
  OBVIOUS
<1>1. ASSUME NEW w \in Workers, Step(w) PROVE Typed'
  BY <1>1, StartGenerateTyped, GenerateTyped, GenBatchTyped, GenPaymentsTyped, GenLinkTyped,
     StartUpdateTyped, UpdateWriteTyped, RefreshTyped, WriteTyped, StartCloseTyped DEF Step
<1>2. CASE UNCHANGED vars
  <2>1. ReadOnly /\ task' = task
    BY <1>2 DEF vars, ReadOnly
  <2>2. Tasks'
    BY <2>1, DocsTyped DEF Tasks, ReadOnly
  <2> QED
    BY <2>1, <2>2, ReadTyped
<1> QED
  BY <1>1, <1>2, CrashTyped DEF Next

\* Type correctness, for every instance (all of hrms_disbursal_service).
THEOREM TypeCorrect == Spec => []TypeOK
<1>1. Typed => TypeOK
  BY DEF Typed
<1> QED
  BY InitTyped, NextTyped, <1>1, PTL DEF Spec

-----------------------------------------------------------------------------
(* A retry is real                                                           *)

\* A request that has a batch of its own to fill or to link to.
Filling(v) == task[v].pc \in {"gen_payments", "gen_link"}

\* No two requests fill the same batch.
OwnBatch ==
    \A v, w \in Workers : Filling(v) /\ Filling(w) /\ v # w => task[v].new # task[w].new

\* A batch is linked to only after its rows are there.
RowsFirst ==
    \A w \in Workers :
        /\ task[w].pc = "gen_payments" =>
              \A b \in Batches, e \in Employees : retried[b][e] # task[w].new
        /\ task[w].pc = "gen_link" =>
              \A e \in task[w].wanted : pay[task[w].new][e] # "None"

Linked == OwnBatch /\ RowsFirst /\ RetryIsReal

\* What a request at work on its batch holds.
LEMMA FillingTyped ==
    ASSUME Typed, NEW v \in Workers, Filling(v)
    PROVE  /\ task[v].new \in Batches /\ task[v].new <= number
           /\ task[v].b \in 0..MaxBatch /\ task[v].b < task[v].new
           /\ task[v].wanted \subseteq Employees
  BY DocsTyped, Numbers DEF Filling, WellFormed, Task, Batches

\* A step that adds no link, deletes no row and begins no batch.
LEMMA KeptLinked ==
    ASSUME Typed, Linked, retried' = retried,
           \A b \in Batches, e \in Employees : pay[b][e] # "None" => pay'[b][e] # "None",
           \A v \in Workers : Filling(v)' => task'[v] = task[v]
    PROVE  Linked'
<1>1. \A v \in Workers : Filling(v)' => Filling(v) /\ task'[v] = task[v]
  BY DEF Filling
<1>2. OwnBatch'
  BY <1>1 DEF Linked, OwnBatch
<1>3. RowsFirst'
  <2> SUFFICES ASSUME NEW w \in Workers
               PROVE  /\ task'[w].pc = "gen_payments" =>
                           \A b \in Batches, e \in Employees : retried'[b][e] # task'[w].new
                      /\ task'[w].pc = "gen_link" =>
                           \A e \in task'[w].wanted : pay'[task'[w].new][e] # "None"
    BY DEF RowsFirst
  <2>1. CASE ~Filling(w)'
    BY <2>1 DEF Filling
  <2>2. CASE Filling(w)'
    BY <1>1, <2>2, FillingTyped DEF Linked, RowsFirst
  <2> QED
    BY <2>1, <2>2
<1>4. RetryIsReal'
  <2> SUFFICES ASSUME NEW b \in Batches, NEW e \in Employees, retried[b][e] # 0
               PROVE  retried[b][e] > b /\ pay'[retried[b][e]][e] # "None"
    BY DEF RetryIsReal
  <2>1. retried[b][e] > b /\ pay[retried[b][e]][e] # "None" /\ retried[b][e] \in 0..MaxBatch
    BY DocsTyped DEF Linked, RetryIsReal
  <2>2. retried[b][e] \in Batches
    BY <2>1, Numbers DEF Batches
  <2> QED
    BY <2>1, <2>2
<1> QED
  BY <1>2, <1>3, <1>4 DEF Linked

LEMMA GenBatchLinked ==
    ASSUME Typed, Linked, NEW w \in Workers, GenBatch(w) PROVE Linked'
<1>1. /\ task'[w].pc = "gen_payments" /\ task'[w].new = number'
      /\ \A v \in Workers : v # w => task'[v] = task[v]
  BY DocsTyped DEF GenBatch, Tasks, Task
<1>2. number' = number + 1 /\ pay' = pay /\ retried' = retried
  BY DEF GenBatch
<1>3. \A v \in Workers : v # w /\ Filling(v)' => Filling(v) /\ task[v].new # number'
  BY <1>1, <1>2, FillingTyped, Numbers DEF Filling, Batches
<1>4. OwnBatch'
  BY <1>1, <1>3 DEF Linked, OwnBatch
<1>5. \A b \in Batches, e \in Employees : retried[b][e] # number'
  <2> SUFFICES ASSUME NEW b \in Batches, NEW e \in Employees, retried[b][e] = number'
               PROVE  FALSE
    OBVIOUS
  <2>1. retried[b][e] \in Batches /\ retried[b][e] > number
    BY <1>2, DocsTyped, Numbers DEF Batches
  <2>2. pay[retried[b][e]][e] = "None"
    BY <2>1 DEF Typed, Minted
  <2>3. retried[b][e] # 0
    BY <2>1, Numbers DEF Batches
  <2> QED
    BY <2>2, <2>3 DEF Linked, RetryIsReal
<1>6. RowsFirst'
  <2> SUFFICES ASSUME NEW v \in Workers
               PROVE  /\ task'[v].pc = "gen_payments" =>
                           \A b \in Batches, e \in Employees : retried'[b][e] # task'[v].new
                      /\ task'[v].pc = "gen_link" =>
                           \A e \in task'[v].wanted : pay'[task'[v].new][e] # "None"
    BY DEF RowsFirst
  <2>1. CASE v = w
    BY <1>1, <1>2, <1>5, <2>1
  <2>2. CASE v # w
    BY <1>1, <1>2, <2>2 DEF Linked, RowsFirst
  <2> QED
    BY <2>1, <2>2
<1>7. RetryIsReal'
  BY <1>2 DEF Linked, RetryIsReal
<1> QED
  BY <1>4, <1>6, <1>7 DEF Linked

LEMMA GenPaymentsLinked ==
    ASSUME Typed, Linked, NEW w \in Workers, GenPayments(w) PROVE Linked'
<1> DEFINE t == task[w]
<1>1. Filling(w) /\ t.pc = "gen_payments"
  BY DEF Filling, GenPayments, At
<1>2. /\ t.new \in Batches /\ t.b < t.new
      /\ t.wanted \subseteq Employees
  BY <1>1, FillingTyped
<1>3. /\ task'[w].pc \in {"idle", "gen_link"}
      /\ task'[w].pc = "gen_link" => task'[w].new = t.new /\ task'[w].wanted = t.wanted
      /\ \A v \in Workers : v # w => task'[v] = task[v]
  BY DocsTyped DEF GenPayments, Goto, Finish, Idle, Tasks, Task
<1>4. /\ retried' = retried
      /\ \A b \in Batches : b # t.new => pay'[b] = pay[b]
      /\ \A e \in t.wanted : pay'[t.new][e] = "Pending"
  BY <1>2, DocsTyped DEF GenPayments
<1>5. OwnBatch'
  <2>1. \A v \in Workers : Filling(v)' => Filling(v) /\ task'[v].new = task[v].new
    BY <1>1, <1>3 DEF Filling
  <2> QED
    BY <2>1 DEF Linked, OwnBatch
<1>6. RowsFirst'
  <2> SUFFICES ASSUME NEW v \in Workers
               PROVE  /\ task'[v].pc = "gen_payments" =>
                           \A b \in Batches, e \in Employees : retried'[b][e] # task'[v].new
                      /\ task'[v].pc = "gen_link" =>
                           \A e \in task'[v].wanted : pay'[task'[v].new][e] # "None"
    BY DEF RowsFirst
  <2>1. CASE v = w
    BY <1>3, <1>4, <2>1
  <2>2. CASE v # w /\ Filling(v)
    <3>1. task'[v] = task[v] /\ task[v].new \in Batches /\ task[v].new # t.new
      BY <1>1, <1>3, <2>2, FillingTyped DEF Linked, OwnBatch
    <3> QED
      BY <1>4, <3>1 DEF Linked, RowsFirst
  <2>3. CASE v # w /\ ~Filling(v)
    BY <1>3, <2>3 DEF Filling
  <2> QED
    BY <2>1, <2>2, <2>3
<1>7. RetryIsReal'
  <2> SUFFICES ASSUME NEW b \in Batches, NEW e \in Employees, retried[b][e] # 0
               PROVE  retried[b][e] > b /\ pay'[retried[b][e]][e] # "None"
    BY <1>4 DEF RetryIsReal
  <2>1. retried[b][e] > b /\ pay[retried[b][e]][e] # "None"
    BY DEF Linked, RetryIsReal
  <2>2. retried[b][e] \in Batches
    BY DocsTyped, Numbers DEF Batches
  <2>3. retried[b][e] # t.new
    BY <1>1 DEF Linked, RowsFirst
  <2> QED
    BY <1>4, <2>1, <2>2, <2>3
<1> QED
  BY <1>5, <1>6, <1>7 DEF Linked

LEMMA GenLinkLinked ==
    ASSUME Typed, Linked, NEW w \in Workers, GenLink(w) PROVE Linked'
<1> DEFINE t == task[w]
<1>1. Filling(w) /\ t.pc = "gen_link"
  BY DEF Filling, GenLink, At
<1>2. PICK e \in t.wanted :
         /\ retried' = [retried EXCEPT ![t.b][e] = t.new]
         /\ \/ task' = [task EXCEPT ![w] = Idle]
            \/ task' = [task EXCEPT ![w] = [t EXCEPT !.wanted = t.wanted \ {e}]]
  BY DEF GenLink, Finish
<1>3. /\ t.new \in Batches /\ t.b < t.new /\ t.b \in Batches
      /\ e \in Employees /\ pay[t.new][e] # "None"
  <2>1. t.b # 0
    BY <1>1, DocsTyped DEF WellFormed
  <2> QED
    BY <1>1, <2>1, FillingTyped, Numbers DEF Batches, Linked, RowsFirst
<1>4. /\ task'[w].pc \in {"idle", "gen_link"}
      /\ task'[w].pc = "gen_link" => task'[w].new = t.new /\ task'[w].wanted \subseteq t.wanted
      /\ \A v \in Workers : v # w => task'[v] = task[v]
  BY <1>1, <1>2, DocsTyped DEF Idle, Tasks, Task
<1>5. /\ pay' = pay
      /\ \A b \in Batches, d \in Employees :
            retried'[b][d] = IF b = t.b /\ d = e THEN t.new ELSE retried[b][d]
  BY <1>2, <1>3, DocsTyped DEF GenLink
<1>6. \A v \in Workers : Filling(v)' => Filling(v) /\ task'[v].new = task[v].new
  BY <1>1, <1>4 DEF Filling
<1>7. OwnBatch'
  BY <1>6 DEF Linked, OwnBatch
<1>8. RowsFirst'
  <2> SUFFICES ASSUME NEW v \in Workers
               PROVE  /\ task'[v].pc = "gen_payments" =>
                           \A b \in Batches, d \in Employees : retried'[b][d] # task'[v].new
                      /\ task'[v].pc = "gen_link" =>
                           \A d \in task'[v].wanted : pay'[task'[v].new][d] # "None"
    BY DEF RowsFirst
  <2>1. CASE v = w
    BY <1>1, <1>4, <1>5, <2>1 DEF Linked, RowsFirst
  <2>2. CASE v # w /\ Filling(v)
    <3>1. task'[v] = task[v] /\ task[v].new # t.new
      BY <1>1, <1>4, <2>2 DEF Linked, OwnBatch
    <3> QED
      BY <1>5, <3>1 DEF Linked, RowsFirst
  <2>3. CASE v # w /\ ~Filling(v)
    BY <1>4, <2>3 DEF Filling
  <2> QED
    BY <2>1, <2>2, <2>3
<1>9. RetryIsReal'
  <2> SUFFICES ASSUME NEW b \in Batches, NEW d \in Employees, retried'[b][d] # 0
               PROVE  retried'[b][d] > b /\ pay[retried'[b][d]][d] # "None"
    BY <1>5 DEF RetryIsReal
  <2>1. CASE b = t.b /\ d = e
    BY <1>3, <1>5, <2>1, Numbers DEF Batches
  <2>2. CASE ~(b = t.b /\ d = e)
    BY <1>5, <2>2 DEF Linked, RetryIsReal
  <2> QED
    BY <2>1, <2>2
<1> QED
  BY <1>7, <1>8, <1>9 DEF Linked

\* Every other step of a request.
Elsewhere(w) ==
    \/ StartGenerate(w) \/ GenRetry(w) \/ GenAlready(w)
    \/ StartUpdate(w) \/ RefreshRows(w) \/ RefreshBatch(w) \/ RefreshSummary(w)
    \/ RefreshRun(w) \/ RefreshWrite(w) \/ StartClose(w) \/ CloseSummary(w) \/ CloseWrite(w)

LEMMA ElsewhereLinked ==
    ASSUME Typed, Linked, NEW w \in Workers, Elsewhere(w) PROVE Linked'
<1>1. pay' = pay /\ retried' = retried
  BY DEF Elsewhere, StartGenerate, GenRetry, GenAlready, StartUpdate, RefreshRows, RefreshBatch,
         RefreshSummary, RefreshRun, RefreshWrite, StartClose, CloseSummary, CloseWrite, Begin,
         ReadOnly
<1>2. task \in [Workers -> Task]
  BY DocsTyped DEF Tasks
<1> DEFINE Left == /\ task'[w].pc \notin {"gen_payments", "gen_link"}
                   /\ \A v \in Workers : v # w => task'[v] = task[v]
<1>3. StartGenerate(w) => Left
  BY <1>2 DEF StartGenerate, Task, Begin, Idle
<1>4. GenRetry(w) => Left
  BY <1>2 DEF GenRetry, Task, Finish, Idle
<1>5. GenAlready(w) => Left
  BY <1>2 DEF GenAlready, Task, Finish, Idle
<1>6. StartUpdate(w) => Left
  BY <1>2 DEF StartUpdate, Task, Begin, Idle
<1>7. RefreshRows(w) => Left
  BY <1>2 DEF RefreshRows, Task
<1>8. RefreshBatch(w) => Left
  BY <1>2 DEF RefreshBatch, Task, Goto
<1>9. RefreshSummary(w) => Left
  BY <1>2 DEF RefreshSummary, Task
<1>10. RefreshRun(w) => Left
  BY <1>2 DEF RefreshRun, Task, Goto, Finish, Idle
<1>11. RefreshWrite(w) => Left
  BY <1>2 DEF RefreshWrite, Task, Finish, Idle
<1>12. StartClose(w) => Left
  BY <1>2 DEF StartClose, Task, Begin, Idle
<1>13. CloseSummary(w) => Left
  BY <1>2 DEF CloseSummary, Task, Goto, Finish, Idle
<1>14. CloseWrite(w) => Left
  BY <1>2 DEF CloseWrite, Task, Finish, Idle
<1>15. Left
  BY <1>3, <1>4, <1>5, <1>6, <1>7, <1>8, <1>9, <1>10, <1>11, <1>12, <1>13, <1>14 DEF Elsewhere
<1> QED
  BY <1>1, <1>15, KeptLinked DEF Filling

LEMMA UpdateWriteLinked ==
    ASSUME Typed, Linked, NEW w \in Workers, UpdateWrite(w) PROVE Linked'
<1>1. task[w].st # "None" /\ retried' = retried
  BY DocsTyped DEF UpdateWrite, At, WellFormed
<1>2. \A b \in Batches, e \in Employees : pay[b][e] # "None" => pay'[b][e] # "None"
  BY <1>1, DocsTyped DEF UpdateWrite
<1>3. task'[w].pc = "refresh_rows" /\ \A v \in Workers : v # w => task'[v] = task[v]
  BY DocsTyped DEF UpdateWrite, Goto, Tasks, Task
<1> QED
  BY <1>1, <1>2, <1>3, KeptLinked DEF Filling

LEMMA InitLinked == Init => Linked
<1> SUFFICES ASSUME Init PROVE Linked
  OBVIOUS
<1>1. \A w \in Workers : task[w].pc = "idle"
  BY DEF Init, Idle
<1>2. \A b \in Batches, e \in Employees : retried[b][e] = 0
  BY DEF Init
<1> QED
  BY <1>1, <1>2 DEF Linked, OwnBatch, RowsFirst, RetryIsReal, Filling

LEMMA NextLinked == Typed /\ Linked /\ [Next]_vars => Linked'
<1> SUFFICES ASSUME Typed, Linked, [Next]_vars PROVE Linked'
  OBVIOUS
<1>1. ASSUME NEW w \in Workers, Step(w) PROVE Linked'
  BY <1>1, GenBatchLinked, GenPaymentsLinked, GenLinkLinked, UpdateWriteLinked, ElsewhereLinked
     DEF Step, Elsewhere
<1>2. CASE Crash
  <2>1. \A v \in Workers : task'[v].pc = "idle"
    BY <1>2 DEF Crash, Idle
  <2> QED
    BY <1>2, <2>1, KeptLinked DEF Crash, Filling
<1>3. CASE UNCHANGED vars
  BY <1>3, KeptLinked DEF vars
<1> QED
  BY <1>1, <1>2, <1>3 DEF Next

\* A payment that says it was reprocessed names a later batch that really has the
\* employee's payment, however many batches are generated and retried at once and
\* wherever the process dies (generate_batch).
THEOREM RetriesReal == Spec => []RetryIsReal
<1>1. Linked => RetryIsReal
  BY DEF Linked
<1> QED
  BY InitTyped, NextTyped, InitLinked, NextLinked, <1>1, PTL DEF Spec

-----------------------------------------------------------------------------
(* Paid if and only if confirmed                                             *)

\* Whoever's payment is Processed has had one confirmed.
Trail == \A b \in Batches, e \in Employees : pay[b][e] = "Processed" => e \in confirmed

\* A request about to mark the run has seen everyone paid.
SawPaid ==
    \A w \in Workers :
        \/ task[w].pc = "refresh_run" /\ task[w].all
        \/ task[w].pc = "refresh_write"
        \/ task[w].pc = "close_write" /\ ~task[w].ok
        => Employees \subseteq confirmed

Marked == run = "Paid" \/ (run = "Closed" /\ ~reason) => Employees \subseteq confirmed

\* On its way to mark the run.
Telling(w) ==
    \/ task[w].pc \in {"refresh_rows", "refresh_batch", "refresh_summary", "refresh_write"}
    \/ task[w].pc = "refresh_run" /\ task[w].all

\* When everyone is paid and the run is still Locked, somebody is on the way to mark it.
Told == crashes = 0 /\ AllPaid /\ run = "Locked" => \E w \in Workers : Telling(w)

Confirmed == Trail /\ SawPaid /\ Marked /\ Told

LEMMA AllPaidTrail == ASSUME Trail, AllPaid PROVE Employees \subseteq confirmed
  BY DEF Trail, AllPaid, Has

\* A step that confirms nothing and does not mark the run: it pays nobody, and whoever it
\* moves is still on the way, and saw everyone paid if it is about to say so.
LEMMA KeptConfirmed ==
    ASSUME Typed, Confirmed, NEW w \in Workers,
           run' = run, reason' = reason, confirmed' = confirmed, crashes' = crashes,
           \A b \in Batches, e \in Employees : pay'[b][e] = "Processed" => pay[b][e] = "Processed",
           \A v \in Workers : v # w => task'[v] = task[v],
           \/ task'[w].pc = "refresh_run" /\ task'[w].all
           \/ task'[w].pc = "refresh_write"
           \/ task'[w].pc = "close_write" /\ ~task'[w].ok
           => Employees \subseteq confirmed,
           Telling(w) /\ AllPaid /\ run = "Locked" => Telling(w)'
    PROVE  Confirmed'
<1>1. Trail'
  BY DEF Confirmed, Trail
<1>2. SawPaid'
  BY DEF Confirmed, SawPaid
<1>3. Marked'
  BY Zenon DEF Confirmed, Marked
<1>4. Told'
  <2> SUFFICES ASSUME crashes = 0, AllPaid', run = "Locked"
               PROVE  \E v \in Workers : Telling(v)'
    BY DEF Told
  <2>1. AllPaid
    BY DEF AllPaid, Has
  <2>2. PICK v \in Workers : Telling(v)
    BY <2>1 DEF Confirmed, Told
  <2>3. CASE v = w
    BY <2>1, <2>2, <2>3
  <2>4. CASE v # w
    BY <2>2, <2>4 DEF Telling
  <2> QED
    BY <2>3, <2>4
<1> QED
  BY <1>1, <1>2, <1>3, <1>4 DEF Confirmed

\* Requests that generate a batch, begin, or compare what they read.
Reading(w) ==
    \/ StartGenerate(w) \/ GenRetry(w) \/ GenAlready(w) \/ GenBatch(w) \/ GenLink(w)
    \/ StartUpdate(w) \/ StartClose(w)

LEMMA ReadingConfirmed ==
    ASSUME Typed, Confirmed, NEW w \in Workers, Reading(w) PROVE Confirmed'
<1>1. task \in [Workers -> Task]
  BY DocsTyped DEF Tasks
<1>2. /\ run' = run /\ confirmed' = confirmed /\ crashes' = crashes /\ pay' = pay
  BY DEF Reading, StartGenerate, GenRetry, GenAlready, GenBatch, GenLink, StartUpdate, StartClose,
         Begin, ReadOnly
<1>3. reason' = reason
  BY Zenon DEF Reading, StartGenerate, GenRetry, GenAlready, GenBatch, GenLink, StartUpdate,
               StartClose, Begin, ReadOnly
<1> DEFINE Aside == {"idle", "gen_retry", "gen_already", "gen_batch", "gen_payments", "gen_link",
                     "update_write", "close_summary"}
           Left == /\ task[w].pc \in Aside /\ task'[w].pc \in Aside
                   /\ \A v \in Workers : v # w => task'[v] = task[v]
<1>4. StartGenerate(w) => Left
  <2> SUFFICES ASSUME StartGenerate(w) PROVE Left
    OBVIOUS
  <2>1. ASSUME NEW op, NEW t, Begin(w, op, t), t.pc \in Aside PROVE Left
    BY <1>1, <2>1 DEF Begin, Idle
  <2>2. [Idle EXCEPT !.pc = "gen_already", !.wanted = Employees].pc \in Aside
    BY DEF Idle
  <2>3. \A b : [Idle EXCEPT !.pc = "gen_retry", !.b = b].pc \in Aside
    BY DEF Idle
  <2> HIDE DEF Left, Aside
  <2> QED
    BY <2>1, <2>2, <2>3 DEF StartGenerate
<1>5. GenRetry(w) => Left
  BY <1>1 DEF GenRetry, At, Finish, Idle, Task
<1>6. GenAlready(w) => Left
  BY <1>1 DEF GenAlready, At, Finish, Idle, Task
<1>7. GenBatch(w) => Left
  BY <1>1 DEF GenBatch, At, Task
<1>8. GenLink(w) => Left
  BY <1>1 DEF GenLink, At, Finish, Idle, Task
<1>9. StartUpdate(w) => Left
  BY <1>1 DEF StartUpdate, Begin, Idle
<1>10. StartClose(w) => Left
  BY <1>1 DEF StartClose, Begin, Idle
<1>11. Left
  BY <1>4, <1>5, <1>6, <1>7, <1>8, <1>9, <1>10 DEF Reading
<1>12. ~Telling(w) /\ task'[w].pc \notin {"refresh_run", "refresh_write", "close_write"}
  BY <1>11 DEF Telling
<1> QED
  BY <1>2, <1>3, <1>11, <1>12, KeptConfirmed

LEMMA GenPaymentsConfirmed ==
    ASSUME Typed, Confirmed, NEW w \in Workers, GenPayments(w) PROVE Confirmed'
<1>1. task \in [Workers -> Task] /\ task[w].new \in Batches
  <2>1. Filling(w)
    BY DEF GenPayments, At, Filling
  <2> QED
    BY <2>1, DocsTyped, FillingTyped DEF Tasks
<1>2. \A b \in Batches, e \in Employees : pay'[b][e] = "Processed" => pay[b][e] = "Processed"
  BY <1>1, DocsTyped DEF GenPayments
<1>3. task[w].pc = "gen_payments" /\ task'[w].pc \in {"idle", "gen_link"}
      /\ \A v \in Workers : v # w => task'[v] = task[v]
  BY <1>1 DEF GenPayments, At, Goto, Finish, Idle, Task
<1>4. run' = run /\ confirmed' = confirmed /\ crashes' = crashes
  BY DEF GenPayments
<1>5. reason' = reason
  BY Zenon DEF GenPayments
<1>6. ~Telling(w) /\ task'[w].pc \notin {"refresh_run", "refresh_write", "close_write"}
  BY <1>3 DEF Telling
<1> QED
  BY <1>2, <1>3, <1>4, <1>5, <1>6, KeptConfirmed

LEMMA UpdateWriteConfirmed ==
    ASSUME Typed, Confirmed, NEW w \in Workers, UpdateWrite(w) PROVE Confirmed'
<1> DEFINE t == task[w]
<1>1. /\ task \in [Workers -> Task] /\ t.b \in Batches /\ t.who \in Employees
      /\ t.st \in PayStatus
  BY DocsTyped DEF Tasks, Task, WellFormed, UpdateWrite, At, Batches
<1>2. /\ task'[w].pc = "refresh_rows"
      /\ \A v \in Workers : v # w => task'[v] = task[v]
  BY <1>1 DEF UpdateWrite, Goto, Task
<1>3. \A b \in Batches, e \in Employees :
         pay'[b][e] = IF b = t.b /\ e = t.who THEN t.st ELSE pay[b][e]
  BY <1>1, DocsTyped DEF UpdateWrite
<1>4. /\ confirmed \subseteq confirmed' /\ run' = run
      /\ t.st = "Processed" => t.who \in confirmed'
  BY DEF UpdateWrite
<1>5. Trail'
  BY <1>3, <1>4 DEF Confirmed, Trail
<1>6. SawPaid'
  BY <1>2, <1>4 DEF Confirmed, SawPaid
<1>7. Marked'
  <2>1. reason' = reason
    BY Zenon DEF UpdateWrite
  <2> QED
    BY <1>4, <2>1, Zenon DEF Confirmed, Marked
<1>8. Told'
  BY <1>2 DEF Told, Telling
<1> QED
  BY <1>5, <1>6, <1>7, <1>8 DEF Confirmed

\* The refresh reads what is paid by then.
LEMMA RefreshConfirmed ==
    ASSUME Typed, Confirmed, NEW w \in Workers,
           RefreshRows(w) \/ RefreshBatch(w) \/ RefreshSummary(w) \/ RefreshRun(w)
              \/ CloseSummary(w)
    PROVE  Confirmed'
<1>1. task \in [Workers -> Task]
  BY DocsTyped DEF Tasks
<1>2. run' = run /\ confirmed' = confirmed /\ crashes' = crashes /\ pay' = pay
  BY DEF RefreshRows, RefreshBatch, RefreshSummary, RefreshRun, CloseSummary, ReadOnly
<1>3. reason' = reason
  BY Zenon DEF RefreshRows, RefreshBatch, RefreshSummary, RefreshRun, CloseSummary, ReadOnly
<1>4. \A v \in Workers : v # w => task'[v] = task[v]
  BY <1>1 DEF RefreshRows, RefreshBatch, RefreshSummary, RefreshRun, CloseSummary, Goto, Finish
<1>5. AllPaid => Employees \subseteq confirmed
  BY AllPaidTrail DEF Confirmed
<1> DEFINE Saw == \/ task'[w].pc = "refresh_run" /\ task'[w].all
                  \/ task'[w].pc = "refresh_write"
                  \/ task'[w].pc = "close_write" /\ ~task'[w].ok
           Kept == /\ Saw => Employees \subseteq confirmed
                   /\ Telling(w) /\ AllPaid /\ run = "Locked" => Telling(w)'
<1>6. RefreshRows(w) => Kept
  <2>1. RefreshRows(w) => task'[w].pc = "refresh_batch"
    BY <1>1 DEF RefreshRows, Task
  <2> QED
    BY <2>1 DEF Telling
<1>7. RefreshBatch(w) => Kept
  <2>1. RefreshBatch(w) => task'[w].pc = "refresh_summary"
    BY <1>1 DEF RefreshBatch, Goto, Task
  <2> QED
    BY <2>1 DEF Telling
<1>8. RefreshSummary(w) => Kept
  <2>1. RefreshSummary(w) => task'[w] = [task[w] EXCEPT !.pc = "refresh_run", !.all = AllPaid]
    BY <1>1 DEF RefreshSummary
  <2>2. [task[w] EXCEPT !.pc = "refresh_run", !.all = AllPaid].pc = "refresh_run"
    BY <1>1 DEF Task
  <2>3. [task[w] EXCEPT !.pc = "refresh_run", !.all = AllPaid].all = AllPaid
    BY <1>1 DEF Task
  <2>4. RefreshSummary(w) => task'[w].pc = "refresh_run" /\ (task'[w].all <=> AllPaid)
    BY <2>1, <2>2, <2>3
  <2> QED
    BY <1>5, <2>4 DEF Telling
<1>9. RefreshRun(w) => Kept
  <2>1. CASE RefreshRun(w) /\ run = "Locked" /\ task[w].all
    <3>1. task'[w].pc = "refresh_write" /\ task[w].pc = "refresh_run"
      BY <1>1, <2>1 DEF RefreshRun, At, Goto, Task
    <3> QED
      BY <2>1, <3>1 DEF Confirmed, SawPaid, Telling
  <2>2. CASE RefreshRun(w) /\ ~(run = "Locked" /\ task[w].all)
    <3>1. task'[w].pc = "idle" /\ task[w].pc = "refresh_run"
      BY <1>1, <2>2 DEF RefreshRun, At, Finish, Idle
    <3> QED
      BY <2>2, <3>1 DEF Telling
  <2> QED
    BY <2>1, <2>2
<1>10. CloseSummary(w) => Kept
  <2>1. CASE CloseSummary(w) /\ (AllPaid \/ task[w].ok)
    <3>1. /\ task'[w].pc \in {"close_write", "idle"} /\ task[w].pc = "close_summary"
          /\ task'[w].pc = "close_write" => task'[w].ok = task[w].ok
      BY <1>1, <2>1 DEF CloseSummary, At, Goto, Finish, Idle, Task
    <3> QED
      BY <1>5, <2>1, <3>1 DEF Telling
  <2>2. CASE CloseSummary(w) /\ ~(AllPaid \/ task[w].ok)
    <3>1. task'[w].pc = "idle" /\ task[w].pc = "close_summary"
      BY <1>1, <2>2 DEF CloseSummary, At, Finish, Idle
    <3> QED
      BY <3>1 DEF Telling
  <2> QED
    BY <2>1, <2>2
<1>11. Kept
  BY <1>6, <1>7, <1>8, <1>9, <1>10
<1> QED
  BY <1>2, <1>3, <1>4, <1>11, KeptConfirmed

\* The two writes of the run's status.
LEMMA MarkConfirmed ==
    ASSUME Typed, Confirmed, NEW w \in Workers, RefreshWrite(w) \/ CloseWrite(w)
    PROVE  Confirmed'
<1>1. task \in [Workers -> Task]
  BY DocsTyped DEF Tasks
<1>2. confirmed' = confirmed /\ pay' = pay
  BY DEF RefreshWrite, CloseWrite
<1>3. /\ task'[w].pc = "idle" /\ \A v \in Workers : v # w => task'[v] = task[v]
      /\ run' # "Locked"
  BY <1>1 DEF RefreshWrite, CloseWrite, Finish, Idle
<1>4. Trail'
  BY <1>2 DEF Confirmed, Trail
<1>5. SawPaid'
  BY <1>2, <1>3 DEF Confirmed, SawPaid
<1>6. Told'
  BY <1>3 DEF Told
<1>7. Marked'
  <2>1. CASE RefreshWrite(w)
    <3>1. Employees \subseteq confirmed
      BY <2>1 DEF RefreshWrite, At, Confirmed, SawPaid
    <3> QED
      BY <1>2, <3>1 DEF Marked
  <2>2. CASE CloseWrite(w)
    <3>1. run' = "Closed"
      BY <2>2 DEF CloseWrite
    <3>2. reason' = task[w].ok
      BY <2>2, Zenon DEF CloseWrite
    <3>3. ~task[w].ok => Employees \subseteq confirmed
      BY <2>2 DEF CloseWrite, At, Confirmed, SawPaid
    <3>4. ~reason' => Employees \subseteq confirmed
      BY <3>2, <3>3, Zenon
    <3>5. "Closed" # "Paid"
      OBVIOUS
    <3> QED
      BY <1>2, <3>1, <3>4, <3>5, Zenon DEF Marked
  <2> QED
    BY <2>1, <2>2
<1> QED
  BY <1>4, <1>5, <1>6, <1>7 DEF Confirmed

LEMMA CrashConfirmed == ASSUME Typed, Confirmed, Crash PROVE Confirmed'
<1>1. /\ run' = run /\ confirmed' = confirmed /\ pay' = pay /\ crashes' = crashes + 1
      /\ \A w \in Workers : task'[w].pc = "idle"
  BY DEF Crash, Idle
<1>2. reason' = reason
  BY Zenon DEF Crash
<1>3. Trail' /\ SawPaid'
  BY <1>1 DEF Confirmed, Trail, SawPaid
<1>4. Marked'
  BY <1>1, <1>2, Zenon DEF Confirmed, Marked
<1>5. Told'
  BY <1>1, DocsTyped DEF Told
<1> QED
  BY <1>3, <1>4, <1>5 DEF Confirmed

LEMMA InitConfirmed == Init => Confirmed
<1> SUFFICES ASSUME Init PROVE Confirmed
  OBVIOUS
<1>1. /\ \A w \in Workers : task[w].pc = "idle"
      /\ \A b \in Batches, e \in Employees : pay[b][e] = "None"
      /\ run = "Locked"
  BY DEF Init, Idle
<1>2. ~AllPaid
  BY <1>1, DisbursalAssumption DEF AllPaid, Has
<1> QED
  BY <1>1, <1>2 DEF Confirmed, Trail, SawPaid, Marked, Told

LEMMA NextConfirmed == Typed /\ Confirmed /\ [Next]_vars => Confirmed'
<1> SUFFICES ASSUME Typed, Confirmed, [Next]_vars PROVE Confirmed'
  OBVIOUS
<1>1. ASSUME NEW w \in Workers, Step(w) PROVE Confirmed'
  BY <1>1, ReadingConfirmed, GenPaymentsConfirmed, UpdateWriteConfirmed, RefreshConfirmed,
     MarkConfirmed DEF Step, Reading
<1>2. CASE UNCHANGED vars
  <2>1. /\ run' = run /\ confirmed' = confirmed /\ pay' = pay /\ crashes' = crashes
        /\ task' = task
    BY <1>2 DEF vars
  <2>2. reason' = reason
    BY <1>2, Zenon DEF vars
  <2>3. Trail' /\ SawPaid'
    BY <2>1 DEF Confirmed, Trail, SawPaid
  <2>4. Marked'
    BY <2>1, <2>2, Zenon DEF Confirmed, Marked
  <2>5. Told'
    BY <2>1 DEF Confirmed, Told, AllPaid, Has, Telling
  <2> QED
    BY <2>3, <2>4, <2>5 DEF Confirmed
<1> QED
  BY <1>1, <1>2, CrashConfirmed DEF Next

LEMMA ConfirmedSuffices == Typed /\ Confirmed => PaidIffConfirmed
<1> SUFFICES ASSUME Typed, Confirmed PROVE PaidIffConfirmed
  OBVIOUS
<1>1. (\A w \in Workers : task[w] = Idle) => \A w \in Workers : ~Telling(w)
  BY DEF Telling, Idle
<1>2. (\A w \in Workers : task[w] = Idle) /\ crashes = 0 /\ AllPaid => run # "Locked"
  BY <1>1 DEF Confirmed, Told
<1> QED
  BY <1>2, Zenon DEF Confirmed, Marked, PaidIffConfirmed

\* The run is Paid, or closed without a reason, only when everyone's payment has been
\* confirmed, and it does not stay Locked once everyone is paid and nobody is at work
\* (_refresh_batch, close_run).
THEOREM PaidMeansConfirmed == Spec => []PaidIffConfirmed
  BY InitTyped, NextTyped, InitConfirmed, NextConfirmed, ConfirmedSuffices, PTL DEF Spec
=============================================================================
