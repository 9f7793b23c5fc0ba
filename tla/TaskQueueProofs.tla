-------------------------- MODULE TaskQueueProofs --------------------------
(* Theorems about TaskQueue for every value of its constants.               *)
(* First: types, that a task that ended stays ended and, without the retry  *)
(* route, that no user exceeds a limit of active tasks. Then, when no task  *)
(* is retried while a queue or a worker carries it: no task is run twice at *)
(* a time and no late result is written. When no two retries of one task    *)
(* overlap: the ledger balances and, for prepaid tasks that nobody deletes, *)
(* TaskQueue implements TaskLifecycle. Last, for one process: tasks are     *)
(* begun in the order of their creation.                                    *)
EXTENDS TaskQueue, FiniteSetTheorems, TLAPS

-----------------------------------------------------------------------------
(* Types of the building blocks *)

LEMMA VoidRunsType ==
  ASSUME worker \in [Workers -> WorkerState], NEW S
  PROVE  VoidRuns(S) \in [Workers -> WorkerState]
BY DEF VoidRuns, WorkerState

LEMMA RowTypes ==
  /\ Unborn \in Row
  /\ Deleted \in Row
  /\ \A n \in Nat : Submitted(n) \in Row
  /\ \A r \in Row : Resubmitted(r) \in Row /\ BackedOff(r) \in Row /\ Canceled(r) \in Row
  /\ \A r \in Row, s \in Status : Moved(r, s) \in Row
<1> USE DEF Row, Status, Live, Terminal
<1>1. Unborn \in Row /\ Deleted \in Row
  BY DEF Unborn, Deleted
<1>2. \A n \in Nat : Submitted(n) \in Row
  BY DEF Submitted, Unborn
<1>3. \A r \in Row, s \in Status : Moved(r, s) \in Row
  BY DEF Moved
<1>4. ASSUME NEW r \in Row PROVE Resubmitted(r) \in Row
  <2> DEFINE x == Moved(r, "pending")
  <2> HIDE DEF Status, Live, Terminal
  <2>1. x \in Row
    BY <1>3 DEF Status, Live
  <2> HIDE DEF x
  <2>2. x.retries + 1 \in Nat
    BY <2>1
  <2>3. [x EXCEPT !.retries = @ + 1, !.cancel = FALSE, !.due = TRUE] \in Row
    BY <2>1, <2>2
  <2>4. QED
    BY <2>3 DEF Resubmitted, x
<1>5. \A r \in Row : BackedOff(r) \in Row
  BY <1>4 DEF BackedOff
<1>6. \A r \in Row : Canceled(r) \in Row
  BY DEF Canceled, Moved
<1>7. QED
  BY <1>1, <1>2, <1>3, <1>4, <1>5, <1>6

LEMMA StatusFacts ==
  /\ {"pending", "running", "failed", "success", "interrupted"} \subseteq Status
BY DEF Status, Live, Terminal

\* Every write to one row keeps the table well typed, whatever the identifier.
LEMMA TableTypes ==
  ASSUME row \in [Tasks -> Row], NEW t
  PROVE  /\ \A s \in Status : [row EXCEPT ![t] = Moved(@, s)] \in [Tasks -> Row]
         /\ [row EXCEPT ![t] = Resubmitted(@)] \in [Tasks -> Row]
         /\ [row EXCEPT ![t] = BackedOff(@)] \in [Tasks -> Row]
         /\ [row EXCEPT ![t] = Canceled(@)] \in [Tasks -> Row]
         /\ [row EXCEPT ![t] = Deleted] \in [Tasks -> Row]
<1>1. ASSUME NEW r, t \in Tasks => r \in Row
      PROVE  [row EXCEPT ![t] = r] \in [Tasks -> Row]
  BY <1>1
<1>2. t \in Tasks => row[t] \in Row
  OBVIOUS
<1>3. QED
  BY <1>1, <1>2, RowTypes

LEMMA LocalTypes ==
  /\ MasterIdle \in MasterState
  /\ WorkerIdle \in WorkerState
  /\ WorkerDead \in WorkerState
  /\ ApiIdle \in ApiState
<1>1. MasterIdle \in MasterState
  BY DEF MasterIdle, MasterState
<1>2. WorkerIdle \in WorkerState
  BY DEF WorkerIdle, WorkerState, WorkerPc
<1>3. WorkerDead \in WorkerState
  BY DEF WorkerIdle, WorkerDead, WorkerState, WorkerPc
<1>4. ApiIdle \in ApiState
  BY DEF ApiIdle, ApiState
<1>5. QED
  BY <1>1, <1>2, <1>3, <1>4

LEMMA InitType == Init => TypeOK
<1> SUFFICES ASSUME Init PROVE TypeOK
  OBVIOUS
<1>1. row \in [Tasks -> Row]
  BY RowTypes DEF Init
<1>2. queue \in [Procs -> [Pools -> Seq(Tasks)]]
  <2>1. [pool \in Pools |-> <<>>] \in [Pools -> Seq(Tasks)]
    OBVIOUS
  <2>2. QED
    BY <2>1 DEF Init
<1>3. /\ master \in [Procs -> MasterState]
      /\ worker \in [Workers -> WorkerState]
      /\ api \in [Procs -> ApiState]
  BY LocalTypes DEF Init
<1>4. credit \in [Tasks -> Int] /\ up \in [Procs -> BOOLEAN]
  BY DEF Init
<1>5. QED
  BY <1>1, <1>2, <1>3, <1>4 DEF Init, TypeOK

LEMMA RoutesType ==
  ASSUME TypeOK, NEW p \in Procs, Routes(p)
  PROVE  TypeOK'
<1>1. ASSUME NEW t \in Tasks, CreateTask(p, t) PROVE TypeOK'
  <2> DEFINE older == {u \in Tasks : row[u].status # "unborn"}
  <2>1. 1 + Cardinality(older) \in Nat
    BY TasksAssumption, FS_CardinalityType, FS_Subset, older \subseteq Tasks
  <2>2. row' \in [Tasks -> Row]
    BY <1>1, <2>1, RowTypes DEF CreateTask, TypeOK
  <2>3. credit' \in [Tasks -> Int]
    BY <1>1 DEF CreateTask, TypeOK
  <2>4. QED
    BY <1>1, <2>2, <2>3 DEF CreateTask, TypeOK
<1>2. ASSUME NEW t \in Tasks, CancelTask(p, t) PROVE TypeOK'
  <2>1. row' \in [Tasks -> Row]
    BY <1>2, TableTypes DEF CancelTask, TypeOK
  <2>2. QED
    BY <1>2, <2>1, VoidRunsType DEF CancelTask, TypeOK
<1>3. ASSUME NEW t \in Tasks, RetryCheck(p, t) PROVE TypeOK'
  BY <1>3 DEF RetryCheck, ApiState, TypeOK
<1>4. ASSUME NEW t \in Tasks, DeleteCheck(p, t) PROVE TypeOK'
  BY <1>4 DEF DeleteCheck, ApiState, TypeOK
<1>5. CASE RetryCharge(p)
  <2>1. credit' \in [Tasks -> Int]
    BY <1>5 DEF RetryCharge, TypeOK
  <2>2. [api[p] EXCEPT !.fee = "paid"] \in ApiState
    BY DEF TypeOK, ApiState
  <2>3. api' \in [Procs -> ApiState]
    BY <1>5, <2>2, LocalTypes DEF RetryCharge, TypeOK
  <2>4. QED
    BY <1>5, <2>1, <2>3 DEF RetryCharge, TypeOK
<1>6. CASE RetryWrite(p)
  <2>1. row' \in [Tasks -> Row]
    BY <1>6, TableTypes DEF RetryWrite, TypeOK
  <2>2. worker' \in [Workers -> WorkerState]
    BY <1>6, VoidRunsType DEF RetryWrite, TypeOK
  <2>3. api' \in [Procs -> ApiState]
    BY <1>6, LocalTypes DEF RetryWrite, TypeOK
  <2>4. QED
    BY <1>6, <2>1, <2>2, <2>3 DEF RetryWrite, TypeOK
<1>7. CASE DeleteWrite(p)
  <2>1. row' \in [Tasks -> Row]
    BY <1>7, TableTypes DEF DeleteWrite, TypeOK
  <2>2. worker' \in [Workers -> WorkerState]
    BY <1>7, VoidRunsType DEF DeleteWrite, TypeOK
  <2>3. api' \in [Procs -> ApiState]
    BY <1>7, LocalTypes DEF DeleteWrite, TypeOK
  <2>4. QED
    BY <1>7, <2>1, <2>2, <2>3 DEF DeleteWrite, TypeOK
<1>8. CASE CleanupTasks(p)
  BY <1>8, VoidRunsType, RowTypes DEF CleanupTasks, TypeOK
<1>9. QED
  BY <1>1, <1>2, <1>3, <1>4, <1>5, <1>6, <1>7, <1>8 DEF Routes

LEMMA MasterType ==
  ASSUME TypeOK, NEW p \in Procs, Master(p)
  PROVE  TypeOK'
<1> DEFINE m == master[p]
<1>0. m \in MasterState
  BY DEF TypeOK
<1>1. CASE MasterScan(p)
  <2>1. PICK n \in 0 .. ScanBatch :
          \E q \in [1 .. n -> Due] :
             IsFetch(q) /\ master' = [master EXCEPT ![p].pc = "claim", ![p].batch = q]
    BY <1>1 DEF MasterScan
  <2>2. PICK q \in [1 .. n -> Due] :
          master' = [master EXCEPT ![p].pc = "claim", ![p].batch = q]
    BY <2>1
  <2>3. n \in Nat
    BY ThreadsAssumption
  <2>4. q \in Seq(Tasks)
    BY <2>3 DEF Due
  <2>5. [m EXCEPT !.pc = "claim", !.batch = q] \in MasterState
    BY <1>0, <2>4 DEF MasterState
  <2>6. master' \in [Procs -> MasterState]
    BY <2>2, <2>5 DEF TypeOK
  <2>7. QED
    BY <1>1, <2>6 DEF MasterScan, TypeOK
<1>2. CASE MasterClaim(p)
  <2> DEFINE t == Head(m.batch)
             pool == PoolOf[TypeOf[t]]
  <2>0. m.batch \in Seq(Tasks) /\ m.batch # <<>>
    BY <1>0, <1>2 DEF MasterClaim, MasterState
  <2>1. t \in Tasks /\ Tail(m.batch) \in Seq(Tasks)
    BY <2>0
  <2>2. /\ [m EXCEPT !.batch = Tail(@), !.claim = t] \in MasterState
        /\ [m EXCEPT !.batch = Tail(@)] \in MasterState
    BY <1>0, <2>1 DEF MasterState
  <2>3. master' \in [Procs -> MasterState]
    BY <1>2, <2>2 DEF MasterClaim, TypeOK
  <2>4. pool \in Pools
    BY <2>1, TasksAssumption, RegistryAssumption
  <2>5. queue[p] \in [Pools -> Seq(Tasks)]
    BY DEF TypeOK
  <2>6. Append(queue[p][pool], t) \in Seq(Tasks)
    BY <2>1, <2>4, <2>5
  <2>7. [queue[p] EXCEPT ![pool] = Append(@, t)] \in [Pools -> Seq(Tasks)]
    BY <2>5, <2>6
  <2>8. queue' \in [Procs -> [Pools -> Seq(Tasks)]]
    BY <1>2, <2>7 DEF MasterClaim, TypeOK
  <2>9. QED
    BY <1>2, <2>3, <2>8 DEF MasterClaim, TypeOK
<1>3. CASE MasterCommit(p)
  <2>1. m.claim \in Tasks
    BY <1>0, <1>3 DEF MasterCommit, MasterState
  <2>2. row' \in [Tasks -> Row]
    BY <1>3, TableTypes, StatusFacts DEF MasterCommit, TypeOK
  <2>3. [m EXCEPT !.claim = NoTask] \in MasterState
    BY <1>0 DEF MasterState
  <2>4. master' \in [Procs -> MasterState]
    BY <1>3, <2>3 DEF MasterCommit, TypeOK
  <2>5. QED
    BY <1>3, <2>2, <2>4 DEF MasterCommit, TypeOK
<1>4. CASE MasterRoundEnd(p)
  <2>1. Overdue \in SUBSET Tasks
    BY DEF Overdue
  <2>2. /\ [m EXCEPT !.pc = "scan"] \in MasterState
        /\ [m EXCEPT !.pc = "housekeep", !.overdue = Overdue] \in MasterState
    BY <1>0, <2>1 DEF MasterState
  <2>3. master' \in [Procs -> MasterState]
    BY <1>4, <2>2 DEF MasterRoundEnd, TypeOK
  <2>4. QED
    BY <1>4, <2>3 DEF MasterRoundEnd, TypeOK
<1>5. CASE WatchdogFail(p)
  <2>1. PICK t \in m.overdue :
          /\ row' \in {row, [row EXCEPT ![t] = Moved(@, "failed")]}
          /\ credit' \in {credit, [credit EXCEPT ![t] = @ - 1]}
          /\ worker' \in {worker, VoidRuns({t})}
          /\ master' \in {[master EXCEPT ![p].overdue = @ \ {t}],
                          [master EXCEPT ![p].pc = "scan", ![p].overdue = {}]}
    BY <1>5 DEF WatchdogFail
  <2>2. t \in Tasks
    BY <1>0 DEF MasterState
  <2>3. row' \in [Tasks -> Row]
    <3>1. [row EXCEPT ![t] = Moved(@, "failed")] \in [Tasks -> Row]
      BY TableTypes, StatusFacts DEF TypeOK
    <3>2. QED
      BY <2>1, <3>1 DEF TypeOK
  <2>4. credit' \in [Tasks -> Int]
    BY <2>1, <2>2 DEF TypeOK
  <2>5. worker' \in [Workers -> WorkerState]
    BY <2>1, VoidRunsType DEF TypeOK
  <2>6. /\ [m EXCEPT !.overdue = @ \ {t}] \in MasterState
        /\ [m EXCEPT !.pc = "scan", !.overdue = {}] \in MasterState
    BY <1>0 DEF MasterState
  <2>7. master' \in [Procs -> MasterState]
    BY <2>1, <2>6 DEF TypeOK
  <2>8. QED
    BY <1>5, <2>3, <2>4, <2>5, <2>7 DEF WatchdogFail, TypeOK
<1>6. CASE CleanupExpired(p)
  <2>1. row' \in [Tasks -> Row]
    BY <1>6, RowTypes DEF CleanupExpired, TypeOK
  <2>2. worker' \in [Workers -> WorkerState]
    BY <1>6, VoidRunsType DEF CleanupExpired, TypeOK
  <2>3. [m EXCEPT !.pc = "scan"] \in MasterState
    BY <1>0 DEF MasterState
  <2>4. master' \in [Procs -> MasterState]
    BY <1>6, <2>3 DEF CleanupExpired, TypeOK
  <2>5. QED
    BY <1>6, <2>1, <2>2, <2>4 DEF CleanupExpired, TypeOK
<1>7. QED
  BY <1>1, <1>2, <1>3, <1>4, <1>5, <1>6 DEF Master

\* A busy worker has a task: what makes the rows its steps touch exist.
BusyHasTask == \A w \in Workers : worker[w].pc \in Busy => worker[w].task \in Tasks

LEMMA WorkerType ==
  ASSUME TypeOK, BusyHasTask, NEW w \in Workers, Worker(w)
  PROVE  TypeOK'
<1> DEFINE t == worker[w].task
<1>0. worker[w] \in WorkerState /\ ProcOf[w] \in Procs /\ WorkerPool[w] \in Pools
  BY ThreadsAssumption DEF TypeOK
<1>1. ASSUME NEW x \in WorkerPc
      PROVE  [worker[w] EXCEPT !.pc = x] \in WorkerState
  BY <1>0, <1>1 DEF WorkerState
<1>2. ASSUME worker' = [worker EXCEPT ![w] = WorkerIdle]
                \/ (\E x \in WorkerPc : worker' = [worker EXCEPT ![w].pc = x])
                \/ worker' = [VoidRuns({t}) EXCEPT ![w] = WorkerIdle]
                \/ worker' = [worker EXCEPT ![w] = WorkerDead]
      PROVE  worker' \in [Workers -> WorkerState]
  <2>1. VoidRuns({t}) \in [Workers -> WorkerState]
    BY VoidRunsType DEF TypeOK
  <2>2. QED
    BY <1>1, <1>2, <2>1, LocalTypes DEF TypeOK
<1> HIDE DEF t
<1>q. ASSUME PopQueue(w), MyQueue(w) # <<>>
      PROVE  /\ queue' \in [Procs -> [Pools -> Seq(Tasks)]]
             /\ Head(MyQueue(w)) \in Tasks
  <2>1. queue[ProcOf[w]] \in [Pools -> Seq(Tasks)] /\ MyQueue(w) \in Seq(Tasks)
    BY <1>0 DEF TypeOK, MyQueue
  <2>2. Tail(MyQueue(w)) \in Seq(Tasks) /\ Head(MyQueue(w)) \in Tasks
    BY <1>q, <2>1
  <2>3. [queue[ProcOf[w]] EXCEPT ![WorkerPool[w]] = Tail(@)] \in [Pools -> Seq(Tasks)]
    BY <1>0, <2>1, <2>2 DEF MyQueue
  <2>4. QED
    BY <1>0, <1>q, <2>2, <2>3 DEF PopQueue, TypeOK
<1>r. WorkerPc = {"idle", "start", "charge", "run", "requeue", "settle", "settle402", "dead"}
  BY DEF WorkerPc
<1>3. CASE WorkerTake(w)
  <2>1. /\ queue' \in [Procs -> [Pools -> Seq(Tasks)]]
        /\ Head(MyQueue(w)) \in Tasks
    BY <1>3, <1>q DEF WorkerTake
  <2>2. [pc |-> "start", task |-> Head(MyQueue(w)), void |-> FALSE] \in WorkerState
    BY <2>1 DEF WorkerState, WorkerPc
  <2>3. QED
    BY <1>3, <2>1, <2>2 DEF WorkerTake, TypeOK
<1>4. CASE WorkerSkip(w)
  BY <1>4, <1>q DEF WorkerSkip, TypeOK
<1>5. CASE WorkerStart(w)
  <2>1. t \in Tasks
    BY <1>5 DEF WorkerStart, Step, Busy, BusyHasTask, t
  <2>2. row' \in [Tasks -> Row]
    BY <1>5, TableTypes, StatusFacts DEF WorkerStart, TypeOK
  <2>3. worker' \in [Workers -> WorkerState]
    BY <1>5, <1>2, <1>r DEF WorkerStart
  <2>4. QED
    BY <1>5, <2>2, <2>3 DEF WorkerStart, TypeOK
<1>6. CASE WorkerCharge(w)
  <2>1. credit' \in [Tasks -> Int]
    BY <1>6 DEF WorkerCharge, TypeOK
  <2>2. worker' \in [Workers -> WorkerState]
    <3>1. CASE worker' = [worker EXCEPT ![w].pc = "run"]
      BY <1>2, <1>r, <3>1
    <3>2. CASE worker' = [worker EXCEPT ![w] = IF Is(worker[w].task, Live)
                            THEN [@ EXCEPT !.pc = "settle402"] ELSE WorkerIdle]
      BY <1>1, <1>r, <3>2, LocalTypes DEF TypeOK
    <3>3. QED
      BY <1>6, <3>1, <3>2 DEF WorkerCharge
  <2>3. QED
    BY <1>6, <2>1, <2>2 DEF WorkerCharge, TypeOK
<1>7. CASE WorkerAbort(w)
  BY <1>7, <1>2 DEF WorkerAbort, TypeOK
<1>8. CASE WorkerSucceed(w)
  <2>1. t \in Tasks
    BY <1>8 DEF WorkerSucceed, Step, Busy, BusyHasTask, t
  <2>2. row' \in [Tasks -> Row]
    <3>0. [row EXCEPT ![t] = Moved(@, "success")] \in [Tasks -> Row]
      BY TableTypes, StatusFacts DEF TypeOK
    <3>1. row' \in {row, [row EXCEPT ![t] = Moved(@, "success")]}
      BY <1>8 DEF WorkerSucceed, t
    <3>2. QED
      BY <3>0, <3>1 DEF TypeOK
  <2>5. credit' \in [Tasks -> Int]
    BY <1>8, <2>1 DEF WorkerSucceed, TypeOK, t
  <2>3. worker' \in [Workers -> WorkerState]
    BY <1>8, <1>2 DEF WorkerSucceed, t
  <2>4. QED
    BY <1>8, <2>2, <2>3, <2>5 DEF WorkerSucceed, TypeOK
<1>9. CASE WorkerRaise(w)
  <2>1. worker' = [worker EXCEPT ![w] = WorkerIdle]
        \/ worker' = [worker EXCEPT ![w].pc = "requeue"]
        \/ worker' = [worker EXCEPT ![w].pc = "settle"]
    BY <1>9 DEF WorkerRaise
  <2>2. worker' \in [Workers -> WorkerState]
    BY <1>2, <1>r, <2>1
  <2>3. QED
    BY <1>9, <2>2 DEF WorkerRaise, TypeOK
<1>10. CASE WorkerRequeue(w)
  <2>1. t \in Tasks
    BY <1>10 DEF WorkerRequeue, Step, Busy, BusyHasTask, t
  <2>2. row' \in [Tasks -> Row]
    <3>0. [row EXCEPT ![t] = BackedOff(@)] \in [Tasks -> Row]
      BY TableTypes DEF TypeOK
    <3>1. row' \in {row, [row EXCEPT ![t] = BackedOff(@)]}
      BY <1>10 DEF WorkerRequeue, t
    <3>2. QED
      BY <3>0, <3>1 DEF TypeOK
  <2>3. worker' \in [Workers -> WorkerState]
    BY <1>10, <1>2 DEF WorkerRequeue, t
  <2>4. QED
    BY <1>10, <2>2, <2>3 DEF WorkerRequeue, TypeOK
<1>11. CASE WorkerSettle(w)
  <2>1. t \in Tasks
    BY <1>11 DEF WorkerSettle, Step, Busy, BusyHasTask, t
  <2>2. row' \in [Tasks -> Row]
    <3>0. [row EXCEPT ![t] = Moved(@, "failed")] \in [Tasks -> Row]
      BY TableTypes, StatusFacts DEF TypeOK
    <3>1. row' \in {row, [row EXCEPT ![t] = Moved(@, "failed")]}
      BY <1>11 DEF WorkerSettle, t
    <3>2. QED
      BY <3>0, <3>1 DEF TypeOK
  <2>5. credit' \in [Tasks -> Int]
    BY <1>11, <2>1 DEF WorkerSettle, TypeOK, t
  <2>3. worker' \in [Workers -> WorkerState]
    BY <1>11, <1>2 DEF WorkerSettle, t
  <2>4. QED
    BY <1>11, <2>2, <2>3, <2>5 DEF WorkerSettle, TypeOK
<1>12. QED
  BY <1>3, <1>4, <1>5, <1>6, <1>7, <1>8, <1>9, <1>10, <1>11 DEF Worker

LEMMA EnvironmentType ==
  ASSUME TypeOK, Environment
  PROVE  TypeOK'
<1>1. ASSUME NEW t \in Tasks, TimePasses(t) PROVE TypeOK'
  <2>1. [row[t] EXCEPT !.aged = TRUE] \in Row
    BY DEF TypeOK, Row
  <2>2. row' \in [Tasks -> Row]
    BY <1>1, <2>1 DEF TimePasses, TypeOK
  <2>3. QED
    BY <1>1, <2>2 DEF TimePasses, TypeOK
<1>2. ASSUME NEW t \in Tasks, BackoffElapses(t) PROVE TypeOK'
  <2>1. [row[t] EXCEPT !.due = TRUE] \in Row
    BY DEF TypeOK, Row
  <2>2. row' \in [Tasks -> Row]
    BY <1>2, <2>1 DEF BackoffElapses, TypeOK
  <2>3. QED
    BY <1>2, <2>2 DEF BackoffElapses, TypeOK
<1>3. CASE MembershipLapses
  BY <1>3 DEF MembershipLapses, TypeOK
<1>4. CASE UserReturns
  BY <1>4 DEF UserReturns, TypeOK
<1>5. ASSUME NEW p \in Procs, Crash(p) PROVE TypeOK'
  <2>1. [pool \in Pools |-> <<>>] \in [Pools -> Seq(Tasks)]
    OBVIOUS
  <2>2. queue' \in [Procs -> [Pools -> Seq(Tasks)]]
    BY <1>5, <2>1 DEF Crash, TypeOK
  <2>3. worker' \in [Workers -> WorkerState]
    BY <1>5, LocalTypes DEF Crash, TypeOK
  <2>4. master' \in [Procs -> MasterState] /\ api' \in [Procs -> ApiState]
    BY <1>5, LocalTypes DEF Crash, TypeOK
  <2>5. QED
    BY <1>5, <2>2, <2>3, <2>4 DEF Crash, TypeOK
<1>6. ASSUME NEW p \in Procs, Start(p) PROVE TypeOK'
  <2>1. row' \in [Tasks -> Row]
    BY <1>6, RowTypes, StatusFacts DEF Start, TypeOK
  <2>2. worker' \in [Workers -> WorkerState]
    BY <1>6, VoidRunsType DEF Start, TypeOK
  <2>3. QED
    BY <1>6, <2>1, <2>2 DEF Start, TypeOK
<1>7. QED
  BY <1>1, <1>2, <1>3, <1>4, <1>5, <1>6 DEF Environment

-----------------------------------------------------------------------------
(* Workers have tasks *)

\* What a step does to one worker thread: nothing but void its run, stop it, move
\* it within its run, or give it the head of its queue.
WorkerMoves(w) ==
  \/ worker'[w].pc = worker[w].pc /\ worker'[w].task = worker[w].task
  \/ worker'[w].pc \notin Busy
  \/ worker[w].pc \in Busy /\ worker'[w].task = worker[w].task
  \/ WorkerTake(w)

LEMMA IdleIsNotBusy ==
  /\ WorkerIdle.pc \notin Busy /\ WorkerIdle.task = NoTask
  /\ WorkerDead.pc \notin Busy /\ WorkerDead.task = NoTask
BY DEF WorkerIdle, WorkerDead, Busy

LEMMA VoidRunsKeep ==
  ASSUME worker \in [Workers -> WorkerState], NEW S, NEW w \in Workers
  PROVE  VoidRuns(S)[w].pc = worker[w].pc /\ VoidRuns(S)[w].task = worker[w].task
BY DEF VoidRuns, WorkerState

LEMMA MovesOfWorkers ==
  ASSUME TypeOK, [Next]_vars, NEW w \in Workers
  PROVE  WorkerMoves(w)
<1> USE DEF WorkerMoves
<1>1. ASSUME UNCHANGED worker PROVE WorkerMoves(w)
  BY <1>1
<1>2. ASSUME NEW S, worker' = VoidRuns(S) PROVE WorkerMoves(w)
  BY <1>2, VoidRunsKeep DEF TypeOK
<1>3. ASSUME NEW p \in Procs, Routes(p) PROVE WorkerMoves(w)
  BY <1>1, <1>2, <1>3 DEF Routes, CreateTask, CancelTask, RetryCheck, DeleteCheck,
       RetryCharge, RetryWrite, DeleteWrite, CleanupTasks
<1>4. ASSUME NEW p \in Procs, Master(p) PROVE WorkerMoves(w)
  BY <1>1, <1>2, <1>4 DEF Master, MasterScan, MasterClaim, MasterCommit,
       MasterRoundEnd, WatchdogFail, CleanupExpired
<1>5. ASSUME NEW v \in Workers, Worker(v) PROVE WorkerMoves(w)
  <2> DEFINE t == worker[v].task
  <2>1. \/ UNCHANGED worker
        \/ worker' = [worker EXCEPT ![v] = WorkerIdle]
        \/ worker' = [worker EXCEPT ![v] = WorkerDead]
        \/ worker' = [VoidRuns({t}) EXCEPT ![v] = WorkerIdle]
        \/ worker[v].pc \in Busy /\ (\E x \in Busy : worker' = [worker EXCEPT ![v].pc = x])
        \/ WorkerTake(v)
    <3>1. CASE WorkerTake(v)
      BY <3>1
    <3>2. CASE WorkerSkip(v)
      BY <3>2 DEF WorkerSkip
    <3>3. CASE WorkerStart(v)
      BY <3>3 DEF WorkerStart, Step, Busy
    <3>4. CASE WorkerCharge(v)
      BY <3>4 DEF WorkerCharge, Step, Busy
    <3>5. CASE WorkerAbort(v)
      BY <3>5 DEF WorkerAbort
    <3>6. CASE WorkerSucceed(v)
      BY <3>6 DEF WorkerSucceed
    <3>7. CASE WorkerRaise(v)
      BY <3>7 DEF WorkerRaise, Step, Busy
    <3>8. CASE WorkerRequeue(v)
      BY <3>8 DEF WorkerRequeue
    <3>9. CASE WorkerSettle(v)
      BY <3>9 DEF WorkerSettle
    <3>10. QED
      BY <1>5, <3>1, <3>2, <3>3, <3>4, <3>5, <3>6, <3>7, <3>8, <3>9 DEF Worker
  <2>2. CASE v = w
    <3>1. VoidRuns({t}) \in [Workers -> WorkerState]
      BY VoidRunsType DEF TypeOK
    <3>2. QED
      BY <2>1, <2>2, <3>1, IdleIsNotBusy DEF TypeOK, WorkerState
  <2>3. CASE v # w
    <3>1. \/ worker'[w] = worker[w]
          \/ worker'[w] = VoidRuns({t})[w]
      BY <2>1, <2>3, VoidRunsType DEF TypeOK, WorkerTake
    <3>2. QED
      BY <3>1, VoidRunsKeep DEF TypeOK
  <2>4. QED
    BY <2>2, <2>3
<1>6. CASE Environment
  <2>1. CASE \E p \in Procs : Crash(p)
    BY <2>1, IdleIsNotBusy DEF Crash
  <2>2. CASE ~ \E p \in Procs : Crash(p)
    BY <1>1, <1>2, <1>6, <2>2 DEF Environment, TimePasses, BackoffElapses,
         MembershipLapses, UserReturns, Start
  <2>3. QED
    BY <2>1, <2>2
<1>7. QED
  BY <1>3, <1>4, <1>5, <1>6 DEF Next, vars

LEMMA BusyHasTaskStep ==
  ASSUME TypeOK, BusyHasTask, [Next]_vars
  PROVE  BusyHasTask'
<1> SUFFICES ASSUME NEW w \in Workers, worker'[w].pc \in Busy
             PROVE  worker'[w].task \in Tasks
  BY DEF BusyHasTask
<1>1. CASE WorkerTake(w)
  <2>1. MyQueue(w) \in Seq(Tasks) /\ MyQueue(w) # <<>>
    BY <1>1, ThreadsAssumption DEF WorkerTake, MyQueue, TypeOK
  <2>2. worker'[w].task = Head(MyQueue(w))
    BY <1>1 DEF WorkerTake, TypeOK
  <2>3. QED
    BY <2>1, <2>2
<1>2. CASE ~WorkerTake(w)
  BY <1>2, MovesOfWorkers DEF BusyHasTask, WorkerMoves
<1>3. QED
  BY <1>1, <1>2

LEMMA TypeStep ==
  ASSUME TypeOK, BusyHasTask, [Next]_vars
  PROVE  TypeOK'
<1>1. CASE UNCHANGED vars
  BY <1>1 DEF vars, TypeOK
<1>2. QED
  BY <1>1, RoutesType, MasterType, WorkerType, EnvironmentType DEF Next

\* The state of the database, of every thread and of every request stays in its
\* type: in particular a worker only ever touches rows of tasks that exist.
THEOREM TypeCorrect == Spec => [](TypeOK /\ BusyHasTask)
<1>1. Init => TypeOK /\ BusyHasTask
  BY InitType, IdleIsNotBusy DEF Init, BusyHasTask
<1>2. TypeOK /\ BusyHasTask /\ [Next]_vars => (TypeOK /\ BusyHasTask)'
  BY TypeStep, BusyHasTaskStep
<1>3. QED
  BY <1>1, <1>2, PTL DEF Spec

-----------------------------------------------------------------------------
(* How rows change: the write lock protects a claim between its UPDATE and  *)
(* its commit, and an ended task is never overwritten.                      *)

(* What one step does to the status of one row *)

\* A write of the row of t by anything but the commit of a claim.
Written(t) ==
  LET old == row[t].status
      new == row'[t].status
  IN  \/ old = "unborn" /\ new = "pending" /\ \E p \in Procs : CreateTask(p, t)
      \/ old \in {"pending", "running"} /\ new = "canceled"
      \/ old \in Live /\ new = "pending" /\ \E p \in Procs : RetryWrite(p) /\ api[p].task = t
      \/ old \in Live /\ new = "deleted"
      \/ old = "running" /\ new \in {"success", "failed", "interrupted"}
      \/ old = "running" /\ new = "pending"
           /\ \E w \in Workers : WorkerRequeue(w) /\ worker[w].task = t /\ Endable(t)

RowMoves(t) ==
  \/ row'[t].status = row[t].status
  \/ WriteLockFree /\ Written(t)
  \/ \E p \in Procs : MasterCommit(p) /\ t = master[p].claim /\ row'[t].status = "running"

LEMMA StatusAfter ==
  /\ \A r \in Row : \A s : Moved(r, s).status = s
  /\ \A r \in Row : /\ Canceled(r).status = "canceled"
                    /\ Resubmitted(r).status = "pending"
                    /\ BackedOff(r).status = "pending"
  /\ \A n : Submitted(n).status = "pending"
  /\ Deleted.status = "deleted"
BY DEF Moved, Canceled, Resubmitted, BackedOff, Submitted, Deleted, Unborn, Row

LEMMA RoutesMoveRows ==
  ASSUME TypeOK, NEW p \in Procs, Routes(p), NEW t \in Tasks
  PROVE  RowMoves(t)
<1> USE DEF RowMoves, Written
<1>0. row[t] \in Row
  BY DEF TypeOK
<1>1. ASSUME NEW u \in Tasks, CreateTask(p, u) PROVE RowMoves(t)
  <2>1. PICK n : row' = [row EXCEPT ![u] = Submitted(n)]
    BY <1>1 DEF CreateTask
  <2>2. row'[t] = row[t] \/ (t = u /\ row'[t].status = "pending")
    <3>1. Submitted(n).status = "pending"
      BY StatusAfter
    <3>2. t = u => row'[t].status = "pending"
      BY <2>1, <3>1 DEF TypeOK
    <3>3. t # u => row'[t] = row[t]
      BY <2>1 DEF TypeOK
    <3>4. QED
      BY <3>2, <3>3
  <2>3. WriteLockFree /\ row[u].status = "unborn"
    BY <1>1 DEF CreateTask
  <2>4. QED
    BY <1>1, <2>2, <2>3
<1>2. ASSUME NEW u \in Tasks, CancelTask(p, u) PROVE RowMoves(t)
  BY <1>0, <1>2, StatusAfter DEF CancelTask, Cancelable, Is, TypeOK
<1>3. CASE RetryWrite(p)
  <2>1. CASE row' = row
    BY <2>1
  <2>2. CASE Is(api[p].task, Live) /\ row' = [row EXCEPT ![api[p].task] = Resubmitted(@)]
    BY <1>0, <1>3, <2>2, StatusAfter DEF RetryWrite, Is, TypeOK
  <2>3. QED
    BY <1>3, <2>1, <2>2 DEF RetryWrite
<1>4. CASE DeleteWrite(p)
  <2>1. CASE row' = row
    BY <2>1
  <2>2. CASE Is(api[p].task, Live) /\ row' = [row EXCEPT ![api[p].task] = Deleted]
    BY <1>4, <2>2, StatusAfter DEF DeleteWrite, Is, TypeOK
  <2>3. QED
    BY <1>4, <2>1, <2>2 DEF DeleteWrite
<1>5. CASE CleanupTasks(p)
  BY <1>5, StatusAfter DEF CleanupTasks, Is, Live
<1>6. CASE UNCHANGED row
  BY <1>6
<1>7. QED
  BY <1>1, <1>2, <1>3, <1>4, <1>5, <1>6
  DEF Routes, RetryCheck, DeleteCheck, RetryCharge

LEMMA MasterMovesRows ==
  ASSUME TypeOK, NEW p \in Procs, Master(p), NEW t \in Tasks
  PROVE  RowMoves(t)
<1> USE DEF RowMoves, Written
<1>0. row[t] \in Row
  BY DEF TypeOK
<1>1. CASE MasterCommit(p)
  <2>1. row' = [row EXCEPT ![master[p].claim] = Moved(@, "running")]
    BY <1>1 DEF MasterCommit
  <2>2. row'[t] = row[t] \/ (t = master[p].claim /\ row'[t].status = "running")
    <3>1. Moved(row[t], "running").status = "running"
      BY <1>0, StatusAfter
    <3>2. t = master[p].claim => row'[t].status = "running"
      BY <2>1, <3>1 DEF TypeOK
    <3>3. t # master[p].claim => row'[t] = row[t]
      BY <2>1 DEF TypeOK
    <3>4. QED
      BY <3>2, <3>3
  <2>3. QED
    BY <1>1, <2>2
<1>2. CASE WatchdogFail(p)
  <2>1. PICK u \in master[p].overdue :
          \/ row' = row
          \/ Endable(u) /\ row' = [row EXCEPT ![u] = Moved(@, "failed")]
    BY <1>2 DEF WatchdogFail
  <2>2. QED
    BY <1>0, <1>2, <2>1, StatusAfter DEF WatchdogFail, Endable, Is, TypeOK
<1>3. CASE CleanupExpired(p)
  BY <1>3, StatusAfter DEF CleanupExpired, Is, Live
<1>4. CASE UNCHANGED row
  BY <1>4
<1>5. QED
  BY <1>1, <1>2, <1>3, <1>4 DEF Master, MasterScan, MasterClaim, MasterRoundEnd

LEMMA WorkersMoveRows ==
  ASSUME TypeOK, NEW w \in Workers, Worker(w), NEW t \in Tasks
  PROVE  RowMoves(t)
<1> DEFINE u == worker[w].task
<1>0. row[t] \in Row
  BY DEF TypeOK
<1>1. CASE row' = row
  BY <1>1 DEF RowMoves
<1>2. ASSUME NEW s \in {"running", "success", "failed"}, WriteLockFree,
             Is(u, {"running"}), row' = [row EXCEPT ![u] = Moved(@, s)]
      PROVE  RowMoves(t)
  <2>1. t = u => row[t].status = "running" /\ row'[t].status = s
    BY <1>0, <1>2, StatusAfter DEF Is, TypeOK
  <2>2. t # u => row'[t] = row[t]
    BY <1>2 DEF TypeOK
  <2>3. QED
    BY <1>2, <2>1, <2>2 DEF RowMoves, Written
<1>3. ASSUME WorkerRequeue(w), WriteLockFree, Is(u, {"running"}),
             row' = [row EXCEPT ![u] = BackedOff(@)]
      PROVE  RowMoves(t)
  <2>1. t = u => row[t].status = "running" /\ row'[t].status = "pending"
    BY <1>0, <1>3, StatusAfter DEF Is, TypeOK
  <2>2. t # u => row'[t] = row[t]
    BY <1>3 DEF TypeOK
  <2>3. QED
    BY <1>3, <2>1, <2>2 DEF RowMoves, Written, Endable
<1>4. CASE WorkerStart(w)
  BY <1>1, <1>2, <1>4 DEF WorkerStart
<1>5. CASE WorkerSucceed(w)
  BY <1>1, <1>2, <1>5 DEF WorkerSucceed, Endable
<1>6. CASE WorkerRequeue(w)
  BY <1>1, <1>3, <1>6 DEF WorkerRequeue, Endable
<1>7. CASE WorkerSettle(w)
  BY <1>1, <1>2, <1>7 DEF WorkerSettle, Endable
<1>8. QED
  BY <1>1, <1>4, <1>5, <1>6, <1>7
  DEF Worker, WorkerTake, WorkerSkip, WorkerCharge, WorkerAbort, WorkerRaise

LEMMA EnvironmentMovesRows ==
  ASSUME TypeOK, Environment, NEW t \in Tasks
  PROVE  RowMoves(t)
<1> USE DEF RowMoves, Written
<1>0. row[t] \in Row
  BY DEF TypeOK
<1>1. ASSUME NEW u \in Tasks, TimePasses(u) PROVE RowMoves(t)
  <2>1. row'[t] = row[t] \/ row'[t] = [row[t] EXCEPT !.aged = TRUE]
    BY <1>1 DEF TimePasses, TypeOK
  <2>2. QED
    BY <1>0, <2>1 DEF Row
<1>2. ASSUME NEW u \in Tasks, BackoffElapses(u) PROVE RowMoves(t)
  <2>1. row'[t] = row[t] \/ row'[t] = [row[t] EXCEPT !.due = TRUE]
    BY <1>2 DEF BackoffElapses, TypeOK
  <2>2. QED
    BY <1>0, <2>1 DEF Row
<1>3. ASSUME NEW p \in Procs, Start(p) PROVE RowMoves(t)
  BY <1>0, <1>3, StatusAfter DEF Start, Is
<1>4. CASE UNCHANGED row
  BY <1>4
<1>5. QED
  BY <1>1, <1>2, <1>3, <1>4 DEF Environment, MembershipLapses, UserReturns, Crash

LEMMA MovesOfRows ==
  ASSUME TypeOK, [Next]_vars, NEW t \in Tasks
  PROVE  RowMoves(t)
<1>1. CASE UNCHANGED vars
  BY <1>1 DEF vars, RowMoves
<1>2. QED
  BY <1>1, RoutesMoveRows, MasterMovesRows, WorkersMoveRows, EnvironmentMovesRows DEF Next

-----------------------------------------------------------------------------
(* Claims *)

\* There is one write lock, and while a claim holds it the claimed row waits.
ClaimsHoldLock ==
  /\ \A p \in Procs : master[p].claim # NoTask =>
       master[p].claim \in Tasks /\ row[master[p].claim].status = "pending"
  /\ \A p, q \in Procs : master[p].claim # NoTask /\ master[q].claim # NoTask => p = q

ClaimMoves(p) ==
  \/ master'[p].claim = master[p].claim
  \/ master'[p].claim = NoTask /\ (MasterCommit(p) \/ Crash(p))
  \/ /\ MasterClaim(p)
     /\ master'[p].claim \in Tasks
     /\ row[master'[p].claim].status = "pending" /\ UNCHANGED row
     /\ \A q \in Procs \ {p} : master'[q] = master[q]

LEMMA MovesOfClaims ==
  ASSUME TypeOK, [Next]_vars, NEW p \in Procs
  PROVE  ClaimMoves(p)
<1> USE DEF ClaimMoves
<1>0. \A q \in Procs : master[q] \in MasterState
  BY DEF TypeOK
<1>1. CASE UNCHANGED master
  BY <1>1
<1>2. ASSUME NEW q \in Procs, Master(q) PROVE ClaimMoves(p)
  <2>1. CASE MasterScan(q)
    BY <1>0, <2>1 DEF MasterScan, TypeOK, MasterState
  <2>2. CASE MasterClaim(q)
    <3> DEFINE u == Head(master[q].batch)
    <3>1. u \in Tasks
      <4>1. master[q].batch \in Seq(Tasks) /\ master[q].batch # <<>>
        BY <1>0, <2>2 DEF MasterClaim, MasterState
      <4>2. QED
        BY <4>1
    <3> HIDE DEF u
    <3>2. CASE ~Claimable(u)
      <4>1. master' = [master EXCEPT ![q].batch = Tail(@)]
        BY <2>2, <3>2 DEF MasterClaim, u
      <4>2. QED
        BY <1>0, <4>1 DEF TypeOK, MasterState
    <3>3. CASE Claimable(u)
      <4>1. master' = [master EXCEPT ![q].batch = Tail(@), ![q].claim = u]
        BY <2>2, <3>3 DEF MasterClaim, u
      <4>2. \A r \in Procs \ {q} : master'[r] = master[r]
        BY <4>1 DEF TypeOK
      <4>3. master'[q].claim = u
        BY <1>0, <4>1 DEF TypeOK, MasterState
      <4>4. row[u].status = "pending" /\ UNCHANGED row
        BY <2>2, <3>3 DEF Claimable, Is, MasterClaim
      <4>5. QED
        BY <2>2, <3>1, <4>2, <4>3, <4>4
    <3>4. QED
      BY <3>2, <3>3
  <2>3. CASE MasterCommit(q)
    BY <1>0, <2>3 DEF MasterCommit, TypeOK, MasterState
  <2>4. CASE MasterRoundEnd(q)
    BY <1>0, <2>4 DEF MasterRoundEnd, TypeOK, MasterState
  <2>5. CASE WatchdogFail(q)
    BY <1>0, <2>5 DEF WatchdogFail, TypeOK, MasterState
  <2>6. CASE CleanupExpired(q)
    BY <1>0, <2>6 DEF CleanupExpired, TypeOK, MasterState
  <2>7. QED
    BY <1>2, <2>1, <2>2, <2>3, <2>4, <2>5, <2>6 DEF Master
<1>3. ASSUME NEW q \in Procs, Crash(q) PROVE ClaimMoves(p)
  BY <1>3 DEF Crash, TypeOK, MasterIdle
<1>4. CASE \E q \in Procs : Routes(q)
  BY <1>1, <1>4 DEF Routes, CreateTask, CancelTask, RetryCheck, DeleteCheck,
       RetryCharge, RetryWrite, DeleteWrite, CleanupTasks
<1>5. CASE \E w \in Workers : Worker(w)
  BY <1>1, <1>5 DEF Worker, WorkerTake, WorkerSkip, WorkerStart, WorkerCharge,
       WorkerAbort, WorkerSucceed, WorkerRaise, WorkerRequeue, WorkerSettle
<1>6. CASE Environment
  BY <1>1, <1>3, <1>6 DEF Environment, TimePasses, BackoffElapses,
       MembershipLapses, UserReturns, Start
<1>7. CASE UNCHANGED vars
  BY <1>1, <1>7 DEF vars
<1>8. QED
  BY <1>2, <1>4, <1>5, <1>6, <1>7 DEF Next

LEMMA ClaimsHoldLockStep ==
  ASSUME TypeOK, ClaimsHoldLock, [Next]_vars
  PROVE  ClaimsHoldLock'
<1>1. ASSUME NEW p \in Procs, master'[p].claim # NoTask
      PROVE  master'[p].claim \in Tasks /\ row'[master'[p].claim].status = "pending"
  <2>1. CASE MasterClaim(p) /\ master'[p].claim # master[p].claim
    BY <1>1, <2>1, MovesOfClaims DEF ClaimMoves
  <2>2. CASE master'[p].claim = master[p].claim
    <3> DEFINE t == master[p].claim
    <3>1. t \in Tasks /\ row[t].status = "pending" /\ ~WriteLockFree
      BY <1>1, <2>2 DEF ClaimsHoldLock, WriteLockFree
    <3>2. ~ \E q \in Procs : MasterCommit(q)
      <4> SUFFICES ASSUME NEW q \in Procs, MasterCommit(q) PROVE FALSE
        OBVIOUS
      <4>1. q = p
        BY <1>1, <2>2 DEF MasterCommit, ClaimsHoldLock
      <4>2. master'[p].claim = NoTask
        BY <4>1 DEF MasterCommit, TypeOK, MasterState
      <4>3. QED
        BY <1>1, <4>2
    <3>3. QED
      BY <2>2, <3>1, <3>2, MovesOfRows DEF RowMoves
  <2>3. QED
    BY <1>1, <2>1, <2>2, MovesOfClaims DEF ClaimMoves
<1>2. ASSUME NEW p \in Procs, NEW q \in Procs,
             master'[p].claim # NoTask, master'[q].claim # NoTask
      PROVE  p = q
  <2>1. CASE master'[p].claim = master[p].claim /\ master'[q].claim = master[q].claim
    BY <1>2, <2>1 DEF ClaimsHoldLock
  <2>2. ASSUME NEW r \in Procs, MasterClaim(r), \A x \in Procs \ {r} : master'[x] = master[x]
        PROVE  p = q
    <3>1. \A x \in Procs \ {r} : master'[x].claim = NoTask
      BY <2>2 DEF MasterClaim, WriteLockFree
    <3>2. QED
      BY <1>2, <3>1
  <2>3. QED
    BY <1>2, <2>1, <2>2, MovesOfClaims DEF ClaimMoves
<1>3. QED
  BY <1>1, <1>2 DEF ClaimsHoldLock

ClaimInv == TypeOK /\ BusyHasTask /\ ClaimsHoldLock

LEMMA ClaimInvariant == Spec => []ClaimInv
<1>1. Init => ClaimInv
  BY InitType, IdleIsNotBusy DEF Init, BusyHasTask, ClaimInv, ClaimsHoldLock, MasterIdle
<1>2. ClaimInv /\ [Next]_vars => ClaimInv'
  BY TypeStep, BusyHasTaskStep, ClaimsHoldLockStep DEF ClaimInv
<1>3. QED
  BY <1>1, <1>2, PTL DEF Spec

\* An ended task is only retried or deleted, for any number of processes, workers
\* and tasks: every write that ends a run looks at the status in the same
\* statement, and no write falls between a claim and its commit.
THEOREM EndedStaysEnded == Spec => TerminalSticks
<1>1. ClaimInv /\ [Next]_vars =>
        \A t \in Tasks : Is(t, Terminal) /\ row'[t].status # row[t].status
          => row'[t].status \in {"pending", "deleted"}
  <2> SUFFICES ASSUME ClaimInv, [Next]_vars, NEW t \in Tasks,
                      Is(t, Terminal), row'[t].status # row[t].status
               PROVE  row'[t].status \in {"pending", "deleted"}
    OBVIOUS
  <2>1. row[t].status \notin {"unborn", "pending", "running"}
    BY DEF Is, Terminal
  <2>2. ~ \E p \in Procs : MasterCommit(p) /\ t = master[p].claim
    BY <2>1 DEF ClaimInv, ClaimsHoldLock, MasterCommit
  <2>3. Written(t)
    BY <2>2, MovesOfRows DEF RowMoves, ClaimInv
  <2>4. QED
    BY <2>1, <2>3 DEF Written
<1>2. QED
  BY <1>1, ClaimInvariant, PTL DEF Spec, TerminalSticks

-----------------------------------------------------------------------------
(* Without the retry route.                                                 *)

NoRetries == "retry" \notin ApiOps
NoRetryOpen == \A p \in Procs : api[p].op # "retry"

LEMMA NoRetryOpenStep ==
  ASSUME NoRetries, TypeOK, NoRetryOpen, [Next]_vars
  PROVE  NoRetryOpen'
<1> USE DEF NoRetryOpen, TypeOK, ApiState
<1>0. ApiIdle.op # "retry"
  BY DEF ApiIdle
<1>1. CASE UNCHANGED api
  BY <1>1
<1>2. ASSUME NEW p \in Procs, Routes(p) PROVE NoRetryOpen'
  <2>1. ~RetryWrite(p)
    BY DEF RetryWrite
  <2>2. \A t \in Tasks : ~RetryCheck(p, t)
    BY DEF RetryCheck, NoRetries
  <2>3. CASE \E t \in Tasks : DeleteCheck(p, t)
    BY <2>3 DEF DeleteCheck
  <2>4. CASE RetryCharge(p)
    <3>1. api' = [api EXCEPT ![p].fee = "paid"] \/ api' = [api EXCEPT ![p] = ApiIdle]
      BY <2>4 DEF RetryCharge
    <3>2. QED
      BY <1>0, <3>1
  <2>5. CASE DeleteWrite(p)
    BY <1>0, <2>5 DEF DeleteWrite
  <2>6. QED
    BY <1>1, <1>2, <2>1, <2>2, <2>3, <2>4, <2>5 DEF Routes, CreateTask, CancelTask, CleanupTasks
<1>3. ASSUME NEW p \in Procs, Crash(p) PROVE NoRetryOpen'
  BY <1>0, <1>3 DEF Crash
<1>4. CASE \E p \in Procs : Master(p)
  BY <1>1, <1>4 DEF Master, MasterScan, MasterClaim, MasterCommit, MasterRoundEnd,
       WatchdogFail, CleanupExpired
<1>5. CASE \E w \in Workers : Worker(w)
  BY <1>1, <1>5 DEF Worker, WorkerTake, WorkerSkip, WorkerStart, WorkerCharge,
       WorkerAbort, WorkerSucceed, WorkerRaise, WorkerRequeue, WorkerSettle
<1>6. CASE Environment
  BY <1>1, <1>3, <1>6 DEF Environment, TimePasses, BackoffElapses,
       MembershipLapses, UserReturns, Start
<1>7. CASE UNCHANGED vars
  BY <1>1, <1>7 DEF vars
<1>8. QED
  BY <1>2, <1>4, <1>5, <1>6, <1>7 DEF Next

-----------------------------------------------------------------------------
(* The limit of active tasks *)

\* Only create_task makes a task active that was not.
LEMMA OnlyCreationActivates ==
  ASSUME ClaimInv, NoRetryOpen, [Next]_vars, NEW t \in Tasks,
         row'[t].status \in {"pending", "running"}
  PROVE  \/ row[t].status \in {"pending", "running"}
         \/ \E p \in Procs : CreateTask(p, t)
<1>1. CASE \E p \in Procs : MasterCommit(p) /\ t = master[p].claim
  BY <1>1 DEF ClaimInv, ClaimsHoldLock, MasterCommit
<1>2. CASE Written(t)
  BY <1>2 DEF Written, RetryWrite, NoRetryOpen
<1>3. QED
  BY <1>1, <1>2, MovesOfRows DEF RowMoves, ClaimInv

LEMMA LimitStep ==
  ASSUME ClaimInv, NoRetryOpen, ActiveWithinLimit, [Next]_vars
  PROVE  ActiveWithinLimit'
<1> SUFFICES ASSUME NEW type \in Types, UserLimit[type] > 0
             PROVE  Cardinality(Active(type)') <= UserLimit[type]
  BY DEF ActiveWithinLimit, Active
<1> DEFINE A == Active(type)
           B == Active(type)'
<1>1. A \subseteq Tasks /\ IsFiniteSet(A) /\ Cardinality(A) \in Nat
  BY TasksAssumption, FS_Subset, FS_CardinalityType DEF Active
<1>2. B \subseteq Tasks /\ IsFiniteSet(B) /\ Cardinality(B) \in Nat
  BY TasksAssumption, FS_Subset, FS_CardinalityType DEF Active
<1>3. Cardinality(A) <= UserLimit[type]
  BY DEF ActiveWithinLimit, Active
<1>4. UserLimit[type] \in Nat
  BY RegistryAssumption
<1>5. CASE B \subseteq A
  <2>1. Cardinality(B) <= Cardinality(A)
    BY <1>1, <1>5, FS_Subset
  <2>2. QED
    BY <1>1, <1>2, <1>3, <1>4, <2>1
<1>6. CASE ~(B \subseteq A)
  <2>1. PICK u \in B \ A : TRUE
    BY <1>6
  <2>2. u \in Tasks /\ TypeOf[u] = type /\ row'[u].status \in {"pending", "running"}
        /\ row[u].status \notin {"pending", "running"}
    BY <2>1 DEF Active, Is
  <2>3. PICK p \in Procs : CreateTask(p, u)
    BY <2>2, OnlyCreationActivates
  <2>4. Cardinality(A) < UserLimit[type]
    BY <2>2, <2>3 DEF CreateTask
  <2>5. B \subseteq A \cup {u}
    <3>1. \A t \in Tasks \ {u} : row'[t] = row[t]
      BY <2>3 DEF CreateTask, ClaimInv, TypeOK
    <3>2. QED
      BY <3>1 DEF Active, Is
  <2>6. IsFiniteSet(A \cup {u}) /\ Cardinality(A \cup {u}) = Cardinality(A) + 1
    BY <1>1, <2>1, FS_AddElement
  <2>7. Cardinality(B) <= Cardinality(A \cup {u})
    BY <2>5, <2>6, FS_Subset
  <2>8. QED
    BY <1>1, <1>2, <1>4, <2>4, <2>6, <2>7
<1>7. QED
  BY <1>5, <1>6

LimitInv == ClaimInv /\ NoRetryOpen /\ ActiveWithinLimit

LEMMA ClaimInvInductive ==
  /\ Init => ClaimInv
  /\ ClaimInv /\ [Next]_vars => ClaimInv'
<1>1. Init => ClaimInv
  BY InitType, IdleIsNotBusy DEF Init, BusyHasTask, ClaimInv, ClaimsHoldLock, MasterIdle
<1>2. ClaimInv /\ [Next]_vars => ClaimInv'
  BY TypeStep, BusyHasTaskStep, ClaimsHoldLockStep DEF ClaimInv
<1>3. QED
  BY <1>1, <1>2

\* Unless tasks are retried, a user never has more active tasks of a type than
\* register_handler allows, for every limit and any number of processes:
\* create_task counts and inserts under the write lock.
THEOREM LimitHolds == NoRetries => (Spec => []ActiveWithinLimit)
<1> SUFFICES ASSUME NoRetries PROVE Spec => []ActiveWithinLimit
  OBVIOUS
<1>1. Init => LimitInv
  <2> SUFFICES ASSUME Init PROVE LimitInv
    OBVIOUS
  <2>1. \A type \in Types : {t \in Tasks : TypeOf[t] = type /\ Is(t, {"pending", "running"})} = {}
    BY DEF Init, Is, Unborn
  <2>2. ActiveWithinLimit
    BY <2>1, FS_EmptySet, RegistryAssumption DEF ActiveWithinLimit
  <2>3. NoRetryOpen
    BY DEF Init, NoRetryOpen, ApiIdle
  <2>4. QED
    BY <2>2, <2>3, ClaimInvInductive DEF LimitInv
<1>2. LimitInv /\ [Next]_vars => LimitInv'
  BY ClaimInvInductive, NoRetryOpenStep, LimitStep DEF LimitInv, ClaimInv
<1>3. LimitInv => ActiveWithinLimit
  BY DEF LimitInv
<1>4. QED
  BY <1>1, <1>2, <1>3, PTL DEF Spec

-----------------------------------------------------------------------------
(* A task is carried once, as long as no task is retried while it is carried. *)

At(t, p, a, i) == i \in DOMAIN queue[p][a] /\ queue[p][a][i] = t
Runs(t, w) == worker[w].pc \in Busy /\ worker[w].task = t

\* No worker executes the task and no queue holds its identifier.
AtRest(t) ==
  /\ \A w \in Workers : ~Runs(t, w)
  /\ \A p \in Procs, a \in Pools : \A i \in Nat : ~At(t, p, a, i)

\* The retry route sends a task back to the table only after its last run has let go
\* of it.  It may be requested before.
RestsWhenRetried == \A p \in Procs : RetryWrite(p) => AtRest(api[p].task)
RetriesRest == [][RestsWhenRetried]_vars

LEMMA RestsInEveryStep ==
  ASSUME TypeOK, [RestsWhenRetried]_vars
  PROVE  RestsWhenRetried
<1> SUFFICES ASSUME UNCHANGED vars, NEW p \in Procs, RetryWrite(p) PROVE FALSE
  BY DEF RestsWhenRetried
<1>1. api[p].op = "retry" /\ api' = [api EXCEPT ![p] = ApiIdle]
  BY DEF RetryWrite
<1>2. api'[p].op = "none"
  BY <1>1 DEF TypeOK, ApiIdle
<1>3. QED
  BY <1>1, <1>2 DEF vars

\* The identifier of a task is at most once in all the queues, and not there
\* while a worker runs the task.
CarriedOnce ==
  \A t \in Tasks :
    /\ \A p, q \in Procs, a, b \in Pools : \A i, j \in Nat :
         At(t, p, a, i) /\ At(t, q, b, j) => p = q /\ a = b /\ i = j
    /\ \A p \in Procs, a \in Pools, w \in Workers : \A i \in Nat :
         ~(At(t, p, a, i) /\ Runs(t, w))
    /\ \A v, w \in Workers : Runs(t, v) /\ Runs(t, w) => v = w

\* A task that waits in the table is carried by nobody, except by the queue of a
\* process that is committing its claim.
WaitingIsFree ==
  \A t \in Tasks : row[t].status \in {"unborn", "pending"} =>
    /\ \A w \in Workers : ~Runs(t, w)
    /\ \A p \in Procs, a \in Pools : \A i \in Nat :
         At(t, p, a, i) => master[p].claim = t

CarryInv == ClaimInv /\ CarriedOnce /\ WaitingIsFree

\* The steps that change who carries what; every other step is quiet.
Quiet ==
  /\ UNCHANGED queue
  /\ \A w \in Workers : ~WorkerTake(w)
  /\ \A p \in Procs : ~Crash(p)
  /\ \A p \in Procs : master'[p].claim = master[p].claim \/ MasterCommit(p)

\* A request only writes the table: no route touches the queues in memory.
LEMMA RoutesLeaveQueues ==
  ASSUME NEW p \in Procs, Routes(p)
  PROVE  UNCHANGED queue
BY DEF Routes, CreateTask, CancelTask, RetryCheck, DeleteCheck, RetryCharge,
       RetryWrite, DeleteWrite, CleanupTasks

\* A worker changes the queues only when it takes a task or skips one.
LEMMA WorkersLeaveQueues ==
  ASSUME NEW w \in Workers, Worker(w), ~WorkerTake(w), ~WorkerSkip(w)
  PROVE  UNCHANGED queue
BY DEF Worker, WorkerStart, WorkerCharge, WorkerAbort, WorkerSucceed, WorkerRaise,
       WorkerRequeue, WorkerSettle

LEMMA StepKinds ==
  ASSUME TypeOK, [Next]_vars
  PROVE  \/ Quiet
         \/ \E w \in Workers : WorkerTake(w) \/ WorkerSkip(w)
         \/ \E p \in Procs : MasterClaim(p) /\ master'[p].claim # master[p].claim
         \/ \E p \in Procs : Crash(p)
<1> SUFFICES ASSUME \A w \in Workers : ~WorkerTake(w) /\ ~WorkerSkip(w),
                    \A p \in Procs : MasterClaim(p) => master'[p].claim = master[p].claim,
                    \A p \in Procs : ~Crash(p)
             PROVE  Quiet
  OBVIOUS
<1>1. UNCHANGED queue
  <2>1. ASSUME NEW p \in Procs, Master(p) PROVE UNCHANGED queue
    <3>1. CASE MasterClaim(p)
      <4> DEFINE u == Head(master[p].batch)
      <4>1. CASE ~Claimable(u)
        BY <3>1, <4>1 DEF MasterClaim
      <4>2. CASE Claimable(u)
        <5>1. master[p].batch \in Seq(Tasks) /\ master[p].batch # <<>>
          BY <3>1 DEF MasterClaim, TypeOK, MasterState
        <5>2. u \in Tasks /\ u # NoTask
          BY <5>1, TasksAssumption
        <5>3. master'[p].claim = u /\ master[p].claim = NoTask
          <6>1. master' = [master EXCEPT ![p].batch = Tail(@), ![p].claim = u]
            BY <3>1, <4>2 DEF MasterClaim
          <6>2. master[p] \in MasterState
            BY DEF TypeOK
          <6>3. QED
            BY <3>1, <6>1, <6>2 DEF MasterClaim, WriteLockFree, TypeOK, MasterState
        <5>4. QED
          BY <3>1, <5>2, <5>3
      <4>3. QED
        BY <4>1, <4>2
    <3>2. QED
      BY <2>1, <3>1 DEF Master, MasterScan, MasterCommit, MasterRoundEnd,
           WatchdogFail, CleanupExpired
  <2>2. (\E p \in Procs : Routes(p)) => UNCHANGED queue
    BY RoutesLeaveQueues
  <2>3. (\E w \in Workers : Worker(w)) => UNCHANGED queue
    BY WorkersLeaveQueues
  <2>4. Environment \/ UNCHANGED vars => UNCHANGED queue
    BY DEF Environment, TimePasses, BackoffElapses, MembershipLapses, UserReturns,
        Start, vars
  <2>5. QED
    BY <2>1, <2>2, <2>3, <2>4 DEF Next
<1>2. \A p \in Procs : master'[p].claim = master[p].claim \/ MasterCommit(p)
  BY MovesOfClaims DEF ClaimMoves
<1>3. QED
  BY <1>1, <1>2 DEF Quiet

LEMMA RunsOnlyByTaking ==
  ASSUME TypeOK, [Next]_vars, NEW w \in Workers, NEW t, Runs(t, w)', ~WorkerTake(w)
  PROVE  Runs(t, w)
BY MovesOfWorkers DEF WorkerMoves, Runs

LEMMA QuietCarry ==
  ASSUME CarryInv, RestsWhenRetried, [Next]_vars, Quiet
  PROVE  CarriedOnce' /\ WaitingIsFree'
<1> USE DEF CarryInv, ClaimInv
<1>1. ASSUME NEW w \in Workers, NEW t, Runs(t, w)' PROVE Runs(t, w)
  BY <1>1, RunsOnlyByTaking DEF Quiet
<1>2. \A t, p, a, i : At(t, p, a, i)' <=> At(t, p, a, i)
  BY DEF Quiet, At
<1>3. CarriedOnce'
  BY <1>1, <1>2 DEF CarriedOnce
<1>4. ASSUME NEW t \in Tasks, row'[t].status \in {"unborn", "pending"}
      PROVE  /\ \A w \in Workers : ~Runs(t, w)'
             /\ \A p \in Procs, a \in Pools : \A i \in Nat :
                  At(t, p, a, i)' => master'[p].claim = t
  <2>1. CASE row[t].status \in {"unborn", "pending"}
    <3>1. \A w \in Workers : ~Runs(t, w)'
      BY <1>1, <2>1 DEF WaitingIsFree
    <3>2. ASSUME NEW p \in Procs, NEW a \in Pools, NEW i \in Nat, At(t, p, a, i)'
          PROVE  master'[p].claim = t
      <4>1. master[p].claim = t
        BY <1>2, <2>1, <3>2 DEF WaitingIsFree
      <4>2. CASE MasterCommit(p)
        <5>1. row' = [row EXCEPT ![t] = Moved(@, "running")]
          BY <4>1, <4>2 DEF MasterCommit
        <5>2. row'[t] = Moved(row[t], "running") /\ row[t] \in Row
          BY <5>1 DEF TypeOK
        <5>3. QED
          BY <1>4, <5>2, StatusAfter
      <4>3. QED
        BY <4>1, <4>2 DEF Quiet
    <3>3. QED
      BY <3>1, <3>2
  <2>2. CASE row[t].status \notin {"unborn", "pending"}
    <3>1. Written(t)
      BY <1>4, <2>2, MovesOfRows DEF RowMoves
    <3>0. CASE \E p \in Procs : RetryWrite(p) /\ api[p].task = t
      <4>1. AtRest(t)
        BY <3>0 DEF RestsWhenRetried
      <4>2. QED
        BY <1>1, <1>2, <4>1 DEF AtRest
    <3> SUFFICES ASSUME ~ \E p \in Procs : RetryWrite(p) /\ api[p].task = t
                 PROVE  /\ \A w \in Workers : ~Runs(t, w)'
                        /\ \A p \in Procs, a \in Pools : \A i \in Nat :
                             At(t, p, a, i)' => master'[p].claim = t
      BY <3>0
    <3>2. PICK w \in Workers : WorkerRequeue(w) /\ worker[w].task = t /\ Endable(t)
      BY <1>4, <2>2, <3>1 DEF Written
    <3>3. Runs(t, w)
      BY <3>2 DEF Runs, WorkerRequeue, Step, Busy
    <3>4. \A p \in Procs, a \in Pools : \A i \in Nat : ~At(t, p, a, i)'
      BY <1>2, <3>3 DEF CarriedOnce
    <3>5. ~Runs(t, w)'
      <4>1. worker' = [VoidRuns({t}) EXCEPT ![w] = WorkerIdle]
        BY <3>2 DEF WorkerRequeue
      <4>2. worker'[w] = WorkerIdle
        BY <4>1, VoidRunsType DEF TypeOK
      <4>3. QED
        BY <4>2, IdleIsNotBusy DEF Runs
    <3>6. \A v \in Workers : ~Runs(t, v)'
      BY <1>1, <3>3, <3>5 DEF CarriedOnce
    <3>7. QED
      BY <3>4, <3>6
  <2>3. QED
    BY <2>1, <2>2
<1>5. QED
  BY <1>3, <1>4 DEF WaitingIsFree

LEMMA PoppedCarry ==
  ASSUME CarryInv, [Next]_vars, NEW x \in Workers, WorkerTake(x) \/ WorkerSkip(x)
  PROVE  CarriedOnce' /\ WaitingIsFree'
<1> USE DEF CarryInv, ClaimInv
<1> DEFINE P == ProcOf[x]
           A == WorkerPool[x]
<1>0. P \in Procs /\ A \in Pools /\ queue[P] \in [Pools -> Seq(Tasks)]
  BY ThreadsAssumption DEF TypeOK
<1>1. queue[P][A] \in Seq(Tasks) /\ queue[P][A] # <<>>
  BY <1>0 DEF WorkerTake, WorkerSkip, MyQueue
<1>2. UNCHANGED <<row, master>> /\ queue' = [queue EXCEPT ![P][A] = Tail(@)]
  BY DEF WorkerTake, WorkerSkip, PopQueue
<1>h. PICK h \in Tasks : h = Head(queue[P][A])
  BY <1>1
<1>3. At(h, P, A, 1)
  BY <1>1, <1>h DEF At
<1>4. ASSUME NEW t \in Tasks, NEW p \in Procs, NEW a \in Pools, NEW i \in Nat, At(t, p, a, i)'
      PROVE  IF p = P /\ a = A THEN At(t, p, a, i + 1) /\ i >= 1 ELSE At(t, p, a, i)
  <2>1. CASE p = P /\ a = A
    <3>1. queue'[p][a] = Tail(queue[p][a])
      BY <1>0, <1>2, <2>1 DEF TypeOK
    <3>2. i \in DOMAIN Tail(queue[p][a]) /\ Tail(queue[p][a])[i] = t
      BY <1>4, <3>1 DEF At
    <3>3. QED
      BY <1>1, <2>1, <3>2 DEF At
  <2>2. CASE ~(p = P /\ a = A)
    <3>1. queue'[p][a] = queue[p][a]
      BY <1>0, <1>2, <2>2 DEF TypeOK
    <3>2. QED
      BY <1>4, <2>2, <3>1 DEF At
  <2>3. QED
    BY <2>1, <2>2
<1>5. \A p \in Procs, a \in Pools : \A i \in Nat : ~At(h, p, a, i)'
  <2> SUFFICES ASSUME NEW p \in Procs, NEW a \in Pools, NEW i \in Nat, At(h, p, a, i)'
               PROVE  FALSE
    OBVIOUS
  <2>1. CASE p = P /\ a = A
    <3>1. At(h, P, A, i + 1) /\ i + 1 # 1
      BY <1>4, <2>1
    <3>2. QED
      BY <1>0, <1>3, <3>1 DEF CarriedOnce
  <2>2. CASE ~(p = P /\ a = A)
    <3>1. At(h, p, a, i)
      BY <1>4, <2>2
    <3>2. QED
      BY <1>0, <1>3, <2>2, <3>1 DEF CarriedOnce
  <2>3. QED
    BY <2>1, <2>2
<1>6. ASSUME NEW t \in Tasks, NEW w \in Workers, Runs(t, w)'
      PROVE  Runs(t, w) \/ (w = x /\ t = h /\ WorkerTake(x))
  <2>1. CASE WorkerTake(w)
    <3>0. worker[w].pc \notin Busy /\ worker'[w].pc \in Busy
      BY <1>6, <2>1 DEF WorkerTake, Step, Busy, Runs
    <3>1. WorkerTake(x) /\ w = x
      <4>1. ~WorkerSkip(x)
        BY <3>0 DEF WorkerSkip
      <4>2. WorkerTake(x)
        BY <4>1
      <4>3. w # x => worker'[w] = worker[w]
        BY <4>2 DEF WorkerTake, TypeOK
      <4>4. QED
        BY <3>0, <4>2, <4>3
    <3>2. worker'[x].task = h
      BY <1>h, <3>1 DEF WorkerTake, MyQueue, TypeOK
    <3>3. QED
      BY <1>6, <3>1, <3>2 DEF Runs
  <2>2. QED
    BY <1>6, <2>1, RunsOnlyByTaking
<1>7. WorkerTake(x) => row[h].status = "running"
  BY <1>h DEF WorkerTake, Is, MyQueue
<1>8. CarriedOnce'
  <2> SUFFICES ASSUME NEW t \in Tasks
               PROVE  /\ \A p, q \in Procs, a, b \in Pools : \A i, j \in Nat :
                           At(t, p, a, i)' /\ At(t, q, b, j)' => p = q /\ a = b /\ i = j
                      /\ \A p \in Procs, a \in Pools, w \in Workers : \A i \in Nat :
                           ~(At(t, p, a, i)' /\ Runs(t, w)')
                      /\ \A v, w \in Workers : Runs(t, v)' /\ Runs(t, w)' => v = w
    BY DEF CarriedOnce
  <2>1. ASSUME NEW p \in Procs, NEW q \in Procs, NEW a \in Pools, NEW b \in Pools,
               NEW i \in Nat, NEW j \in Nat, At(t, p, a, i)', At(t, q, b, j)'
        PROVE  p = q /\ a = b /\ i = j
    <3>1. PICK k \in Nat : At(t, p, a, k) /\ k = (IF p = P /\ a = A THEN i + 1 ELSE i)
      BY <1>4, <2>1
    <3>2. PICK l \in Nat : At(t, q, b, l) /\ l = (IF q = P /\ b = A THEN j + 1 ELSE j)
      BY <1>4, <2>1
    <3>3. p = q /\ a = b /\ k = l
      BY <3>1, <3>2 DEF CarriedOnce
    <3>4. QED
      BY <3>1, <3>2, <3>3
  <2>2. ASSUME NEW p \in Procs, NEW a \in Pools, NEW w \in Workers, NEW i \in Nat,
               At(t, p, a, i)', Runs(t, w)'
        PROVE  FALSE
    <3>1. \E k \in Nat : At(t, p, a, k)
      BY <1>4, <2>2
    <3>2. t # h
      BY <1>5, <2>2
    <3>3. QED
      BY <1>6, <2>2, <3>1, <3>2 DEF CarriedOnce
  <2>3. ASSUME NEW v \in Workers, NEW w \in Workers, Runs(t, v)', Runs(t, w)'
        PROVE  v = w
    <3>1. CASE t = h
      <4>1. \A u \in Workers : ~Runs(t, u)
        BY <1>0, <1>3, <3>1 DEF CarriedOnce
      <4>2. QED
        BY <1>6, <2>3, <4>1
    <3>2. CASE t # h
      BY <1>6, <2>3, <3>2 DEF CarriedOnce
    <3>3. QED
      BY <3>1, <3>2
  <2>4. QED
    BY <2>1, <2>2, <2>3
<1>9. WaitingIsFree'
  <2> SUFFICES ASSUME NEW t \in Tasks, row[t].status \in {"unborn", "pending"}
               PROVE  /\ \A w \in Workers : ~Runs(t, w)'
                      /\ \A p \in Procs, a \in Pools : \A i \in Nat :
                           At(t, p, a, i)' => master[p].claim = t
    BY <1>2 DEF WaitingIsFree
  <2>1. \A w \in Workers : ~Runs(t, w)'
    BY <1>6, <1>7 DEF WaitingIsFree
  <2>2. ASSUME NEW p \in Procs, NEW a \in Pools, NEW i \in Nat, At(t, p, a, i)'
        PROVE  master[p].claim = t
    <3>1. \E k \in Nat : At(t, p, a, k)
      BY <1>4, <2>2
    <3>2. QED
      BY <3>1 DEF WaitingIsFree
  <2>3. QED
    BY <2>1, <2>2
<1>10. QED
  BY <1>8, <1>9

LEMMA ClaimedCarry ==
  ASSUME CarryInv, [Next]_vars, NEW x \in Procs,
         MasterClaim(x), master'[x].claim # master[x].claim
  PROVE  CarriedOnce' /\ WaitingIsFree'
<1> USE DEF CarryInv, ClaimInv
<1> DEFINE h == Head(master[x].batch)
           A == PoolOf[TypeOf[h]]
<1>0. h \in Tasks /\ h # NoTask /\ A \in Pools
  <2>1. master[x].batch \in Seq(Tasks) /\ master[x].batch # <<>>
    BY DEF MasterClaim, TypeOK, MasterState
  <2>2. QED
    BY <2>1, TasksAssumption, RegistryAssumption
<1>1. Claimable(h)
  <2>1. CASE ~Claimable(h)
    <3>1. master' = [master EXCEPT ![x].batch = Tail(@)]
      BY <2>1 DEF MasterClaim
    <3>2. QED
      BY <3>1 DEF TypeOK, MasterState
  <2>2. QED
    BY <2>1
<1>2. /\ master' = [master EXCEPT ![x].batch = Tail(@), ![x].claim = h]
      /\ queue' = [queue EXCEPT ![x][A] = Append(@, h)]
      /\ UNCHANGED <<row, worker>>
  BY <1>1 DEF MasterClaim
<1> HIDE DEF h, A
<1>3. \A p \in Procs : master[p].claim = NoTask
  BY DEF MasterClaim, WriteLockFree
<1>4. master'[x].claim = h
  BY <1>2 DEF TypeOK, MasterState
<1>5. queue[x] \in [Pools -> Seq(Tasks)] /\ queue[x][A] \in Seq(Tasks)
  BY <1>0 DEF TypeOK
<1> DEFINE last == Len(queue[x][A]) + 1
<1>6. ASSUME NEW t \in Tasks, NEW p \in Procs, NEW a \in Pools, NEW i \in Nat, At(t, p, a, i)'
      PROVE  At(t, p, a, i) \/ (t = h /\ p = x /\ a = A /\ i = last)
  <2>1. CASE p = x /\ a = A
    <3>1. queue'[p][a] = Append(queue[p][a], h)
      BY <1>0, <1>2, <1>5, <2>1 DEF TypeOK
    <3>2. i \in DOMAIN Append(queue[p][a], h) /\ Append(queue[p][a], h)[i] = t
      BY <1>6, <3>1 DEF At
    <3>3. QED
      BY <1>0, <1>5, <2>1, <3>2 DEF At
  <2>2. CASE ~(p = x /\ a = A)
    <3>1. queue'[p][a] = queue[p][a]
      BY <1>2, <1>5, <2>2 DEF TypeOK
    <3>2. QED
      BY <1>6, <3>1 DEF At
  <2>3. QED
    BY <2>1, <2>2
<1>7. /\ \A w \in Workers : ~Runs(h, w)
      /\ \A p \in Procs, a \in Pools : \A i \in Nat : ~At(h, p, a, i)
  BY <1>0, <1>1, <1>3 DEF WaitingIsFree, Claimable, Is
<1>8. \A t, w : Runs(t, w)' <=> Runs(t, w)
  BY <1>2 DEF Runs
<1>9. CarriedOnce'
  BY <1>6, <1>7, <1>8 DEF CarriedOnce
<1>10. WaitingIsFree'
  <2> SUFFICES ASSUME NEW t \in Tasks, row[t].status \in {"unborn", "pending"}
               PROVE  /\ \A w \in Workers : ~Runs(t, w)'
                      /\ \A p \in Procs, a \in Pools : \A i \in Nat :
                           At(t, p, a, i)' => master'[p].claim = t
    BY <1>2 DEF WaitingIsFree
  <2>1. \A p \in Procs, a \in Pools : \A i \in Nat : ~At(t, p, a, i)
    BY <1>3, TasksAssumption DEF WaitingIsFree
  <2>2. \A w \in Workers : ~Runs(t, w)'
    BY <1>8 DEF WaitingIsFree
  <2>3. QED
    BY <1>4, <1>6, <2>1, <2>2
<1>11. QED
  BY <1>9, <1>10

LEMMA CrashedCarry ==
  ASSUME CarryInv, [Next]_vars, NEW x \in Procs, Crash(x)
  PROVE  CarriedOnce' /\ WaitingIsFree'
<1> USE DEF CarryInv, ClaimInv
<1>1. \A p \in Procs \ {x} : queue'[p] = queue[p] /\ master'[p] = master[p]
  BY DEF Crash, TypeOK
<1>2. ASSUME NEW t \in Tasks, NEW p \in Procs, NEW a \in Pools, NEW i \in Nat, At(t, p, a, i)'
      PROVE  p # x /\ At(t, p, a, i)
  <2>1. queue'[x] = [pool \in Pools |-> <<>>]
    BY DEF Crash, TypeOK
  <2>2. p # x
    BY <1>2, <2>1 DEF At
  <2>3. QED
    BY <1>1, <1>2, <2>2 DEF At
<1>3. ASSUME NEW t \in Tasks, NEW w \in Workers, Runs(t, w)'
      PROVE  Runs(t, w)
  <2>1. worker'[w] = WorkerIdle \/ worker'[w] = worker[w]
    BY DEF Crash, TypeOK
  <2>2. QED
    BY <1>3, <2>1, IdleIsNotBusy DEF Runs
<1>4. CarriedOnce'
  BY <1>2, <1>3 DEF CarriedOnce
<1>5. WaitingIsFree'
  <2>1. UNCHANGED row
    BY DEF Crash
  <2>2. QED
    BY <1>1, <1>2, <1>3, <2>1 DEF WaitingIsFree
<1>6. QED
  BY <1>4, <1>5

LEMMA CarryInductive ==
  /\ Init => CarryInv
  /\ CarryInv /\ [Next]_vars /\ [RestsWhenRetried]_vars => CarryInv'
<1>1. Init => CarryInv
  <2> SUFFICES ASSUME Init PROVE CarryInv
    OBVIOUS
  <2>1. \A t, p, a, i : p \in Procs /\ a \in Pools => ~At(t, p, a, i)
    BY DEF Init, At
  <2>2. \A t : \A w \in Workers : ~Runs(t, w)
    BY IdleIsNotBusy DEF Init, Runs
  <2>3. QED
    BY <2>1, <2>2, ClaimInvInductive DEF CarryInv, CarriedOnce, WaitingIsFree
<1>2. ASSUME CarryInv, [Next]_vars, [RestsWhenRetried]_vars PROVE CarryInv'
  <2>0. RestsWhenRetried
    BY <1>2, RestsInEveryStep DEF CarryInv, ClaimInv
  <2>1. ClaimInv'
    BY <1>2, ClaimInvInductive DEF CarryInv
  <2>2. CarriedOnce' /\ WaitingIsFree'
    BY <1>2, <2>0, StepKinds, QuietCarry, PoppedCarry, ClaimedCarry, CrashedCarry
    DEF CarryInv, ClaimInv
  <2>3. QED
    BY <2>1, <2>2 DEF CarryInv
<1>3. QED
  BY <1>1, <1>2

\* As long as no task is retried while it is carried, no two workers ever execute the
\* same task, for any number of processes and workers and whatever crashes: a claimed
\* task is in one queue or with one worker, and a waiting one with nobody.
THEOREM NoTaskRunsTwice == Spec /\ RetriesRest => []NoDoubleRun
<1>1. CarryInv => NoDoubleRun
  <2> SUFFICES ASSUME CarryInv, NEW v \in Workers, NEW w \in Workers,
                      worker[v].pc \in Busy, worker[w].pc \in Busy, v # w
               PROVE  worker[v].task # worker[w].task
    BY DEF NoDoubleRun
  <2>1. worker[v].task \in Tasks
    BY DEF CarryInv, ClaimInv, BusyHasTask
  <2>2. QED
    BY <2>1 DEF CarryInv, CarriedOnce, Runs
<1>2. QED
  BY <1>1, CarryInductive, PTL DEF Spec, RetriesRest

-----------------------------------------------------------------------------
(* A late result *)

Over == Terminal \cup {"deleted"}

\* The row of a run that is over in the database has ended, or is gone.
VoidIsOver ==
  \A w \in Workers : worker[w].pc \in Busy /\ worker[w].void => Is(worker[w].task, Over)

LEMMA OverIs ==
  /\ \A r \in Row : \A s \in Terminal : Moved(r, s).status \in Over
  /\ \A r \in Row : Canceled(r).status \in Over
  /\ Deleted.status \in Over
  /\ "failed" \in Terminal /\ "success" \in Terminal /\ "interrupted" \in Terminal
BY StatusAfter DEF Over, Terminal

\* A run becomes void with the write that ends its row, unless it is another
\* worker of the same task that sends the row back to the table.
LEMMA VoidedRuns ==
  ASSUME TypeOK, BusyHasTask, RestsWhenRetried, [Next]_vars,
         NEW w \in Workers, NEW t \in Tasks, Runs(t, w), ~worker[w].void, worker'[w].void, worker'[w].pc \in Busy
  PROVE  \/ row'[t].status \in Over
         \/ \E v \in Workers \ {w} : Runs(t, v)
<1> USE DEF Runs
<1>0. worker \in [Workers -> WorkerState] /\ row \in [Tasks -> Row]
  BY DEF TypeOK
<1>1. ASSUME NEW S, worker' = VoidRuns(S) PROVE t \in S
  BY <1>0, <1>1 DEF VoidRuns
<1>2. ASSUME NEW v \in Workers, worker' = [VoidRuns({worker[v].task}) EXCEPT ![v] = WorkerIdle]
      PROVE  v # w /\ worker[v].task = t
  <2>1. VoidRuns({worker[v].task}) \in [Workers -> WorkerState]
    BY <1>0, VoidRunsType DEF TypeOK
  <2>2. v # w
    BY <1>2, <2>1, IdleIsNotBusy
  <2>3. worker'[w] = VoidRuns({worker[v].task})[w]
    BY <1>2, <2>1, <2>2
  <2>4. QED
    BY <1>0, <2>2, <2>3 DEF VoidRuns
<1>3. worker' # worker
  BY <1>0
<1>4. ASSUME NEW p \in Procs, Routes(p) PROVE row'[t].status \in Over
  <2>1. CASE \E u \in Tasks : CancelTask(p, u)
    <3>1. PICK u \in Tasks : CancelTask(p, u)
      BY <2>1
    <3>2. u = t
      BY <1>1, <3>1 DEF CancelTask
    <3>3. row' = [row EXCEPT ![t] = Canceled(@)]
      BY <3>1, <3>2 DEF CancelTask
    <3>4. QED
      BY <1>0, <3>3, OverIs
  <2>2. ~RetryWrite(p)
    <3> SUFFICES ASSUME RetryWrite(p) PROVE FALSE
      OBVIOUS
    <3>1. worker' = VoidRuns({api[p].task})
      BY <1>3 DEF RetryWrite
    <3>2. api[p].task = t
      BY <1>1, <3>1
    <3>3. QED
      BY <3>2 DEF RestsWhenRetried, AtRest
  <2>3. CASE DeleteWrite(p)
    <3>1. /\ row' = [row EXCEPT ![api[p].task] = Deleted]
          /\ worker' = VoidRuns({api[p].task})
      BY <1>3, <2>3 DEF DeleteWrite
    <3>2. api[p].task = t
      BY <1>1, <3>1
    <3>3. QED
      BY <1>0, <3>1, <3>2, OverIs
  <2>4. CASE CleanupTasks(p)
    BY <1>1, <2>4, OverIs DEF CleanupTasks
  <2>5. QED
    BY <1>3, <1>4, <2>1, <2>2, <2>3, <2>4
    DEF Routes, CreateTask, RetryCheck, DeleteCheck, RetryCharge
<1>5. ASSUME NEW p \in Procs, Master(p) PROVE row'[t].status \in Over
  <2>1. CASE WatchdogFail(p)
    <3>1. PICK u : row' = [row EXCEPT ![u] = Moved(@, "failed")] /\ worker' = VoidRuns({u})
      BY <1>3, <2>1 DEF WatchdogFail
    <3>2. u = t
      BY <1>1, <3>1
    <3>3. QED
      BY <1>0, <3>1, <3>2, OverIs
  <2>2. CASE CleanupExpired(p)
    BY <1>1, <2>2, OverIs DEF CleanupExpired
  <2>3. QED
    BY <1>3, <1>5, <2>1, <2>2 DEF Master, MasterScan, MasterClaim, MasterCommit, MasterRoundEnd
<1>6. ASSUME NEW v \in Workers, Worker(v) PROVE v # w /\ Runs(t, v)
  <2>1. ASSUME worker' = [worker EXCEPT ![v] = WorkerIdle] \/ worker' = [worker EXCEPT ![v] = WorkerDead]
        PROVE  FALSE
    BY <1>0, <2>1 DEF WorkerIdle, WorkerDead
  <2>2. ASSUME NEW x, worker' = [worker EXCEPT ![v].pc = x] PROVE FALSE
    BY <1>0, <2>2 DEF WorkerState
  <2>3. ASSUME NEW u, worker' = [worker EXCEPT ![v] = [pc |-> "start", task |-> u, void |-> FALSE]]
        PROVE  FALSE
    BY <1>0, <2>3
  <2>4. worker' = [VoidRuns({worker[v].task}) EXCEPT ![v] = WorkerIdle] /\ worker[v].pc \in Busy
    <3>1. ~WorkerTake(v)
      BY <2>3 DEF WorkerTake
    <3>2. ~WorkerSkip(v)
      BY <1>3 DEF WorkerSkip
    <3>3. ~WorkerStart(v)
      BY <2>2 DEF WorkerStart
    <3>4. ~WorkerCharge(v)
      BY <2>1, <2>2 DEF WorkerCharge
    <3>5. ~WorkerAbort(v)
      BY <2>1 DEF WorkerAbort
    <3>6. CASE WorkerSucceed(v)
      BY <2>1, <3>6 DEF WorkerSucceed, Step, Busy
    <3>7. ~WorkerRaise(v)
      BY <2>1, <2>2 DEF WorkerRaise
    <3>8. CASE WorkerRequeue(v)
      BY <2>1, <3>8 DEF WorkerRequeue, Step, Busy
    <3>9. CASE WorkerSettle(v)
      BY <2>1, <3>9 DEF WorkerSettle, Step, Busy
    <3>10. QED
      BY <1>6, <3>1, <3>2, <3>3, <3>4, <3>5, <3>6, <3>7, <3>8, <3>9 DEF Worker
  <2>5. QED
    BY <1>2, <2>4
<1>7. ASSUME Environment PROVE row'[t].status \in Over
  <2>1. ASSUME NEW p \in Procs, Crash(p) PROVE FALSE
    BY <1>0, <2>1 DEF Crash, WorkerIdle
  <2>2. ASSUME NEW p \in Procs, Start(p) PROVE row'[t].status \in Over
    BY <1>0, <1>1, <2>2, OverIs DEF Start
  <2>3. QED
    BY <1>3, <1>7, <2>1, <2>2 DEF Environment, TimePasses, BackoffElapses, MembershipLapses,
         UserReturns
<1>8. QED
  BY <1>3, <1>4, <1>5, <1>6, <1>7 DEF Next, vars

\* The row of a task that somebody still runs is not brought back.
LEMMA OverStaysOver ==
  ASSUME ClaimInv, RestsWhenRetried, [Next]_vars, NEW t \in Tasks, Is(t, Over),
         NEW w \in Workers, Runs(t, w)
  PROVE  row'[t].status \in Over
<1>1. row[t].status \notin {"unborn", "pending", "running"}
  BY DEF Is, Over, Terminal
<1>2. ~ \E p \in Procs : MasterCommit(p) /\ t = master[p].claim
  BY <1>1 DEF ClaimInv, ClaimsHoldLock, MasterCommit
<1>3. ~ \E p \in Procs : RetryWrite(p) /\ api[p].task = t
  BY DEF RestsWhenRetried, AtRest
<1>4. row'[t].status = row[t].status \/ Written(t)
  BY <1>2, MovesOfRows DEF RowMoves, ClaimInv
<1>5. QED
  BY <1>1, <1>3, <1>4 DEF Is, Over, Written

LEMMA VoidIsOverStep ==
  ASSUME CarryInv, RestsWhenRetried, VoidIsOver, [Next]_vars
  PROVE  VoidIsOver'
<1> USE DEF CarryInv, ClaimInv
<1> SUFFICES ASSUME NEW w \in Workers, worker'[w].pc \in Busy, worker'[w].void
             PROVE  row'[worker'[w].task].status \in Over
  BY DEF VoidIsOver, Is
<1>1. ~WorkerTake(w)
  BY DEF WorkerTake, TypeOK
<1>2. worker[w].pc \in Busy /\ worker'[w].task = worker[w].task
  BY <1>1, MovesOfWorkers DEF WorkerMoves
<1>3. PICK t \in Tasks : t = worker[w].task
  BY <1>2 DEF BusyHasTask
<1>4. Runs(t, w)
  BY <1>2, <1>3 DEF Runs
<1>5. CASE worker[w].void
  BY <1>2, <1>3, <1>4, <1>5, OverStaysOver DEF VoidIsOver
<1>6. CASE ~worker[w].void
  <2>1. ~ \E v \in Workers \ {w} : Runs(t, v)
    BY <1>4 DEF CarriedOnce
  <2>2. QED
    BY <1>2, <1>3, <1>4, <1>6, <2>1, VoidedRuns
<1>7. QED
  BY <1>5, <1>6 DEF TypeOK, WorkerState

\* As long as no task is retried while it is carried, a worker whose run was canceled,
\* timed out or cut short by a restart leaves the row as it is when it reports: the
\* ended row is not running again before, and every write of a worker asks for a
\* running one.
THEOREM LateNeverWritten == Spec /\ RetriesRest => LateResultDropped
<1>1. Init => VoidIsOver
  BY IdleIsNotBusy DEF Init, VoidIsOver
<1>2. CarryInv /\ VoidIsOver /\ [Next]_vars /\ [RestsWhenRetried]_vars
        => CarryInv' /\ VoidIsOver'
  BY CarryInductive, VoidIsOverStep, RestsInEveryStep DEF CarryInv, ClaimInv
<1>3. CarryInv /\ VoidIsOver /\ [Next]_vars =>
        \A w \in Workers :
          worker[w].pc \in Busy /\ worker[w].void /\ worker'[w].pc = "idle"
            => row'[worker[w].task] = row[worker[w].task]
  <2> SUFFICES ASSUME CarryInv, VoidIsOver, [Next]_vars, NEW w \in Workers,
                      worker[w].pc \in Busy, worker[w].void, worker'[w].pc = "idle"
               PROVE  row'[worker[w].task] = row[worker[w].task]
    OBVIOUS
  <2> USE DEF CarryInv, ClaimInv
  <2>0. worker \in [Workers -> WorkerState] /\ worker'[w].pc # worker[w].pc
    BY DEF TypeOK, Busy
  <2>1. worker' # worker
    BY <2>0
  <2>2. \A S : worker' # VoidRuns(S)
    BY <2>0, VoidRunsKeep
  <2>3. PICK t \in Tasks : t = worker[w].task
    BY DEF BusyHasTask
  <2>4. row[t].status \notin {"unborn", "pending", "running"}
    BY <2>3 DEF VoidIsOver, Is, Over, Terminal
  <2>5. ASSUME NEW p \in Procs, Routes(p) \/ Master(p) PROVE FALSE
    BY <2>1, <2>2, <2>5 DEF Routes, CreateTask, CancelTask, RetryCheck, DeleteCheck, RetryCharge,
         RetryWrite, DeleteWrite, CleanupTasks, Master, MasterScan, MasterClaim, MasterCommit,
         MasterRoundEnd, WatchdogFail, CleanupExpired
  <2>6. ASSUME NEW v \in Workers, Worker(v) PROVE UNCHANGED row
    <3>1. CASE v = w
      <4>1. ~Endable(t) /\ ~Is(t, {"running"})
        BY <2>4 DEF Endable, Is
      <4>2. QED
        BY <2>1, <2>3, <2>6, <3>1, <4>1 DEF Worker, WorkerTake, WorkerSkip, WorkerStart,
           WorkerCharge, WorkerAbort, WorkerSucceed, WorkerRaise, WorkerRequeue, WorkerSettle
    <3>2. CASE v # w
      <4>1. worker'[w] = worker[w] \/ worker'[w] = VoidRuns({worker[v].task})[w]
        BY <2>0, <2>6, <3>2, VoidRunsType DEF TypeOK, Worker, WorkerTake, WorkerSkip, WorkerStart,
           WorkerCharge, WorkerAbort, WorkerSucceed, WorkerRaise, WorkerRequeue, WorkerSettle
      <4>2. QED
        BY <2>0, <4>1, VoidRunsKeep
    <3>3. QED
      BY <3>1, <3>2
  <2>7. ASSUME Environment PROVE UNCHANGED row
    BY <2>1, <2>2, <2>7 DEF Environment, TimePasses, BackoffElapses, MembershipLapses,
       UserReturns, Start, Crash
  <2>8. QED
    BY <2>1, <2>5, <2>6, <2>7 DEF Next, vars
<1>4. QED
  BY <1>1, <1>2, <1>3, CarryInductive, PTL DEF Spec, RetriesRest, LateResultDropped

\* In particular both hold in any number of processes as long as the retry route is
\* not used.
THEOREM NoRetryNoSecondRun == NoRetries => (Spec => []NoDoubleRun /\ LateResultDropped)
<1> SUFFICES ASSUME NoRetries PROVE Spec => []NoDoubleRun /\ LateResultDropped
  OBVIOUS
<1>1. Init => NoRetryOpen
  BY DEF Init, NoRetryOpen, ApiIdle
<1>2. TypeOK /\ NoRetryOpen /\ [Next]_vars => NoRetryOpen'
  BY NoRetryOpenStep
<1>3. NoRetryOpen => [RestsWhenRetried]_vars
  BY DEF NoRetryOpen, RestsWhenRetried, RetryWrite
<1>4. Spec => RetriesRest
  BY <1>1, <1>2, <1>3, TypeCorrect, PTL DEF Spec, RetriesRest
<1>5. QED
  BY <1>4, NoTaskRunsTwice, LateNeverWritten

-----------------------------------------------------------------------------
(* What is charged, as long as no two processes retry one task at the same   *)
(* time.                                                                     *)

OneProcess == \A p, q \in Procs : p = q

\* No two retries of a task are between their check and their write.
RetriesApart ==
  \A p, q \in Procs :
    api[p].op = "retry" /\ api[q].op = "retry" /\ api[p].task = api[q].task => p = q

\* A retry is asked for an ended row, which may be cleared meanwhile, and it owes or
\* has paid a fee exactly if the row was refunded or delivered.
RetrySound ==
  \A p \in Procs :
    IF api[p].op = "retry"
    THEN /\ api[p].task \in Tasks
         /\ Is(api[p].task, Terminal \cup {"deleted"})
         /\ Is(api[p].task, Live) => (api[p].fee = "none" <=> ~Is(api[p].task, Recharged))
    ELSE api[p].fee = "none"

\* Only a handler that pays for itself charges, or gives up over a refused charge.
HandlerPays ==
  \A w \in Workers :
    worker[w].pc \in {"charge", "settle402"} => Billing[worker[w].task] = "handler"

LedgerInv == ClaimInv /\ RetriesApart /\ RetrySound /\ HandlerPays

LEMMA StatusSets ==
  /\ Terminal = {"success", "failed", "interrupted", "canceled"}
  /\ Live = {"pending", "running", "success", "failed", "interrupted", "canceled"}
  /\ Status = Live \cup {"unborn", "deleted"}
  /\ Recharged = {"failed", "success"}
BY DEF Terminal, Live, Status, Recharged

\* At most one paid retry of a task is under way: what is in flight for it is 0 or 1.
OneCharge ==
  \A p, q \in Procs :
    api[p].fee = "paid" /\ api[q].fee = "paid" /\ api[p].task = api[q].task => p = q

LEMMA ChargesApart ==
  ASSUME RetriesApart, RetrySound
  PROVE  OneCharge
BY DEF RetriesApart, RetrySound, OneCharge

Flying(t) == \E p \in Procs : api[p].fee = "paid" /\ api[p].task = t

LEMMA InFlightIs ==
  ASSUME OneCharge, NEW t \in Tasks
  PROVE  Cardinality(InFlight(t)) = IF Flying(t) THEN 1 ELSE 0
<1>1. CASE Flying(t)
  <2>1. PICK p \in Procs : api[p].fee = "paid" /\ api[p].task = t
    BY <1>1 DEF Flying
  <2>2. InFlight(t) = {p}
    BY <2>1 DEF InFlight, OneCharge
  <2>3. QED
    BY <1>1, <2>2, FS_Singleton
<1>2. CASE ~Flying(t)
  <2>1. InFlight(t) = {}
    BY <1>2 DEF Flying, InFlight
  <2>2. QED
    BY <1>2, <2>1, FS_EmptySet
<1>3. QED
  BY <1>1, <1>2

LEMMA SettledIs ==
  ASSUME OneCharge
  PROVE  \A t \in Tasks : Settled(t) = credit[t] - (IF Flying(t) THEN 1 ELSE 0)
BY InFlightIs DEF Settled

LEMMA SettledIsNext ==
  ASSUME OneCharge'
  PROVE  \A t \in Tasks : Settled(t)' = credit'[t] - (IF Flying(t)' THEN 1 ELSE 0)
<1>1. ASSUME NEW t \in Tasks PROVE Cardinality(InFlight(t))' = IF Flying(t)' THEN 1 ELSE 0
  <2>1. CASE Flying(t)'
    <3>1. PICK p \in Procs : api'[p].fee = "paid" /\ api'[p].task = t
      BY <2>1 DEF Flying
    <3>2. InFlight(t)' = {p}
      BY <3>1 DEF InFlight, OneCharge
    <3>3. QED
      BY <2>1, <3>2, FS_Singleton
  <2>2. CASE ~Flying(t)'
    <3>1. InFlight(t)' = {}
      BY <2>2 DEF Flying, InFlight
    <3>2. QED
      BY <2>2, <3>1, FS_EmptySet
  <2>3. QED
    BY <2>1, <2>2
<1>2. QED
  BY <1>1 DEF Settled

-----------------------------------------------------------------------------
LEMMA RetrySoundStep ==
  ASSUME LedgerInv, [Next]_vars
  PROVE  RetrySound'
<1> USE DEF LedgerInv, ClaimInv
<1>0. TypeOK /\ TypeOK'
  BY TypeStep
<1> SUFFICES ASSUME NEW p \in Procs
             PROVE  IF api'[p].op = "retry"
                    THEN /\ api'[p].task \in Tasks
                         /\ row'[api'[p].task].status \in Terminal \cup {"deleted"}
                         /\ row'[api'[p].task].status \in Live =>
                              (api'[p].fee = "none" <=> row'[api'[p].task].status \notin Recharged)
                    ELSE api'[p].fee = "none"
  BY DEF RetrySound, Is
<1>1. api[p] \in ApiState /\ ApiIdle.op = "none" /\ ApiIdle.fee = "none" /\ ApiIdle \in ApiState
  BY <1>0, LocalTypes DEF TypeOK, ApiIdle
<1>2. CASE api'[p] = ApiIdle
  BY <1>1, <1>2
<1>3. ASSUME NEW t \in Tasks, RetryCheck(p, t)
      PROVE  /\ api'[p].op = "retry" /\ api'[p].task = t /\ UNCHANGED row
             /\ row[t].status \in Terminal
             /\ api'[p].fee = "none" <=> row[t].status \notin Recharged
  BY <1>0, <1>3 DEF RetryCheck, Is, TypeOK
<1>4. CASE \E t \in Tasks : RetryCheck(p, t)
  BY <1>3, <1>4, StatusSets
\* The request goes on: its row can only be cleared under it, as no other process
\* retries it.
<1>5. ASSUME api'[p].op = api[p].op, api'[p].task = api[p].task,
             api'[p].fee = "none" <=> api[p].fee = "none",
             ~RetryWrite(p), api[p].op = "retry"
      PROVE  /\ row'[api[p].task].status \in Terminal \cup {"deleted"}
             /\ row'[api[p].task].status \in Live => row'[api[p].task].status = row[api[p].task].status
  <2> DEFINE t == api[p].task
  <2>1. t \in Tasks /\ row[t].status \in Terminal \cup {"deleted"}
    BY <1>5 DEF RetrySound, Is
  <2>2. ~ \E q \in Procs : MasterCommit(q) /\ t = master[q].claim
    BY <2>1, StatusSets DEF ClaimsHoldLock, MasterCommit
  <2>3. row'[t].status = row[t].status \/ row'[t].status = "deleted"
    <3>1. RowMoves(t)
      BY <1>0, <2>1, MovesOfRows
    <3>2. CASE Written(t)
      <4>1. ASSUME NEW q \in Procs, RetryWrite(q), api[q].task = t PROVE FALSE
        BY <1>5, <2>1, <4>1 DEF RetriesApart, RetryWrite
      <4>2. QED
        BY <2>1, <3>2, <4>1, StatusSets DEF Written
    <3>3. QED
      BY <2>2, <3>1, <3>2 DEF RowMoves
  <2>4. QED
    BY <2>1, <2>3, StatusSets
<1>6. CASE /\ api'[p].op = api[p].op /\ api'[p].task = api[p].task
           /\ api'[p].fee = "none" <=> api[p].fee = "none"
           /\ ~RetryWrite(p)
           /\ api[p].op = "retry"
  BY <1>5, <1>6 DEF RetrySound, Is
<1>7. CASE api'[p] = api[p] /\ ~RetryWrite(p)
  BY <1>1, <1>6, <1>7 DEF RetrySound
<1>8. CASE Routes(p)
  <2>2. CASE RetryCharge(p)
    <3>1. api[p].fee = "owed" /\ api[p].op = "retry"
      BY <2>2 DEF RetryCharge, RetrySound, ApiIdle
    <3>2. ~RetryWrite(p)
      BY <3>1 DEF RetryWrite
    <3>3. CASE api' = [api EXCEPT ![p] = ApiIdle]
      BY <1>0, <1>2, <3>3 DEF TypeOK
    <3>4. CASE api' = [api EXCEPT ![p].fee = "paid"]
      <4>1. /\ api'[p].op = api[p].op /\ api'[p].task = api[p].task
            /\ api'[p].fee = "paid"
        BY <1>0, <1>1, <3>4 DEF TypeOK, ApiState
      <4>2. QED
        BY <1>6, <3>1, <3>2, <4>1
    <3>5. QED
      BY <2>2, <3>3, <3>4 DEF RetryCharge
  <2>3. CASE RetryWrite(p) \/ DeleteWrite(p)
    BY <1>0, <1>2, <2>3 DEF RetryWrite, DeleteWrite, TypeOK
  <2>4. CASE \E t \in Tasks : DeleteCheck(p, t)
    BY <1>0, <2>4 DEF DeleteCheck, TypeOK
  <2>5. CASE (\E t \in Tasks : CreateTask(p, t) \/ CancelTask(p, t)) \/ CleanupTasks(p)
    BY <1>7, <2>5 DEF CreateTask, CancelTask, CleanupTasks, Serving, RetryWrite
  <2>6. QED
    BY <1>4, <1>8, <2>2, <2>3, <2>4, <2>5 DEF Routes
\* A request of another process.
<1>9. ASSUME NEW q \in Procs \ {p}, Routes(q) \/ Crash(q) PROVE api'[p] = api[p] /\ ~RetryWrite(p)
  <2>1. UNCHANGED api \/ \E x : api' = [api EXCEPT ![q] = x]
    <3>1. ASSUME NEW t \in Tasks, RetryCheck(q, t) \/ DeleteCheck(q, t)
          PROVE  \E x : api' = [api EXCEPT ![q] = x]
      BY <3>1 DEF RetryCheck, DeleteCheck
    <3>2. CASE RetryCharge(q)
      BY <3>2 DEF RetryCharge
    <3>3. CASE RetryWrite(q) \/ DeleteWrite(q) \/ Crash(q)
      BY <3>3 DEF RetryWrite, DeleteWrite, Crash
    <3>4. CASE (\E t \in Tasks : CreateTask(q, t) \/ CancelTask(q, t)) \/ CleanupTasks(q)
      BY <3>4 DEF CreateTask, CancelTask, CleanupTasks
    <3>5. QED
      BY <1>9, <3>1, <3>2, <3>3, <3>4 DEF Routes
  <2>2. api'[p] = api[p]
    BY <1>0, <2>1 DEF TypeOK
  <2>3. QED
    BY <1>0, <1>1, <2>2 DEF RetryWrite, TypeOK, ApiIdle
<1>10. ASSUME UNCHANGED api PROVE api'[p] = api[p] /\ ~RetryWrite(p)
  BY <1>0, <1>1, <1>10 DEF RetryWrite, TypeOK, ApiIdle
<1>11. CASE \E q \in Procs : Master(q)
  BY <1>7, <1>10, <1>11 DEF Master, MasterScan, MasterClaim, MasterCommit, MasterRoundEnd,
       WatchdogFail, CleanupExpired
<1>12. CASE \E w \in Workers : Worker(w)
  BY <1>7, <1>10, <1>12 DEF Worker, WorkerTake, WorkerSkip, WorkerStart, WorkerCharge,
       WorkerAbort, WorkerSucceed, WorkerRaise, WorkerRequeue, WorkerSettle
<1>13. CASE Environment
  <2>1. Crash(p) => api'[p] = ApiIdle
    BY <1>0 DEF Crash, TypeOK
  <2>2. CASE \A q \in Procs : ~Crash(q)
    BY <1>7, <1>10, <1>13, <2>2 DEF Environment, TimePasses, BackoffElapses, MembershipLapses,
         UserReturns, Start
  <2>3. QED
    BY <1>2, <1>7, <1>9, <2>1, <2>2
<1>14. CASE UNCHANGED vars
  BY <1>7, <1>10, <1>14 DEF vars
<1>15. QED
  BY <1>7, <1>8, <1>9, <1>11, <1>12, <1>13, <1>14 DEF Next

LEMMA HandlerPaysStep ==
  ASSUME LedgerInv, [Next]_vars
  PROVE  HandlerPays'
<1> USE DEF LedgerInv, ClaimInv
<1>0. TypeOK /\ BusyHasTask
  OBVIOUS
<1> DEFINE Pays(x) == x.pc \in {"charge", "settle402"} => Billing[x.task] = "handler"
<1> SUFFICES ASSUME NEW w \in Workers PROVE Pays(worker'[w])
  BY DEF HandlerPays
<1>1. Pays(worker[w]) /\ worker[w] \in WorkerState
  BY DEF HandlerPays, TypeOK
<1>2. CASE UNCHANGED worker
  BY <1>1, <1>2
<1>3. ASSUME NEW S, worker' = VoidRuns(S) PROVE Pays(worker'[w])
  BY <1>0, <1>1, <1>3, VoidRunsKeep DEF TypeOK
<1>4. ASSUME NEW p \in Procs, Routes(p) PROVE Pays(worker'[w])
  BY <1>2, <1>3, <1>4 DEF Routes, CreateTask, CancelTask, RetryCheck, DeleteCheck,
       RetryCharge, RetryWrite, DeleteWrite, CleanupTasks
<1>5. ASSUME NEW p \in Procs, Master(p) PROVE Pays(worker'[w])
  BY <1>2, <1>3, <1>5 DEF Master, MasterScan, MasterClaim, MasterCommit,
       MasterRoundEnd, WatchdogFail, CleanupExpired
<1>6. ASSUME NEW v \in Workers, Worker(v) PROVE Pays(worker'[w])
  <2> DEFINE t == worker[v].task
  <2>1. \/ UNCHANGED worker
        \/ worker' = [worker EXCEPT ![v] = WorkerIdle]
        \/ worker' = [worker EXCEPT ![v] = WorkerDead]
        \/ worker' = [VoidRuns({t}) EXCEPT ![v] = WorkerIdle]
        \/ \E x \in {"run", "requeue", "settle"} : worker' = [worker EXCEPT ![v].pc = x]
        \/ Billing[t] = "handler" /\ (\E x : worker' = [worker EXCEPT ![v].pc = x])
        \/ worker' = [worker EXCEPT ![v] = [pc |-> "start", task |-> Head(MyQueue(v)), void |-> FALSE]]
    <3>1. CASE WorkerTake(v)
      BY <3>1 DEF WorkerTake
    <3>2. CASE WorkerSkip(v)
      BY <3>2 DEF WorkerSkip
    <3>3. CASE WorkerStart(v)
      BY <3>3 DEF WorkerStart
    <3>4. CASE WorkerCharge(v)
      BY <3>4 DEF WorkerCharge, Step, HandlerPays
    <3>5. CASE WorkerAbort(v)
      BY <3>5 DEF WorkerAbort
    <3>6. CASE WorkerSucceed(v)
      BY <3>6 DEF WorkerSucceed
    <3>7. CASE WorkerRaise(v)
      BY <3>7 DEF WorkerRaise
    <3>8. CASE WorkerRequeue(v)
      BY <3>8 DEF WorkerRequeue
    <3>9. CASE WorkerSettle(v)
      BY <3>9 DEF WorkerSettle
    <3>10. QED
      BY <1>6, <3>1, <3>2, <3>3, <3>4, <3>5, <3>6, <3>7, <3>8, <3>9 DEF Worker
  <2>2. VoidRuns({t}) \in [Workers -> WorkerState] /\ VoidRuns({t})[w].pc = worker[w].pc
        /\ VoidRuns({t})[w].task = worker[w].task
    BY <1>0, VoidRunsType, VoidRunsKeep DEF TypeOK
  <2>3. WorkerIdle.pc = "idle" /\ WorkerDead.pc = "dead"
    BY DEF WorkerIdle, WorkerDead
  <2>4. ASSUME NEW x, worker' = [worker EXCEPT ![v] = x], x.pc \notin {"charge", "settle402"}
        PROVE  Pays(worker'[w])
    BY <1>0, <1>1, <2>4 DEF TypeOK
  <2>5. ASSUME NEW x \in {"run", "requeue", "settle"}, worker' = [worker EXCEPT ![v].pc = x]
        PROVE  Pays(worker'[w])
    BY <1>0, <1>1, <2>5 DEF TypeOK, WorkerState
  <2>6. CASE worker' = [VoidRuns({t}) EXCEPT ![v] = WorkerIdle]
    BY <1>1, <2>2, <2>3, <2>6
  <2>7. ASSUME NEW x, worker' = [worker EXCEPT ![v].pc = x], Billing[t] = "handler"
        PROVE  Pays(worker'[w])
    BY <1>0, <1>1, <2>7 DEF TypeOK, WorkerState
  <2>8. QED
    BY <1>2, <2>1, <2>3, <2>4, <2>5, <2>6, <2>7
<1>7. CASE Environment
  <2>1. ASSUME NEW p \in Procs, Crash(p) PROVE Pays(worker'[w])
    BY <1>0, <1>1, <2>1 DEF Crash, TypeOK, WorkerIdle
  <2>2. QED
    BY <1>2, <1>3, <1>7, <2>1 DEF Environment, TimePasses, BackoffElapses,
         MembershipLapses, UserReturns, Start
<1>8. CASE UNCHANGED vars
  BY <1>2, <1>8 DEF vars
<1>9. QED
  BY <1>4, <1>5, <1>6, <1>7, <1>8 DEF Next

-----------------------------------------------------------------------------
(* The contract.  Tasks are prepaid and nobody deletes a row by hand: then   *)
(* every step is one step of TaskLifecycle, or none.                         *)

AllPrepaid == \A t \in Tasks : Billing[t] = "prepaid"
NoDeletes == "delete" \notin ApiOps

Contract == AllPrepaid /\ NoDeletes

\* The refinement mapping of Promise.
Face == [t \in Tasks |-> CASE row[t].status = "unborn"  -> "none"
                           [] row[t].status = "deleted" -> "removed"
                           [] OTHER                     -> row[t].status]
Charged == [t \in Tasks |-> IF Is(t, Live) THEN Settled(t) ELSE 0]

NoDeleteOpen == \A p \in Procs : api[p].op # "delete"
NoHandlerCharge == \A w \in Workers : worker[w].pc \notin {"charge", "settle402"}

PromiseInv == LedgerInv /\ NoDeleteOpen /\ NoHandlerCharge

LEMMA NoDeleteOpenStep ==
  ASSUME NoDeletes, TypeOK, NoDeleteOpen, [Next]_vars
  PROVE  NoDeleteOpen'
<1> USE DEF NoDeleteOpen, TypeOK, ApiState
<1>0. ApiIdle.op # "delete"
  BY DEF ApiIdle
<1>1. CASE UNCHANGED api
  BY <1>1
<1>2. ASSUME NEW p \in Procs, Routes(p) PROVE NoDeleteOpen'
  <2>1. ~DeleteWrite(p) /\ \A t \in Tasks : ~DeleteCheck(p, t)
    BY DEF DeleteWrite, DeleteCheck, NoDeletes
  <2>2. CASE \E t \in Tasks : RetryCheck(p, t)
    BY <2>2 DEF RetryCheck
  <2>3. CASE RetryCharge(p)
    <3>1. api' = [api EXCEPT ![p].fee = "paid"] \/ api' = [api EXCEPT ![p] = ApiIdle]
      BY <2>3 DEF RetryCharge
    <3>2. QED
      BY ZenonT(60), <1>0, <3>1
  <2>4. CASE RetryWrite(p)
    BY <1>0, <2>4 DEF RetryWrite
  <2>5. QED
    BY <1>1, <1>2, <2>1, <2>2, <2>3, <2>4 DEF Routes, CreateTask, CancelTask, CleanupTasks
<1>3. ASSUME NEW p \in Procs, Crash(p) PROVE NoDeleteOpen'
  BY <1>0, <1>3 DEF Crash
<1>4. CASE \E p \in Procs : Master(p)
  BY <1>1, <1>4 DEF Master, MasterScan, MasterClaim, MasterCommit, MasterRoundEnd,
       WatchdogFail, CleanupExpired
<1>5. CASE \E w \in Workers : Worker(w)
  BY <1>1, <1>5 DEF Worker, WorkerTake, WorkerSkip, WorkerStart, WorkerCharge,
       WorkerAbort, WorkerSucceed, WorkerRaise, WorkerRequeue, WorkerSettle
<1>6. CASE Environment
  BY <1>1, <1>3, <1>6 DEF Environment, TimePasses, BackoffElapses,
       MembershipLapses, UserReturns, Start
<1>7. CASE UNCHANGED vars
  BY <1>1, <1>7 DEF vars
<1>8. QED
  BY <1>2, <1>4, <1>5, <1>6, <1>7 DEF Next

(* What a step is for the user *)

LEMMA SameFace ==
  ASSUME UNCHANGED <<api, credit>>, \A t \in Tasks : row'[t].status = row[t].status
  PROVE  UNCHANGED <<Face, Charged>>
<1>1. Face' = Face
  BY DEF Face
<1>2. \A t \in Tasks : Settled(t)' = Settled(t)
  BY DEF Settled, InFlight
<1>3. Charged' = Charged
  BY <1>2 DEF Charged, Is
<1>4. QED
  BY <1>1, <1>3

\* One row moves and gives up its charge.
LEMMA OneMoves ==
  ASSUME OneCharge, TypeOK, TypeOK', UNCHANGED api,
         NEW t \in Tasks, NEW s \in Live,
         row[t].status \in Live, row'[t].status = s,
         \A u \in Tasks \ {t} : row'[u].status = row[u].status,
         credit' = [credit EXCEPT ![t] = @ - 1]
  PROVE  /\ Face[t] = row[t].status
         /\ Face' = [Face EXCEPT ![t] = s]
         /\ Charged' = [Charged EXCEPT ![t] = @ + (-1)]
<1>1. Face[t] = row[t].status /\ Face' = [Face EXCEPT ![t] = s]
  BY StatusSets DEF Face
<1>2. \A u \in Tasks : Flying(u)' <=> Flying(u)
  BY DEF Flying
<1>3. Settled(t)' = Settled(t) - 1
  <2>1. credit'[t] = credit[t] - 1 /\ credit[t] \in Int
    BY DEF TypeOK
  <2>2. OneCharge'
    BY DEF OneCharge
  <2>3. QED
    BY <1>2, <2>1, <2>2, SettledIs, SettledIsNext
<1>4. \A u \in Tasks \ {t} : Settled(u)' = Settled(u)
  BY DEF Settled, InFlight, TypeOK
<1>5. Settled(t) \in Int
  <2>1. credit[t] \in Int /\ (Settled(t) = credit[t] - 0 \/ Settled(t) = credit[t] - 1)
    BY SettledIs DEF TypeOK
  <2>2. QED
    BY <2>1
<1>6. Charged' = [Charged EXCEPT ![t] = @ + (-1)]
  BY <1>3, <1>4, <1>5 DEF Charged, Is
<1>7. QED
  BY <1>1, <1>6

LEMMA OneMovesFree ==
  ASSUME TypeOK, TypeOK', UNCHANGED <<api, credit>>,
         NEW t \in Tasks, NEW s \in Live,
         row[t].status \in Live, row'[t].status = s,
         \A u \in Tasks \ {t} : row'[u].status = row[u].status
  PROVE  /\ Face[t] = row[t].status
         /\ Face' = [Face EXCEPT ![t] = s]
         /\ Charged' = Charged
<1>1. Face[t] = row[t].status /\ Face' = [Face EXCEPT ![t] = s]
  BY StatusSets DEF Face
<1>2. \A u \in Tasks : Settled(u)' = Settled(u)
  BY DEF Settled, InFlight
<1>3. Charged' = Charged
  BY <1>2 DEF Charged, Is
<1>4. QED
  BY <1>1, <1>3

Lives(t) ==
  \/ Promise!Submit(t) \/ Promise!Begin(t) \/ Promise!Deliver(t) \/ Promise!Fail(t)
  \/ Promise!Again(t) \/ Promise!Cancel(t) \/ Promise!Retry(t) \/ Promise!LoseCharge(t)
PromiseStep ==
  \/ UNCHANGED <<Face, Charged>>
  \/ \E t \in Tasks : Lives(t)
  \/ Promise!Interrupt \/ Promise!Remove

\* The contract's steps in terms of the mapping.
LEMMA Becoming ==
  ASSUME NEW t, NEW from, NEW to
  PROVE  Promise!Becomes(t, from, to) <=> (Face[t] \in from /\ Face' = [Face EXCEPT ![t] = to])
BY DEF Face, Promise!Becomes

LEMMA Paying ==
  ASSUME NEW t, NEW n
  PROVE  Promise!Pays(t, n) <=> Charged' = [Charged EXCEPT ![t] = @ + n]
BY DEF Charged, Promise!Pays

LEMMA ContractMoves ==
  ASSUME NEW t
  PROVE  /\ Promise!Submit(t) <=> Promise!Becomes(t, {"none"}, "pending") /\ Promise!Pays(t, 1)
         /\ Promise!Begin(t) <=> Promise!Becomes(t, {"pending"}, "running") /\ Charged' = Charged
         /\ Promise!Deliver(t) <=> Promise!Becomes(t, {"running"}, "success") /\ Promise!Pays(t, -1)
         /\ Promise!Fail(t) <=> Promise!Becomes(t, {"running"}, "failed") /\ Promise!Pays(t, -1)
         /\ Promise!Again(t) <=> Promise!Becomes(t, {"running"}, "pending") /\ Charged' = Charged
         /\ Promise!Cancel(t) <=> /\ Promise!Becomes(t, {"pending", "running"}, "canceled")
                                 /\ Charged' = Charged
<1>1. Promise!Submit(t) <=> Promise!Becomes(t, {"none"}, "pending") /\ Promise!Pays(t, 1)
  BY DEF Promise!Submit
<1>2. Promise!Begin(t) <=> Promise!Becomes(t, {"pending"}, "running") /\ Charged' = Charged
  BY DEF Promise!Begin, Charged
<1>3. Promise!Deliver(t) <=> Promise!Becomes(t, {"running"}, "success") /\ Promise!Pays(t, -1)
  BY DEF Promise!Deliver
<1>4. Promise!Fail(t) <=> Promise!Becomes(t, {"running"}, "failed") /\ Promise!Pays(t, -1)
  BY DEF Promise!Fail
<1>5. Promise!Again(t) <=> Promise!Becomes(t, {"running"}, "pending") /\ Charged' = Charged
  BY DEF Promise!Again, Charged
<1>6. Promise!Cancel(t) <=> /\ Promise!Becomes(t, {"pending", "running"}, "canceled")
                           /\ Charged' = Charged
  BY DEF Promise!Cancel, Charged
<1>7. QED
  BY <1>1, <1>2, <1>3, <1>4, <1>5, <1>6

\* The two writes that end a run and settle its charge.
LEMMA EndedRefunded ==
  ASSUME OneCharge, TypeOK, TypeOK', UNCHANGED api, NEW t \in Tasks, Endable(t),
         credit' = [credit EXCEPT ![t] = @ - 1]
  PROVE  /\ row' = [row EXCEPT ![t] = Moved(@, "success")] => Promise!Deliver(t)
         /\ row' = [row EXCEPT ![t] = Moved(@, "failed")] => Promise!Fail(t)
<1>1. row[t].status = "running"
  BY DEF Endable, Is
<1>2. ASSUME NEW s \in {"success", "failed"}, row' = [row EXCEPT ![t] = Moved(@, s)]
      PROVE  Promise!Becomes(t, {"running"}, s) /\ Promise!Pays(t, -1)
  <2>1. row'[t].status = s /\ \A u \in Tasks \ {t} : row'[u].status = row[u].status
    BY <1>2, StatusAfter DEF TypeOK
  <2>2. s \in Live /\ row[t].status \in Live
    BY <1>1, StatusSets
  <2>3. Face[t] = "running" /\ Face' = [Face EXCEPT ![t] = s]
        /\ Charged' = [Charged EXCEPT ![t] = @ + (-1)]
    BY <1>1, <2>1, <2>2, OneMoves
  <2>4. Promise!Becomes(t, {"running"}, s)
    BY <2>3, Becoming
  <2>5. Promise!Pays(t, -1)
    BY <2>3, Paying
  <2>6. QED
    BY <2>4, <2>5
<1>3. QED
  BY <1>2, ContractMoves

LEMMA ClearedIsRemoved ==
  ASSUME NEW gone, gone \subseteq {t \in Tasks : Is(t, Terminal)}, UNCHANGED <<api, credit>>,
         row' = [t \in Tasks |-> IF t \in gone THEN Deleted ELSE row[t]]
  PROVE  Promise!Remove
<1>1. gone \in SUBSET {t \in Tasks : Face[t] \in Promise!Ended}
  BY StatusSets DEF Face, Is, Promise!Ended
<1>2. Face' = [t \in Tasks |-> IF t \in gone THEN "removed" ELSE Face[t]]
  BY StatusAfter DEF Face
<1>3. \A t \in Tasks : Settled(t)' = Settled(t)
  BY DEF Settled, InFlight
<1>4. \A t \in gone : Is(t, Live)' = FALSE
  BY StatusAfter, StatusSets DEF Is
<1>5. \A t \in Tasks \ gone : Is(t, Live)' = Is(t, Live)
  BY DEF Is
<1>6. Charged' = [t \in Tasks |-> IF t \in gone THEN 0 ELSE Charged[t]]
  BY <1>3, <1>4, <1>5 DEF Charged
<1>7. QED
  BY <1>1, <1>2, <1>6 DEF Promise!Remove, Face, Charged

-----------------------------------------------------------------------------
LEMMA RoutesKeepPromise ==
  ASSUME Contract, PromiseInv, OneCharge, OneCharge', TypeOK', NEW p \in Procs, Routes(p)
  PROVE  PromiseStep
<1> USE DEF PromiseInv, LedgerInv, ClaimInv
<1>0. TypeOK
  OBVIOUS
<1>1. ASSUME NEW t \in Tasks, CreateTask(p, t) PROVE Promise!Submit(t)
  <2>1. row[t].status = "unborn" /\ UNCHANGED api /\ credit' = [credit EXCEPT ![t] = 1]
    BY <1>1 DEF CreateTask, Contract, AllPrepaid
  <2>2. PICK n : row' = [row EXCEPT ![t] = Submitted(n)]
    BY <1>1 DEF CreateTask
  <2>3. row'[t].status = "pending" /\ \A u \in Tasks \ {t} : row'[u] = row[u]
    BY <1>0, <2>2, StatusAfter DEF TypeOK
  <2>4. Face[t] = "none" /\ Face' = [Face EXCEPT ![t] = "pending"]
    BY <2>1, <2>3 DEF Face
  <2>5. ASSUME NEW q \in Procs, api[q].fee = "paid", api[q].task = t PROVE FALSE
    BY <2>1, <2>5, StatusSets DEF RetrySound, ApiIdle, Is
  <2>6. ~Flying(t)'
    BY <2>1, <2>5 DEF Flying
  <2>7. Settled(t)' = 1
    BY <1>0, <2>1, <2>6, SettledIsNext DEF TypeOK
  <2>8. \A u \in Tasks \ {t} : Settled(u)' = Settled(u) /\ Is(u, Live)' = Is(u, Live)
    BY <1>0, <2>1, <2>3 DEF Settled, InFlight, TypeOK, Is
  <2>9. Is(t, Live)' /\ ~Is(t, Live)
    BY <2>1, <2>3, StatusSets DEF Is
  <2>10. Charged' = [Charged EXCEPT ![t] = @ + 1]
    <3>1. Charged[t] = 0 /\ Charged'[t] = 1
      BY <2>7, <2>9 DEF Charged
    <3>2. \A u \in Tasks \ {t} : Charged'[u] = Charged[u]
      BY <2>8 DEF Charged
    <3>3. Charged' = [u \in Tasks |-> Charged'[u]] /\ Charged = [u \in Tasks |-> Charged[u]]
      BY DEF Charged
    <3>4. QED
      BY <3>1, <3>2, <3>3
  <2>11. QED
    BY <2>4, <2>10, ContractMoves, Becoming, Paying
<1>2. ASSUME NEW t \in Tasks, CancelTask(p, t) PROVE Promise!Cancel(t)
  <2>1. row[t].status \in {"pending", "running"} /\ UNCHANGED <<api, credit>>
        /\ row' = [row EXCEPT ![t] = Canceled(@)]
    BY <1>2 DEF CancelTask, Cancelable, Is
  <2>2. row'[t].status = "canceled" /\ \A u \in Tasks \ {t} : row'[u] = row[u]
    BY <1>0, <2>1, StatusAfter DEF TypeOK
  <2>3. Face[t] = row[t].status /\ Face' = [Face EXCEPT ![t] = "canceled"] /\ Charged' = Charged
    BY <1>0, <2>1, <2>2, StatusSets, OneMovesFree
  <2>4. QED
    BY <2>1, <2>3, ContractMoves, Becoming
<1>3. CASE \E t \in Tasks : RetryCheck(p, t)
  <2>1. PICK t \in Tasks : RetryCheck(p, t)
    BY <1>3
  <2>2. \A q \in Procs \ {p} : api'[q] = api[q]
    BY <1>0, <2>1 DEF RetryCheck, TypeOK
  <2>3. UNCHANGED <<row, credit>> /\ api[p].fee = "none" /\ api'[p].fee # "paid"
    BY <1>0, <2>1 DEF RetryCheck, Serving, RetrySound, ApiIdle, TypeOK
  <2>4. \A u : Flying(u)' <=> Flying(u)
    BY <2>2, <2>3 DEF Flying
  <2>5. \A u \in Tasks : Settled(u)' = Settled(u)
    BY <2>3, <2>4, SettledIs, SettledIsNext
  <2>6. UNCHANGED <<Face, Charged>>
    BY <2>3, <2>5 DEF Face, Charged, Is
  <2>7. QED
    BY <2>6 DEF PromiseStep
\* The charge and its request cancel out until the row is written.
<1>4. CASE RetryCharge(p)
  <2>0. api[p].op = "retry" /\ api[p].task \in Tasks
    BY <1>4 DEF RetryCharge, RetrySound, ApiIdle
  <2> PICK t \in Tasks : t = api[p].task
    BY <2>0
  <2>1. /\ t = api[p].task /\ UNCHANGED row /\ api[p].fee = "owed"
        /\ \A q \in Procs \ {p} : /\ api'[q] = api[q]
                                 /\ ~(api[q].fee = "paid" /\ api[q].task = t)
    BY <1>0, <1>4, <2>0 DEF RetryCharge, RetrySound, RetriesApart, TypeOK
  <2>2. CASE credit' = [credit EXCEPT ![t] = @ + 1] /\ api' = [api EXCEPT ![p].fee = "paid"]
    <3>1. api'[p].fee = "paid" /\ api'[p].task = t
      BY <1>0, <2>1, <2>2 DEF TypeOK, ApiState
    <3>2. ~Flying(t) /\ Flying(t)' /\ \A u \in Tasks \ {t} : Flying(u)' <=> Flying(u)
      BY <2>1, <3>1 DEF Flying
    <3>3. credit'[t] = credit[t] + 1 /\ \A u \in Tasks \ {t} : credit'[u] = credit[u]
      BY <1>0, <2>1, <2>2 DEF TypeOK
    <3>4. \A u \in Tasks : Settled(u)' = Settled(u)
      <4>1. Settled(t) = credit[t] - 0
        BY <3>2, SettledIs
      <4>2. Settled(t)' = credit'[t] - 1
        BY <3>2, SettledIsNext
      <4>3. \A u \in Tasks \ {t} : Settled(u)' = Settled(u)
        BY <3>2, <3>3, SettledIs, SettledIsNext
      <4>4. credit[t] \in Int
        BY <1>0 DEF TypeOK
      <4>5. QED
        BY <3>3, <4>1, <4>2, <4>3, <4>4
    <3>5. QED
      BY <2>1, <3>4 DEF Face, Charged, Is, PromiseStep
  <2>3. CASE api' = [api EXCEPT ![p] = ApiIdle] /\ UNCHANGED credit
    <3>1. api'[p].fee = "none"
      BY <1>0, <2>3 DEF TypeOK, ApiIdle
    <3>2. \A u : Flying(u)' <=> Flying(u)
      BY <2>1, <3>1 DEF Flying
    <3>3. \A u \in Tasks : Settled(u)' = Settled(u)
      BY <2>3, <3>2, SettledIs, SettledIsNext
    <3>4. QED
      BY <2>1, <3>3 DEF Face, Charged, Is, PromiseStep
  <2>4. QED
    BY <1>4, <2>1, <2>2, <2>3 DEF RetryCharge
<1>5. CASE RetryWrite(p)
  <2>0. api[p].task \in Tasks
    BY <1>5 DEF RetryWrite, RetrySound
  <2> PICK t \in Tasks : t = api[p].task
    BY <2>0
  <2>1. /\ t = api[p].task /\ row[t].status \in Terminal \cup {"deleted"}
        /\ row[t].status \in Live => (api[p].fee = "none" <=> row[t].status \notin Recharged)
        /\ api[p].fee \in {"none", "paid"} /\ UNCHANGED credit
        /\ \A q \in Procs \ {p} : /\ api'[q] = api[q]
                                 /\ ~(api[q].fee = "paid" /\ api[q].task = t)
    BY <1>0, <1>5 DEF RetryWrite, RetrySound, Is, RetriesApart, TypeOK, ApiState
  <2>2. api'[p].fee = "none"
    BY <1>0, <1>5 DEF RetryWrite, TypeOK, ApiIdle
  <2>3. /\ ~Flying(t)' /\ (Flying(t) <=> api[p].fee = "paid")
        /\ \A u \in Tasks \ {t} : Flying(u)' <=> Flying(u)
    BY <2>1, <2>2 DEF Flying
  <2>4. \A u \in Tasks \ {t} : Settled(u)' = Settled(u)
    BY <1>0, <2>1, <2>3, SettledIs, SettledIsNext DEF TypeOK
  <2>5. CASE row[t].status \notin Live
    <3>1. UNCHANGED row
      BY <1>5, <2>1, <2>5 DEF RetryWrite, Is
    <3>2. QED
      BY <2>4, <2>5, <3>1 DEF Face, Charged, Is, PromiseStep
  <2>6. CASE row[t].status \in Live
    <3>1. row' = [row EXCEPT ![t] = Resubmitted(@)]
      BY <1>5, <2>1, <2>6 DEF RetryWrite, Is
    <3>2. row'[t].status = "pending" /\ \A u \in Tasks \ {t} : row'[u] = row[u]
      BY <1>0, <2>1, <3>1, StatusAfter DEF TypeOK
    <3>3. Face[t] = row[t].status /\ Face' = [Face EXCEPT ![t] = "pending"]
      <4>1. Face[t] = row[t].status /\ Face'[t] = "pending"
        BY <2>1, <2>6, <3>2, StatusSets DEF Face
      <4>2. \A u \in Tasks \ {t} : Face'[u] = Face[u]
        BY <3>2 DEF Face
      <4>3. Face' = [u \in Tasks |-> Face'[u]] /\ Face = [u \in Tasks |-> Face[u]]
        BY DEF Face
      <4>4. QED
        BY <4>1, <4>2, <4>3
    <3>4. Settled(t)' = Settled(t) + (IF row[t].status \in {"interrupted", "canceled"} THEN 0 ELSE 1)
      <4>1. credit[t] \in Int /\ credit'[t] = credit[t] /\ Settled(t)' = credit'[t] - 0
        BY <1>0, <2>1, <2>3, SettledIsNext DEF TypeOK
      <4>2. CASE api[p].fee = "paid"
        <5>1. row[t].status \in {"failed", "success"} /\ Settled(t) = credit[t] - 1
          BY <2>1, <2>3, <2>6, <4>2, SettledIs, StatusSets
        <5>2. QED
          BY <4>1, <5>1
      <4>3. CASE api[p].fee = "none"
        <5>1. row[t].status \in {"interrupted", "canceled"} /\ Settled(t) = credit[t] - 0
          BY <2>1, <2>3, <2>6, <4>3, SettledIs, StatusSets
        <5>2. QED
          BY <4>1, <5>1
      <4>4. QED
        BY <2>1, <4>2, <4>3
    <3>5. row'[t].status \in Live /\ \A u \in Tasks \ {t} : row'[u].status = row[u].status
      BY <2>6, <3>2, StatusSets
    <3>6. Charged' = [Charged EXCEPT
                        ![t] = @ + (IF row[t].status \in {"interrupted", "canceled"} THEN 0 ELSE 1)]
      <4>1. Charged[t] = Settled(t) /\ Charged'[t] = Settled(t)'
        BY <2>1, <2>6, <3>5 DEF Charged, Is
      <4>2. \A u \in Tasks \ {t} : Charged'[u] = Charged[u]
        BY <2>4, <3>5 DEF Charged, Is
      <4>3. Charged' = [u \in Tasks |-> Charged'[u]] /\ Charged = [u \in Tasks |-> Charged[u]]
        BY DEF Charged
      <4>4. QED
        BY <3>4, <4>1, <4>2, <4>3
    <3>7. Promise!Retry(t)
      <4>1. Promise!Becomes(t, Promise!Ended, "pending")
        BY <2>1, <2>6, <3>3, StatusSets, Becoming DEF Promise!Ended
      <4>2. Promise!Pays(t, IF Face[t] \in Promise!Kept THEN 0 ELSE 1)
        BY <3>3, <3>6, Paying DEF Promise!Kept
      <4>3. QED
        BY <4>1, <4>2 DEF Promise!Retry, Face
    <3>8. QED
      BY <2>1, <3>7 DEF PromiseStep, Lives
  <2>7. QED
    BY <2>5, <2>6
<1>6. ~DeleteWrite(p) /\ \A t \in Tasks : ~DeleteCheck(p, t)
  BY DEF DeleteWrite, DeleteCheck, NoDeleteOpen, Contract, NoDeletes
<1>7. CASE CleanupTasks(p)
  <2>1. Promise!Remove
    BY <1>7, ClearedIsRemoved DEF CleanupTasks
  <2>2. QED
    BY <2>1 DEF PromiseStep
<1>8. QED
  BY <1>1, <1>2, <1>3, <1>4, <1>5, <1>6, <1>7 DEF Routes, PromiseStep, Lives

LEMMA MasterKeepsPromise ==
  ASSUME Contract, PromiseInv, OneCharge, OneCharge', TypeOK', NEW p \in Procs, Master(p)
  PROVE  PromiseStep
<1> USE DEF PromiseInv, LedgerInv, ClaimInv
<1>0. TypeOK
  OBVIOUS
<1>1. CASE UNCHANGED <<row, credit, api>>
  BY <1>1, SameFace DEF PromiseStep
<1>2. CASE MasterCommit(p)
  <2>0. master[p].claim \in Tasks /\ row[master[p].claim].status = "pending"
    BY <1>2 DEF MasterCommit, ClaimsHoldLock
  <2> PICK t \in Tasks : t = master[p].claim
    BY <2>0
  <2>1. row[t].status = "pending"
    BY <2>0
  <2>2. row' = [row EXCEPT ![t] = Moved(@, "running")] /\ UNCHANGED <<api, credit>>
    BY <1>2 DEF MasterCommit
  <2>3. row'[t].status = "running" /\ \A u \in Tasks \ {t} : row'[u] = row[u]
    BY <1>0, <2>1, <2>2, StatusAfter DEF TypeOK
  <2>4. Face[t] = "pending" /\ Face' = [Face EXCEPT ![t] = "running"] /\ Charged' = Charged
    BY <1>0, <2>1, <2>2, <2>3, StatusSets, OneMovesFree
  <2>5. Promise!Begin(t)
    BY <2>4, ContractMoves, Becoming
  <2>6. QED
    BY <2>1, <2>5 DEF PromiseStep, Lives
<1>3. CASE WatchdogFail(p)
  <2>1. PICK t \in master[p].overdue :
          \/ UNCHANGED <<row, credit>>
          \/ /\ Endable(t) /\ row' = [row EXCEPT ![t] = Moved(@, "failed")]
             /\ credit' = [credit EXCEPT ![t] = @ - 1]
    BY <1>3 DEF WatchdogFail
  <2>2. t \in Tasks /\ UNCHANGED api
    BY <1>0, <1>3 DEF TypeOK, MasterState, WatchdogFail
  <2>3. CASE /\ Endable(t) /\ row' = [row EXCEPT ![t] = Moved(@, "failed")]
             /\ credit' = [credit EXCEPT ![t] = @ - 1]
    BY <1>0, <2>2, <2>3, EndedRefunded DEF PromiseStep, Lives
  <2>4. QED
    BY <1>1, <2>1, <2>2, <2>3
<1>4. CASE CleanupExpired(p)
  <2>1. Promise!Remove
    BY <1>4, ClearedIsRemoved DEF CleanupExpired
  <2>2. QED
    BY <2>1 DEF PromiseStep
<1>5. QED
  BY <1>1, <1>2, <1>3, <1>4 DEF Master, MasterScan, MasterClaim, MasterRoundEnd

LEMMA WorkersKeepPromise ==
  ASSUME Contract, PromiseInv, OneCharge, OneCharge', TypeOK', NEW w \in Workers, Worker(w)
  PROVE  PromiseStep
<1> USE DEF PromiseInv, LedgerInv, ClaimInv
<1>0. TypeOK
  OBVIOUS
<1>1. CASE UNCHANGED <<row, credit, api>>
  BY <1>1, SameFace DEF PromiseStep
<1>2. CASE WorkerStart(w)
  <2> DEFINE t == worker[w].task
  <2>1. CASE Is(t, {"running"})
    <3>1. row' = [row EXCEPT ![t] = Moved(@, "running")] /\ UNCHANGED <<api, credit>>
      BY <1>2, <2>1 DEF WorkerStart
    <3>2. \A u \in Tasks : row'[u].status = row[u].status
      BY <1>0, <2>1, <3>1, StatusAfter DEF Is, TypeOK
    <3>3. QED
      BY <3>1, <3>2, SameFace DEF PromiseStep
  <2>2. CASE ~Is(t, {"running"})
    BY <1>1, <1>2, <2>2 DEF WorkerStart
  <2>3. QED
    BY <2>1, <2>2
<1>3. ~WorkerCharge(w)
  BY DEF WorkerCharge, Step, NoHandlerCharge
<1>4. CASE WorkerSucceed(w)
  <2>0. worker[w].task \in Tasks
    BY <1>4 DEF WorkerSucceed, Step, Busy, BusyHasTask
  <2> PICK t \in Tasks : t = worker[w].task
    BY <2>0
  <2>1. t = worker[w].task /\ UNCHANGED api
    BY <1>4 DEF WorkerSucceed
  <2>2. CASE Endable(t)
    <3>1. /\ row' = [row EXCEPT ![t] = Moved(@, "success")]
          /\ credit' = [credit EXCEPT ![t] = @ - 1]
      BY <1>4, <2>1, <2>2 DEF WorkerSucceed
    <3>2. QED
      BY <1>0, <2>1, <2>2, <3>1, EndedRefunded DEF PromiseStep, Lives
  <2>3. CASE ~Endable(t)
    BY <1>1, <1>4, <2>1, <2>3 DEF WorkerSucceed
  <2>4. QED
    BY <2>2, <2>3
<1>5. CASE WorkerRequeue(w)
  <2>0. worker[w].task \in Tasks
    BY <1>5 DEF WorkerRequeue, Step, Busy, BusyHasTask
  <2> PICK t \in Tasks : t = worker[w].task
    BY <2>0
  <2>1. t = worker[w].task /\ UNCHANGED <<api, credit>>
    BY <1>5 DEF WorkerRequeue
  <2>2. CASE Endable(t)
    <3>1. row' = [row EXCEPT ![t] = BackedOff(@)] /\ row[t].status = "running"
      BY <1>5, <2>1, <2>2 DEF WorkerRequeue, Endable, Is
    <3>2. row'[t].status = "pending" /\ \A u \in Tasks \ {t} : row'[u] = row[u]
      BY <1>0, <2>1, <3>1, StatusAfter DEF TypeOK
    <3>3. Face[t] = "running" /\ Face' = [Face EXCEPT ![t] = "pending"] /\ Charged' = Charged
      BY <1>0, <2>1, <3>1, <3>2, StatusSets, OneMovesFree
    <3>4. Promise!Again(t)
      BY <3>3, ContractMoves, Becoming
    <3>5. QED
      BY <2>1, <3>4 DEF PromiseStep, Lives
  <2>3. CASE ~Endable(t)
    BY <1>1, <1>5, <2>1, <2>3 DEF WorkerRequeue
  <2>4. QED
    BY <2>2, <2>3
<1>6. CASE WorkerSettle(w)
  <2>0. worker[w].task \in Tasks
    BY <1>6 DEF WorkerSettle, Step, Busy, BusyHasTask
  <2> PICK t \in Tasks : t = worker[w].task
    BY <2>0
  <2>1. t = worker[w].task /\ UNCHANGED api /\ worker[w].pc = "settle"
    BY <1>6 DEF WorkerSettle, Step, NoHandlerCharge
  <2>2. \/ UNCHANGED <<row, credit>>
        \/ /\ Endable(t) /\ row' = [row EXCEPT ![t] = Moved(@, "failed")]
           /\ credit' = [credit EXCEPT ![t] = @ - 1]
    BY <1>6, <2>1 DEF WorkerSettle
  <2>3. CASE /\ Endable(t) /\ row' = [row EXCEPT ![t] = Moved(@, "failed")]
             /\ credit' = [credit EXCEPT ![t] = @ - 1]
    BY <1>0, <2>1, <2>3, EndedRefunded DEF PromiseStep, Lives
  <2>4. QED
    BY <1>1, <2>1, <2>2, <2>3
<1>7. QED
  BY <1>1, <1>2, <1>3, <1>4, <1>5, <1>6
  DEF Worker, WorkerTake, WorkerSkip, WorkerAbort, WorkerRaise

LEMMA EnvironmentKeepsPromise ==
  ASSUME Contract, PromiseInv, OneCharge, OneCharge', TypeOK', Environment
  PROVE  PromiseStep
<1> USE DEF PromiseInv, LedgerInv, ClaimInv
<1>0. TypeOK
  OBVIOUS
<1>1. ASSUME NEW t \in Tasks, TimePasses(t) \/ BackoffElapses(t) PROVE PromiseStep
  <2>1. \A u \in Tasks : row'[u].status = row[u].status
    <3>1. row \in [Tasks -> Row] /\ (\/ row' = [row EXCEPT ![t].aged = TRUE]
                                    \/ row' = [row EXCEPT ![t].due = TRUE])
      BY <1>0, <1>1 DEF TimePasses, BackoffElapses, TypeOK
    <3>2. QED
      BY <3>1 DEF Row
  <2>2. QED
    BY <1>1, <2>1, SameFace DEF TimePasses, BackoffElapses, PromiseStep
<1>2. CASE MembershipLapses \/ UserReturns
  BY <1>2, SameFace DEF MembershipLapses, UserReturns, PromiseStep
\* A crash loses the charge of a retry that was not yet written.
<1>3. ASSUME NEW p \in Procs, Crash(p) PROVE PromiseStep
  <2>1. /\ UNCHANGED <<row, credit>>
        /\ \A q \in Procs \ {p} : api'[q] = api[q]
    BY <1>0, <1>3 DEF Crash, TypeOK
  <2>2. api'[p].fee = "none"
    BY <1>0, <1>3 DEF Crash, TypeOK, ApiIdle
  <2>3. \A u \in Tasks : Flying(u)' <=> Flying(u) /\ ~(api[p].fee = "paid" /\ api[p].task = u)
    BY <2>1, <2>2 DEF Flying, OneCharge
  <2>4. Face' = Face /\ \A u \in Tasks : Is(u, Live)' = Is(u, Live)
    BY <2>1 DEF Face, Is
  <2>5. CASE \A u \in Tasks : api[p].fee = "paid" /\ api[p].task = u => ~Is(u, Live)
    <3>1. \A u \in Tasks : Is(u, Live) => Settled(u)' = Settled(u)
      BY <2>1, <2>3, <2>5, SettledIs, SettledIsNext
    <3>2. QED
      BY <2>4, <3>1 DEF Charged, PromiseStep
  <2>6. CASE \E t \in Tasks : api[p].fee = "paid" /\ api[p].task = t /\ Is(t, Live)
    <3>1. PICK t \in Tasks : api[p].fee = "paid" /\ api[p].task = t /\ Is(t, Live)
      BY <2>6
    <3>2. Flying(t) /\ ~Flying(t)' /\ \A u \in Tasks \ {t} : Flying(u)' <=> Flying(u)
      BY <2>3, <3>1 DEF Flying
    <3>3. row[t].status \in {"failed", "success"}
      BY <3>1 DEF RetrySound, ApiIdle, Is, Recharged
    <3>4. Settled(t)' = Settled(t) + 1
      BY <1>0, <2>1, <3>2, SettledIs, SettledIsNext DEF TypeOK
    <3>5. \A u \in Tasks \ {t} : Settled(u)' = Settled(u)
      BY <2>1, <3>2, SettledIs, SettledIsNext
    <3>6. Charged' = [Charged EXCEPT ![t] = @ + 1]
      BY <2>4, <3>1, <3>4, <3>5 DEF Charged
    <3>7. Face[t] \in Promise!Ended \ Promise!Kept
      BY <3>3 DEF Face, Promise!Ended, Promise!Kept
    <3>8. Promise!LoseCharge(t)
      BY <2>4, <3>6, <3>7, Paying DEF Promise!LoseCharge, Face
    <3>9. QED
      BY <3>1, <3>8 DEF PromiseStep, Lives
  <2>7. QED
    BY <2>5, <2>6
<1>4. ASSUME NEW p \in Procs, Start(p) PROVE Promise!Interrupt
  <2>1. UNCHANGED <<api, credit>>
    BY <1>4 DEF Start
  <2>2. \A t \in Tasks : row'[t].status = IF row[t].status = "running" THEN "interrupted"
                                          ELSE row[t].status
    BY <1>0, <1>4, StatusAfter DEF Start, Is, TypeOK
  <2>3. Face' = [t \in Tasks |-> IF Face[t] = "running" THEN "interrupted" ELSE Face[t]]
    BY <2>2 DEF Face
  <2>4. \A t \in Tasks : Settled(t)' = Settled(t) /\ Is(t, Live)' = Is(t, Live)
    BY <2>1, <2>2, StatusSets DEF Settled, InFlight, Is
  <2>5. Charged' = Charged
    BY <2>4 DEF Charged
  <2>6. QED
    BY <2>3, <2>5 DEF Promise!Interrupt, Face, Charged
<1>5. QED
  BY <1>1, <1>2, <1>3, <1>4 DEF Environment, PromiseStep

LEMMA StepKeepsPromise ==
  ASSUME Contract, PromiseInv, [Next]_vars, RetriesApart'
  PROVE  PromiseStep
<1>0. TypeOK' /\ OneCharge /\ OneCharge'
  <2>1. RetrySound' /\ TypeOK'
    BY TypeStep, RetrySoundStep DEF PromiseInv, LedgerInv, ClaimInv
  <2>2. OneCharge /\ OneCharge'
    BY <2>1, ChargesApart DEF PromiseInv, LedgerInv, OneCharge, RetriesApart, RetrySound
  <2>3. QED
    BY <2>1, <2>2
<1>1. CASE UNCHANGED vars
  BY <1>1, SameFace DEF vars, PromiseStep
<1>2. QED
  BY <1>0, <1>1, RoutesKeepPromise, MasterKeepsPromise, WorkersKeepPromise,
     EnvironmentKeepsPromise DEF Next

LEMMA LedgerInductive ==
  /\ Init => LedgerInv
  /\ LedgerInv /\ [Next]_vars /\ RetriesApart' => LedgerInv'
<1>1. Init => LedgerInv
  <2> SUFFICES ASSUME Init PROVE LedgerInv
    OBVIOUS
  <2>1. ClaimInv
    BY InitType, ClaimInvInductive
  <2>2. RetriesApart /\ RetrySound /\ HandlerPays
    BY DEF Init, RetriesApart, RetrySound, HandlerPays, ApiIdle, WorkerIdle
  <2>3. QED
    BY <2>1, <2>2 DEF LedgerInv
<1>2. LedgerInv /\ [Next]_vars /\ RetriesApart' => LedgerInv'
  BY ClaimInvInductive, RetrySoundStep, HandlerPaysStep DEF LedgerInv
<1>3. QED
  BY <1>1, <1>2

LEMMA PromiseInductive ==
  ASSUME Contract
  PROVE  /\ Init => PromiseInv
         /\ PromiseInv /\ [Next]_vars /\ RetriesApart' => PromiseInv'
<1>1. Init => PromiseInv
  <2> SUFFICES ASSUME Init PROVE PromiseInv
    OBVIOUS
  <2>1. NoDeleteOpen /\ NoHandlerCharge
    BY DEF Init, NoDeleteOpen, NoHandlerCharge, ApiIdle, WorkerIdle
  <2>2. QED
    BY <2>1, LedgerInductive DEF PromiseInv
<1>2. ASSUME PromiseInv, [Next]_vars, RetriesApart' PROVE PromiseInv'
  <2>1. LedgerInv'
    BY <1>2, LedgerInductive DEF PromiseInv
  <2>2. NoDeleteOpen'
    BY <1>2, NoDeleteOpenStep DEF PromiseInv, LedgerInv, ClaimInv, Contract
  <2>3. BusyHasTask' /\ HandlerPays'
    BY <2>1 DEF LedgerInv, ClaimInv
  <2>4. NoHandlerCharge'
    BY <2>3 DEF Contract, AllPrepaid, BusyHasTask, HandlerPays, NoHandlerCharge, Busy
  <2>5. QED
    BY <2>1, <2>2, <2>4 DEF PromiseInv
<1>3. QED
  BY <1>1, <1>2

\* The framework implements its contract: for prepaid tasks that nobody deletes by
\* hand, and any number of processes of which no two retry one task at the same time,
\* every step of the threads, queues and transactions is one step of TaskLifecycle or
\* none.
THEOREM ImplementsLifecycle == Contract => (Spec /\ []RetriesApart => KeepsPromise)
<1> SUFFICES ASSUME Contract PROVE Spec /\ []RetriesApart => KeepsPromise
  OBVIOUS
<1>1. Init => Promise!Init
  <2> SUFFICES ASSUME Init PROVE Promise!Init
    OBVIOUS
  <2>1. \A t \in Tasks : row[t].status = "unborn" /\ ~Is(t, Live)
    BY StatusSets DEF Init, Unborn, Is
  <2>2. Face = [t \in Tasks |-> "none"] /\ Charged = [t \in Tasks |-> 0]
    BY <2>1 DEF Face, Charged
  <2>3. QED
    BY <2>2 DEF Promise!Init, Face, Charged
<1>2. PromiseStep => [Promise!Next]_(Promise!vars)
  BY DEF PromiseStep, Lives, Promise!Next, Promise!vars, Face, Charged
<1>3. PromiseInv /\ [Next]_vars /\ RetriesApart' => [Promise!Next]_(Promise!vars)
  BY <1>2, StepKeepsPromise
<1>4. QED
  BY <1>1, <1>3, PromiseInductive, PTL DEF Spec, KeepsPromise, Promise!Spec

-----------------------------------------------------------------------------
(* The ledger of one prepaid task, whatever the others are and whatever is  *)
(* deleted.                                                                 *)

Owed == {"pending", "running", "interrupted", "canceled"}
Closed == {"success", "failed"}

\* What a step does to the row of one prepaid task and to the charge held for it.
Moves(t) ==
  LET old == row[t].status
      new == row'[t].status
  IN  \/ new = old /\ Settled(t)' = Settled(t)
      \/ old = "unborn" /\ new = "pending" /\ Settled(t)' = 1
      \/ old \in Owed /\ new \in Owed /\ Settled(t)' = Settled(t)
      \/ old = "running" /\ new \in Closed /\ Settled(t)' = Settled(t) - 1
      \/ old \in Closed /\ new = "pending" /\ Settled(t)' = Settled(t) + 1
      \/ old \in Closed /\ new = old /\ crashes' # 0 /\ Settled(t)' = Settled(t) + 1
      \/ new \in {"unborn", "deleted"}

LEMMA Undisturbed ==
  ASSUME OneCharge, OneCharge', NEW t \in Tasks,
         row'[t].status = row[t].status, credit'[t] = credit[t], Flying(t)' <=> Flying(t)
  PROVE  Moves(t)
BY SettledIs, SettledIsNext DEF Moves

\* A write that leaves the charge of t alone.
LEMMA SameSettled ==
  ASSUME UNCHANGED api, NEW t \in Tasks, credit'[t] = credit[t]
  PROVE  Settled(t)' = Settled(t)
BY DEF Settled, InFlight

\* The two writes that end a run of u and settle its charge.
LEMMA EndMoves ==
  ASSUME OneCharge, TypeOK, TypeOK', UNCHANGED api, NEW u \in Tasks, Endable(u),
         NEW s \in Closed, row' = [row EXCEPT ![u] = Moved(@, s)],
         credit' = [credit EXCEPT ![u] = @ - 1], NEW t \in Tasks
  PROVE  Moves(t)
<1>0. OneCharge' /\ (Flying(t)' <=> Flying(t))
  BY DEF OneCharge, Flying
<1>1. CASE u = t
  <2>1. row[t].status = "running" /\ row'[t].status = s
    BY <1>1, StatusAfter DEF Endable, Is, TypeOK
  <2>2. credit'[t] = credit[t] - 1 /\ credit[t] \in Int
    BY <1>1 DEF TypeOK
  <2>3. Settled(t)' = Settled(t) - 1
    BY <1>0, <2>2, SettledIs, SettledIsNext
  <2>4. QED
    BY <2>1, <2>3 DEF Moves
<1>2. CASE u # t
  BY <1>0, <1>2, Undisturbed DEF TypeOK
<1>3. QED
  BY <1>1, <1>2

LEMMA ClearMoves ==
  ASSUME UNCHANGED <<api, credit>>, NEW gone, NEW t \in Tasks,
         row' = [u \in Tasks |-> IF u \in gone THEN Deleted ELSE row[u]]
  PROVE  Moves(t)
<1>1. row'[t].status \in {"deleted", row[t].status}
  BY StatusAfter
<1>2. QED
  BY <1>1, SameSettled DEF Moves

LEMMA RoutesMove ==
  ASSUME LedgerInv, OneCharge, OneCharge', TypeOK', NEW p \in Procs, Routes(p),
         NEW t \in Tasks, Billing[t] = "prepaid"
  PROVE  Moves(t)
<1> USE DEF LedgerInv, ClaimInv
<1>0. TypeOK
  OBVIOUS
<1>1. ASSUME NEW u \in Tasks, CreateTask(p, u) PROVE Moves(t)
  <2>1. /\ row[u].status = "unborn" /\ UNCHANGED api
        /\ \E n : row' = [row EXCEPT ![u] = Submitted(n)]
        /\ \E n : credit' = [credit EXCEPT ![u] = n] /\ (Billing[u] = "prepaid" => n = 1)
    BY <1>1 DEF CreateTask
  <2>2. CASE u = t
    <3>1. row'[t].status = "pending" /\ credit'[t] = 1
      BY <1>0, <2>1, <2>2, StatusAfter DEF TypeOK
    <3>2. ASSUME NEW q \in Procs, api[q].fee = "paid", api[q].task = t PROVE FALSE
      BY <2>1, <2>2, <3>2, StatusSets DEF RetrySound, Is
    <3>3. ~Flying(t)'
      BY <2>1, <3>2 DEF Flying
    <3>4. QED
      BY <2>1, <2>2, <3>1, <3>3, SettledIsNext DEF Moves
  <2>3. CASE u # t
    BY <1>0, <2>1, <2>3, SameSettled DEF Moves, TypeOK
  <2>4. QED
    BY <2>2, <2>3
<1>2. ASSUME NEW u \in Tasks, CancelTask(p, u) PROVE Moves(t)
  <2>1. row[u].status \in {"pending", "running"} /\ UNCHANGED <<api, credit>>
        /\ row' = [row EXCEPT ![u] = Canceled(@)]
    BY <1>2 DEF CancelTask, Cancelable, Is
  <2>2. IF u = t THEN row'[t].status = "canceled" ELSE row'[t] = row[t]
    BY <1>0, <2>1, StatusAfter DEF TypeOK
  <2>3. QED
    BY <2>1, <2>2, SameSettled DEF Moves, Owed
<1>3. CASE \E u \in Tasks : RetryCheck(p, u) \/ DeleteCheck(p, u)
  <2>1. UNCHANGED <<row, credit>> /\ \A q \in Procs \ {p} : api'[q] = api[q]
    BY <1>0, <1>3 DEF RetryCheck, DeleteCheck, TypeOK
  <2>2. api[p].fee # "paid" /\ api'[p].fee # "paid"
    BY <1>0, <1>3 DEF RetryCheck, DeleteCheck, Serving, RetrySound, TypeOK
  <2>3. Flying(t)' <=> Flying(t)
    BY <2>1, <2>2 DEF Flying
  <2>4. QED
    BY <2>1, <2>3, Undisturbed
\* The charge and its request cancel out until the row is written.
<1>4. CASE RetryCharge(p)
  <2>0. api[p].op = "retry" /\ api[p].fee = "owed"
    BY <1>4 DEF RetryCharge, RetrySound
  <2>1. UNCHANGED row /\ \A q \in Procs \ {p} : api'[q] = api[q]
    BY <1>0, <1>4 DEF RetryCharge, TypeOK
  <2>2. CASE credit' = [credit EXCEPT ![api[p].task] = @ + 1] /\ api' = [api EXCEPT ![p].fee = "paid"]
    <3>1. api'[p].fee = "paid" /\ api'[p].task = api[p].task
      BY <1>0, <2>2 DEF TypeOK, ApiState
    <3>2. CASE api[p].task = t
      <4>1. \A q \in Procs : ~(api[q].fee = "paid" /\ api[q].task = t)
        BY <2>0, <3>2 DEF RetrySound, RetriesApart
      <4>2. ~Flying(t) /\ Flying(t)'
        BY <3>1, <3>2, <4>1 DEF Flying
      <4>3. credit'[t] = credit[t] + 1 /\ credit[t] \in Int
        BY <1>0, <2>2, <3>2 DEF TypeOK
      <4>4. Settled(t) = credit[t] - 0 /\ Settled(t)' = credit'[t] - 1
        BY <4>2, SettledIs, SettledIsNext
      <4>5. QED
        BY <2>1, <4>3, <4>4 DEF Moves
    <3>3. CASE api[p].task # t
      <4>1. Flying(t)' <=> Flying(t)
        BY <2>1, <3>1, <3>3 DEF Flying
      <4>2. credit'[t] = credit[t]
        BY <1>0, <2>2, <3>3 DEF TypeOK
      <4>3. QED
        BY <2>1, <4>1, <4>2, Undisturbed
    <3>4. QED
      BY <3>2, <3>3
  <2>3. CASE api' = [api EXCEPT ![p] = ApiIdle] /\ UNCHANGED credit
    <3>1. api'[p].fee = "none"
      BY <1>0, <2>3 DEF TypeOK, ApiIdle
    <3>2. Flying(t)' <=> Flying(t)
      BY <2>0, <2>1, <3>1 DEF Flying
    <3>3. QED
      BY <2>1, <2>3, <3>2, Undisturbed
  <2>4. QED
    BY <1>4, <2>2, <2>3 DEF RetryCharge
<1>5. CASE RetryWrite(p)
  <2>1. /\ api[p].op = "retry" /\ api[p].fee \in {"none", "paid"} /\ UNCHANGED credit
        /\ api'[p].fee = "none" /\ \A q \in Procs \ {p} : api'[q] = api[q]
    BY <1>0, <1>5 DEF RetryWrite, ApiIdle, TypeOK, ApiState
  <2>2. CASE api[p].task # t
    <3>1. Flying(t)' <=> Flying(t)
      BY <2>1, <2>2 DEF Flying
    <3>2. row'[t] = row[t]
      BY <1>0, <1>5, <2>2 DEF RetryWrite, TypeOK
    <3>3. QED
      BY <2>1, <3>1, <3>2, Undisturbed
  <2>3. CASE api[p].task = t
    <3>1. /\ row[t].status \in Terminal \cup {"deleted"}
          /\ row[t].status \in Live => (api[p].fee = "none" <=> row[t].status \notin Recharged)
      BY <2>1, <2>3 DEF RetrySound, Is
    <3>2. \A q \in Procs \ {p} : ~(api[q].fee = "paid" /\ api[q].task = t)
      BY <2>1, <2>3 DEF RetrySound, RetriesApart
    <3>3. ~Flying(t)' /\ (Flying(t) <=> api[p].fee = "paid")
      BY <2>1, <2>3, <3>2 DEF Flying
    <3>4. CASE row[t].status = "deleted"
      BY <1>5, <2>3, <3>4, StatusSets DEF RetryWrite, Is, Moves
    <3>5. CASE row[t].status \in Terminal
      <4>1. row'[t].status = "pending"
        BY <1>0, <1>5, <2>3, <3>5, StatusSets, StatusAfter DEF RetryWrite, Is, TypeOK
      <4>2. credit[t] \in Int /\ Settled(t)' = credit[t] - 0
        BY <1>0, <2>1, <3>3, SettledIsNext DEF TypeOK
      <4>3. CASE api[p].fee = "paid"
        <5>1. row[t].status \in Closed /\ Settled(t) = credit[t] - 1
          BY <3>1, <3>3, <3>5, <4>3, SettledIs, StatusSets DEF Closed
        <5>2. QED
          BY <4>1, <4>2, <5>1 DEF Moves
      <4>4. CASE api[p].fee = "none"
        <5>1. row[t].status \in Owed /\ Settled(t) = credit[t] - 0
          BY <3>1, <3>3, <3>5, <4>4, SettledIs, StatusSets DEF Owed
        <5>2. QED
          BY <4>1, <4>2, <5>1 DEF Moves, Owed
      <4>5. QED
        BY <2>1, <4>3, <4>4
    <3>6. QED
      BY <3>1, <3>4, <3>5
  <2>4. QED
    BY <2>2, <2>3
<1>6. CASE DeleteWrite(p)
  <2>1. /\ api[p].fee = "none" /\ api'[p].fee = "none" /\ UNCHANGED credit
        /\ \A q \in Procs \ {p} : api'[q] = api[q]
    BY <1>0, <1>6 DEF DeleteWrite, RetrySound, ApiIdle, TypeOK
  <2>2. Flying(t)' <=> Flying(t)
    BY <2>1 DEF Flying
  <2>3. row'[t] = row[t] \/ row'[t] = Deleted
    BY <1>0, <1>6 DEF DeleteWrite, TypeOK
  <2>4. row'[t].status = "deleted" \/ row'[t].status = row[t].status
    BY <2>3, StatusAfter
  <2>5. QED
    BY <2>1, <2>2, <2>4, Undisturbed DEF Moves
<1>7. CASE CleanupTasks(p)
  BY <1>7, ClearMoves DEF CleanupTasks
<1>8. QED
  BY <1>1, <1>2, <1>3, <1>4, <1>5, <1>6, <1>7 DEF Routes

LEMMA MasterMoves ==
  ASSUME LedgerInv, OneCharge, OneCharge', TypeOK', NEW p \in Procs, Master(p), NEW t \in Tasks
  PROVE  Moves(t)
<1> USE DEF LedgerInv, ClaimInv
<1>0. TypeOK
  OBVIOUS
<1>1. CASE UNCHANGED <<row, credit, api>>
  BY <1>1, SameSettled DEF Moves
<1>2. CASE MasterCommit(p)
  <2>1. /\ row[master[p].claim].status = "pending" /\ UNCHANGED <<api, credit>>
        /\ row' = [row EXCEPT ![master[p].claim] = Moved(@, "running")]
    BY <1>2 DEF MasterCommit, ClaimsHoldLock
  <2>2. IF master[p].claim = t THEN row'[t].status = "running" ELSE row'[t] = row[t]
    BY <1>0, <2>1, StatusAfter DEF TypeOK
  <2>3. QED
    BY <2>1, <2>2, SameSettled DEF Moves, Owed
<1>3. CASE WatchdogFail(p)
  <2>1. PICK u \in master[p].overdue :
          \/ UNCHANGED <<row, credit>>
          \/ /\ Endable(u) /\ row' = [row EXCEPT ![u] = Moved(@, "failed")]
             /\ credit' = [credit EXCEPT ![u] = @ - 1]
    BY <1>3 DEF WatchdogFail
  <2>2. u \in Tasks /\ UNCHANGED api
    BY <1>0, <1>3, <2>1 DEF TypeOK, MasterState, WatchdogFail
  <2>3. "failed" \in Closed
    BY DEF Closed
  <2>4. QED
    BY <1>0, <1>1, <2>1, <2>2, <2>3, EndMoves
<1>4. CASE CleanupExpired(p)
  BY <1>4, ClearMoves DEF CleanupExpired
<1>5. QED
  BY <1>1, <1>2, <1>3, <1>4 DEF Master, MasterScan, MasterClaim, MasterRoundEnd

LEMMA WorkersMove ==
  ASSUME LedgerInv, OneCharge, OneCharge', TypeOK', NEW w \in Workers, Worker(w),
         NEW t \in Tasks, Billing[t] = "prepaid"
  PROVE  Moves(t)
<1> USE DEF LedgerInv, ClaimInv
<1>0. TypeOK
  OBVIOUS
<1>1. CASE UNCHANGED <<row, credit, api>>
  BY <1>1, SameSettled DEF Moves
<1>2. CASE WorkerStart(w)
  <2>1. UNCHANGED <<api, credit>>
    BY <1>2 DEF WorkerStart
  <2>2. row'[t].status = row[t].status
    <3>1. \/ UNCHANGED row
          \/ /\ row[worker[w].task].status = "running"
             /\ row' = [row EXCEPT ![worker[w].task] = Moved(@, "running")]
      BY <1>2 DEF WorkerStart, Is
    <3>2. CASE worker[w].task = t
      BY <1>0, <3>1, <3>2, StatusAfter DEF TypeOK
    <3>3. CASE worker[w].task # t
      BY <1>0, <3>1, <3>3 DEF TypeOK
    <3>4. QED
      BY <3>2, <3>3
  <2>3. QED
    BY <2>1, <2>2, SameSettled DEF Moves
\* A handler charges for its own task only, and that is not prepaid.
<1>3. CASE WorkerCharge(w)
  <2>1. Billing[worker[w].task] = "handler" /\ UNCHANGED <<api, row>>
    BY <1>3 DEF WorkerCharge, Step, HandlerPays
  <2>2. worker[w].task # t
    BY <2>1
  <2>3. credit'[t] = credit[t]
    BY <1>0, <1>3, <2>2 DEF WorkerCharge, TypeOK
  <2>4. QED
    BY <2>1, <2>3, SameSettled DEF Moves
<1>4. CASE WorkerSucceed(w)
  <2>0. worker[w].task \in Tasks /\ UNCHANGED api /\ "success" \in Closed
    BY <1>4 DEF WorkerSucceed, Step, Busy, BusyHasTask, Closed
  <2> PICK u \in Tasks : u = worker[w].task
    BY <2>0
  <2>1. \/ UNCHANGED <<row, credit>>
        \/ /\ Endable(u) /\ row' = [row EXCEPT ![u] = Moved(@, "success")]
           /\ credit' = [credit EXCEPT ![u] = @ - 1]
    BY <1>4 DEF WorkerSucceed
  <2>2. QED
    BY <1>0, <1>1, <2>0, <2>1, EndMoves
<1>5. CASE WorkerRequeue(w)
  <2>1. /\ UNCHANGED <<api, credit>>
        /\ \/ UNCHANGED row
           \/ /\ row[worker[w].task].status = "running"
              /\ row' = [row EXCEPT ![worker[w].task] = BackedOff(@)]
    BY <1>5 DEF WorkerRequeue, Endable, Is
  <2>2. \/ row'[t] = row[t]
        \/ row[t].status = "running" /\ row'[t].status = "pending"
    BY <1>0, <2>1, StatusAfter DEF TypeOK
  <2>3. QED
    BY <2>1, <2>2, SameSettled DEF Moves, Owed
<1>6. CASE WorkerSettle(w)
  <2>0. worker[w].task \in Tasks /\ UNCHANGED api /\ "failed" \in Closed
    BY <1>6 DEF WorkerSettle, Step, Busy, BusyHasTask, Closed
  <2> PICK u \in Tasks : u = worker[w].task
    BY <2>0
  <2>1. \/ UNCHANGED <<row, credit>>
        \/ Endable(u) /\ row' = [row EXCEPT ![u] = Moved(@, "failed")]
             /\ credit' = [credit EXCEPT ![u] = @ - 1]
        \/ worker[w].pc = "settle402" /\ row' = [row EXCEPT ![u] = Moved(@, "failed")]
             /\ UNCHANGED credit
    <3>1. worker[w].pc \in {"settle", "settle402"}
      BY <1>6 DEF WorkerSettle, Step
    <3>2. CASE worker[w].pc = "settle"
      BY <1>6, <3>2 DEF WorkerSettle
    <3>3. CASE worker[w].pc = "settle402"
      BY <1>0, <1>6, <3>3 DEF WorkerSettle, TypeOK
    <3>4. QED
      BY <3>1, <3>2, <3>3
  <2>2. CASE worker[w].pc = "settle402" /\ row' = [row EXCEPT ![u] = Moved(@, "failed")]
               /\ UNCHANGED credit
    <3>1. u # t
      BY <2>2 DEF HandlerPays
    <3>2. row'[t] = row[t]
      BY <1>0, <2>2, <3>1 DEF TypeOK
    <3>3. QED
      BY <2>0, <2>2, <3>2, SameSettled DEF Moves
  <2>3. QED
    BY <1>0, <1>1, <2>0, <2>1, <2>2, EndMoves
<1>7. QED
  BY <1>1, <1>2, <1>3, <1>4, <1>5, <1>6
  DEF Worker, WorkerTake, WorkerSkip, WorkerAbort, WorkerRaise

LEMMA EnvironmentMoves ==
  ASSUME LedgerInv, OneCharge, OneCharge', TypeOK', Environment, NEW t \in Tasks
  PROVE  Moves(t)
<1> USE DEF LedgerInv, ClaimInv
<1>0. TypeOK
  OBVIOUS
<1>1. ASSUME NEW u \in Tasks, TimePasses(u) \/ BackoffElapses(u) PROVE Moves(t)
  <2>1. row \in [Tasks -> Row] /\ (\/ row' = [row EXCEPT ![u].aged = TRUE]
                                  \/ row' = [row EXCEPT ![u].due = TRUE])
    BY <1>0, <1>1 DEF TimePasses, BackoffElapses, TypeOK
  <2>2. row'[t].status = row[t].status
    BY <2>1 DEF Row
  <2>3. QED
    BY <1>1, <2>2, SameSettled DEF TimePasses, BackoffElapses, Moves
<1>2. CASE MembershipLapses \/ UserReturns
  BY <1>2, SameSettled DEF MembershipLapses, UserReturns, Moves
\* A crash loses the charge of a retry that was not yet written.
<1>3. ASSUME NEW p \in Procs, Crash(p) PROVE Moves(t)
  <2>1. UNCHANGED <<row, credit>> /\ \A q \in Procs \ {p} : api'[q] = api[q]
    BY <1>0, <1>3 DEF Crash, TypeOK
  <2>2. api'[p].fee = "none" /\ crashes' # 0
    BY <1>0, <1>3 DEF Crash, TypeOK, ApiIdle
  <2>3. CASE api[p].fee = "paid" /\ api[p].task = t
    <3>1. Flying(t) /\ ~Flying(t)'
      BY <2>1, <2>2, <2>3 DEF Flying, OneCharge
    <3>2. Settled(t)' = Settled(t) + 1
      <4>1. Settled(t) = credit[t] - 1 /\ Settled(t)' = credit[t] - 0 /\ credit[t] \in Int
        BY <1>0, <2>1, <3>1, SettledIs, SettledIsNext DEF TypeOK
      <4>2. QED
        BY <4>1
    <3>3. row[t].status \in Closed \cup {"deleted"}
      BY <2>3, StatusSets DEF RetrySound, Is, Recharged, Closed
    <3>4. QED
      BY <2>1, <2>2, <3>2, <3>3 DEF Moves
  <2>4. CASE ~(api[p].fee = "paid" /\ api[p].task = t)
    <3>1. Flying(t)' <=> Flying(t)
      BY <2>1, <2>2, <2>4 DEF Flying
    <3>2. QED
      BY <2>1, <3>1, Undisturbed
  <2>5. QED
    BY <2>3, <2>4
<1>4. ASSUME NEW p \in Procs, Start(p) PROVE Moves(t)
  <2>1. UNCHANGED <<api, credit>>
    BY <1>4 DEF Start
  <2>2. row'[t].status = IF row[t].status = "running" THEN "interrupted" ELSE row[t].status
    BY <1>0, <1>4, StatusAfter DEF Start, Is, TypeOK
  <2>3. QED
    BY <2>1, <2>2, SameSettled DEF Moves, Owed
<1>5. QED
  BY <1>1, <1>2, <1>3, <1>4 DEF Environment

LEMMA BalancedStep ==
  ASSUME LedgerInv, CreditMatchesStatus, [Next]_vars, RetriesApart'
  PROVE  CreditMatchesStatus'
<1>1. TypeOK /\ TypeOK' /\ OneCharge /\ OneCharge'
  <2>1. TypeOK /\ TypeOK' /\ RetrySound'
    BY TypeStep, RetrySoundStep DEF LedgerInv, ClaimInv
  <2>2. QED
    BY <2>1, ChargesApart DEF LedgerInv, OneCharge, RetriesApart, RetrySound
<1>2. crashes' = 0 => crashes = 0
  <2>1. ASSUME NEW p \in Procs, Routes(p) PROVE UNCHANGED crashes
    BY <2>1 DEF Routes, CreateTask, CancelTask, RetryCheck, DeleteCheck, RetryCharge,
         RetryWrite, DeleteWrite, CleanupTasks
  <2>2. ASSUME NEW p \in Procs, Master(p) PROVE UNCHANGED crashes
    BY <2>2 DEF Master, MasterScan, MasterClaim, MasterCommit, MasterRoundEnd, WatchdogFail,
         CleanupExpired
  <2>3. ASSUME NEW w \in Workers, Worker(w) PROVE UNCHANGED crashes
    BY <2>3 DEF Worker, WorkerTake, WorkerSkip, WorkerStart, WorkerCharge, WorkerAbort,
         WorkerSucceed, WorkerRaise, WorkerRequeue, WorkerSettle
  <2>4. ASSUME Environment PROVE crashes' = crashes \/ crashes' = crashes + 1
    BY <2>4 DEF Environment, TimePasses, BackoffElapses, MembershipLapses, UserReturns,
         Crash, Start
  <2>5. crashes' = crashes \/ crashes' = crashes + 1
    BY <2>1, <2>2, <2>3, <2>4 DEF Next, vars
  <2>6. QED
    BY <1>1, <2>5 DEF TypeOK
<1> SUFFICES ASSUME NEW t \in Tasks, Billing[t] = "prepaid"
             PROVE  /\ row'[t].status \in Owed =>
                         Settled(t)' >= 1 /\ (crashes' = 0 => Settled(t)' = 1)
                    /\ row'[t].status \in Closed =>
                         Settled(t)' >= 0 /\ (crashes' = 0 => Settled(t)' = 0)
  BY DEF CreditMatchesStatus, Is, Owed, Closed
<1>3. Settled(t) \in Int
  <2>1. credit[t] \in Int /\ (Settled(t) = credit[t] - 0 \/ Settled(t) = credit[t] - 1)
    BY <1>1, SettledIs DEF TypeOK
  <2>2. QED
    BY <2>1
<1>4. /\ row[t].status \in Owed => Settled(t) >= 1 /\ (crashes = 0 => Settled(t) = 1)
      /\ row[t].status \in Closed => Settled(t) >= 0 /\ (crashes = 0 => Settled(t) = 0)
  BY DEF CreditMatchesStatus, Is, Owed, Closed
<1>5. Moves(t)
  <2>1. CASE UNCHANGED vars
    BY <2>1, SameSettled DEF vars, Moves
  <2>2. QED
    BY <1>1, <2>1, RoutesMove, MasterMoves, WorkersMove, EnvironmentMoves DEF Next
<1>6. QED
  BY <1>2, <1>3, <1>4, <1>5 DEF Moves, Owed, Closed

\* Exactly one charge is held for a prepaid task that is owed to the user and none
\* for one that was delivered or refunded: whoever pays for the other tasks, whatever
\* is canceled, retried, deleted or cleaned up, and for every number of tasks, workers
\* and processes, as long as no two processes retry one task at the same time; a crash
\* only ever loses the user a charge.
THEOREM LedgerBalances == Spec /\ []RetriesApart => []CreditMatchesStatus
<1>1. Init => CreditMatchesStatus
  BY DEF Init, Unborn, CreditMatchesStatus, Is
<1>2. LedgerInv /\ CreditMatchesStatus /\ [Next]_vars /\ RetriesApart'
        => LedgerInv' /\ CreditMatchesStatus'
  BY LedgerInductive, BalancedStep
<1>3. QED
  BY <1>1, <1>2, LedgerInductive, PTL DEF Spec

-----------------------------------------------------------------------------
(* When retries are apart *)

LEMMA ApartAlways ==
  ASSUME OneProcess \/ NoRetries
  PROVE  Spec => []RetriesApart
<1>1. CASE OneProcess
  <2>1. RetriesApart
    BY <1>1 DEF OneProcess, RetriesApart
  <2>2. QED
    BY <2>1, PTL
<1>2. CASE NoRetries
  <2>1. Init => NoRetryOpen
    BY DEF Init, NoRetryOpen, ApiIdle
  <2>2. TypeOK /\ NoRetryOpen /\ [Next]_vars => NoRetryOpen'
    BY <1>2, NoRetryOpenStep
  <2>3. NoRetryOpen => RetriesApart
    BY DEF NoRetryOpen, RetriesApart
  <2>4. QED
    BY <2>1, <2>2, <2>3, TypeCorrect, PTL DEF Spec
<1>3. QED
  BY <1>1, <1>2

\* In particular the ledger and the contract hold in one process, whatever is canceled
\* and retried, and in any number of processes as long as the retry route is not used.
THEOREM PromiseKept ==
  OneProcess \/ NoRetries => (Spec => []CreditMatchesStatus /\ (Contract => KeepsPromise))
<1> SUFFICES ASSUME OneProcess \/ NoRetries
             PROVE  Spec => []CreditMatchesStatus /\ (Contract => KeepsPromise)
  OBVIOUS
<1>1. Spec => []RetriesApart
  BY ApartAlways
<1>2. Contract => (Spec /\ []RetriesApart => KeepsPromise)
  BY ImplementsLifecycle
<1>3. Spec /\ []RetriesApart => []CreditMatchesStatus
  BY LedgerBalances
<1>4. QED
  BY <1>1, <1>2, <1>3

-----------------------------------------------------------------------------
(* Order.  Ranks follow the creation of tasks; a scan reads what waits in   *)
(* that order, the claims append it to the queues in that order, and what   *)
(* is begun is the head of a queue.                                         *)

\* The head and the tail of a sequence, by position.
LEMMA FirstOf ==
  ASSUME NEW S, NEW s \in Seq(S), s # <<>>
  PROVE  /\ Len(s) \in Nat /\ DOMAIN s = 1 .. Len(s) /\ Len(s) >= 1
         /\ 1 \in DOMAIN s /\ s[1] \in S
<1>1. Len(s) \in Nat /\ DOMAIN s = 1 .. Len(s) /\ s \in [1 .. Len(s) -> S]
  OBVIOUS
<1>2. Len(s) # 0
  OBVIOUS
<1>3. QED
  BY <1>1, <1>2

LEMMA TailOf ==
  ASSUME NEW S, NEW s \in Seq(S), s # <<>>
  PROVE  /\ \A i \in DOMAIN Tail(s) : i \in Nat /\ i + 1 \in DOMAIN s /\ Tail(s)[i] = s[i + 1]
         /\ \A j \in DOMAIN s : j # 1 => j - 1 \in DOMAIN Tail(s) /\ Tail(s)[j - 1] = s[j]
<1>1. Len(s) \in Nat /\ DOMAIN s = 1 .. Len(s) /\ Len(s) >= 1
  BY FirstOf
<1>2. DOMAIN Tail(s) = 1 .. Len(s) - 1
  BY <1>1
<1>3. \A i \in DOMAIN Tail(s) : Tail(s)[i] = s[i + 1]
  BY <1>1, <1>2
<1>4. QED
  BY <1>1, <1>2, <1>3

Born == {t \in Tasks : row[t].status # "unborn"}

\* A task that waits or runs and was never sent back to the table.
Untouched(t) == Is(t, {"pending", "running"}) /\ row[t].retries = 0

\* u should have been begun before t.
Senior(u, t) ==
  Untouched(u) /\ Priority[u] = Priority[t] /\ row[u].created < row[t].created

\* Every way a row is written.
WrittenAs(t) ==
  \/ row'[t] = row[t]
  \/ row[t].status = "unborn" /\ row'[t] = Submitted(1 + Cardinality(Born))
       /\ \A u \in Tasks \ {t} : row'[u] = row[u]
  \/ row[t].status \in Live /\ row'[t] \in {Canceled(row[t]), Resubmitted(row[t]), BackedOff(row[t]),
                                            Deleted, Moved(row[t], "success"),
                                            Moved(row[t], "failed"), Moved(row[t], "interrupted")}
  \/ row[t].status \in {"pending", "running"} /\ row'[t] = Moved(row[t], "running")
  \/ row'[t] = [row[t] EXCEPT !.aged = TRUE]
  \/ row'[t] = [row[t] EXCEPT !.due = TRUE]

LEMMA RowWrites ==
  ASSUME ClaimInv, [Next]_vars, NEW t \in Tasks
  PROVE  WrittenAs(t)
<1> USE DEF ClaimInv
<1>0. row \in [Tasks -> Row] /\ row[t].status \in Status
  BY DEF TypeOK, Row
<1>c. CASE UNCHANGED row
  BY <1>c DEF WrittenAs
<1>1. ASSUME NEW p \in Procs, Routes(p) PROVE WrittenAs(t)
  <2>1. ASSUME NEW x \in Tasks, CreateTask(p, x) PROVE WrittenAs(t)
    <3>1. row' = [row EXCEPT ![x] = Submitted(1 + Cardinality(Born))] /\ row[x].status = "unborn"
      BY <2>1 DEF CreateTask, Born
    <3>2. QED
      BY <1>0, <3>1 DEF WrittenAs
  <2>2. ASSUME NEW x \in Tasks, CancelTask(p, x) PROVE WrittenAs(t)
    BY <1>0, <2>2 DEF CancelTask, WrittenAs, Is, Cancelable, Live
  <2>3. CASE RetryWrite(p)
    BY <1>0, <2>3 DEF RetryWrite, WrittenAs, Is
  <2>4. CASE DeleteWrite(p)
    BY <1>0, <2>4 DEF DeleteWrite, WrittenAs, Is
  <2>5. CASE CleanupTasks(p)
    BY <1>0, <2>5 DEF CleanupTasks, WrittenAs, Is, Live
  <2>6. QED
    BY <1>1, <1>c, <2>1, <2>2, <2>3, <2>4, <2>5 DEF Routes, RetryCheck, DeleteCheck, RetryCharge
<1>2. ASSUME NEW p \in Procs, Master(p) PROVE WrittenAs(t)
  <2>1. CASE MasterCommit(p)
    <3>1. row' = [row EXCEPT ![master[p].claim] = Moved(@, "running")]
          /\ row[master[p].claim].status = "pending"
      BY <2>1 DEF MasterCommit, ClaimsHoldLock
    <3>2. QED
      BY <1>0, <3>1 DEF WrittenAs
  <2>2. CASE WatchdogFail(p)
    BY <1>0, <2>2 DEF WatchdogFail, WrittenAs, Endable, Is, Live
  <2>3. CASE CleanupExpired(p)
    BY <1>0, <2>3 DEF CleanupExpired, WrittenAs, Is, Live
  <2>4. QED
    BY <1>2, <1>c, <2>1, <2>2, <2>3 DEF Master, MasterScan, MasterClaim, MasterRoundEnd
<1>3. ASSUME NEW w \in Workers, Worker(w) PROVE WrittenAs(t)
  <2>1. CASE WorkerStart(w)
    BY <1>0, <2>1 DEF WorkerStart, WrittenAs, Is
  <2>2. CASE WorkerSucceed(w)
    BY <1>0, <2>2 DEF WorkerSucceed, WrittenAs, Endable, Is, Live
  <2>3. CASE WorkerRequeue(w)
    BY <1>0, <2>3 DEF WorkerRequeue, WrittenAs, Endable, Is, Live
  <2>4. CASE WorkerSettle(w)
    BY <1>0, <2>4 DEF WorkerSettle, WrittenAs, Endable, Is, Live
  <2>5. QED
    BY <1>3, <1>c, <2>1, <2>2, <2>3, <2>4
       DEF Worker, WorkerTake, WorkerSkip, WorkerCharge, WorkerAbort, WorkerRaise
<1>4. CASE Environment
  <2>1. ASSUME NEW x \in Tasks, TimePasses(x) \/ BackoffElapses(x) PROVE WrittenAs(t)
    BY <1>0, <2>1 DEF TimePasses, BackoffElapses, WrittenAs
  <2>2. ASSUME NEW p \in Procs, Start(p) PROVE WrittenAs(t)
    BY <1>0, <2>2 DEF Start, WrittenAs, Is, Live
  <2>3. QED
    BY <1>4, <1>c, <2>1, <2>2 DEF Environment, MembershipLapses, UserReturns, Crash
<1>5. CASE UNCHANGED vars
  BY <1>5, <1>c DEF vars
<1>6. QED
  BY <1>1, <1>2, <1>3, <1>4, <1>5 DEF Next

\* No step makes a task untouched, gives it another rank but 0, or sends it back to
\* the table and leaves it untouched; only its creation does.
LEMMA UntouchedStays ==
  ASSUME ClaimInv, [Next]_vars, NEW t \in Tasks
  PROVE  \/ /\ row[t].status = "unborn" /\ row'[t] = Submitted(1 + Cardinality(Born))
            /\ \A u \in Tasks \ {t} : row'[u] = row[u]
         \/ /\ row'[t].status = "unborn" <=> row[t].status = "unborn"
            /\ row'[t].created \in {0, row[t].created}
            /\ Untouched(t)' => /\ Untouched(t) /\ row'[t].created = row[t].created
                                /\ row'[t].status = "pending" => row[t].status = "pending"
                                /\ row[t].due => row'[t].due
<1>0. row \in [Tasks -> Row] /\ row[t] \in Row
  BY DEF ClaimInv, TypeOK
<1>1. Untouched(t)' <=> row'[t].status \in {"pending", "running"} /\ row'[t].retries = 0
  BY DEF Untouched, Is
<1>2. Untouched(t) <=> row[t].status \in {"pending", "running"} /\ row[t].retries = 0
  BY DEF Untouched, Is
<1>3. Resubmitted(row[t]).retries # 0 /\ BackedOff(row[t]).retries # 0
  BY <1>0 DEF Resubmitted, BackedOff, Moved, Row
<1>4. \A s : /\ Moved(row[t], s).retries = row[t].retries
             /\ Moved(row[t], s).created = row[t].created
             /\ Moved(row[t], s).due = row[t].due /\ Moved(row[t], s).status = s
  BY <1>0 DEF Moved, Row
<1>5. /\ Canceled(row[t]).created = row[t].created /\ Resubmitted(row[t]).created = row[t].created
      /\ BackedOff(row[t]).created = row[t].created /\ Deleted.created = 0
  BY <1>0 DEF Canceled, Resubmitted, BackedOff, Moved, Deleted, Unborn, Row
<1>6. row[t].status \in Live => row[t].status # "unborn"
  BY DEF Live, Terminal
<1>7. CASE row'[t] \in {[row[t] EXCEPT !.aged = TRUE], [row[t] EXCEPT !.due = TRUE]}
  BY <1>0, <1>1, <1>2, <1>7 DEF Row
<1>8. CASE row[t].status \in {"pending", "running"} /\ row'[t] = Moved(row[t], "running")
  BY <1>1, <1>2, <1>4, <1>8
<1>9. CASE row[t].status \in Live /\ row'[t] \in {Canceled(row[t]), Resubmitted(row[t]), BackedOff(row[t]),
                                            Deleted, Moved(row[t], "success"),
                                            Moved(row[t], "failed"), Moved(row[t], "interrupted")}
  BY <1>0, <1>1, <1>3, <1>4, <1>5, <1>6, <1>9, StatusAfter
<1>10. CASE row'[t] = row[t]
  BY <1>1, <1>2, <1>10
<1>11. QED
  BY <1>7, <1>8, <1>9, <1>10, RowWrites DEF WrittenAs

\* Ranks are given out in order, and an untouched task is due.
Ranked ==
  /\ \A t \in Born : row[t].created <= Cardinality(Born)
  /\ \A t \in Tasks : Untouched(t) => row[t].due

LEMMA RankedStep ==
  ASSUME ClaimInv, Ranked, [Next]_vars
  PROVE  Ranked'
<1>0. /\ row \in [Tasks -> Row] /\ IsFiniteSet(Born) /\ Cardinality(Born) \in Nat
      /\ \A t \in Tasks : row[t].created \in Nat
      /\ \A t \in Tasks : t \in Born <=> row[t].status # "unborn"
      /\ \A t \in Tasks : t \in Born' <=> row'[t].status # "unborn"
      /\ Born \subseteq Tasks /\ Born' \subseteq Tasks
  <2>1. IsFiniteSet(Born)
    BY TasksAssumption, FS_Subset DEF Born
  <2>2. QED
    BY <2>1, FS_CardinalityType DEF ClaimInv, TypeOK, Row, Born
<1>1. ASSUME NEW x \in Tasks, row[x].status = "unborn", row'[x] = Submitted(1 + Cardinality(Born)),
             \A u \in Tasks \ {x} : row'[u] = row[u]
      PROVE  Ranked'
  <2>1. /\ row'[x].created = 1 + Cardinality(Born) /\ row'[x].status = "pending"
        /\ row'[x].due
    BY <1>1 DEF Submitted, Unborn
  <2>2. Born' = Born \cup {x} /\ x \notin Born
    BY <1>0, <1>1, <2>1
  <2>3. Cardinality(Born') = Cardinality(Born) + 1
    BY <1>0, <2>2, FS_AddElement
  <2>4. \A t \in Born' : row'[t].created <= Cardinality(Born')
    BY <1>0, <1>1, <2>1, <2>2, <2>3 DEF Ranked
  <2>5. \A t \in Tasks : Untouched(t)' => row'[t].due
    BY <1>1, <2>1 DEF Ranked, Untouched, Is
  <2>6. Cardinality(Born)' = Cardinality(Born')
    OBVIOUS
  <2>7. QED
    BY <2>4, <2>5, <2>6 DEF Ranked
<1>2. CASE \A t \in Tasks :
             /\ row'[t].status = "unborn" <=> row[t].status = "unborn"
             /\ row'[t].created \in {0, row[t].created}
             /\ Untouched(t)' => Untouched(t) /\ (row[t].due => row'[t].due)
  <2>1. Born' = Born
    BY <1>0, <1>2
  <2>2. \A t \in Born : row'[t].created <= Cardinality(Born)
    BY <1>0, <1>2 DEF Ranked
  <2>3. QED
    BY <1>2, <2>1, <2>2 DEF Ranked
<1>3. QED
  BY <1>1, <1>2, UntouchedStays

\* No task comes to be senior to one that was born before, and one that is does not
\* come back to the table.
LEMMA SeniorStays ==
  ASSUME ClaimInv, Ranked, [Next]_vars, NEW t \in Born, NEW u \in Tasks, Senior(u, t)'
  PROVE  Senior(u, t) /\ (row'[u].status = "pending" => row[u].status = "pending")
<1>0. /\ row \in [Tasks -> Row] /\ t \in Tasks /\ row[t].status # "unborn"
      /\ Cardinality(Born) \in Nat /\ \A x \in Tasks : row[x].created \in Nat
  <2>1. IsFiniteSet(Born)
    BY TasksAssumption, FS_Subset DEF Born
  <2>2. QED
    BY <2>1, FS_CardinalityType DEF ClaimInv, TypeOK, Row, Born
<1>1. /\ Untouched(u)' /\ Priority[u] = Priority[t] /\ row'[u].created < row'[t].created
  BY DEF Senior
<1>2. row'[t].created <= row[t].created /\ row[t].created <= Cardinality(Born)
  <2>1. row'[t].created \in {0, row[t].created}
    BY <1>0, UntouchedStays
  <2>2. QED
    BY <1>0, <2>1 DEF Ranked
<1>3. CASE row[u].status = "unborn" /\ row'[u] = Submitted(1 + Cardinality(Born))
  <2>1. row'[u].created = 1 + Cardinality(Born)
    BY <1>3 DEF Submitted, Unborn
  <2>2. row'[t].created \in Nat
    BY <1>0, UntouchedStays
  <2>3. QED
    BY <1>0, <1>1, <1>2, <2>1, <2>2
<1>4. CASE /\ Untouched(u) /\ row'[u].created = row[u].created
           /\ row'[u].status = "pending" => row[u].status = "pending"
  <2>1. row'[t].created \in Nat
    BY <1>0, UntouchedStays
  <2>2. row[u].created < row[t].created
    BY <1>0, <1>1, <1>2, <1>4, <2>1
  <2>3. QED
    BY <1>1, <1>4, <2>2 DEF Senior
<1>5. QED
  BY <1>1, <1>3, <1>4, UntouchedStays

\* What the queues and the batches hold was born; a queue holds tasks of its pool.
KnownTasks ==
  /\ \A t \in Tasks, p \in Procs, a \in Pools : \A i \in Nat :
       At(t, p, a, i) => t \in Born /\ PoolOf[TypeOf[t]] = a
  /\ \A p \in Procs : \A i \in DOMAIN master[p].batch : master[p].batch[i] \in Born

\* A batch is in order: what waits and is senior to one of its tasks comes before it,
\* or is being claimed.
BatchInOrder ==
  \A p \in Procs, u \in Tasks : \A i \in DOMAIN master[p].batch :
    Senior(u, master[p].batch[i]) /\ row[u].status = "pending" =>
      \/ u = master[p].claim
      \/ \E j \in DOMAIN master[p].batch : j < i /\ master[p].batch[j] = u

\* So is a queue: what is senior to one of its tasks waits in the table no more, and
\* is not behind it.
QueueInOrder ==
  \A t, u \in Tasks, p \in Procs, a \in Pools : \A i \in Nat :
    At(t, p, a, i) /\ Senior(u, t) =>
      row[u].status # "pending" /\ \A j \in Nat : At(u, p, a, j) => j < i

OrderInv == ClaimInv /\ Ranked /\ KnownTasks /\ BatchInOrder /\ QueueInOrder

\* What a step does to the queues.
LEMMA QueueMoves ==
  ASSUME ClaimInv, [Next]_vars
  PROVE  \/ UNCHANGED queue
         \/ \E w \in Workers : (WorkerTake(w) \/ WorkerSkip(w)) /\ UNCHANGED <<row, master>>
         \/ \E p \in Procs : MasterClaim(p) /\ UNCHANGED row
         \/ \E p \in Procs : Crash(p) /\ UNCHANGED row
BY StepKinds DEF ClaimInv, Quiet, WorkerTake, WorkerSkip, MasterClaim, Crash

LEMMA Popped ==
  ASSUME ClaimInv, NEW x \in Workers, WorkerTake(x) \/ WorkerSkip(x),
         NEW t \in Tasks, NEW p \in Procs, NEW a \in Pools, NEW i \in Nat, At(t, p, a, i)'
  PROVE  /\ IF p = ProcOf[x] /\ a = WorkerPool[x] THEN At(t, p, a, i + 1) ELSE At(t, p, a, i)
         /\ p = ProcOf[x] /\ a = WorkerPool[x] => i >= 1
<1> DEFINE P == ProcOf[x]
           A == WorkerPool[x]
<1>0. P \in Procs /\ A \in Pools /\ queue[P] \in [Pools -> Seq(Tasks)]
      /\ queue \in [Procs -> [Pools -> Seq(Tasks)]]
  BY ThreadsAssumption DEF ClaimInv, TypeOK
<1>1. queue[P][A] \in Seq(Tasks) /\ queue[P][A] # <<>>
  BY <1>0 DEF WorkerTake, WorkerSkip, MyQueue
<1>2. queue' = [queue EXCEPT ![P][A] = Tail(@)]
  BY DEF WorkerTake, WorkerSkip, PopQueue
<1>3. CASE p = P /\ a = A
  <2>1. queue'[p][a] = Tail(queue[p][a])
    BY <1>0, <1>2, <1>3
  <2>2. i \in DOMAIN Tail(queue[p][a]) /\ Tail(queue[p][a])[i] = t
    BY <2>1 DEF At
  <2>3. QED
    BY <1>1, <1>3, <2>2 DEF At
<1>4. CASE ~(p = P /\ a = A)
  <2>1. queue'[p][a] = queue[p][a]
    BY <1>0, <1>2, <1>4
  <2>2. QED
    BY <1>4, <2>1 DEF At
<1>5. QED
  BY <1>3, <1>4

\* The task goes behind all the others of its pool.
Push(x, h) == queue' = [queue EXCEPT ![x][PoolOf[TypeOf[h]]] = Append(@, h)]

\* What the claim of the next task of a batch does.
LEMMA ClaimStep ==
  ASSUME ClaimInv, NEW p \in Procs, MasterClaim(p)
  PROVE  \E h \in Tasks :
           /\ \A q \in Procs : master[q].claim = NoTask
           /\ master[p].batch \in Seq(Tasks) /\ master[p].batch # <<>> /\ h = master[p].batch[1]
           /\ master'[p].batch = Tail(master[p].batch)
           /\ \A q \in Procs \ {p} : master'[q] = master[q]
           /\ IF row[h].status = "pending"
              THEN /\ master'[p].claim = h
                   /\ Push(p, h)
              ELSE UNCHANGED queue /\ master'[p].claim = NoTask
<1> DEFINE h == Head(master[p].batch)
<1>0. master \in [Procs -> MasterState] /\ master[p] \in MasterState
  BY DEF ClaimInv, TypeOK
<1>1. master[p].batch \in Seq(Tasks) /\ master[p].batch # <<>> /\ h \in Tasks /\ h = master[p].batch[1]
  <2>1. master[p].batch \in Seq(Tasks) /\ master[p].batch # <<>>
    BY <1>0 DEF MasterClaim, MasterState
  <2>2. QED
    BY <2>1
<1>2. \A q \in Procs : master[q].claim = NoTask
  BY DEF MasterClaim, WriteLockFree
<1>3. CASE row[h].status = "pending"
  <2>1. /\ master' = [master EXCEPT ![p].batch = Tail(@), ![p].claim = h]
        /\ queue' = [queue EXCEPT ![p][PoolOf[TypeOf[h]]] = Append(@, h)]
    BY <1>3 DEF MasterClaim, Claimable, Is
  <2> HIDE DEF h
  <2>2. master'[p].batch = Tail(master[p].batch) /\ master'[p].claim = h
        /\ \A q \in Procs \ {p} : master'[q] = master[q]
    BY <1>0, <2>1 DEF MasterState
  <2>3. QED
    BY <1>1, <1>2, <1>3, <2>1, <2>2 DEF Push
<1>4. CASE row[h].status # "pending"
  <2>1. master' = [master EXCEPT ![p].batch = Tail(@)] /\ UNCHANGED queue
    BY <1>4 DEF MasterClaim, Claimable, Is
  <2> HIDE DEF h
  <2>2. master'[p].batch = Tail(master[p].batch) /\ master'[p].claim = master[p].claim
        /\ \A q \in Procs \ {p} : master'[q] = master[q]
    BY <1>0, <2>1 DEF MasterState
  <2>3. QED
    BY <1>1, <1>2, <1>4, <2>1, <2>2
<1>5. QED
  BY <1>3, <1>4

\* A task in a queue after a claim was there before or is the one claimed.
LEMMA Pushed ==
  ASSUME ClaimInv, NEW x \in Procs, NEW h \in Tasks, Push(x, h),
         NEW t \in Tasks, NEW p \in Procs, NEW a \in Pools, NEW i \in Nat, At(t, p, a, i)'
  PROVE  \/ At(t, p, a, i)
         \/ /\ t = h /\ p = x /\ a = PoolOf[TypeOf[h]]
            /\ \A u \in Tasks : \A j \in Nat : At(u, p, a, j) => j < i
<1> DEFINE A == PoolOf[TypeOf[h]]
<1>0. A \in Pools
  BY TasksAssumption, RegistryAssumption
<1> HIDE DEF A
<1>5. queue[x] \in [Pools -> Seq(Tasks)] /\ queue[x][A] \in Seq(Tasks)
      /\ queue \in [Procs -> [Pools -> Seq(Tasks)]]
  BY <1>0 DEF ClaimInv, TypeOK
<1>6. queue' = [queue EXCEPT ![x][A] = Append(@, h)]
  BY DEF A, Push
<1>1. CASE p = x /\ a = A
  <2>1. queue'[p][a] = Append(queue[p][a], h)
    BY <1>0, <1>1, <1>5, <1>6
  <2>2. i \in DOMAIN Append(queue[p][a], h) /\ Append(queue[p][a], h)[i] = t
    BY <2>1 DEF At
  <2>3. At(t, p, a, i) \/ (t = h /\ i = Len(queue[x][A]) + 1)
    BY <1>1, <1>5, <2>2 DEF At
  <2>4. \A u \in Tasks : \A j \in Nat : At(u, x, A, j) => j < Len(queue[x][A]) + 1
    BY <1>5 DEF At
  <2>5. QED
    BY <1>1, <2>3, <2>4 DEF A
<1>2. CASE ~(p = x /\ a = A)
  <2>1. queue'[p][a] = queue[p][a]
    BY <1>2, <1>5, <1>6
  <2>2. QED
    BY <2>1 DEF At
<1>3. QED
  BY <1>1, <1>2

\* What a step does to a batch: it is fetched, its head is claimed, it is dropped.
BatchKept(p) ==
  /\ master'[p].batch = master[p].batch
  /\ master'[p].claim = master[p].claim \/ row'[master[p].claim].status # "pending"

BatchFetched(p) ==
  /\ UNCHANGED row
  /\ master'[p].batch \in Seq(Due) /\ IsFetch(master'[p].batch)

LEMMA BatchMoves ==
  ASSUME ClaimInv, [Next]_vars, NEW p \in Procs
  PROVE  \/ BatchKept(p)
         \/ BatchFetched(p)
         \/ MasterClaim(p) /\ UNCHANGED row
         \/ master'[p].batch = <<>>
<1>0. master \in [Procs -> MasterState] /\ \A q \in Procs : master[q] \in MasterState
      /\ row \in [Tasks -> Row]
  BY DEF ClaimInv, TypeOK
<1>s. CASE master'[p] = master[p]
  BY <1>s DEF BatchKept
<1>1. ASSUME NEW q \in Procs, q # p, Master(q) PROVE master'[p] = master[p]
  BY <1>0, <1>1 DEF Master, MasterScan, MasterClaim, MasterCommit, MasterRoundEnd, WatchdogFail,
                    CleanupExpired
<1>2. CASE Master(p)
  <2>1. CASE MasterScan(p)
    <3>1. PICK n \in 0 .. ScanBatch :
            \E q \in [1 .. n -> Due] :
              IsFetch(q) /\ master' = [master EXCEPT ![p].pc = "claim", ![p].batch = q]
      BY <2>1 DEF MasterScan
    <3>2. PICK q \in [1 .. n -> Due] :
            IsFetch(q) /\ master' = [master EXCEPT ![p].pc = "claim", ![p].batch = q]
      BY <3>1
    <3>3. q \in Seq(Due)
      BY ThreadsAssumption
    <3>4. master'[p].batch = q
      BY <1>0, <3>2 DEF MasterState
    <3>5. QED
      BY <2>1, <3>2, <3>3, <3>4 DEF BatchFetched, MasterScan
  <2>2. CASE MasterClaim(p)
    BY <2>2 DEF MasterClaim
  <2>3. CASE MasterCommit(p)
    <3>1. master'[p].batch = master[p].batch
      BY <1>0, <2>3 DEF MasterCommit, MasterState
    <3>2. master[p].claim \in Tasks /\ row'[master[p].claim].status = "running"
      BY <1>0, <2>3, StatusAfter DEF MasterCommit, ClaimInv, ClaimsHoldLock
    <3>3. QED
      BY <3>1, <3>2 DEF BatchKept
  <2>4. CASE MasterRoundEnd(p) \/ WatchdogFail(p) \/ CleanupExpired(p)
    <3>1. master'[p].batch = master[p].batch /\ master'[p].claim = master[p].claim
      <4>1. CASE MasterRoundEnd(p) \/ CleanupExpired(p)
        BY <1>0, <4>1 DEF MasterRoundEnd, CleanupExpired, MasterState
      <4>2. CASE WatchdogFail(p)
        <5>1. PICK S : master' \in {[master EXCEPT ![p].overdue = S],
                                    [master EXCEPT ![p].pc = "scan", ![p].overdue = S]}
          BY <4>2 DEF WatchdogFail
        <5>2. QED
          BY <1>0, <5>1 DEF MasterState
      <4>3. QED
        BY <2>4, <4>1, <4>2
    <3>2. QED
      BY <3>1 DEF BatchKept
  <2>5. QED
    BY <1>2, <2>1, <2>2, <2>3, <2>4 DEF Master
<1>3. ASSUME NEW q \in Procs, Crash(q) PROVE master'[p] = master[p] \/ master'[p].batch = <<>>
  BY <1>0, <1>3 DEF Crash, MasterIdle
<1>4. CASE \E q \in Procs : Routes(q)
  BY <1>s, <1>4 DEF Routes, CreateTask, CancelTask, RetryCheck, DeleteCheck,
       RetryCharge, RetryWrite, DeleteWrite, CleanupTasks
<1>5. CASE \E w \in Workers : Worker(w)
  BY <1>s, <1>5 DEF Worker, WorkerTake, WorkerSkip, WorkerStart, WorkerCharge,
       WorkerAbort, WorkerSucceed, WorkerRaise, WorkerRequeue, WorkerSettle
<1>6. CASE Environment
  BY <1>s, <1>3, <1>6 DEF Environment, TimePasses, BackoffElapses,
       MembershipLapses, UserReturns, Start
<1>7. CASE UNCHANGED vars
  BY <1>s, <1>7 DEF vars
<1>8. QED
  BY <1>s, <1>1, <1>2, <1>4, <1>5, <1>6, <1>7 DEF Next

LEMMA BornStays ==
  ASSUME ClaimInv, [Next]_vars, NEW t \in Born
  PROVE  t \in Born' /\ t \in Tasks
BY UntouchedStays, StatusAfter DEF Born

LEMMA KnownStep ==
  ASSUME ClaimInv, KnownTasks, [Next]_vars
  PROVE  KnownTasks'
<1>1. ASSUME NEW t \in Tasks, NEW p \in Procs, NEW a \in Pools, NEW i \in Nat, At(t, p, a, i)'
      PROVE  t \in Born' /\ PoolOf[TypeOf[t]] = a
  <2>1. CASE UNCHANGED queue
    <3>1. At(t, p, a, i)
      BY <1>1, <2>1 DEF At
    <3>2. QED
      BY <3>1, BornStays DEF KnownTasks
  <2>2. ASSUME NEW w \in Workers, WorkerTake(w) \/ WorkerSkip(w) PROVE t \in Born' /\ PoolOf[TypeOf[t]] = a
    <3>1. At(t, p, a, i) \/ At(t, p, a, i + 1)
      BY <1>1, <2>2, Popped
    <3>2. QED
      BY <3>1, BornStays DEF KnownTasks
  <2>3. ASSUME NEW q \in Procs, MasterClaim(q) PROVE t \in Born' /\ PoolOf[TypeOf[t]] = a
    <3>1. PICK h \in Tasks :
            /\ master[q].batch \in Seq(Tasks) /\ master[q].batch # <<>> /\ h = master[q].batch[1]
            /\ \/ Push(q, h)
               \/ UNCHANGED queue
      BY <2>3, ClaimStep
    <3>2. h \in Born
      <4>1. 1 \in DOMAIN master[q].batch
        BY <3>1, FirstOf
      <4>2. QED
        BY <3>1, <4>1 DEF KnownTasks
    <3>3. At(t, p, a, i) \/ (t = h /\ a = PoolOf[TypeOf[h]])
      <4>1. CASE UNCHANGED queue
        BY <1>1, <4>1 DEF At
      <4>2. CASE Push(q, h)
        BY <1>1, <2>3, <4>2, Pushed
      <4>3. QED
        BY <3>1, <4>1, <4>2
    <3>4. QED
      BY <3>2, <3>3, BornStays DEF KnownTasks
  <2>4. ASSUME NEW q \in Procs, Crash(q) PROVE t \in Born' /\ PoolOf[TypeOf[t]] = a
    <3>1. queue'[p] = queue[p] \/ queue'[p] = [pool \in Pools |-> <<>>]
      BY <2>4 DEF Crash, ClaimInv, TypeOK
    <3>2. At(t, p, a, i)
      BY <1>1, <3>1 DEF At
    <3>3. QED
      BY <3>2, BornStays DEF KnownTasks
  <2>5. QED
    BY <2>1, <2>2, <2>3, <2>4, QueueMoves
<1>2. ASSUME NEW p \in Procs, NEW i \in DOMAIN master'[p].batch
      PROVE  master'[p].batch[i] \in Born'
  <2>1. CASE BatchKept(p)
    BY <1>2, <2>1, BornStays DEF BatchKept, KnownTasks
  <2>2. CASE BatchFetched(p)
    <3>1. master'[p].batch[i] \in Due
      BY <1>2, <2>2 DEF BatchFetched
    <3>2. Due \subseteq Born
      BY DEF Due, Born, Is
    <3>3. QED
      BY <3>1, <3>2, BornStays
  <2>3. CASE MasterClaim(p)
    <3>1. master'[p].batch = Tail(master[p].batch) /\ master[p].batch \in Seq(Tasks)
          /\ master[p].batch # <<>>
      BY <2>3, ClaimStep
    <3>2. i + 1 \in DOMAIN master[p].batch /\ master'[p].batch[i] = master[p].batch[i + 1]
      BY <1>2, <3>1, TailOf
    <3>3. QED
      BY <3>2, BornStays DEF KnownTasks
  <2>4. CASE master'[p].batch = <<>>
    BY <1>2, <2>4
  <2>5. QED
    BY <2>1, <2>2, <2>3, <2>4, BatchMoves
<1>3. QED
  BY <1>1, <1>2 DEF KnownTasks

\* A fetch puts what waits before everything it is senior to, or the batch is full of
\* tasks that come before it.
LEMMA FetchInOrder ==
  ASSUME ClaimInv, Ranked, NEW q \in Seq(Due), IsFetch(q), NEW i \in DOMAIN q, NEW u \in Tasks,
         Senior(u, q[i]), row[u].status = "pending"
  PROVE  \E j \in DOMAIN q : j < i /\ q[j] = u
<1>0. /\ DOMAIN q \subseteq Nat /\ q[i] \in Tasks
      /\ \A t \in Tasks : Priority[t] \in Nat /\ row[t].created \in Nat
  <2>1. DOMAIN q \subseteq Nat /\ q[i] \in Due
    OBVIOUS
  <2>2. \A t \in Tasks : Priority[t] \in Nat /\ row[t].created \in Nat
    BY TasksAssumption DEF ClaimInv, TypeOK, Row
  <2>3. QED
    BY <2>1, <2>2 DEF Due
<1>1. u \in Due
  BY DEF Senior, Ranked, Due, Is
<1>2. ~Before(q[i], u)
  BY <1>0 DEF Before, Senior
<1>3. PICK j \in DOMAIN q : q[j] = u
  BY <1>1, <1>2 DEF IsFetch
<1>4. j # i
  BY <1>0, <1>3 DEF Senior
<1>5. ~(i < j)
  BY <1>2, <1>3 DEF IsFetch
<1>6. QED
  BY <1>0, <1>3, <1>4, <1>5

LEMMA BatchStep ==
  ASSUME OrderInv, [Next]_vars
  PROVE  BatchInOrder'
<1> USE DEF OrderInv
<1> SUFFICES ASSUME NEW p \in Procs, NEW u \in Tasks, NEW i \in DOMAIN master'[p].batch,
                    NEW t, t = master'[p].batch[i], Senior(u, t)', row'[u].status = "pending"
             PROVE  \/ u = master'[p].claim
                    \/ \E j \in DOMAIN master'[p].batch : j < i /\ master'[p].batch[j] = u
  BY DEF BatchInOrder, Senior, Untouched, Is
<1>0. ASSUME UNCHANGED row PROVE Senior(u, t) /\ row[u].status = "pending"
  BY <1>0 DEF Senior, Untouched, Is
<1>1. CASE BatchKept(p)
  <2>1. i \in DOMAIN master[p].batch /\ master[p].batch[i] = t
    BY <1>1 DEF BatchKept
  <2>2. t \in Born
    BY <2>1 DEF KnownTasks
  <2>3. Senior(u, t) /\ row[u].status = "pending"
    BY <2>2, SeniorStays
  <2>4. u = master[p].claim \/ \E j \in DOMAIN master[p].batch : j < i /\ master[p].batch[j] = u
    BY <2>1, <2>3 DEF BatchInOrder
  <2>5. QED
    BY <1>1, <2>4 DEF BatchKept
<1>2. CASE BatchFetched(p)
  <2>1. UNCHANGED row /\ master'[p].batch \in Seq(Due) /\ IsFetch(master'[p].batch)
    BY <1>2 DEF BatchFetched
  <2>2. Senior(u, master'[p].batch[i]) /\ row[u].status = "pending"
    BY <1>0, <2>1
  <2>3. QED
    BY <2>1, <2>2, FetchInOrder
<1>3. CASE MasterClaim(p) /\ UNCHANGED row
  <2>1. PICK h \in Tasks :
           /\ \A q \in Procs : master[q].claim = NoTask
           /\ master[p].batch \in Seq(Tasks) /\ master[p].batch # <<>> /\ h = master[p].batch[1]
           /\ master'[p].batch = Tail(master[p].batch)
           /\ row[h].status = "pending" => master'[p].claim = h
    BY <1>3, ClaimStep
  <2>2. i \in Nat /\ i + 1 \in DOMAIN master[p].batch /\ t = master[p].batch[i + 1]
    BY <2>1, TailOf
  <2>3. Senior(u, t) /\ row[u].status = "pending"
    BY <1>0, <1>3
  <2>4. u # NoTask /\ master[p].claim = NoTask
    BY <2>1, TasksAssumption
  <2>5. PICK j \in DOMAIN master[p].batch : j < i + 1 /\ master[p].batch[j] = u
    BY <2>2, <2>3, <2>4 DEF BatchInOrder
  <2>6. CASE j = 1
    BY <2>1, <2>3, <2>5, <2>6
  <2>7. CASE j # 1
    <3>1. j \in Nat /\ j - 1 \in DOMAIN master'[p].batch /\ master'[p].batch[j - 1] = u
      <4> DEFINE b == master[p].batch
      <4> HIDE DEF b
      <4>1. b \in Seq(Tasks) /\ b # <<>> /\ j \in DOMAIN b /\ b[j] = u
        BY <2>1, <2>5 DEF b
      <4>2. j \in Nat
        BY <4>1, FirstOf
      <4>3. j - 1 \in DOMAIN Tail(b) /\ Tail(b)[j - 1] = u
        BY <2>7, <4>1, TailOf
      <4>4. QED
        BY <2>1, <4>2, <4>3 DEF b
    <3>2. QED
      BY <2>2, <2>5, <3>1
  <2>8. QED
    BY <2>6, <2>7
<1>4. CASE master'[p].batch = <<>>
  BY <1>4
<1>5. QED
  BY <1>1, <1>2, <1>3, <1>4, BatchMoves

LEMMA QueueStep ==
  ASSUME OrderInv, [Next]_vars
  PROVE  QueueInOrder'
<1> USE DEF OrderInv
<1> SUFFICES ASSUME NEW t \in Tasks, NEW u \in Tasks, NEW p \in Procs, NEW a \in Pools, NEW i \in Nat,
                    At(t, p, a, i)', Senior(u, t)'
             PROVE  row'[u].status # "pending" /\ \A j \in Nat : At(u, p, a, j)' => j < i
  BY DEF QueueInOrder
<1>s. ASSUME NEW k \in Nat, At(t, p, a, k)
      PROVE  row'[u].status # "pending" /\ \A j \in Nat : At(u, p, a, j) => j < k
  <2>1. t \in Born
    BY <1>s DEF KnownTasks
  <2>2. Senior(u, t) /\ (row'[u].status = "pending" => row[u].status = "pending")
    BY <2>1, SeniorStays
  <2>3. QED
    BY <1>s, <2>2 DEF QueueInOrder
<1>1. CASE UNCHANGED queue
  <2>1. At(t, p, a, i) /\ \A j \in Nat : At(u, p, a, j)' => At(u, p, a, j)
    BY <1>1 DEF At
  <2>2. QED
    BY <1>s, <2>1
<1>2. ASSUME NEW w \in Workers, WorkerTake(w) \/ WorkerSkip(w)
      PROVE  row'[u].status # "pending" /\ \A j \in Nat : At(u, p, a, j)' => j < i
  <2>1. CASE p = ProcOf[w] /\ a = WorkerPool[w]
    <3>1. At(t, p, a, i + 1)
      BY <1>2, <2>1, Popped
    <3>2. row'[u].status # "pending" /\ \A j \in Nat : At(u, p, a, j) => j < i + 1
      BY <1>s, <3>1
    <3>3. ASSUME NEW j \in Nat, At(u, p, a, j)' PROVE j < i
      <4>1. At(u, p, a, j + 1)
        BY <1>2, <2>1, <3>3, Popped
      <4>2. QED
        BY <3>2, <4>1
    <3>4. QED
      BY <3>2, <3>3
  <2>2. CASE ~(p = ProcOf[w] /\ a = WorkerPool[w])
    <3>1. At(t, p, a, i)
      BY <1>2, <2>2, Popped
    <3>2. \A j \in Nat : At(u, p, a, j)' => At(u, p, a, j)
      BY <1>2, <2>2, Popped
    <3>3. QED
      BY <1>s, <3>1, <3>2
  <2>3. QED
    BY <2>1, <2>2
<1>3. ASSUME NEW q \in Procs, MasterClaim(q), UNCHANGED row, ~ UNCHANGED queue
      PROVE  row'[u].status # "pending" /\ \A j \in Nat : At(u, p, a, j)' => j < i
  <2>1. PICK h \in Tasks :
           /\ \A r \in Procs : master[r].claim = NoTask
           /\ master[q].batch \in Seq(Tasks) /\ master[q].batch # <<>> /\ h = master[q].batch[1]
           /\ row[h].status = "pending"
           /\ Push(q, h)
    BY <1>3, ClaimStep
  <2>0. h \in Tasks /\ Push(q, h)
    BY <2>1
  <2>2. Senior(u, t)
    BY <1>3 DEF Senior, Untouched, Is
  <2>3. CASE At(t, p, a, i)
    <3>1. row'[u].status # "pending" /\ \A j \in Nat : At(u, p, a, j) => j < i
      BY <1>s, <2>3
    <3>2. u # h
      BY <1>3, <2>1, <3>1
    <3>3. ASSUME NEW j \in Nat, At(u, p, a, j)' PROVE At(u, p, a, j)
      BY <1>3, <2>0, <3>2, <3>3, Pushed
    <3>4. QED
      BY <3>1, <3>3
  <2>4. CASE t = h /\ p = q /\ a = PoolOf[TypeOf[h]] /\ \A v \in Tasks : \A j \in Nat : At(v, p, a, j) => j < i
    <3>1. 1 \in DOMAIN master[q].batch /\ DOMAIN master[q].batch \subseteq Nat \ {0}
          /\ master[q].batch[1] = t
      <4>1. master[q].batch \in Seq(Tasks) /\ master[q].batch # <<>> /\ master[q].batch[1] = t
        BY <2>1, <2>4
      <4>2. QED
        BY <4>1, FirstOf
    <3>2. row[u].status # "pending"
      <4>1. SUFFICES ASSUME row[u].status = "pending" PROVE FALSE
        OBVIOUS
      <4>2. q \in Procs /\ master[q].claim = NoTask /\ u # NoTask
        BY <1>3, <2>1, TasksAssumption
      <4>3. Senior(u, master[q].batch[1])
        BY <2>2, <3>1
      <4>4. \E j \in DOMAIN master[q].batch : j < 1
        BY <3>1, <4>1, <4>2, <4>3 DEF BatchInOrder
      <4>5. QED
        BY <3>1, <4>4
    <3>3. u # h
      BY <2>1, <3>2
    <3>4. ASSUME NEW j \in Nat, At(u, p, a, j)' PROVE At(u, p, a, j)
      BY <1>3, <2>0, <3>3, <3>4, Pushed
    <3>5. QED
      BY <1>3, <2>4, <3>2, <3>4
  <2>5. QED
    BY <1>3, <2>0, <2>3, <2>4, Pushed
<1>4. ASSUME NEW q \in Procs, Crash(q)
      PROVE  row'[u].status # "pending" /\ \A j \in Nat : At(u, p, a, j)' => j < i
  <2>1. queue'[p] = queue[p] \/ queue'[p] = [pool \in Pools |-> <<>>]
    BY <1>4 DEF Crash, ClaimInv, TypeOK
  <2>2. At(t, p, a, i) /\ \A j \in Nat : At(u, p, a, j)' => At(u, p, a, j)
    BY <2>1 DEF At
  <2>3. QED
    BY <1>s, <2>2
<1>5. QED
  BY <1>1, <1>2, <1>3, <1>4, QueueMoves

LEMMA OrderInductive ==
  /\ Init => OrderInv
  /\ OrderInv /\ [Next]_vars => OrderInv'
<1>1. Init => OrderInv
  <2> SUFFICES ASSUME Init PROVE OrderInv
    OBVIOUS
  <2>1. Ranked
    BY DEF Init, Ranked, Born, Untouched, Is, Unborn
  <2>2. \A t \in Tasks, p \in Procs, a \in Pools : \A i \in Nat : ~At(t, p, a, i)
    BY DEF Init, At
  <2>3. \A p \in Procs : DOMAIN master[p].batch = {}
    BY DEF Init, MasterIdle
  <2>4. KnownTasks /\ BatchInOrder /\ QueueInOrder
    BY <2>2, <2>3 DEF KnownTasks, BatchInOrder, QueueInOrder
  <2>5. QED
    BY <2>1, <2>4, ClaimInvInductive DEF OrderInv
<1>2. OrderInv /\ [Next]_vars => OrderInv'
  <2> SUFFICES ASSUME OrderInv, [Next]_vars PROVE OrderInv'
    OBVIOUS
  <2>1. ClaimInv' /\ Ranked' /\ KnownTasks' /\ BatchInOrder' /\ QueueInOrder'
    BY ClaimInvInductive, RankedStep, KnownStep, BatchStep, QueueStep DEF OrderInv
  <2>2. QED
    BY <2>1 DEF OrderInv
<1>3. QED
  BY <1>1, <1>2

\* Whoever is begun is at the head of the queue, so nothing senior to it waits.
LEMMA BegunFirst ==
  ASSUME OneProcess, OrderInv, [Next]_vars, NEW w \in Workers, NEW t \in Tasks, NEW u \in Tasks,
         Begins(w, t), PoolOf[TypeOf[u]] = WorkerPool[w], Senior(u, t)
  PROVE  u \notin Due /\ ~InQueue(u)'
<1> USE DEF OrderInv
<1> DEFINE P == ProcOf[w]
           A == WorkerPool[w]
<1>1. WorkerTake(w)
  <2>1. Runs(t, w)' /\ ~Runs(t, w)
    BY DEF Begins, Runs, Busy
  <2>2. QED
    BY <2>1, RunsOnlyByTaking DEF ClaimInv
<1>2. P \in Procs /\ A \in Pools /\ queue[P][A] \in Seq(Tasks)
  BY ThreadsAssumption DEF ClaimInv, TypeOK
<1>3. At(t, P, A, 1)
  <2>1. worker'[w].task = Head(queue[P][A]) /\ queue[P][A] # <<>>
    BY <1>1 DEF WorkerTake, MyQueue, ClaimInv, TypeOK
  <2>2. QED
    BY <1>2, <2>1 DEF At, Begins
<1>5. row[u].status # "pending" /\ \A j \in Nat : At(u, P, A, j) => j < 1
  BY <1>2, <1>3 DEF QueueInOrder
<1>7. u \notin Due
  BY <1>5 DEF Due, Is
<1>8. ASSUME NEW p \in Procs, NEW a \in Pools, NEW i \in DOMAIN queue'[p][a], queue'[p][a][i] = u
      PROVE  FALSE
  <2>1. i \in Nat
    <3>1. queue'[p][a] \in Seq(Tasks)
      BY <1>8, ClaimInvInductive DEF ClaimInv, TypeOK
    <3>2. QED
      BY <1>8, <3>1
  <2>2. At(u, p, a, i)'
    BY <1>8 DEF At
  <2>3. p = P
    BY <1>2, <1>8 DEF OneProcess
  <2>4. CASE a = A
    <3>1. At(u, P, A, i + 1) /\ i >= 1
      BY <1>1, <1>8, <2>1, <2>2, <2>3, <2>4, Popped
    <3>2. QED
      BY <1>5, <2>1, <3>1
  <2>5. CASE a # A
    <3>1. At(u, p, a, i)
      BY <1>1, <1>8, <2>1, <2>2, <2>5, Popped
    <3>2. PoolOf[TypeOf[u]] = a
      BY <1>8, <2>1, <3>1 DEF KnownTasks
    <3>3. QED
      BY <2>5, <3>2
  <2>6. QED
    BY <2>4, <2>5
<1>9. QED
  BY <1>7, <1>8 DEF InQueue

\* In one process, tasks of one priority and one pool are begun in the order they were
\* created, for any number of tasks, pools and workers and whatever is canceled,
\* retried or deleted meanwhile: the scan reads them in that order, the claims put
\* them into the queue in that order, and nothing that waits is overtaken there.
THEOREM BegunInOrder == OneProcess => (Spec => FirstComeFirstServed)
<1> SUFFICES ASSUME OneProcess PROVE Spec => FirstComeFirstServed
  OBVIOUS
<1>1. OrderInv /\ [Next]_vars =>
        \A w \in Workers, t, u \in Tasks :
          Begins(w, t) /\ PoolOf[TypeOf[u]] = WorkerPool[w]
            /\ Priority[u] = Priority[t] /\ row[u].created < row[t].created
            /\ row[u].retries = 0 /\ Is(u, {"pending", "running"})
              => u \notin Due /\ ~InQueue(u)'
  BY BegunFirst DEF Senior, Untouched
<1>2. QED
  BY <1>1, OrderInductive, PTL DEF Spec, FirstComeFirstServed
=============================================================================
