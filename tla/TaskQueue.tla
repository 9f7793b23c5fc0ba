------------------------------ MODULE TaskQueue ------------------------------
(***************************************************************************)
(* The asynchronous task framework of backend/task_queue.py: rows of the   *)
(* SQLite table async_tasks, the master thread and the worker threads of   *)
(* every server process, and the HTTP routes that create, cancel, retry    *)
(* and delete tasks.                                                       *)
(*                                                                         *)
(* One step is one database transaction or one read outside a transaction, *)
(* so every interleaving of threads and processes that the database lets   *)
(* happen is a behaviour here.  All the tasks belong to one metered user   *)
(* (neither admin nor vip): ownership checks only reject requests.         *)
(***************************************************************************)
EXTENDS Integers, Sequences, FiniteSets

CONSTANTS
  Tasks,        \* task identifiers; a deleted identifier is never reused
  NoTask,       \* "no task", not a member of Tasks
  Types,        \* the task types given to register_handler
  Pools,        \* the worker pools: "default" and "long" in the code
  TypeOf,       \* Tasks -> Types
  PoolOf,       \* Types -> Pools, the registry _POOLS
  UserLimit,    \* Types -> Nat, the registry _USER_LIMITS (0: no limit)
  MaxAttempts,  \* Types -> Nat, the registry _MAX_ATTEMPTS (0: no auto-retry)
  Priority,     \* Tasks -> Nat, the priority given at creation
  Billing,      \* Tasks -> BillingModes, who charges the user's quota
  Procs,        \* server processes (uvicorn: one, gunicorn -w N: several)
  Workers,      \* worker threads of all the processes
  ProcOf,       \* Workers -> Procs
  WorkerPool,   \* Workers -> Pools
  ScanBatch,    \* LIMIT of the scan for pending tasks
  ApiOps,       \* which of the optional routes users call
  RetryBound,   \* bound: a retry needs retry_count below it
  CrashBound,   \* bound: how often processes die
  LapseBound    \* bound: how often the user's paid membership runs out

\* prepaid: charged by the route before the task is created; handler: charged
\* by the handler when it starts; free: never charged (POST /api/tasks/{type}).
BillingModes == {"prepaid", "handler", "free"}

ASSUME TasksAssumption ==
  /\ IsFiniteSet(Tasks) /\ NoTask \notin Tasks
  /\ TypeOf \in [Tasks -> Types]
  /\ Priority \in [Tasks -> Nat]
  /\ Billing \in [Tasks -> BillingModes]

ASSUME RegistryAssumption ==
  /\ PoolOf \in [Types -> Pools]
  /\ UserLimit \in [Types -> Nat]
  /\ MaxAttempts \in [Types -> Nat]

ASSUME ThreadsAssumption ==
  /\ ProcOf \in [Workers -> Procs]
  /\ WorkerPool \in [Workers -> Pools]
  /\ ScanBatch \in Nat \ {0}

ASSUME BoundsAssumption ==
  /\ ApiOps \subseteq {"cancel", "retry", "delete", "cleanup"}
  /\ RetryBound \in Nat
  /\ CrashBound \in Nat
  /\ LapseBound \in Nat

VARIABLES
  row,      \* Tasks -> the committed row of async_tasks
  credit,   \* Tasks -> charges - refunds - delivered results (a ledger, not code)
  master,   \* Procs -> the local state of the master thread
  queue,    \* Procs -> Pools -> the in-memory queue.Queue
  worker,   \* Workers -> the local state of the worker thread
  api,      \* Procs -> the retry or delete request its event loop is handling
  up,       \* Procs -> is the process alive
  lapsed,   \* the user's membership ran out and the users row still shows it
  crashes,  \* processes that died so far
  lapses    \* memberships that ran out so far

vars == <<row, credit, master, queue, worker, api, up, lapsed, crashes, lapses>>

-----------------------------------------------------------------------------
(* Rows and local states *)

Terminal == {"success", "failed", "interrupted", "canceled"}
Live     == {"pending", "running"} \cup Terminal    \* the row is in the table
Status   == Live \cup {"unborn", "deleted"}

\* due: next_retry_at is empty or past.  aged: a running row started more than
\* TASK_TIMEOUT_SECONDS ago, a terminal one finished more than
\* TASK_RETENTION_DAYS ago.  created: the rank of created_at.
Row == [status: Status, retries: Nat, cancel: BOOLEAN, due: BOOLEAN,
        aged: BOOLEAN, created: Nat]

Unborn == [status |-> "unborn", retries |-> 0, cancel |-> FALSE, due |-> TRUE,
           aged |-> FALSE, created |-> 0]
Deleted == [Unborn EXCEPT !.status = "deleted"]

MasterState == [pc: {"scan", "claim", "housekeep"}, batch: Seq(Tasks),
                claim: Tasks \cup {NoTask}, overdue: SUBSET Tasks]
MasterIdle == [pc |-> "scan", batch |-> <<>>, claim |-> NoTask, overdue |-> {}]

\* void: the run this worker executes is over in the database: its row was
\* canceled, timed out, interrupted, retried, finished or deleted meanwhile.
WorkerPc == {"idle", "start", "charge", "run", "requeue", "settle", "settle402", "dead"}
WorkerState == [pc: WorkerPc, task: Tasks \cup {NoTask}, void: BOOLEAN]
WorkerIdle == [pc |-> "idle", task |-> NoTask, void |-> FALSE]
WorkerDead == [WorkerIdle EXCEPT !.pc = "dead"]

ApiState == [op: {"none", "retry", "delete"}, task: Tasks \cup {NoTask},
             fee: {"none", "owed", "paid"}]
ApiIdle == [op |-> "none", task |-> NoTask, fee |-> "none"]

Is(t, S) == row[t].status \in S

\* What create_task counts.
Active(type) == {t \in Tasks : TypeOf[t] = type /\ Is(t, {"pending", "running"})}

\* An uncommitted claim holds SQLite's write lock: every other writer waits.
WriteLockFree == \A p \in Procs : master[p].claim = NoTask

\* The guard "AND status='running'" of every write that ends a run.
EndableUnguarded(t) == Is(t, Live)
Endable(t) == Is(t, {"running"})

(* What the UPDATE statements do to a row *)

Submitted(n) == [Unborn EXCEPT !.status = "pending", !.created = n]
Moved(r, s) == [r EXCEPT !.status = s, !.aged = FALSE]
Canceled(r) == [Moved(r, "canceled") EXCEPT !.cancel = TRUE]
ResubmittedUncounted(r) ==
  [Moved(r, "pending") EXCEPT !.retries = @ - 1, !.cancel = FALSE, !.due = TRUE]
Resubmitted(r) ==
  [Moved(r, "pending") EXCEPT !.retries = @ + 1, !.cancel = FALSE, !.due = TRUE]
BackedOff(r) == [Resubmitted(r) EXCEPT !.due = FALSE]

\* The workers whose run of a task of S the row no longer backs.
VoidRuns(S) ==
  [w \in Workers |-> IF worker[w].task \in S
                     THEN [worker[w] EXCEPT !.void = TRUE] ELSE worker[w]]

Init ==
  /\ row = [t \in Tasks |-> Unborn]
  /\ credit = [t \in Tasks |-> 0]
  /\ master = [p \in Procs |-> MasterIdle]
  /\ queue = [p \in Procs |-> [pool \in Pools |-> <<>>]]
  /\ worker = [w \in Workers |-> WorkerIdle]
  /\ api = [p \in Procs |-> ApiIdle]
  /\ up = [p \in Procs |-> TRUE]
  /\ lapsed = FALSE
  /\ crashes = 0
  /\ lapses = 0

-----------------------------------------------------------------------------
(* Routes.  A route is an async def without an await: it holds its process's *)
(* event loop, but not the threads, from its first read to its last write.   *)

Serving(p) == up[p] /\ api[p].op = "none"

\* create_task: BEGIN IMMEDIATE serialises the count and the insert.
CreateTask(p, t) ==
  /\ Serving(p) /\ WriteLockFree
  /\ row[t].status = "unborn"
  /\ LET limit == UserLimit[TypeOf[t]]
     IN  limit > 0 => Cardinality(Active(TypeOf[t])) < limit
  /\ LET older == {u \in Tasks : row[u].status # "unborn"}
     IN  row' = [row EXCEPT ![t] = Submitted(1 + Cardinality(older))]
  /\ credit' = [credit EXCEPT ![t] = IF Billing[t] = "prepaid" THEN 1 ELSE 0]
  /\ UNCHANGED <<master, queue, worker, api, up, lapsed, crashes, lapses>>

\* cancel_task_api: one guarded UPDATE.
CancelableWide == {"pending", "running", "failed"}
Cancelable == {"pending", "running"}

CancelTask(p, t) ==
  /\ "cancel" \in ApiOps
  /\ Serving(p) /\ WriteLockFree
  /\ Is(t, Cancelable)
  /\ row' = [row EXCEPT ![t] = Canceled(@)]
  /\ worker' = VoidRuns({t})
  /\ UNCHANGED <<credit, master, queue, api, up, lapsed, crashes, lapses>>

\* The statuses retry_task_api charges for: an interrupted or canceled task is
\* still paid for.
RechargedFailedOnly == {"failed"}
Recharged == {"failed", "success"}

\* retry_task_api up to its status check.
RetryCheck(p, t) ==
  /\ "retry" \in ApiOps
  /\ Serving(p)
  /\ Is(t, Terminal)
  /\ row[t].retries < RetryBound
  /\ api' = [api EXCEPT ![p] = [op |-> "retry", task |-> t,
               fee |-> IF Is(t, Recharged) THEN "owed" ELSE "none"]]
  /\ UNCHANGED <<row, credit, master, queue, worker, up, lapsed, crashes, lapses>>

\* consume_quota inside retry_task_api: charged, or refused with 402.
RetryCharge(p) ==
  /\ up[p] /\ WriteLockFree
  /\ api[p].fee = "owed"
  /\ lapsed' = FALSE
  /\ \/ /\ credit' = [credit EXCEPT ![api[p].task] = @ + 1]
        /\ api' = [api EXCEPT ![p].fee = "paid"]
     \/ /\ api' = [api EXCEPT ![p] = ApiIdle]
        /\ UNCHANGED credit
  /\ UNCHANGED <<row, master, queue, worker, up, crashes, lapses>>

\* retry_task_api's UPDATE, which does not look at the status again.
RetryWrite(p) ==
  /\ up[p] /\ WriteLockFree
  /\ api[p].op = "retry" /\ api[p].fee # "owed"
  /\ LET t == api[p].task
     IN  IF Is(t, Live)
         THEN /\ row' = [row EXCEPT ![t] = Resubmitted(@)]
              /\ worker' = VoidRuns({t})
         ELSE UNCHANGED <<row, worker>>
  /\ api' = [api EXCEPT ![p] = ApiIdle]
  /\ UNCHANGED <<credit, master, queue, up, lapsed, crashes, lapses>>

\* delete_task_api up to its status check.
DeleteCheck(p, t) ==
  /\ "delete" \in ApiOps
  /\ Serving(p)
  /\ Is(t, Live \ {"running"})
  /\ api' = [api EXCEPT ![p] = [op |-> "delete", task |-> t, fee |-> "none"]]
  /\ UNCHANGED <<row, credit, master, queue, worker, up, lapsed, crashes, lapses>>

\* delete_task_api's DELETE, which does not look at the status again.
DeleteWrite(p) ==
  /\ up[p] /\ WriteLockFree
  /\ api[p].op = "delete"
  /\ LET t == api[p].task
     IN  IF Is(t, Live)
         THEN row' = [row EXCEPT ![t] = Deleted] /\ worker' = VoidRuns({t})
         ELSE UNCHANGED <<row, worker>>
  /\ api' = [api EXCEPT ![p] = ApiIdle]
  /\ UNCHANGED <<credit, master, queue, up, lapsed, crashes, lapses>>

\* cleanup_tasks_api: one DELETE of every terminal row of the user.
CleanupTasks(p) ==
  /\ "cleanup" \in ApiOps
  /\ Serving(p) /\ WriteLockFree
  /\ LET gone == {t \in Tasks : Is(t, Terminal)}
     IN  /\ gone # {}
         /\ row' = [t \in Tasks |-> IF t \in gone THEN Deleted ELSE row[t]]
         /\ worker' = VoidRuns(gone)
  /\ UNCHANGED <<credit, master, queue, api, up, lapsed, crashes, lapses>>

-----------------------------------------------------------------------------
(* The master thread: scan, claim one by one, housekeeping once a minute *)

Due == {t \in Tasks : Is(t, {"pending"}) /\ row[t].due}

BeforeLastIn(t, u) ==
  \/ Priority[t] > Priority[u]
  \/ Priority[t] = Priority[u] /\ row[t].created > row[u].created
Before(t, u) ==
  \/ Priority[t] > Priority[u]
  \/ Priority[t] = Priority[u] /\ row[t].created < row[u].created

\* _fetch_pending: ORDER BY priority DESC, created_at LIMIT SCAN_BATCH.
IsFetch(q) ==
  /\ \A i, j \in DOMAIN q : i < j => Before(q[i], q[j])
  /\ \A t \in Due : \/ \E i \in DOMAIN q : q[i] = t
                    \/ Len(q) = ScanBatch /\ \A i \in DOMAIN q : Before(q[i], t)

MasterScan(p) ==
  /\ up[p] /\ master[p].pc = "scan"
  /\ \E n \in 0 .. ScanBatch : \E q \in [1 .. n -> Due] :
       /\ IsFetch(q)
       /\ master' = [master EXCEPT ![p].pc = "claim", ![p].batch = q]
  /\ UNCHANGED <<row, credit, queue, worker, api, up, lapsed, crashes, lapses>>

\* The guard "AND status='pending'" of the claim.
ClaimableAgain(t) == Is(t, {"pending", "running"})
Claimable(t) == Is(t, {"pending"})

\* The claiming UPDATE of the next fetched task.  Its row is still pending: the
\* id goes into the queue now and the transaction commits afterwards.
MasterClaim(p) ==
  /\ up[p] /\ WriteLockFree
  /\ master[p].pc = "claim" /\ master[p].batch # <<>>
  /\ LET t == Head(master[p].batch)
         pool == PoolOf[TypeOf[t]]
     IN  IF Claimable(t)
         THEN /\ master' = [master EXCEPT ![p].batch = Tail(@), ![p].claim = t]
              /\ queue' = [queue EXCEPT ![p][pool] = Append(@, t)]
         ELSE /\ master' = [master EXCEPT ![p].batch = Tail(@)]
              /\ UNCHANGED queue
  /\ UNCHANGED <<row, credit, worker, api, up, lapsed, crashes, lapses>>

\* get_db_context leaves: the claim becomes visible.
MasterCommit(p) ==
  /\ up[p] /\ master[p].claim # NoTask
  /\ row' = [row EXCEPT ![master[p].claim] = Moved(@, "running")]
  /\ master' = [master EXCEPT ![p].claim = NoTask]
  /\ UNCHANGED <<credit, queue, worker, api, up, lapsed, crashes, lapses>>

\* What the watchdog reads.
OverdueQueued == {t \in Tasks : Is(t, {"pending"}) /\ row[t].aged}
Overdue == {t \in Tasks : Is(t, {"running"}) /\ row[t].aged}

\* The batch is done: sleep and scan again, or (every 60 s) first read the
\* running rows that started too long ago.
MasterRoundEnd(p) ==
  /\ up[p]
  /\ master[p].pc = "claim" /\ master[p].batch = <<>> /\ master[p].claim = NoTask
  /\ \/ master' = [master EXCEPT ![p].pc = "scan"]
     \/ master' = [master EXCEPT ![p].pc = "housekeep", ![p].overdue = Overdue]
  /\ UNCHANGED <<row, credit, queue, worker, api, up, lapsed, crashes, lapses>>

\* A failing transition to failed that refunds the quota: refund_quota loads the
\* user through a second connection, and a lapsed membership makes that load
\* write while this transaction holds the write lock.  It times out and rolls back.
RefundBlocks == lapsed

\* _watchdog for one of the rows it read: guarded UPDATE and refund.
WatchdogFail(p) ==
  /\ up[p] /\ WriteLockFree
  /\ master[p].pc = "housekeep"
  /\ \E t \in master[p].overdue :
       \/ /\ Endable(t) /\ ~RefundBlocks
          /\ row' = [row EXCEPT ![t] = Moved(@, "failed")]
          /\ credit' = [credit EXCEPT ![t] = @ - 1]
          /\ worker' = VoidRuns({t})
          /\ master' = [master EXCEPT ![p].overdue = @ \ {t}]
       \/ /\ Endable(t) /\ RefundBlocks
          /\ master' = [master EXCEPT ![p].pc = "scan", ![p].overdue = {}]
          /\ UNCHANGED <<row, credit, worker>>
       \/ /\ ~Endable(t)
          /\ master' = [master EXCEPT ![p].overdue = @ \ {t}]
          /\ UNCHANGED <<row, credit, worker>>
  /\ UNCHANGED <<queue, api, up, lapsed, crashes, lapses>>

\* _cleanup_expired_tasks, the end of the housekeeping.
CleanupExpired(p) ==
  /\ up[p] /\ WriteLockFree
  /\ master[p].pc = "housekeep" /\ master[p].overdue = {}
  /\ LET gone == {t \in Tasks : Is(t, Terminal) /\ row[t].aged}
     IN  /\ row' = [t \in Tasks |-> IF t \in gone THEN Deleted ELSE row[t]]
         /\ worker' = VoidRuns(gone)
  /\ master' = [master EXCEPT ![p].pc = "scan"]
  /\ UNCHANGED <<credit, queue, api, up, lapsed, crashes, lapses>>

-----------------------------------------------------------------------------
(* A worker thread *)

MyQueue(w) == queue[ProcOf[w]][WorkerPool[w]]
PopQueue(w) == queue' = [queue EXCEPT ![ProcOf[w]][WorkerPool[w]] = Tail(@)]
Step(w, pcs) == up[ProcOf[w]] /\ worker[w].pc \in pcs

\* _run_handler reads the row: only a running one is executed.
WorkerTake(w) ==
  /\ Step(w, {"idle"})
  /\ MyQueue(w) # <<>>
  /\ Is(Head(MyQueue(w)), {"running"})
  /\ PopQueue(w)
  /\ worker' = [worker EXCEPT ![w] =
                  [pc |-> "start", task |-> Head(MyQueue(w)), void |-> FALSE]]
  /\ UNCHANGED <<row, credit, master, api, up, lapsed, crashes, lapses>>

\* Any other row is skipped and its id forgotten.
WorkerSkip(w) ==
  /\ Step(w, {"idle"})
  /\ MyQueue(w) # <<>>
  /\ ~Is(Head(MyQueue(w)), {"running"})
  /\ PopQueue(w)
  /\ UNCHANGED <<row, credit, master, worker, api, up, lapsed, crashes, lapses>>

\* _ensure_claimable refreshes started_at and trusts the status read before.
WorkerStart(w) ==
  /\ Step(w, {"start"}) /\ WriteLockFree
  /\ LET t == worker[w].task
     IN  /\ row' = IF Is(t, {"running"}) THEN [row EXCEPT ![t] = Moved(@, "running")] ELSE row
         /\ worker' = [worker EXCEPT ![w].pc =
                         IF Billing[t] = "handler" THEN "charge" ELSE "run"]
  /\ UNCHANGED <<credit, master, queue, api, up, lapsed, crashes, lapses>>

\* consume_quota, called by a handler that charges when it starts (the digital
\* human's _dh_quota_setup): charged, or HTTPException(402).
WorkerCharge(w) ==
  /\ Step(w, {"charge"}) /\ WriteLockFree
  /\ lapsed' = FALSE
  /\ \/ /\ credit' = [credit EXCEPT ![worker[w].task] = @ + 1]
        /\ worker' = [worker EXCEPT ![w].pc = "run"]
     \/ /\ worker' = [worker EXCEPT ![w] =
                        IF Is(worker[w].task, Live) THEN [@ EXCEPT !.pc = "settle402"]
                        ELSE WorkerIdle]
        /\ UNCHANGED credit
  /\ UNCHANGED <<row, master, queue, api, up, crashes, lapses>>

\* update() finds cancel_requested and raises TaskCanceled.
WorkerAbort(w) ==
  /\ Step(w, {"charge", "run"})
  /\ Is(worker[w].task, Live) /\ row[worker[w].task].cancel
  /\ worker' = [worker EXCEPT ![w] = WorkerIdle]
  /\ UNCHANGED <<row, credit, master, queue, api, up, lapsed, crashes, lapses>>

\* _mark_success: UPDATE ... WHERE status='running'.
WorkerSucceed(w) ==
  /\ Step(w, {"run"}) /\ WriteLockFree
  /\ LET t == worker[w].task
     IN  IF Endable(t)
         THEN /\ row' = [row EXCEPT ![t] = Moved(@, "success")]
              /\ credit' = [credit EXCEPT ![t] = @ - 1]
              /\ worker' = [VoidRuns({t}) EXCEPT ![w] = WorkerIdle]
         ELSE /\ worker' = [worker EXCEPT ![w] = WorkerIdle]
              /\ UNCHANGED <<row, credit>>
  /\ UNCHANGED <<master, queue, api, up, lapsed, crashes, lapses>>

ShouldAutoRetry(t) ==
  /\ MaxAttempts[TypeOf[t]] > 0
  /\ row[t].retries < MaxAttempts[TypeOf[t]]

\* The handler raises: _mark_failed reads the attempt counters.
WorkerRaise(w) ==
  /\ Step(w, {"charge", "run"})
  /\ LET t == worker[w].task
     IN  worker' = [worker EXCEPT ![w] =
           IF ~Is(t, Live) THEN WorkerIdle
           ELSE [@ EXCEPT !.pc = IF ShouldAutoRetry(t) THEN "requeue" ELSE "settle"]]
  /\ UNCHANGED <<row, credit, master, queue, api, up, lapsed, crashes, lapses>>

\* _mark_failed, automatic retry: back to pending after a backoff.
WorkerRequeue(w) ==
  /\ Step(w, {"requeue"}) /\ WriteLockFree
  /\ LET t == worker[w].task
     IN  IF Endable(t)
         THEN /\ row' = [row EXCEPT ![t] = BackedOff(@)]
              /\ worker' = [VoidRuns({t}) EXCEPT ![w] = WorkerIdle]
         ELSE /\ worker' = [worker EXCEPT ![w] = WorkerIdle]
              /\ UNCHANGED row
  /\ UNCHANGED <<credit, master, queue, api, up, lapsed, crashes, lapses>>

\* _mark_failed, final: failed and, unless the error is 402, one refund in the
\* same transaction.  A blocked refund escapes _worker_loop and ends the thread.
WorkerSettle(w) ==
  /\ Step(w, {"settle", "settle402"}) /\ WriteLockFree
  /\ LET t == worker[w].task
         refunds == worker[w].pc = "settle"
     IN  \/ /\ Endable(t) /\ ~(refunds /\ RefundBlocks)
            /\ row' = [row EXCEPT ![t] = Moved(@, "failed")]
            /\ credit' = [credit EXCEPT ![t] = IF refunds THEN @ - 1 ELSE @]
            /\ worker' = [VoidRuns({t}) EXCEPT ![w] = WorkerIdle]
         \/ /\ Endable(t) /\ refunds /\ RefundBlocks
            /\ worker' = [worker EXCEPT ![w] = WorkerDead]
            /\ UNCHANGED <<row, credit>>
         \/ /\ ~Endable(t)
            /\ worker' = [worker EXCEPT ![w] = WorkerIdle]
            /\ UNCHANGED <<row, credit>>
  /\ UNCHANGED <<master, queue, api, up, lapsed, crashes, lapses>>

-----------------------------------------------------------------------------
(* Time, the user's membership, and processes that die and start again *)

TimePasses(t) ==
  /\ ~row[t].aged /\ Is(t, {"running"} \cup Terminal)
  /\ row' = [row EXCEPT ![t].aged = TRUE]
  /\ UNCHANGED <<credit, master, queue, worker, api, up, lapsed, crashes, lapses>>

BackoffElapses(t) ==
  /\ ~row[t].due
  /\ row' = [row EXCEPT ![t].due = TRUE]
  /\ UNCHANGED <<credit, master, queue, worker, api, up, lapsed, crashes, lapses>>

MembershipLapses ==
  /\ ~lapsed /\ lapses < LapseBound
  /\ lapsed' = TRUE /\ lapses' = lapses + 1
  /\ UNCHANGED <<row, credit, master, queue, worker, api, up, crashes>>

\* Any other request that loads the user writes the downgrade down.
UserReturns ==
  /\ lapsed /\ WriteLockFree
  /\ lapsed' = FALSE
  /\ UNCHANGED <<row, credit, master, queue, worker, api, up, crashes, lapses>>

Crash(p) ==
  /\ up[p] /\ crashes < CrashBound
  /\ up' = [up EXCEPT ![p] = FALSE]
  /\ crashes' = crashes + 1
  /\ master' = [master EXCEPT ![p] = MasterIdle]
  /\ queue' = [queue EXCEPT ![p] = [pool \in Pools |-> <<>>]]
  /\ worker' = [w \in Workers |-> IF ProcOf[w] = p THEN WorkerIdle ELSE worker[w]]
  /\ api' = [api EXCEPT ![p] = ApiIdle]
  /\ UNCHANGED <<row, credit, lapsed, lapses>>

\* The lifespan of main.py: recover_interrupted_tasks, then start_workers.
Start(p) ==
  /\ ~up[p] /\ WriteLockFree
  /\ up' = [up EXCEPT ![p] = TRUE]
  /\ LET cut == {t \in Tasks : Is(t, {"running"})}
     IN  /\ row' = [t \in Tasks |->
                     IF t \in cut THEN Moved(row[t], "interrupted") ELSE row[t]]
         /\ worker' = VoidRuns(cut)
  /\ UNCHANGED <<credit, master, queue, api, lapsed, crashes, lapses>>

-----------------------------------------------------------------------------
Routes(p) ==
  \/ \E t \in Tasks : \/ CreateTask(p, t) \/ CancelTask(p, t)
                      \/ RetryCheck(p, t) \/ DeleteCheck(p, t)
  \/ RetryCharge(p) \/ RetryWrite(p) \/ DeleteWrite(p) \/ CleanupTasks(p)

Master(p) ==
  \/ MasterScan(p) \/ MasterClaim(p) \/ MasterCommit(p) \/ MasterRoundEnd(p)
  \/ WatchdogFail(p) \/ CleanupExpired(p)

Worker(w) ==
  \/ WorkerTake(w) \/ WorkerSkip(w) \/ WorkerStart(w) \/ WorkerCharge(w)
  \/ WorkerAbort(w) \/ WorkerSucceed(w) \/ WorkerRaise(w) \/ WorkerRequeue(w)
  \/ WorkerSettle(w)

Environment ==
  \/ \E t \in Tasks : TimePasses(t) \/ BackoffElapses(t)
  \/ MembershipLapses \/ UserReturns
  \/ \E p \in Procs : Crash(p) \/ Start(p)

Next ==
  \/ \E p \in Procs : Routes(p) \/ Master(p)
  \/ \E w \in Workers : Worker(w)
  \/ Environment

Spec == Init /\ [][Next]_vars

\* The threads a live process schedules and the clock.  A handler need not ever
\* return, a user need not ever come back, and no process need ever start again.
\* MasterRoundEnd alone would let the 60 s timer never fire: strong fairness on
\* its second disjunct says that it does.
Housekeeps(p) == MasterRoundEnd(p) /\ master'[p].pc = "housekeep"

Fairness ==
  /\ \A p \in Procs : WF_vars(Master(p)) /\ SF_vars(Housekeeps(p))
  /\ \A t \in Tasks : WF_vars(TimePasses(t)) /\ WF_vars(BackoffElapses(t))
  /\ \A w \in Workers : WF_vars(WorkerTake(w) \/ WorkerSkip(w) \/ WorkerStart(w))

FairSpec == Spec /\ Fairness

-----------------------------------------------------------------------------
(* Properties *)

\* Every variable stays in its type.
TypeOK ==
  /\ row \in [Tasks -> Row]
  /\ credit \in [Tasks -> Int]
  /\ master \in [Procs -> MasterState]
  /\ queue \in [Procs -> [Pools -> Seq(Tasks)]]
  /\ worker \in [Workers -> WorkerState]
  /\ api \in [Procs -> ApiState]
  /\ up \in [Procs -> BOOLEAN]
  /\ lapsed \in BOOLEAN
  /\ crashes \in Nat
  /\ lapses \in Nat

Busy == {"start", "charge", "run", "requeue", "settle", "settle402"}

\* No two workers execute the same task (retry_task_api's docstring: a task
\* that runs twice overwrites its own result and pays the provider twice).
NoDoubleRun ==
  \A v, w \in Workers :
    worker[v].pc \in Busy /\ worker[w].pc \in Busy /\ v # w
      => worker[v].task # worker[w].task

\* A user never has more active tasks of a type than register_handler allows.
ActiveWithinLimit ==
  \A type \in Types :
    UserLimit[type] > 0 =>
      Cardinality({t \in Tasks : TypeOf[t] = type /\ Is(t, {"pending", "running"})})
        <= UserLimit[type]

\* Once a task has ended, only a retry or a deletion changes its row: neither a
\* late worker, nor the watchdog, nor a restart overwrites how it ended.
TerminalSticks ==
  [][\A t \in Tasks : Is(t, Terminal) /\ row'[t].status # row[t].status
       => row'[t].status \in {"pending", "deleted"}]_vars

\* A result that arrives after its run was canceled, timed out or interrupted is
\* dropped. The module's docstring (line 17) and _mark_success (line 430) promise
\* the same of a run that was canceled and retried since; there the row runs
\* again and the guard of Endable lets the late result through.
LateResultDropped ==
  [][\A w \in Workers :
       worker[w].pc \in Busy /\ worker[w].void /\ worker'[w].pc = "idle"
         => row'[worker[w].task] = row[worker[w].task]]_vars

InFlight(t) == {p \in Procs : api[p].fee = "paid" /\ api[p].task = t}
Settled(t) == credit[t] - Cardinality(InFlight(t))

\* The ledger of a prepaid task: while the task is owed to the user exactly one
\* charge is held for it, and none once it was delivered or refunded.  A process
\* that dies between the charge and the reset of a retried row loses the user a
\* charge, but no task is ever owed for free.
CreditMatchesStatus ==
  \A t \in Tasks : Billing[t] = "prepaid" =>
    /\ Is(t, {"pending", "running", "interrupted", "canceled"}) =>
         Settled(t) >= 1 /\ (crashes = 0 => Settled(t) = 1)
    /\ Is(t, {"success", "failed"}) =>
         Settled(t) >= 0 /\ (crashes = 0 => Settled(t) = 0)

InQueue(t) ==
  \E p \in Procs, pool \in Pools : \E i \in DOMAIN queue[p][pool] : queue[p][pool][i] = t

Begins(w, t) == worker[w].pc = "idle" /\ worker'[w].pc = "start" /\ worker'[w].task = t

\* Tasks of one priority and one pool are begun in the order they were created,
\* whatever happens to the others: no older task that was never sent back to the
\* table still waits, there or in the queue, when a younger one begins.
FirstComeFirstServed ==
  [][\A w \in Workers, t, u \in Tasks :
       Begins(w, t) /\ PoolOf[TypeOf[u]] = WorkerPool[w]
         /\ Priority[u] = Priority[t] /\ row[u].created < row[t].created
         /\ row[u].retries = 0 /\ Is(u, {"pending", "running"})
           => u \notin Due /\ ~InQueue(u)']_vars

\* A task never stays pending or running for ever (module docstring, line 19):
\* even if its handler hangs the watchdog ends it.
EveryTaskEnds ==
  \A t \in Tasks : Is(t, {"pending", "running"})
                     ~> ~Is(t, {"pending", "running"})

\* The contract of TaskLifecycle: a charge taken for a retry counts from the write
\* that brings the row back, and a row that is gone holds no charge.
Promise == INSTANCE TaskLifecycle WITH
  status <- [t \in Tasks |-> CASE row[t].status = "unborn"  -> "none"
                               [] row[t].status = "deleted" -> "removed"
                               [] OTHER                     -> row[t].status],
  paid <- [t \in Tasks |-> IF Is(t, Live) THEN Settled(t) ELSE 0]

\* The threads, queues and transactions of the framework together do nothing a
\* user could not see as one step of that contract (prepaid tasks, one process).
KeepsPromise == Promise!Spec
=============================================================================
