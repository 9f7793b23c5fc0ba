# Verification of the Smart R&D Platform

TLA+ models, TLC configurations and TLAPS proofs for the parts of the platform
whose correctness depends on the order in which threads, event-loop callbacks,
server processes, browser callbacks, installer runs and users act: the backend
(`src/backend`), the frontend (`src/frontend`) and the deploy command line
(`src/deploy-cli`).

## 1. Inventory

| Component | State | Operations | What is hard | What makes it correct |
|---|---|---|---|---|
| Asynchronous task framework, `task_queue.py` | rows of `async_tasks`; per process two in-memory queues, a master thread, worker threads | submit, cancel, retry, delete, clean up; scan, claim, watchdog, retention; take, run, succeed, fail, back off; restart recovery | threads and event loop on one row; several processes on one table; crash; timeouts racing answers; refunds inside transactions | one run per task, late results dropped, one charge per task owed, ended tasks stay ended, every task ends, FIFO inside a priority |
| Workflow executor, `workflows/executor.py` | per run: in-degrees, processed set, results; `workflow_run_logs`; one executor object and one semaphore for all runs | execute, resume with reset nodes | branch routing, merges, layers of concurrent runs that share three permits, on the server's event loop and on the loops of cron runs, resume from a partial log | a node runs once, after its upstream nodes; a skip has a reason; an acyclic workflow is never blocked; every run ends, but a cron run may sleep through its permit; a resume repeats what was reset |
| Realtime push and task following, `hooks/useAsyncTask.js`, `lib/ws.js`, `realtime.py` | refs of the hook, one shared socket per channel, the service's registry of sockets | submit, poll, subscribe, reconnect, push, detail request, callbacks | pushes to sockets that are just connecting; late answers of an earlier task; timeouts of requests that succeeded | sockets follow tracking, callbacks tell the truth, every end is reported |
| Workflow editor, `pages/WorkflowEditorPage.jsx`, save routes of `agent_api.py` | canvas, undo and redo stacks, two debounce timers, saves under way; the row and its versions | edit, undo, redo, autosave, save, restore, reload | two debounces against shortcuts; saves that overtake each other, fail, or fall into the service's write window | what is shown is stored; history has no gaps or repeats; edges have targets |
| Conversation pages (`ChatPage`, `AgentExecutePage`, `AIWorkspacePage`, `VoiceChatPage`, `FloatingAssistant`), `lib/sse.js`, streams of `chat_engine.py` | shown messages, open conversation, busy flag, abort handle; stored rows | send, stream, stop, retry, open, create, delete, clear | a handler goes on after an await in a page the user has changed meanwhile; streams end in many ways | answers belong to their question and conversation; no page stays busy for ever |
| Deploy command line, `deploy-cli/bin/cli.js`, `lib/*.js` | the disk: tarball, source tree, `.venv`; the backend's port | find or download, unpack, make the `.venv`, install, start, wait | interrupted at any point, two at once; the next run trusts what it finds | a backend is started from a whole installation and keeps it while it runs; every run answers |
| Gateway of the digital human, `dh_gateway.py` | `users.balance`, `dh_billing_records`, the task | charge, create, refund at creation, lazy refund at status query, recharge | thread-pool requests with read and absolute write; refund and retry of the same task | balance = recharged - bills kept; a delivered video is paid for; a failure is refunded |
| Orders and membership, `common/auth.py`, `common/payment.py`, `commercial_api.py`, `admin_api.py` | `orders`, `coupons`, membership columns of `users` | create, voucher, review, payment webhook, expiry | replayed and late webhooks, several processes, expiry racing payment | one open order per user; an order activates at most once; money received in time is served; coupon counts |
| Daily quota, `common/auth.py`, `main.py` | `used_today`, `last_quota_date`, `bonus_quota` | consume, refund, middleware | read and absolute write on several threads, change of day | charges within the quota, no lost charge or refund |
| Publishing schedules, `publishing.py` | `publish_schedules`, `publish_records`, daily limits | due-schedule runner, execute, cancel, batch cancel | everything interleaves at the awaits of `submit_publish` | published at most once; cancelled stays cancelled |
| Cron scheduler, `scheduler.py` | `scheduler_jobs.next_run`, `scheduler_runs` | loop, trigger, update, delete | a job runs between the read and the write of `next_run` | an update is not overwritten; a job is not run twice |
| Video pipeline, `pipeline.py` | projects and items | background thread, retry, delete, schedule | thread against routes | item states match the batch |
| Database access, `common/db.py` | connections | `get_db` (one per thread), `get_db_context` (own connection, commit at exit) | write lock held from the first write to the commit | - |
| The rest (LLM client, agent runtime, tools, content factories, batches, knowledge base, sandbox, MCP, administration, Stripe and teams, other pages) | own tables, files, forms | requests | pure I/O, text, generated media | not modelled; reasons in PROJECT.json |

Interaction. Routes (`async def`, no `await` between their reads and writes) run
one at a time on the event loop of a process, but concurrently with its threads
and with other processes (`Dockerfile.backend` starts gunicorn with four
workers, each of which runs the lifespan of `main.py` and so its own master and
workers). All of them share one SQLite database. The media factories, batch jobs
and the gateway submit their work to the task framework; their handlers charge
the daily quota, and the framework refunds it when a task fails. The gateway
bills a balance of its own beside that. Pages submit to the task framework and
follow the task by push and by polling (`LiveTask`). The editor saves the
workflows that the executor runs. Conversation pages and the service share the
rows of a conversation. The deploy command line installs and starts the backend.

Two compositions are modelled: `Gateway` and `LiveTask` each contain the task
framework as `TaskLifecycle`, the abstract specification that `TaskQueue` is
shown to implement.

Behaviours that are hard to test, with their lines and the properties that cover
them, are the `hazards` of `PROJECT.json`. They are of six kinds: interleavings
of processes and threads on one row (claim, late result, watchdog, retry, money);
order inside one coroutine (routing, skipping); continuations that act on a page
the user has changed since (answers, saves, callbacks); crashes and interrupts
between two steps; refunds and limits counted from stale reads; and progress when
something hangs, breaks or is lost.

## 2. Modules

| Module | What it is |
|---|---|
| `TaskLifecycle` | abstract: what the task framework promises the user, status and charge of a task |
| `TaskQueue` | the task framework in full; implements `TaskLifecycle` (`KeepsPromise`) |
| `WorkflowDag` | the workflow executor |
| `LiveTask` | a page that submits tasks and follows them; its service is `TaskLifecycle` with pushes |
| `WorkflowEditor` | the canvas, its history and its saves, with the service's side of saving |
| `ChatPages` | the five conversation pages with the service's rows |
| `Gateway` | the paid gateway, composed with `TaskLifecycle` |
| `Orders` | orders, coupon and membership in several processes |
| `DeployCli` | invocations of the installer on one disk |
| `MCTaskQueue`, `MCWorkflowDag`, `MCLiveTask`, `MCWorkflowEditor`, `MCChatPages`, `MCGateway`, `MCOrders`, `MCDeployCli` | the values and symmetry sets of the TLC configurations |
| `TaskQueueProofs` | type correctness; ended tasks, limits, no task runs twice, late results, the refinement of `TaskLifecycle`, the ledger, the order of tasks |
| `WorkflowDagProofs`, `LiveTaskProofs`, `WorkflowEditorProofs`, `ChatPagesProofs`, `GatewayProofs`, `OrdersProofs`, `DeployCliProofs` | the theorems of these modules |

### TaskQueue and the code

One action is one database transaction, or one read outside of one: finer steps
cannot be told apart, because SQLite serialises writers and the threads share
only the rows and the two in-memory queues.

| Model | Code (`task_queue.py` unless named) |
|---|---|
| `row[t]` | the columns of `async_tasks` that decide anything: `status`, `retry_count`, `cancel_requested`, `created_at` (its rank), `next_retry_at` (`due`: past or empty), `started_at`/`finished_at` (`aged`: over the timeout, over the retention) |
| `credit[t]` | no column: a ledger of charges minus refunds minus delivered results |
| `master[p]`, `worker[w]`, `queue[p]` | locals of `_master_loop` and `_worker_loop`; the `queue.Queue` of each pool |
| `api[p]` | the retry or delete request between its check and its write |
| `CreateTask`, `CancelTask`, `RetryCheck`/`RetryCharge`/`RetryWrite`, `DeleteCheck`/`DeleteWrite`, `CleanupTasks` | `create_task`, `cancel_task_api`, `retry_task_api`, `delete_task_api`, `cleanup_tasks_api` |
| `MasterScan`, `MasterClaim`, `MasterCommit`, `MasterRoundEnd` | `_fetch_pending`, the claiming UPDATE and `put`, the end of `get_db_context`, the pause |
| `WatchdogFail`, `CleanupExpired` | `_watchdog`, `_cleanup_expired_tasks` |
| `WorkerTake`/`WorkerSkip`, `WorkerStart`, `WorkerCharge`, `WorkerAbort`, `WorkerSucceed`, `WorkerRaise`, `WorkerRequeue`, `WorkerSettle` | `_run_handler`, `_ensure_claimable`, the handler's `consume_quota`, `TaskCanceled`, `_mark_success`, the two halves of `_mark_failed` |
| `RefundBlocks`, `MembershipLapses`, `UserReturns` | `refund_quota(conn=...)` of `common/auth.py`, which loads the user on a second connection; that load writes when the membership has run out |
| `Crash`, `Start` | death of a process; the lifespan of `main.py` with `recover_interrupted_tasks` |

Abstractions: one metered user; a charge is accepted or refused with 402, the
daily counter is not modelled; a refund is always eligible (in the code it needs
`used_today > 0` on the day of the charge, `common/auth.py:523-531`); a handler
is its outcome and may hang; progress texts and pushes are left out; an
uncommitted claim holds the write lock, so every other writer waits.

### WorkflowDag and the code

| Model | Code (`workflows/executor.py` unless named) |
|---|---|
| `run[r]` | the row of `workflow_runs` and the locals of `execute` and `_run_dag_layers`: `open` is `in_degree` (the connections still counted), `processed`, `ready`, `seed` (`skip_set` with its snapshots), `edges` and `skips` (the position of the two routing loops) |
| `log[r][n]` | `workflow_run_logs` and, for nodes of this run, `results` |
| `bound` | the event loop `_DAG_LAYER_SEM` belongs to once somebody had to wait |
| `unheard` | a permit was handed, from another thread, to a waiter of a cron run whose loop slept: `release` sets the future with `call_soon`, which is not thread-safe |
| `Execute`, `Resume`, `Snapshots` | `execute`, `POST /api/workflows/runs/{id}/resume` (`chat_engine.py`), `_load_resume_snapshots` |
| `BeginLayer`, `EndLayer`, `Block`, `Complete` | the rounds of `while len(processed) < len(nodes)` |
| `StartNode`, `AwaitPermit`, `RefuseLoop`, `Wake`, `EndNode` | `_capped`, the semaphore, `_exec_one` |
| `RouteNode`, `FollowLink`, `SkipNode`, `SkipAgain`, `EndRouting` | the loops after the gather, `_skip_downstream` |
| `LoopFree` | a coroutine keeps its loop between two awaits; `asyncio.run` gives a cron run a loop of its own (`scheduler.py`) |
| `Crash` | death of the process: rows and logs stay |

Abstractions: what a node does is its outcome; an exception and an error
dictionary are one outcome, since neither is a snapshot and both make a condition
false; the order of connections and of set iteration is any order; parallel
connections with one port count once; the push between log and permit release is
part of `EndNode`; failures of `_log_node` and the thread race on the semaphore's
counter are left out; waiters of the semaphore (a library, external) are served
in any order, and a newcomer never overtakes one. A web run that raises leaves
its other tasks running, a cron run's tasks are cancelled with its loop.

Workflows run beside the task framework, not through it: the two share no state,
and no module composes them.

### LiveTask and the code

One action is one callback of the browser, or one step of the service that the
page can tell from others.

| Model | Code (`useAsyncTask.js` unless named) |
|---|---|
| `tracked` | `activeRef`, `timerRef` and `wsUnsubRef`, which are set and cleared together |
| `busy` | the page's own flag: set by its submit, cleared by a callback |
| `sock[t]`, `inbox[t]` | the socket of channel `task:<id>` in `lib/ws.js` and the terminal event it carries: connecting, joined (registered by `realtime.py`, `onopen` not yet run), open, down (reconnects in 3 s), abandoned (unsubscribed before it opened) |
| `wsOk[t]` | the variable of the closure `startPolling` made for the task |
| `reqs` | its requests on their way: the POST, polls, detail requests after a push |
| `Submit`, `Start`, `SubmitTimesOut` | `submit` before and after its await; the 30 s limit of the request |
| `Poll`, `PollArrives`, `PollFails`, `Message`, `DetailArrives`, `Finish` | `poll`, the message handler, `finish` with the page's callback |
| `Join`, `Open`, `Lose`, `Reconnect`, `Resubscribed`, `Left` | `ws.js`: `connect`, `onopen`, `onclose`, subscribe and unsubscribe; `task_ws` of the service |
| `Work`, `End`, `Restart`, `Cleanup`, `Answer` | the steps of `TaskLifecycle` with the push of `task_queue.py`; a restart interrupts without a push; what a request reads |
| `told`, `displaced` | history: what callbacks said; tasks whose tracking another task's callback ended |

Abstractions: progress events only repaint; a retry from the tasks page, a new
life of the same id, is left out; the hook is mounted once.

### WorkflowEditor and the code

| Model | Code (`WorkflowEditorPage.jsx` unless named) |
|---|---|
| `canvas` | `nodes`, `edges` and `stateRef`: which nodes there are, which were changed, which edges |
| `linking` | `pendingConnection` |
| `past`, `prev`, `future`, `histTimer` | `pastRef`, `prevSnapshotRef`, `futureRef`, `historyTimerRef` (400 ms) |
| `lastSaved`, `saveTimer`, `saveStatus` | `lastSavedSnapshotRef`, `autoSaveTimerRef` (2 s), `autoSaveStatus` |
| `puts`, `restore`, `load`, `answer` | requests on their way |
| `stored`, `recent`, `versions` | `agent_api.py`: the row, the write less than 1.5 s ago, the archived contents |
| `AddNode`, `DeleteNode`, `UpdateNode`, `ToggleLink`, `AddEdge`, `DeleteEdge` | the handlers of the canvas, each with the effects its render triggers (both debounces) |
| `HistoryTimer`, `Undo`, `Redo`, `IdleShortcut` | the history effect, `undo`, `redo` |
| `AutosaveTimer`, `ManualSave`, `Update`, `WindowEnds`, `Saved`, `SaveFails` | the autosave effect, the save button, the PUT of the service and its answers |
| `Restore`, `RestoreRuns`, `RestoreFails`, `Reload`, `Read`, `Loaded`, `LoadFails` | restoring a version and the `loadWorkflow` that follows |
| `applied`, `mishaps` | history: the latest request handled; what went wrong with saves since |

Abstractions: positions, labels and configuration are one "changed" mark per node;
versions are a set, their limit of 20 is not reached; running the workflow from
the page is in `WorkflowDag`.

### ChatPages and the code

Five pages share one skeleton: a send handler with awaits, the callbacks of
`streamChat` (`lib/sse.js`), and the calls that open, create and delete
conversations. One action is a handler up to its next await. A text is the set of
asks whose answers it was put together from, so a mixed answer shows.

| Model | Code |
|---|---|
| `shown`, `current`, `busy`, `handle` | `messages`, `activeConversationId` or `currentSession`, `sending` or `loading`, `abortRef` of the open page |
| `asks[n]` | the send handler of one question or retry: its await, and the conversation it works for |
| `convs`, `stored` | the service's conversations and the rows of `messages` |
| `calls` | loads, creations and deletions in flight, with what they read |
| `ChatSend`, `ChatRetry` (`ChatPage.jsx`), `AgentSend`, `AgentRetry` (`AgentExecutePage.jsx`), `WorkspaceSend`, `WorkspaceImprove`, `AssistantSend`, `VoiceSend` | each page's handlers up to their first await |
| `FirstSteps` | what `ChatPage` does first: store the question, create a conversation for it, or, for a user without agents, ask teams and workflows and store nothing |
| `Created`, `CreateFails`, `Persisted` | the conversation is created, the question stored |
| `Delta`, `Answered`, `DoneArrives`, `ErrorArrives`, `Closed`, `Breaks`, `Ends`, `Stop` | the events of a stream; its ends: after a last word, by an error, by the mere end of the body; the stop button |
| `RunAnswered`, `RunFails`, `Kept`, `Spoken` | calls that are not streams, and what follows them |
| `Open`, `StartNew`, `Delete`, `Served`, `Opened`, `NewOpened`, `Deleted`, `CallFails`, `Clear` | the conversation list |
| `clues` | history: what the user did that excuses a mix-up (moved on during a send, question not stored, overlapping calls, stopped too early, retried an inner answer), and the questions whose stream ended without a last word |

Abstractions: attachments, exports, prompt libraries, tokens and wording; the
speech of `VoiceChatPage` is one step. `AIWorkspacePage` is one of its tabs; its stop
button (1921) asks for an `abortRef` that nothing on the page sets, so `Stop` has it
with a guard that is never true. Once a stream ended the page is told nothing more;
whether the service was at work on the answer all the same and stores it (`cut`) is
left open after a connection that broke, and not after a body that ended, because
there it was the service's process that did.

### Gateway and the code

| Model | Code (`dh_gateway.py`) |
|---|---|
| `balance`, `bill[r]` | `users.balance`; `dh_billing_records`: status, and whether `task_id` is set |
| `post[r]` | the posted request: where it is, and the balance it has read; requests run on threads of the pool |
| `loop[l]` | what the event loop of a server process is doing: status queries and recharges |
| `task`, `held` | `TaskLifecycle` |
| `Check`, `ReadToCharge`, `Charge`, `CreateTask`, `Refused`, `Link`, `ReadToUndo`, `Undo` | the creation route: the check in one transaction, the charge in the next, the task, the link; the refund when the framework refuses |
| `Breaks`, `LoopBreaks` | a write that raises (the database is locked): its transaction is rolled back and the handler ends |
| `Query`, `LookAtBill`, `ReadToRefund`, `Refund` | the status query with its lazy refund |
| `ReadToRecharge`, `Recharge` | the administrator's recharge |
| `Work`, `Cancel`, `Retry`, `Remove`, `Crash` | the task framework's routes and threads; a restart, which takes open requests with it |
| `clashed`, `stranded`, `again`, `topped` | history: two money transactions overlapped, a request broke off (its thread died or a write failed), a task was taken up again, recharges |

A transaction starts with its first write, so a read before it is not protected:
reads and writes are separate steps, which is what the overlap needs.

### Orders and the code

A handler has no await, so a process runs one at a time; two processes interleave
at every statement outside of a transaction.

| Model | Code (`common/auth.py`, `common/payment.py`) |
|---|---|
| `order[o]` | the row of `orders`: status, user, plan, use of the coupon, age (fresh, over 7 days, over 14 days) |
| `coupon`, `member`, `auto` | `used_count`, the membership of a user, `payment_auto_activate` |
| `handler[p]` | what a process is doing and has read |
| `seen` | history: what the order was when the right amount was first reported |
| `List`, `CreateBegins`, `ValidateCoupon`, `CheckOpen`, `Insert` | `get_my_orders`, which runs `expire_stale_orders`; `create_order` with `validate_coupon` |
| `TakeVoucher`/`Voucher`, `TakeReview`/`Approve`/`Reject` | `submit_voucher`, `review_order` |
| `TakeWebhook`/`Activate`/`LeaveToReview`/`NoteOnly` | `mark_order_paid` behind `orders_webhook` |
| `Age` | time passes |
| `seen`, `grants`, `raced` | history: the status a payment met, how often an order opened a membership, whether a handler wrote after another had since its read |

### DeployCli and the code

| Model | Code (`deploy-cli`) |
|---|---|
| `layout`, `tarball`, `tree`, `venv` | the disk: this repository, an archive of a backend alone, or an archive of this repository, with its `backend/`; `backend.tar.gz`; how much of the sources is unpacked and by whom; no `.venv`, a python, packages |
| `run[r]`, `backend[r]` | an invocation of `web` or `backend` (with or without `--install-deps`) and the process it started |
| `Invoke`, `UseLocal`, `Download`, `Downloaded`, `DownloadFails`, `Wipe`, `UnpackMain`, `Unpacked`, `UnpackFails` | `findLocalBackend`, `lib/download.js` |
| `Reuse`, `Prepare`, `MakeVenv`, `Install`, `SkipInstall`, `InstallFails` | `lib/bootstrap.js` |
| `Launch`, `LaunchFails`, `Ready`, `NoPort`, `TimesOut` | `lib/backend.js`, `lib/server.js` |
| `EntryRuns`, `ComesUp`, `Exits` | the backend: `app_creation.py`, which `startBackend` prefers to `main.py`; it may exit at any time |
| `InterruptSetUp`, `Interrupt`, `Kill` | Ctrl+C and a kill at any point |
| `cut`, `overlapped` | history: runs that ended while setting up, two at once |

Abstractions: a Python is found, the packaged frontend is there (else the run exits,
`cli.js:61`, `92`, `117`); `--no-frontend`, `--no-backend` and the command `frontend`,
which keep nothing on the disk, are left out.

## 3. Runs

| Run | Instance | Distinct states | Asks |
|---|---|---|---|
| `taskqueue_ledger` | two prepaid tasks, one process and worker, cancel and retry, one crash, one lapsed membership | 584 k | does the charge held for a task always match its status, does an ended task stay ended, are tasks of a priority begun in order, does the framework implement `TaskLifecycle` |
| `taskqueue_dispatch` | one handler-charged task, two processes with a worker each, auto-retry, cancel, delete, clean-up, one crash, hanging handlers | 86 k | does a task run twice, is a late result written, does every task end |
| `workflow_routing` | two runs (web, web or cron, resumed) of a detour and of a merge with a cycle, two permits, one crash | 435 k | is routing sound, are logs final, is every node accounted for, does every run end unless it sleeps through a permit |
| `live_task` | one page, two tasks, two requests on their way, sockets that break at any time, restarts | 140 k | do sockets follow tracking, do callbacks tell the truth, is every end reported but for the ways named |
| `workflow_editor` | two nodes, two edits, two save or restore requests, an undo stack of one | 1.96 M | is what is shown stored, do edges arrive, does history move |
| `chat_pages` | each of the five pages, two conversations, two asks, three things in play | 2.3 M | do answers belong to their questions and conversations, does a page come to rest |
| `deploy_cli` | two invocations, three layouts, two faults | 38 k | is a launched backend whole, does a running backend keep its files, does every run answer |
| `gateway` | two requests (prices 1 and 2), one event loop, two recharges of 2, one retry, one restart | 443 k | do balance and bills agree, is a delivery paid, does a bill have a task, is a failure refunded |
| `orders` | two orders of one user, two processes, a coupon of one use, three webhook deliveries of a right or a wrong amount | 1.4 M | one open order, one grant, the coupon's count, decisions and payments that stay |
| `stuck_task` | one task, one lapsed membership | - | violated, see section 4 |
| `late_result` | one task, one process and worker, cancel and retry | - | violated, see section 4 |
| `unheard_end` | as `live_task` | - | violated, see section 4 |

Bounds. Properties relate one task, bill, order or ask to itself or to another
one, so two of each give every order between them.

- `TaskQueue`: two processes with one worker each are the smallest instance in
  which a claim, a restart and a worker race across processes; two workers of one
  process are covered by the proof. One task suffices there, because the properties
  are about one row; a second task (469 k states, checked once) only delays the
  first. `RetryBound = 1` lets a row live twice, which is what a late result needs. `ScanBatch = 2` lets a batch hold a stale second
  element. One crash hits every state; a second crash only repeats recovery.
- `WorkflowDag`: three nodes, two of them conditions, are the smallest graph with a
  refused branch, a merge, a second way to the merge and a cycle; skipping spreads
  twice.
- `LiveTask`: two tasks are what a late answer of an earlier task needs; two
  requests are a poll and a POST, or two polls out of order.
- `WorkflowEditor`: two edits and two requests let a save overtake an edit and a
  request another request; `MaxPast = 1` reaches the cap of the undo stack. One node
  with three edits and three requests (21 M states) was checked once as well.
- `ChatPages`: two asks overlap, two conversations can be confused, and a third
  thing in play (a load, a creation or a deletion) falls between their awaits. An
  answer that is not the last can only be retried with a third ask: that case
  (`buried`) is covered by the proofs, not by the run. States behind a third kind of
  mishap (moved on, not stored, overlapping calls, stopped too early, no last word)
  are cut off (`TwoMishaps`); without the cut (6.3 M states) the run was done once.
- `Gateway`: two requests overdraw a balance only together; the cheap one fits where
  the dear one does not. Safety was also checked with two event loops (3.8 M).
- `Orders`: the properties say nothing after a race, so states behind one are cut
  off (`UntilARace`; the racing state itself is still checked). One process with
  three orders was checked as well.
- `DeployCli`: with two runs each finds what the other left, before or during its
  own set-up; two faults cut both, or break what one of them retries. A start that
  finds its sources but no python takes a third run; `LaunchFails` has that case, the
  proofs cover it.

Symmetry is declared for conversations, orders and processes, nodes of the canvas,
tasks and workers where they are interchangeable, and never in a run with a
liveness property. Deadlock is checked in the runs of `TaskQueue` and `LiveTask`,
which always have something to do. It is off where the system may stop: all
workflow runs over, all edits, asks, requests, orders or invocations used up.

Fairness, and why the code justifies it.

- `TaskQueue`: the master thread and the taking of queued tasks are weakly fair
  (daemon threads of a live process, time-sliced), the housekeeping branch is
  strongly fair (a timer of 60 s that is looked at after every round), time passes.
  Handlers, users, restarts and lapses are not fair.
- `WorkflowDag`: a run that can step does, because the event loop is FIFO and every
  node ends: its calls have timeouts (`aiohttp` 30/60/180 s, `wait_for` 10 s) or
  are sleeps. A waiter that gets a permit goes on, with one exception (`unheard`): the
  loop of a cron run that sleeps when another thread hands the permit over need not be
  woken. The server's loop wakes by itself (uvicorn ticks several times a second).
- `LiveTask`: the service ends its tasks (that is `EveryTaskEnds`), a delivered
  message is handled, the interval fires again and again, and a request that is
  tried often enough is answered and handled. Nothing is assumed about sockets,
  losses, restarts, timeouts or the user.
- `Gateway`: handlers of the event loop run to their end, and the caller keeps
  asking for its task, as the interface tells it to. `FailureIsRefunded` depends on
  that: the refund is made by the query. A query whose refund fails on a locked
  database answers 500 and leaves the bill as it was; strong fairness of `Refund` says
  that a refund tried again and again is not locked out every time, which a wait of
  30 s for the lock (`common/db.py:79`) makes reasonable, though nothing enforces it.
- `DeployCli`: tools end, the network answers, and the wait has its limit of 120 s.

Every property of a passing run has a mutant in `PROJECT.json`, a plausible bug in
a definition that models code, which makes TLC refute the property. Type
invariants are checked in `taskqueue_ledger` and `workflow_routing`; those of
`Gateway`, `Orders`, `LiveTask`, `DeployCli` and `WorkflowEditor` are proved.

Several properties have an exception in them (`clashed`, `raced`, `hasty`,
`lost`, `mishaps`, `cut`, `Deaf`). Such a flag is set by the step at which the known weakness
bites, so the property says that nothing else does harm; section 4 lists the
weaknesses.

## 4. Where the code departs from what the repository says

Three are runs with a counterexample; the findings of `PROJECT.json` quote the lines.

| Run | What TLC finds |
|---|---|
| `stuck_task` | the refund of a user whose membership has lapsed writes on a second connection under the caller's write lock: the watchdog rolls back, the task stays running |
| `late_result` | a running task is cancelled, retried and claimed again while the first worker is still at it: its result is written as the second run's, which the docstring (line 17) and `_mark_success` (line 430) rule out |
| `unheard_end` | a task ends while its socket connects, reconnects, or the service restarts; the open socket stops the polling, and the page waits for ever |

Met while modelling, and kept as text: each is either an exception named by a
property, or outside the instance a run checks.

Task framework. An id is queued before its claim is committed: a worker
that is quick reads `pending`, forgets the id, and the claimed row has no owner
until the watchdog. A handler that charges when it starts charges again on the
automatic retry and is refunded once. With two processes a retry can charge twice
for one reset (both pass the check), exceed the limit of active tasks
(`RetryWrite` does not count), or run a task twice after cancel and retry; this is
why the run of `NoDoubleRun` and `LateResultDropped` has no retry route (with it, see
`late_result`) and that of the ledger one process; the theorems say how far each may be
relaxed (section 5). A retried success
is charged by the route and again by a handler that charges itself; a task of
`POST /api/tasks/{type}` is never charged and still refunded when it fails;
deleting a row whose status changed after the check removes a running task;
recovery marks the running tasks of live processes as interrupted (gunicorn has
four workers); a crash between a retry's charge and its UPDATE loses the charge.

Workflow executor. A resume that resets a node reuses the old results of the nodes
behind it. A merge node below a refused and an active branch is run or skipped
depending on the order of connections. A cron run and a web run that both have to
wait for a permit share one semaphore across event loops: one of them raises and
its row stays running; the semaphore stays bound to a cron run's loop after that has
closed, so later waits raise as well. A cron run all of whose tasks wait for permits
that web runs hold is not woken when they are released (`executor.py:320-325`,
`scheduler.py:257`) and may sleep for ever with its row running; without the excuse
`Deaf` TLC refutes `EveryRunEnds`.

Following a task. `activeRef` is shared by successive tasks, so a late answer of an
earlier one ends the tracking of the next and calls back for the first
(`displaced`). A POST that times out is reported as a failure although the task was
created and charged.

Workflow editor. A save within 1.5 s of another is dropped by the service with the
answer of a success, although the editor promises that every save is archived; a
manual save right after an autosave is lost. Saves and restores can overtake each
other. `lastSavedSnapshotRef` is set when an autosave is sent, so a canvas that
comes back to that content is not saved although the service may hold another.
Deleting a node leaves a connection pending that starts from it.

Conversation pages. `AIWorkspacePage` calls `runChatStream`, which is not defined
(lines 1215, 1251), and its tab stays loading. The send button of `ChatPage` passes
the click event as the text (324, 875), so only Enter sends. An early stop in
`AgentExecutePage` does not keep the stream from starting, and it writes into the next
question's bubble; stopped while the question is being stored and retried at once, its
answer can be stored above the question; retrying an answer that is not the last shows
the cursor for ever. A stream whose body ends without `done` or `error` reaches only
`onClose` (`sse.js:70-71`, `100-102`), which leaves the bubble streaming: its cursor stays for
ever with no send under way (`lost`; without that excuse TLC refutes `ThinkingEnds`).
The shipped `nginx.conf:26-33` proxies `/api/` over HTTP/1.0, where the close of a
connection whose server died is such an end. If an inner answer is retried after that,
its text goes into the bubble that still streams. A message to a team or workflow from
a user without agents is not stored at all. A `ChatPage` reply lands in whatever conversation is open when it
comes; a retry stores the question again; a stop drops an answer the service has
stored. In `VoiceChatPage` Enter and speech recognition do not look at `loading`.

Gateway. Money transactions that overlap lose a charge, a refund or a recharge, or
overdraw the balance; two queries of one failed task on two servers refund it twice.
An exception that is not an `HTTPException` in `create_task`, in the link of the bill
(`dh_gateway.py:327-331`) or in the refund of a refused request (325), or a restart
between charge and link, keeps the charge. A refunded
task that is retried is delivered for nothing. A failed task that is removed before
anyone asks for it is not refunded.

Orders. A payment reported after its order expired is only recorded. An expired
order keeps its use of the coupon. After a report with a wrong amount the order
waits for review, and the right report does not activate it.

Deploy command line. `startBackend` prefers `app_creation.py` (`backend.js:19`), which
in this repository imports `app_extra` (`app_creation.py:255`), a module that is not
there: `web` and `backend` run in the repository never get their own backend up, and
end by the limit of the wait or call themselves ready on another run's (`cli.js:14`
promises `main.py`). An archive of this repository, which is what `GITHUB_URL` names,
is not found, since its sources are in `backend/`: its root requirements are
installed, the start ends with a missing source, and every run downloads again and
wipes the `.venv`. An interrupted unpacking or installation is taken for a whole one
ever after. `ready` speaks of the moment of the answer: the answer may be another
run's backend's, and a backend that exits later is only logged (`backend.js:40-42`);
no property is stated about it. The wait's timeout leaves the backend running, a
second `web` crashes on the port, a spawn whose python is gone ends the run by an
unhandled event, and `https.get` has no timeout.

## 5. Proofs

All theorems hold for every value of the constants that satisfies the assumptions
named in the modules. These say only that registries, prices and bounds have the
right type, that some sets are finite, and that the "none" values differ from the
rest.

Task framework (`TasksAssumption`, `RegistryAssumption`, `ThreadsAssumption`,
`BoundsAssumption`).

- `TaskQueueProofs!TypeCorrect`. `TypeOK` is not inductive: a worker that writes
  needs a task to write to, so it is proved together with `BusyHasTask`.
- `TaskQueueProofs!EndedStaysEnded` (`TerminalSticks`). Every write to a row is
  guarded by its status in the same transaction, except the commit of a claim,
  which writes what it decided earlier. `ClaimsHoldLock` says that the claimed row
  is still pending and that only one claim is open: it is kept because every other
  writer waits for `WriteLockFree`.
- `TaskQueueProofs!LimitHolds` (`ActiveWithinLimit`; no run checks it, because count
  and insert are one `BEGIN IMMEDIATE` transaction and so one step), with
  `NoRetryOpen`: no retry is under way if the route is not used. Only `CreateTask`
  adds an active task, after counting in the same transaction; the claim and the requeue move
  a task inside the active set. The lemmas on cardinality come from
  `FiniteSetTheorems`.
- `TaskQueueProofs!NoTaskRunsTwice` (`NoDoubleRun`), for the behaviours in which
  `RetriesRest`: when the retry route writes, no queue holds the identifier and no
  worker runs the task any more. The inductive invariant counts the places a task can
  be in: `CarriedOnce`, at most one queue entry or worker has it, and `WaitingIsFree`,
  a pending row that nobody is claiming is carried by no one. A row becomes pending by
  its creation, by the worker that lets go of it, or by a retry, and it is the retry
  that does not ask who still runs it.
- `TaskQueueProofs!LateNeverWritten` (`LateResultDropped`), under the same assumption.
  `VoidIsOver`: the row of a run that was cancelled, timed out or interrupted has ended
  or is gone. It stays so while a worker still runs the task (`OverStaysOver`), and
  every write of a worker asks for a running row.
- `TaskQueueProofs!NoRetryNoSecondRun`: `RetriesRest` holds in every behaviour if the
  retry route is not used, so both properties do. With the route it may fail, in one
  process too: cancel a running task and retry it before its worker has noticed.
- `TaskQueueProofs!LedgerBalances` (`CreditMatchesStatus`), for the behaviours in which
  `RetriesApart`: no two retries of one task are between their check and their write.
  A charge that a retry has made but not yet written to the row counts from the row's
  write on (`Settled`). The invariant is `LedgerInv`: `RetrySound`, the row a retry works
  on is still as it was checked, or was deleted, because an ended row is brought back
  only by a retry and by assumption there is no other; and `HandlerPays`, a worker that
  charges runs a task that is charged by its handler. So at most one charge is in
  flight (`OneCharge`), and `Moves` says what a step does to the row of one prepaid task
  and to its charge, whatever it does to others. Two overlapping retries do break it:
  both have charged, and the second finds the row pending.
- `TaskQueueProofs!ImplementsLifecycle` (`KeepsPromise`), in the same behaviours if all
  tasks are prepaid (a handler's charge is no step of `TaskLifecycle`) and none is
  deleted by hand (that may remove a row that waits or runs): every action is one step
  of `TaskLifecycle` or a stutter under the mapping `Face` (status) and `Charged` (the
  charge held). A crash between a retry's charge and its write is its `LoseCharge`.
- `TaskQueueProofs!PromiseKept`: `RetriesApart` holds in every behaviour of one process,
  and of any number of processes without the retry route, so the ledger does, and for
  prepaid tasks without deletion the contract.
- `TaskQueueProofs!BegunInOrder` (`FirstComeFirstServed`), for one process: with two
  the claims of one do not order the queue of the other. `OrderInv` follows a task
  from the table to its worker: `Ranked` (ranks are given out in the order of the
  submits, and a task that was never sent back is due), `BatchInOrder` (in what the
  scan read, a waiting task that is senior to another stands before it or is being
  claimed), `QueueInOrder` (what is senior to a queued task waits in the table no more
  and is not behind it in the queue). The step that begins a task takes the head of
  the queue, so nothing senior is left behind. Two steps could break it, and do not:
  a submit during a scan (the new task is senior to nobody, `SeniorStays`), and a
  requeue (it goes to the table and is no longer untouched).

Workflow executor (`NodesAssumption`, `RunsAssumption`, `WorkflowsAssumption`,
`LoopsAssumption`). `RunsAreSound` proves the inductive invariant `Sound`, six parts
of one run: `Counted` (a connection that is no longer counted comes from a processed
node that was skipped or chose it; one still counted below a processed node waits to
be followed or has a target that is settled by a skip), `Entered` (no counted
connection leads into the layer or into a node that has run, and a skip never
reaches the layer), `Staged` (which sets a stage uses), `Recorded` (processed nodes
have results, and only they and the layer have logs until the run closes),
`Reasoned` (a skip, queued or done, has a refused connection), `Kept` (what also
holds of a run the process forgot: which tasks exist, and that a blocked run has a
cycle). None of the properties is inductive without them: `UpstreamFirst`, for one,
speaks of nodes that run, and a node enters a layer because of what is counted.
From it:

- `StartsAfterUpstream`: a free node has no open connection, so all its sources
  are processed, recorded and took the branch.
- `AcyclicNeverBlocked`: if the loop finds no free node, take the set of
  unprocessed nodes. Each has an open connection; its source is either unprocessed,
  or processed and refused the branch, and then the target would have been
  skipped. So the set has no node without a connection from inside, and the
  workflow has a cycle.
- `SkipsHaveReasons`, `CompletedRunsAccount` and `LogsAreFinal` (`SettledOnce`).

Following a task (`NTasksInNat`, `NoneIsNoTask`, `MaxReqsPositive`). One inductive
invariant: the types, `SocketsFollowTracking`, `NewsSound` (every push, answer and
detail request on its way agrees with the row, which only moves towards its end)
and `ToldTruly`. From it `TypeCorrect`, `SocketsAreGivenBack`, `NewsIsTrue`.

Workflow editor (`NoneIsNoNode`, `NoneIsNoCanvas`, `MaxPastPositive`,
`BoundsInNat`). `EdgesStayWhole`: an edge arrives in every place a canvas is kept or
is on its way, because each can become the canvas again (undo, reload, restore).
`HistoryMoves`: `Moving`, where neighbours of `past`, `prev` and `future` differ,
with the lemmas on `Append`, `Tail` and concatenation from `SequenceTheorems`; the
timer's snapshot differs from `prev` when it is taken. `SavedIsShown`: `Follows`, at
any time the canvas is carried by a timer, by the row, or by the latest request,
and `Numbered`, no older request can be applied later without a mishap.

Conversation pages (`PagesKnown`, `NoneIsNoConv`, `BoundsInNat`). The handlers are
short, but each runs on over awaits while the page moves, so none of the properties is
inductive. The argument goes in layers; each is kept by every step that keeps the ones
below.

- `Known`: the types (`TypeCorrect`), asks are numbered in the order they were sent,
  each page has its own steps, and no message, row or load speaks of an ask not yet sent.
- `WorkingBehindBusy` (`BusyIsWorking`) needs no more: the flag is only set by a send,
  and whatever ends the last send under way clears it.
- `Cursors`, for `CursorEnds` (`ThinkingEnds`): unless the page was stopped too early
  (`hasty`, which only `AgentExecutePage` lets happen, `Haste`) one send is under way
  and the stop button is that of its stream (`Alone`); a cursor or a retry button sits
  on an answer, in `AgentExecutePage` right below its question (`MessageKinds`); and a
  cursor is that of the send that will end it, or of a question whose stream ended
  without a last word (`CursorAtEnd`, `Endless`). A send that will end a cursor goes on
  being one until the cursor is gone or its stream ends so (`EndingLasts`), and none
  becomes one but by the step that shows its bubble (`EndingBefore`).
- `OwnAnswers`, for `NoAnswerAstray` (`AnswersItsQuestion`): what a bubble was put
  together from answers one question, unless it is `Endless` and an inner answer was
  retried. A stream writes into the last bubble with a cursor, whoever owns it; that it
  is its own is `CursorAtEnd`.
- `Questions`, for `AnswerBelowQuestion` (`QuestionAboveAnswer`): the shown list, the
  rows of the service and the loads on their way are each in order; a question under
  way is shown (`HasQuestion`) and, once it was to be stored, stored (`HasStored`), so
  that an answer that is appended later, here or there, or comes back by a load, comes
  below it.
- `Views`, for `NothingOfAnother` (`ShownBelongs`): rows belong to their conversation,
  loads to the conversation that is open, a conversation is created only while none
  is open, and the messages and sends are of the open one (`Belonging`) unless the page
  is about to be reloaded.

The proof of `QuestionAboveAnswer` corrected the model. `AgentExecutePage` lets the
user stop while the question is being stored, retry the bubble whose question is that
one, and reload: the answer can be stored above the question. It takes a third ask,
one more than the run has, so TLC had not seen it; the step failed in the proof, and
TLC confirmed it on three asks. The history variable `clues` now counts a retry of a
question that is still under way as moving on (`AgentRetry`).

Gateway (`PriceOfReqs`, `TopUpsPositive`, `NoneIsNew`, `ActorsFinite`,
`BoundsInNat`). `BillsSound` ties each bill to the stage of its request, which gives
`BillsHaveTasks` and `DeliveredArePaid`. `NoOverdraft`: as long as nothing
clashed at most one actor is between its read and its write (the lemma
`WritesAlone`), and what it read is the balance (`Level`). `MoneyAccounted`
(`AccountsForBills`) adds what each bill's stage owes to the balance (`Owing`,
`Accounted`). `Total` takes one bill after the other out of a set by `CHOOSE`, and
what that comes to for every finite set is an induction over data. It is avoided: a
function that adds up exists on the subsets of every finite set (extend that of a
largest set that has one, `SumsExist`), and `Total` agrees with it (the least set
where they differ, `TotalIsSum`); least sets exist because the strict subsets of a
finite set are well founded (`LeastSet`). So `Total` may be taken apart at any bill.

Orders (`OrdersFinite`, `UsesInNat`, `NoneIsNew`). If nothing raced, what an
undisturbed handler has read is still so (`HandlerSound`); `Shape` says what a row of
each status looks like, `Settled` relates grants, open orders and coupon count,
and a first right report serves its order (`SeenMoves`). From it `MembershipOpensOnce`, `OrdersAreOne`,
`CouponIsCounted`, `DecisionsStay`, `PaymentsAreServed`.

Deploy command line (`NoneIsNoRun`, `FaultsInNat`). `FilesAreKept`
(`BackendKeepsItsFiles`): while no two set up together, the run that fetches sources
found none and is alone with that (`Fetching`, `Alone`), so no running backend was
started from a whole installation, and what it removes is nobody's. `BackendsAreWhole`: while no run was cut short and none overlapped, at
most one is setting up (`Alone`); a resting disk has no half tree and no empty
`.venv` (`Rest`), each stage finds what the stages before it made (`StageSound`), and
so a started backend is whole (`Complete`).

Every invariant and every action property that a run checks is stated by a theorem.
Only model-checked is liveness (`EveryTaskEnds`, `EveryRunEnds`,
`ReportedOrStranded`, `FailureIsRefunded`, `EveryRunAnswers`), which the prover does
not reach, as it does not reach `ENABLED` or recursive operators; no module here
declares one.

What the theorems assume beyond the constants: no retry route for `LimitHolds`, one
process for `BegunInOrder`, prepaid tasks and no manual deletion for the contract, as in
the runs; and of the behaviour `RetriesRest` or `RetriesApart` where named. TLC checked
those before they were used, with two processes and one task, retried twice, and a
crash: no violation of `NoDoubleRun`, `LateResultDropped` and `VoidIsOver` under the one,
or of `CreditMatchesStatus` and `RetrySound` under the other. Section 4 says what
happens without them.

## 6. What is not modelled, and the plan

Not modelled, with the reason for each component in `PROJECT.json`: media
generation, LLM calls, text, files, CRUD; pages that are forms and lists, where a
loader shows what the service answers; Stripe and team billing, whose INSERTs name
columns that do not exist. Inside the modelled components: statistics, listing
routes, ownership checks, progress pushes, markup, dragging, attachments. By lines
these are most of the repository: the frontend's sources are markup and form state
for the greater part, and `deploy-cli/frontend-dist` is their built copy with
vendored libraries. A model of them would say nothing a look at the code does not.

The plan, most important first.

1. `Quota` (`common/auth.py:509`): read and absolute write of `used_today` by
   threads and processes, change of day, the middleware's charge. Abstract
   specification: a counter with a limit.
2. `CronScheduler` (`scheduler.py:365`): `next_run` between the read and the write
   of the loop, against update, trigger and delete on other threads.
3. `PublishSchedule` (`publishing.py:1142`): runner, manual execution and cancels
   around the awaits of `submit_publish`, with the daily limit.
4. The video pipeline: the thread that copies a batch's items back against retry and
   delete, composed with `TaskLifecycle`.
5. Proofs: the limit of active tasks up to the retries that were written; the safety
   parts of the liveness arguments (what a stage leaves behind and which action is
   enabled there) as invariants.
