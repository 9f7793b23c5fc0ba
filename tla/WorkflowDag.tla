---------------------------- MODULE WorkflowDag ----------------------------
(***************************************************************************)
(* The workflow executor of backend/workflows/executor.py: execute(), the  *)
(* layers of _run_dag_layers, branch routing with _skip_downstream, and    *)
(* resuming a run from the logs of an earlier one.  Several runs share the *)
(* semaphore _DAG_LAYER_SEM of one server process: runs started by a       *)
(* request share the server's event loop, a run started by the cron        *)
(* scheduler has an event loop of its own (asyncio.run).  What a node does *)
(* is its outcome.                                                         *)
(***************************************************************************)
EXTENDS Integers, FiniteSets

CONSTANTS
  Nodes,       \* the nodes of a workflow
  Conditions,  \* the nodes of type "condition"
  Runs,        \* names of runs: rows of workflow_runs
  CronRuns,    \* bound: the runs a cron job may start
  Workflows,   \* the sets of connections a run may be started with
  Resets,      \* the values of reset_nodes a resume may be given
  Capacity,    \* permits of _DAG_LAYER_SEM (3 in the code)
  Web, NoLoop, \* the event loop of the server; no event loop
  CrashBound   \* bound: how often the process dies

Ports == {"default", "if_true", "if_false"}
Link == [source: Nodes, target: Nodes, port: Ports]

ASSUME NodesAssumption == Conditions \subseteq Nodes /\ IsFiniteSet(Nodes)
ASSUME RunsAssumption == CronRuns \subseteq Runs
ASSUME WorkflowsAssumption ==
  /\ Workflows \subseteq SUBSET Link
  /\ Resets \subseteq SUBSET Nodes
ASSUME LoopsAssumption == Web \notin Runs /\ NoLoop \notin Runs \cup {Web}
ASSUME BoundsAssumption == Capacity \in Nat \ {0} /\ CrashBound \in Nat

VARIABLES
  run,     \* Runs -> the row's status and the local state of execute()
  log,     \* Runs -> Nodes -> what workflow_run_logs says of the node
  bound,   \* the event loop the semaphore belongs to, NoLoop until it is contended
  unheard, \* a permit was handed over while that loop slept, by another thread
  crashes  \* deaths of the process so far

vars == <<run, log, bound, unheard, crashes>>

-----------------------------------------------------------------------------
(* The state of a run *)

\* "error" is an exception (logged failed) or an error dictionary (logged
\* success): neither is a snapshot, and both make a condition false.
Outcome == {"none", "ok", "true", "false", "error", "skipped", "blocked"}
Success == {"ok", "true", "false"}
OutcomesOf(n) == IF n \in Conditions THEN {"true", "false", "error"}
                                     ELSE {"ok", "error"}

\* "raised": an exception left execute(). "lost": the process died. The row
\* says "running" in both, and "completed" only in the last stage.
Stage == {"idle", "layer", "executing", "routing", "closing",
          "completed", "raised", "lost"}
Open == {"layer", "executing", "routing", "closing"}

\* open: the connections whose target's in-degree still counts them.
\* todo, waiting, running: tasks of the layer's gather that have not reached
\* the semaphore, wait for a permit, hold one.  edges: connections of the node
\* being routed still to follow.  skips: the queue of _skip_downstream.
RunState ==
  [stage: Stage, flow: SUBSET Link, cron: BOOLEAN, reset: SUBSET Nodes,
   seed: [Nodes -> Outcome], open: SUBSET Link, processed: SUBSET Nodes,
   ready: SUBSET Nodes, todo: SUBSET Nodes, waiting: SUBSET Nodes,
   running: SUBSET Nodes, edges: SUBSET Link, skips: SUBSET Nodes]

NothingLogged == [n \in Nodes |-> "none"]

Started(flow, cron, reset, seed) ==
  [stage |-> "layer", flow |-> flow, cron |-> cron, reset |-> reset, seed |-> seed,
   open |-> flow, processed |-> {}, ready |-> {}, todo |-> {}, waiting |-> {},
   running |-> {}, edges |-> {}, skips |-> {}]
Idle == [Started({}, FALSE, {}, NothingLogged) EXCEPT !.stage = "idle"]

LoopOf(r) == IF run[r].cron THEN r ELSE Web

\* Between two awaits a coroutine keeps its event loop to itself, and execute()
\* awaits only while a layer executes.  The thread of a cron run is its own.
LoopFree(r) == \A other \in Runs \ {r} :
  run[other].stage \in Open \ {"executing"} => LoopOf(other) # LoopOf(r)

Reused(r) == {n \in Nodes : run[r].seed[n] # "none"}
Busy(r) == run[r].todo \cup run[r].waiting \cup run[r].running

\* results[n]: of this run if the node has one, or else the snapshot.
ResultOf(r, n) == IF log[r][n] = "none" THEN run[r].seed[n] ELSE log[r][n]

-----------------------------------------------------------------------------
(* The graph *)

LinksOfNodes(flow, n) == {l.target : l \in {k \in flow : k.source = n}}
LinksOfNoPorts(flow, n) == {l \in flow : l.source = n /\ l.port = "default"}
LinksOf(flow, n) == {l \in flow : l.source = n}
Targets(links) == {l.target : l \in links}

\* in_degree 0 and not processed.
FreeTooEarly(open, processed) ==
  {n \in Nodes \ processed : Cardinality({l \in open : l.target = n}) <= 1}
FreeAgain(open, processed) == Nodes \ Targets(open)
Free(open, processed) == (Nodes \ processed) \ Targets(open)

\* The port test of _run_dag_layers for a connection of a finished node.
Taken(r, l) ==
  \/ l.source \notin Conditions
  \/ l.port = "default"
  \/ l.port = "if_true" /\ ResultOf(r, l.source) = "true"
  \/ l.port = "if_false" /\ ResultOf(r, l.source) # "true"

-----------------------------------------------------------------------------
(* Starting a run *)

Init ==
  /\ run = [r \in Runs |-> Idle]
  /\ log = [r \in Runs |-> NothingLogged]
  /\ bound = NoLoop
  /\ unheard = FALSE
  /\ crashes = 0

\* A request or a cron job starts the workflow.
Execute(r) ==
  /\ run[r].stage = "idle"
  /\ \E flow \in Workflows, cron \in BOOLEAN :
       /\ cron => r \in CronRuns
       /\ run' = [run EXCEPT ![r] = Started(flow, cron, {}, NothingLogged)]
       /\ cron \/ LoopFree(r)
  /\ UNCHANGED <<log, bound, unheard, crashes>>

\* _load_resume_snapshots
Snapshots(old, reset) ==
  [n \in Nodes |-> IF log[old][n] \in Success /\ n \notin reset
                   THEN log[old][n] ELSE "none"]

\* POST /api/workflows/runs/{old}/resume?reset_node=...
Resume(r, old) ==
  /\ run[r].stage = "idle"
  /\ run[old].stage # "idle"
  /\ LoopFree(r)
  /\ \E reset \in Resets :
       run' = [run EXCEPT ![r] =
                 Started(run[old].flow, FALSE, reset, Snapshots(old, reset))]
  /\ UNCHANGED <<log, bound, unheard, crashes>>

-----------------------------------------------------------------------------
(* A layer: asyncio.gather over the ready nodes *)

\* Reused nodes return at once, the others go to the semaphore.
BeginLayer(r) ==
  LET ready == Free(run[r].open, run[r].processed) IN
  /\ run[r].stage = "layer"
  /\ ready # {}
  /\ run' = [run EXCEPT ![r].stage = "executing", ![r].ready = ready,
                        ![r].todo = ready \ Reused(r)]
  /\ UNCHANGED <<log, bound, unheard, crashes>>

BlockSilently(r) ==
  /\ run[r].stage = "layer"
  /\ run[r].processed # Nodes
  /\ Free(run[r].open, run[r].processed) = {}
  /\ run' = [run EXCEPT ![r].stage = "closing"]
  /\ UNCHANGED <<log, bound, unheard, crashes>>
BlockWithoutBreak(r) ==
  /\ run[r].stage = "layer"
  /\ run[r].processed # Nodes
  /\ Free(run[r].open, run[r].processed) = {}
  /\ log' = [log EXCEPT ![r] = [n \in Nodes |-> IF n \in run[r].processed THEN @[n]
                                                ELSE "blocked"]]
  /\ UNCHANGED <<run, bound, unheard, crashes>>

\* No node is ready: the rest is logged as failed and the loop is left.
Block(r) ==
  /\ run[r].stage = "layer"
  /\ run[r].processed # Nodes
  /\ Free(run[r].open, run[r].processed) = {}
  /\ log' = [log EXCEPT ![r] = [n \in Nodes |-> IF n \in run[r].processed THEN @[n]
                                                ELSE "blocked"]]
  /\ run' = [run EXCEPT ![r].stage = "closing"]
  /\ UNCHANGED <<bound, unheard, crashes>>

Complete(r) ==
  /\ \/ run[r].stage = "closing"
     \/ run[r].stage = "layer" /\ run[r].processed = Nodes
  /\ run' = [run EXCEPT ![r].stage = "completed"]
  /\ UNCHANGED <<log, bound, unheard, crashes>>

Holders == {h \in Runs \X Nodes : h[2] \in run[h[1]].running}
PermitFree == Cardinality(Holders) < Capacity
NobodyWaits == \A r \in Runs : run[r].waiting = {}
Gathered(r) == run[r].stage \in {"executing", "raised"}

\* A permit that comes back goes to the first waiter: its future is set with
\* call_soon, which does not wake the waiter's loop from another thread.  The
\* server's loop wakes by itself (uvicorn ticks); that of a cron run sleeps in
\* select while all its tasks wait or have a call under way.
Asleep == ~PermitFree /\ \E r \in Runs :
  bound = LoopOf(r) /\ run[r].cron /\ run[r].todo = {} /\ run[r].waiting # {}
HandsOver(r) == unheard' = (bound # LoopOf(r) /\ (unheard \/ Asleep))

\* The semaphore is not locked: one permit less, whichever loop asks.
StartNode(r, n) ==
  /\ Gathered(r)
  /\ n \in run[r].todo
  /\ PermitFree /\ NobodyWaits
  /\ run' = [run EXCEPT ![r].todo = @ \ {n}, ![r].running = @ \cup {n}]
  /\ UNCHANGED <<log, bound, unheard, crashes>>

\* The first task that has to wait binds the semaphore to its event loop.
AwaitPermit(r, n) ==
  /\ Gathered(r)
  /\ n \in run[r].todo
  /\ ~(PermitFree /\ NobodyWaits)
  /\ bound \in {NoLoop, LoopOf(r)}
  /\ bound' = LoopOf(r)
  /\ run' = [run EXCEPT ![r].todo = @ \ {n}, ![r].waiting = @ \cup {n}]
  /\ UNCHANGED <<log, unheard, crashes>>

\* A task that has to wait on a semaphore of another loop: acquire() raises
\* outside _exec_one's handler, so gather and execute() raise.  The server's
\* loop lets the other tasks of the layer go on; asyncio.run cancels them, and
\* they give their permits back.
RefuseLoop(r, n) ==
  /\ Gathered(r)
  /\ n \in run[r].todo
  /\ ~(PermitFree /\ NobodyWaits)
  /\ bound \notin {NoLoop, LoopOf(r)}
  /\ run' = [run EXCEPT
               ![r].stage = "raised",
               ![r].todo = IF run[r].cron THEN {} ELSE @ \ {n},
               ![r].waiting = IF run[r].cron THEN {} ELSE @,
               ![r].running = IF run[r].cron THEN {} ELSE @]
  /\ IF run[r].cron /\ run[r].running # {} THEN HandsOver(r) ELSE UNCHANGED unheard
  /\ UNCHANGED <<log, bound, crashes>>

\* The waiter's loop runs and finds the future set.
Wake(r, n) ==
  /\ n \in run[r].waiting
  /\ PermitFree
  /\ run' = [run EXCEPT ![r].waiting = @ \ {n}, ![r].running = @ \cup {n}]
  /\ unheard' = FALSE
  /\ UNCHANGED <<log, bound, crashes>>

\* The node returns or raises, its result is logged and the permit is back.
EndNode(r, n) ==
  /\ n \in run[r].running
  /\ \E out \in OutcomesOf(n) : log' = [log EXCEPT ![r][n] = out]
  /\ run' = [run EXCEPT ![r].running = @ \ {n}]
  /\ HandsOver(r)
  /\ UNCHANGED <<bound, crashes>>

EndLayer(r) ==
  /\ run[r].stage = "executing"
  /\ Busy(r) = {}
  /\ run' = [run EXCEPT ![r].stage = "routing"]
  /\ UNCHANGED <<log, bound, unheard, crashes>>

-----------------------------------------------------------------------------
(* Routing: the loop over the layer's nodes after the gather *)

\* The next node of the layer, in the order of a set: any.
RouteNode(r, n) ==
  /\ run[r].stage = "routing"
  /\ run[r].edges = {} /\ run[r].skips = {}
  /\ n \in run[r].ready \ run[r].processed
  /\ run' = [run EXCEPT ![r].processed = @ \cup {n},
                        ![r].edges = LinksOf(run[r].flow, n)]
  /\ UNCHANGED <<log, bound, unheard, crashes>>

FollowLinkSkipsAll(r, l) ==
  /\ run[r].stage = "routing"
  /\ run[r].skips = {}
  /\ l \in run[r].edges
  /\ IF Taken(r, l)
     THEN run' = [run EXCEPT ![r].edges = @ \ {l}, ![r].open = @ \ {l}]
     ELSE run' = [run EXCEPT ![r].edges = {},
                             ![r].skips = Targets(LinksOf(run[r].flow, l.source))]
  /\ UNCHANGED <<log, bound, unheard, crashes>>

\* Its next connection, in the order of the workflow's list: any.
FollowLink(r, l) ==
  /\ run[r].stage = "routing"
  /\ run[r].skips = {}
  /\ l \in run[r].edges
  /\ IF Taken(r, l)
     THEN run' = [run EXCEPT ![r].edges = @ \ {l}, ![r].open = @ \ {l}]
     ELSE run' = [run EXCEPT ![r].edges = @ \ {l}, ![r].skips = {l.target}]
  /\ UNCHANGED <<log, bound, unheard, crashes>>

\* One round of the loop of _skip_downstream for a node already processed.
SkipAgain(r, n) ==
  /\ run[r].stage = "routing"
  /\ n \in run[r].skips \cap run[r].processed
  /\ run' = [run EXCEPT ![r].skips = @ \ {n}]
  /\ UNCHANGED <<log, bound, unheard, crashes>>

\* ... and for another: it is skipped, and so is every target it leaves free.
SkipNode(r, n) ==
  LET links == LinksOf(run[r].flow, n)
      open == run[r].open \ links
      processed == run[r].processed \cup {n}
  IN
  /\ run[r].stage = "routing"
  /\ n \in run[r].skips \ run[r].processed
  /\ run' = [run EXCEPT
               ![r].processed = processed, ![r].open = open,
               ![r].skips = (@ \ {n}) \cup (Targets(links) \cap Free(open, processed))]
  /\ log' = [log EXCEPT ![r][n] = "skipped"]
  /\ UNCHANGED <<bound, unheard, crashes>>

EndRouting(r) ==
  /\ run[r].stage = "routing"
  /\ run[r].edges = {} /\ run[r].skips = {}
  /\ run[r].ready \subseteq run[r].processed
  /\ run' = [run EXCEPT ![r].stage = "layer", ![r].ready = {}]
  /\ UNCHANGED <<log, bound, unheard, crashes>>

-----------------------------------------------------------------------------
\* The process dies: rows and logs stay, the state of execute() is gone, and a
\* new process has a new semaphore.
Crash ==
  /\ crashes < CrashBound
  /\ \E r \in Runs : run[r].stage \in Open
  /\ run' = [r \in Runs |->
               IF run[r].stage \in Open \cup {"raised"}
               THEN [Idle EXCEPT !.stage = "lost", !.flow = run[r].flow]
               ELSE run[r]]
  /\ bound' = NoLoop
  /\ unheard' = FALSE
  /\ crashes' = crashes + 1
  /\ UNCHANGED log

NodeStep(r) ==
  \/ \E n \in run[r].todo : StartNode(r, n) \/ AwaitPermit(r, n) \/ RefuseLoop(r, n)
  \/ \E n \in run[r].running : EndNode(r, n)
RouteStep(r) ==
  \/ \E n \in run[r].ready : RouteNode(r, n)
  \/ \E n \in run[r].skips : SkipAgain(r, n) \/ SkipNode(r, n)
  \/ \E l \in run[r].edges : FollowLink(r, l)
  \/ EndRouting(r)
WakeStep(r) == \E n \in run[r].waiting : Wake(r, n)
OwnStep(r) ==
  \/ BeginLayer(r) \/ Block(r) \/ Complete(r) \/ EndLayer(r)
  \/ NodeStep(r) \/ RouteStep(r)
RunStep(r) == LoopFree(r) /\ (OwnStep(r) \/ WakeStep(r))

Next ==
  \/ \E r \in Runs : RunStep(r) \/ Execute(r) \/ \E old \in Runs : Resume(r, old)
  \/ Crash

Spec == Init /\ [][Next]_vars

\* The event loop serves every task that is ready, and every node ends: it
\* waits for calls with a timeout (aiohttp, wait_for) or for a sleep.  A waiter
\* whose loop sleeps is not served for sure: the loop may still have been up.
Served(r) == LoopFree(r) /\ (OwnStep(r) \/ (~unheard /\ WakeStep(r)))
FairSpec == Spec /\ \A r \in Runs : WF_vars(Served(r))

-----------------------------------------------------------------------------
(* Properties *)

\* The shape of the state of execute(), of the logs and of the semaphore.
TypeOK ==
  /\ run \in [Runs -> RunState]
  /\ log \in [Runs -> [Nodes -> Outcome]]
  /\ bound \in Runs \cup {Web, NoLoop}
  /\ unheard \in BOOLEAN
  /\ crashes \in Nat

Executed(r, n) == log[r][n] \in Success \cup {"error"}
Settled(r, n) == n \in Reused(r) \/ log[r][n] # "none"

\* A node that has started finds the result of every node it depends on: each
\* connection into it comes from a processed node with a result, and none from
\* a condition that chose the other branch (routing in _run_dag_layers).
UpstreamFirst ==
  \A r \in Runs, n \in Nodes :
    run[r].stage # "lost" /\ (n \in Busy(r) \/ Executed(r, n)) =>
    \A l \in run[r].flow : l.target = n =>
      /\ l.source \in run[r].processed
      /\ Settled(r, l.source)
      /\ log[r][l.source] # "skipped" => Taken(r, l)

\* What workflow_run_logs says of a node never changes: no layer and no skip
\* runs, skips or blocks a node a second time (processed in _run_dag_layers).
SettledOnce ==
  [][\A r \in Runs, n \in Nodes : log[r][n] # "none" => log'[r][n] = log[r][n]]_vars

\* Every set of nodes has one without a connection from that set.
Acyclic(flow) ==
  \A S \in (SUBSET Nodes) \ {{}} :
    \E n \in S : \A l \in flow : l.target = n => l.source \notin S

\* Branch routing never blocks a workflow without a cycle, whatever the
\* conditions say: nothing of it is logged as "cycle or blocked after a skip".
AcyclicRunsThrough ==
  \A r \in Runs, n \in Nodes : log[r][n] = "blocked" => ~Acyclic(run[r].flow)

\* A node is skipped only below a condition that chose another branch or below
\* a node that was skipped itself (_skip_downstream).
Dead(r, l) ==
  \/ log[r][l.source] = "skipped"
  \/ l.source \in run[r].processed /\ ~Taken(r, l)
SkippedForAReason ==
  \A r \in Runs, n \in Nodes : run[r].stage # "lost" /\ log[r][n] = "skipped" =>
    \E l \in run[r].flow : l.target = n /\ Dead(r, l)

\* A completed run accounts for every node: it ran, was skipped, was blocked or
\* its snapshot was reused, and no node of the run still holds a permit.
CompletedAccountsForAll ==
  \A r \in Runs : run[r].stage = "completed" =>
    Busy(r) = {} /\ \A n \in Nodes : Settled(r, n)

\* A cron run that has nothing under way and waits for permits that other threads
\* have handed over: nothing wakes its loop any more.
Deaf(r) == run[r].cron /\ unheard /\ run[r].running = {} /\ run[r].waiting # {}

\* Every run that starts comes to an end, and so do the nodes it left behind: the
\* runs that share the semaphore never wait for each other forever.  Only a cron
\* run may sleep for good, on permits that were handed over in another thread.
EveryRunEnds ==
  \A r \in Runs : run[r].stage \in Open ~>
    \/ run[r].stage \in {"completed", "raised", "lost"} /\ Busy(r) = {}
    \/ []Deaf(r)
=============================================================================
