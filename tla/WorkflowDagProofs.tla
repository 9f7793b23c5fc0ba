------------------------- MODULE WorkflowDagProofs -------------------------
(***************************************************************************)
(* WorkflowDag for every workflow and any number of runs: types, and that  *)
(* a node starts after the nodes it depends on, its log is written once, a *)
(* workflow without a cycle is never blocked, and nothing is skipped       *)
(* without a reason.                                                       *)
(***************************************************************************)
EXTENDS WorkflowDag, TLAPS

\* The states of a run and what its logs say, typed: a step that changes one
\* run needs to be looked at in that run only.
LEMMA Elements ==
  ASSUME TypeOK, NEW r \in Runs
  PROVE  /\ run[r] \in RunState
         /\ log[r] \in [Nodes -> Outcome]
  BY DEF TypeOK

\* A step that gives one run a typed state and keeps the rest stays typed.
LEMMA RunChanged ==
  ASSUME TypeOK, NEW r \in Runs, NEW new \in RunState,
         run' = [run EXCEPT ![r] = new],
         log' \in [Runs -> [Nodes -> Outcome]],
         bound' \in Runs \cup {Web, NoLoop}, unheard' \in BOOLEAN, crashes' \in Nat
  PROVE  TypeOK'
  BY DEF TypeOK

\* Whoever gets a permit that is handed over hears of it or not.
LEMMA HandedOver ==
  ASSUME NEW r \in Runs, HandsOver(r)
  PROVE  unheard' \in BOOLEAN
  BY Zenon DEF HandsOver

\* The steps of a run are steps of its nodes, of a layer or of routing.
LEMMA RunSteps ==
  ASSUME TypeOK, NEW r \in Runs, RunStep(r)
  PROVE  \/ BeginLayer(r) \/ Block(r) \/ Complete(r) \/ EndLayer(r) \/ EndRouting(r)
         \/ \E n \in Nodes : \/ StartNode(r, n) \/ AwaitPermit(r, n) \/ RefuseLoop(r, n)
                             \/ Wake(r, n) \/ EndNode(r, n)
         \/ \E n \in Nodes : RouteNode(r, n) \/ SkipAgain(r, n) \/ SkipNode(r, n)
         \/ \E l \in run[r].edges : FollowLink(r, l)
<1>1. /\ run[r].todo \subseteq Nodes /\ run[r].running \subseteq Nodes
      /\ run[r].waiting \subseteq Nodes /\ run[r].ready \subseteq Nodes
      /\ run[r].skips \subseteq Nodes
  BY Elements DEF RunState
<1> QED BY <1>1 DEF RunStep, OwnStep, WakeStep, NodeStep, RouteStep

\* A run starts with what its parameters say and empty sets.
LEMMA StartedTyped ==
  ASSUME NEW flow \in SUBSET Link, NEW cron \in BOOLEAN, NEW reset \in SUBSET Nodes,
         NEW seed \in [Nodes -> Outcome]
  PROVE  Started(flow, cron, reset, seed) \in RunState
  BY DEF Started, RunState, Stage

LEMMA IdleTyped == Idle \in RunState
<1>1. NothingLogged \in [Nodes -> Outcome] BY DEF NothingLogged, Outcome
<1>2. Started({}, FALSE, {}, NothingLogged) \in RunState
  BY <1>1, StartedTyped
<1> QED BY <1>2 DEF Idle, RunState, Stage

LEMMA SnapshotsTyped ==
  ASSUME TypeOK, NEW old \in Runs, NEW reset
  PROVE  Snapshots(old, reset) \in [Nodes -> Outcome]
  BY Elements DEF Snapshots, Outcome

LEMMA LinksTyped ==
  ASSUME NEW links \in SUBSET Link
  PROVE  /\ Targets(links) \subseteq Nodes
         /\ \A n : LinksOf(links, n) \subseteq Link
  BY DEF Targets, LinksOf, Link

LEMMA InitTyped == Init => TypeOK
<1> SUFFICES ASSUME Init PROVE TypeOK OBVIOUS
<1>1. NothingLogged \in [Nodes -> Outcome] BY DEF NothingLogged, Outcome
<1> QED BY <1>1, IdleTyped DEF Init, TypeOK

LEMMA ExecuteTyped ==
  ASSUME TypeOK, NEW r \in Runs, Execute(r)
  PROVE  TypeOK'
<1>1. PICK flow \in Workflows, cron \in BOOLEAN :
        run' = [run EXCEPT ![r] = Started(flow, cron, {}, NothingLogged)]
  BY DEF Execute
<1>2. flow \in SUBSET Link BY WorkflowsAssumption
<1>3. NothingLogged \in [Nodes -> Outcome] BY DEF NothingLogged, Outcome
<1>4. Started(flow, cron, {}, NothingLogged) \in RunState
  BY <1>2, <1>3, StartedTyped
<1> QED BY <1>1, <1>4, RunChanged DEF Execute, TypeOK

LEMMA ResumeTyped ==
  ASSUME TypeOK, NEW r \in Runs, NEW old \in Runs, Resume(r, old)
  PROVE  TypeOK'
<1>1. PICK reset \in Resets :
        run' = [run EXCEPT ![r] = Started(run[old].flow, FALSE, reset, Snapshots(old, reset))]
  BY DEF Resume
<1>2. reset \in SUBSET Nodes BY WorkflowsAssumption
<1>3. run[old].flow \in SUBSET Link BY Elements DEF RunState
<1>4. Started(run[old].flow, FALSE, reset, Snapshots(old, reset)) \in RunState
  BY <1>2, <1>3, SnapshotsTyped, StartedTyped
<1> QED BY <1>1, <1>4, RunChanged DEF Resume, TypeOK

\* The steps of a run before and after its layers.
LEMMA LayerTyped ==
  ASSUME TypeOK, NEW r \in Runs,
         BeginLayer(r) \/ Block(r) \/ Complete(r) \/ EndLayer(r) \/ EndRouting(r)
  PROVE  TypeOK'
<1>0. run[r] \in RunState /\ log[r] \in [Nodes -> Outcome] BY Elements
<1>1. CASE BeginLayer(r)
  <2> DEFINE ready == Free(run[r].open, run[r].processed)
             new == [run[r] EXCEPT !.stage = "executing", !.ready = ready,
                                   !.todo = ready \ Reused(r)]
  <2>1. ready \subseteq Nodes BY DEF Free
  <2>2. new \in RunState BY <1>0, <2>1 DEF RunState, Stage
  <2>3. run' = [run EXCEPT ![r] = new] BY <1>1 DEF BeginLayer, TypeOK
  <2> HIDE DEF new
  <2> QED BY <1>1, <2>2, <2>3, RunChanged DEF BeginLayer, TypeOK
<1>2. CASE Block(r)
  <2> DEFINE new == [run[r] EXCEPT !.stage = "closing"]
             logged == [n \in Nodes |-> IF n \in run[r].processed THEN log[r][n]
                                        ELSE "blocked"]
  <2>1. new \in RunState BY <1>0 DEF RunState, Stage
  <2>2. logged \in [Nodes -> Outcome] BY <1>0 DEF Outcome
  <2>3. run' = [run EXCEPT ![r] = new] /\ log' = [log EXCEPT ![r] = logged]
    BY <1>2 DEF Block, TypeOK
  <2> HIDE DEF new, logged
  <2>4. log' \in [Runs -> [Nodes -> Outcome]] BY <2>2, <2>3 DEF TypeOK
  <2> QED BY <1>2, <2>1, <2>3, <2>4, RunChanged DEF Block, TypeOK
<1>3. CASE Complete(r)
  <2> DEFINE new == [run[r] EXCEPT !.stage = "completed"]
  <2>1. new \in RunState BY <1>0 DEF RunState, Stage
  <2>2. run' = [run EXCEPT ![r] = new] BY <1>3 DEF Complete, TypeOK
  <2> HIDE DEF new
  <2> QED BY <1>3, <2>1, <2>2, RunChanged DEF Complete, TypeOK
<1>4. CASE EndLayer(r)
  <2> DEFINE new == [run[r] EXCEPT !.stage = "routing"]
  <2>1. new \in RunState BY <1>0 DEF RunState, Stage
  <2>2. run' = [run EXCEPT ![r] = new] BY <1>4 DEF EndLayer, TypeOK
  <2> HIDE DEF new
  <2> QED BY <1>4, <2>1, <2>2, RunChanged DEF EndLayer, TypeOK
<1>5. CASE EndRouting(r)
  <2> DEFINE new == [run[r] EXCEPT !.stage = "layer", !.ready = {}]
  <2>1. new \in RunState BY <1>0 DEF RunState, Stage
  <2>2. run' = [run EXCEPT ![r] = new] BY <1>5 DEF EndRouting, TypeOK
  <2> HIDE DEF new
  <2> QED BY <1>5, <2>1, <2>2, RunChanged DEF EndRouting, TypeOK
<1> QED BY <1>1, <1>2, <1>3, <1>4, <1>5

\* The steps of a node of a layer.
LEMMA NodeTyped ==
  ASSUME TypeOK, NEW r \in Runs, NEW n \in Nodes,
         \/ StartNode(r, n) \/ AwaitPermit(r, n) \/ RefuseLoop(r, n)
         \/ Wake(r, n) \/ EndNode(r, n)
  PROVE  TypeOK'
<1>0. run[r] \in RunState /\ log[r] \in [Nodes -> Outcome] BY Elements
<1>1. CASE StartNode(r, n)
  <2> DEFINE new == [run[r] EXCEPT !.todo = @ \ {n}, !.running = @ \cup {n}]
  <2>1. new \in RunState BY <1>0 DEF RunState
  <2>2. run' = [run EXCEPT ![r] = new] BY <1>1 DEF StartNode, TypeOK
  <2> HIDE DEF new
  <2> QED BY <1>1, <2>1, <2>2, RunChanged DEF StartNode, TypeOK
<1>2. CASE AwaitPermit(r, n)
  <2> DEFINE new == [run[r] EXCEPT !.todo = @ \ {n}, !.waiting = @ \cup {n}]
  <2>1. new \in RunState BY <1>0 DEF RunState
  <2>2. run' = [run EXCEPT ![r] = new] BY <1>2 DEF AwaitPermit, TypeOK
  <2>3. bound' \in Runs \cup {Web, NoLoop} BY <1>2 DEF AwaitPermit, LoopOf
  <2> HIDE DEF new
  <2> QED BY <1>2, <2>1, <2>2, <2>3, RunChanged DEF AwaitPermit, TypeOK
<1>3. CASE RefuseLoop(r, n)
  <2> DEFINE new == [run[r] EXCEPT
                       !.stage = "raised",
                       !.todo = IF run[r].cron THEN {} ELSE @ \ {n},
                       !.waiting = IF run[r].cron THEN {} ELSE @,
                       !.running = IF run[r].cron THEN {} ELSE @]
  <2>1. new \in RunState BY <1>0 DEF RunState, Stage
  <2>2. run' = [run EXCEPT ![r] = new] BY <1>3 DEF RefuseLoop, TypeOK
  <2>3. UNCHANGED unheard \/ HandsOver(r) BY <1>3 DEF RefuseLoop
  <2>4. unheard' \in BOOLEAN BY <2>3, HandedOver DEF TypeOK
  <2> HIDE DEF new
  <2> QED BY <1>3, <2>1, <2>2, <2>4, RunChanged DEF RefuseLoop, TypeOK
<1>4. CASE Wake(r, n)
  <2> DEFINE new == [run[r] EXCEPT !.waiting = @ \ {n}, !.running = @ \cup {n}]
  <2>1. new \in RunState BY <1>0 DEF RunState
  <2>2. run' = [run EXCEPT ![r] = new] BY <1>4 DEF Wake, TypeOK
  <2> HIDE DEF new
  <2> QED BY <1>4, <2>1, <2>2, RunChanged DEF Wake, TypeOK
<1>5. CASE EndNode(r, n)
  <2> DEFINE new == [run[r] EXCEPT !.running = @ \ {n}]
  <2>1. new \in RunState BY <1>0 DEF RunState
  <2>2. run' = [run EXCEPT ![r] = new] BY <1>5 DEF EndNode, TypeOK
  <2>3. PICK out \in OutcomesOf(n) : log' = [log EXCEPT ![r][n] = out]
    BY <1>5 DEF EndNode
  <2>4. out \in Outcome BY DEF OutcomesOf, Outcome
  <2>5. log' \in [Runs -> [Nodes -> Outcome]] BY <2>3, <2>4 DEF TypeOK
  <2>6. unheard' \in BOOLEAN BY <1>5, HandedOver DEF EndNode
  <2> HIDE DEF new
  <2> QED BY <1>5, <2>1, <2>2, <2>5, <2>6, RunChanged DEF EndNode, TypeOK
<1> QED BY <1>1, <1>2, <1>3, <1>4, <1>5

\* The steps of routing.
LEMMA RouteTyped ==
  ASSUME TypeOK, NEW r \in Runs,
         \/ \E n \in Nodes : RouteNode(r, n) \/ SkipAgain(r, n) \/ SkipNode(r, n)
         \/ \E l \in run[r].edges : FollowLink(r, l)
  PROVE  TypeOK'
<1>0. run[r] \in RunState /\ log[r] \in [Nodes -> Outcome] BY Elements
<1>1. ASSUME NEW n \in Nodes, RouteNode(r, n) PROVE TypeOK'
  <2> DEFINE new == [run[r] EXCEPT !.processed = @ \cup {n},
                                   !.edges = LinksOf(run[r].flow, n)]
  <2>1. LinksOf(run[r].flow, n) \subseteq Link BY <1>0, LinksTyped DEF RunState
  <2>2. new \in RunState BY <1>0, <2>1 DEF RunState
  <2>3. run' = [run EXCEPT ![r] = new] BY <1>1 DEF RouteNode, TypeOK
  <2> HIDE DEF new
  <2> QED BY <1>1, <2>2, <2>3, RunChanged DEF RouteNode, TypeOK
<1>2. ASSUME NEW n \in Nodes, SkipAgain(r, n) PROVE TypeOK'
  <2> DEFINE new == [run[r] EXCEPT !.skips = @ \ {n}]
  <2>1. new \in RunState BY <1>0 DEF RunState
  <2>2. run' = [run EXCEPT ![r] = new] BY <1>2 DEF SkipAgain, TypeOK
  <2> HIDE DEF new
  <2> QED BY <1>2, <2>1, <2>2, RunChanged DEF SkipAgain, TypeOK
<1>3. ASSUME NEW n \in Nodes, SkipNode(r, n) PROVE TypeOK'
  <2> DEFINE links == LinksOf(run[r].flow, n)
             open == run[r].open \ links
             processed == run[r].processed \cup {n}
             skips == (run[r].skips \ {n}) \cup (Targets(links) \cap Free(open, processed))
             new == [run[r] EXCEPT !.processed = processed, !.open = open, !.skips = skips]
  <2>1. skips \subseteq Nodes BY <1>0 DEF RunState, Free
  <2>2. open \subseteq Link /\ processed \subseteq Nodes BY <1>0 DEF RunState
  <2>3. new \in RunState BY <1>0, <2>1, <2>2 DEF RunState
  <2>4. run' = [run EXCEPT ![r] = new] BY <1>3 DEF SkipNode, TypeOK
  <2>5. log' \in [Runs -> [Nodes -> Outcome]] BY <1>3 DEF SkipNode, TypeOK, Outcome
  <2> HIDE DEF new
  <2> QED BY <1>3, <2>3, <2>4, <2>5, RunChanged DEF SkipNode, TypeOK
<1>4. ASSUME NEW l \in run[r].edges, FollowLink(r, l) PROVE TypeOK'
  <2> DEFINE new == IF Taken(r, l)
                    THEN [run[r] EXCEPT !.edges = @ \ {l}, !.open = @ \ {l}]
                    ELSE [run[r] EXCEPT !.edges = @ \ {l}, !.skips = {l.target}]
  <2>1. l.target \in Nodes BY <1>0, <1>4 DEF RunState, Link
  <2>2. new \in RunState BY <1>0, <2>1 DEF RunState
  <2>3. run' = [run EXCEPT ![r] = new] BY <1>4 DEF FollowLink, TypeOK
  <2> HIDE DEF new
  <2> QED BY <1>4, <2>2, <2>3, RunChanged DEF FollowLink, TypeOK
<1> QED BY <1>1, <1>2, <1>3, <1>4

LEMMA CrashTyped ==
  ASSUME TypeOK, Crash
  PROVE  TypeOK'
<1>1. ASSUME NEW r \in Runs PROVE [Idle EXCEPT !.stage = "lost", !.flow = run[r].flow] \in RunState
  BY IdleTyped, Elements DEF RunState, Stage
<1>2. run' \in [Runs -> RunState]
  <2>1. ASSUME NEW r \in Runs PROVE run'[r] \in RunState
    BY <1>1, Elements DEF Crash
  <2> QED BY <2>1 DEF Crash
<1>3. UNCHANGED log /\ bound' = NoLoop /\ unheard' = FALSE /\ crashes' = crashes + 1 BY DEF Crash
<1>4. log' \in [Runs -> [Nodes -> Outcome]] /\ bound' \in Runs \cup {Web, NoLoop}
  BY <1>3 DEF TypeOK
<1>5. crashes' \in Nat BY <1>3 DEF TypeOK
<1>6. unheard' \in BOOLEAN BY <1>3
<1> QED BY <1>2, <1>4, <1>5, <1>6 DEF TypeOK

\* Every reachable state has the type TypeOK states.
THEOREM TypeCorrect == Spec => []TypeOK
<1>1. Init => TypeOK BY InitTyped
<1>2. TypeOK /\ [Next]_vars => TypeOK'
  <2> SUFFICES ASSUME TypeOK, [Next]_vars PROVE TypeOK' OBVIOUS
  <2>1. CASE UNCHANGED vars BY <2>1 DEF TypeOK, vars
  <2>2. ASSUME NEW r \in Runs, RunStep(r) PROVE TypeOK'
    BY <2>2, RunSteps, LayerTyped, NodeTyped, RouteTyped
  <2>3. ASSUME NEW r \in Runs, Execute(r) PROVE TypeOK'
    BY <2>3, ExecuteTyped
  <2>4. ASSUME NEW r \in Runs, NEW old \in Runs, Resume(r, old) PROVE TypeOK'
    BY <2>4, ResumeTyped
  <2>5. CASE Crash BY <2>5, CrashTyped
  <2> QED BY <2>1, <2>2, <2>3, <2>4, <2>5 DEF Next
<1> QED BY <1>1, <1>2, PTL DEF Spec

-----------------------------------------------------------------------------
(* Layers and branch routing.  A step changes one run.  The inductive invariant *)
(* Sound therefore speaks of one run's state R and its logs L, as values; the   *)
(* lemmas say what each kind of step does to the two.                           *)

(* The operators of WorkflowDag on a run state and its logs *)

Value(R, L, n) == IF L[n] = "none" THEN R.seed[n] ELSE L[n]
Chosen(R, L, l) ==
  \/ l.source \notin Conditions
  \/ l.port = "default"
  \/ l.port = "if_true" /\ Value(R, L, l.source) = "true"
  \/ l.port = "if_false" /\ Value(R, L, l.source) # "true"
Has(R, L, n) == R.seed[n] # "none" \/ L[n] # "none"
Refused(R, L, l) ==
  L[l.source] = "skipped" \/ (l.source \in R.processed /\ ~Chosen(R, L, l))
Held(R) == R.todo \cup R.waiting \cup R.running

-----------------------------------------------------------------------------
(* The inductive invariant, for one run *)

\* A connection that is not counted any more comes from a processed node, which
\* was skipped or chose it; one that is still counted below a processed node
\* waits to be followed, or its target is settled by a skip.
Counted(R, L) ==
  /\ R.open \subseteq R.flow /\ R.edges \subseteq R.open
  /\ \A l \in R.flow \ R.open :
       l.source \in R.processed /\ (L[l.source] # "skipped" => Chosen(R, L, l))
  /\ \A l \in R.edges : l.source \in R.processed /\ L[l.source] # "skipped"
  /\ \A l \in R.open : l.source \in R.processed =>
       l \in R.edges \/ l.target \in R.processed \/ l.target \in R.skips

\* No counted connection leads into the layer or into a node that has run, and
\* a skip never reaches the layer.
Entered(R, L) ==
  /\ \A l \in R.open : l.target \notin R.ready
  /\ \A l \in R.open : L[l.target] \notin Success \cup {"error"}
  /\ R.skips \cap R.ready = {}

\* Which sets a stage uses.
Staged(R) ==
  /\ R.stage \in {"executing", "raised"} =>
       R.ready \cap R.processed = {} /\ R.edges = {} /\ R.skips = {}
  /\ R.stage \in {"idle", "layer", "closing", "completed"} =>
       R.ready = {} /\ R.edges = {} /\ R.skips = {}

\* Logs: of the layer or of a processed node until the run closes; a processed
\* node has a result, and so has a node of the layer that is done.
Recorded(R, L) ==
  /\ \A n \in Nodes : L[n] # "none" =>
       n \in R.processed \/ n \in R.ready \/ R.stage \in {"closing", "completed"}
  /\ \A n \in R.processed : Has(R, L, n)
  /\ R.stage \in {"executing", "routing"} =>
       \A n \in R.ready : n \in Held(R) \/ Has(R, L, n)
  /\ R.stage \in {"closing", "completed"} => \A n \in Nodes : Has(R, L, n)
  /\ R.stage = "idle" => \A n \in Nodes : L[n] = "none"

\* A skip, queued or done, has a reason.
Reasoned(R, L) ==
  /\ \A n \in R.skips : \E l \in R.flow : l.target = n /\ Refused(R, L, l)
  /\ \A n \in Nodes : L[n] = "skipped" =>
       n \in R.processed /\ \E l \in R.flow : l.target = n /\ Refused(R, L, l)

\* What also holds of a run the process forgot.
Kept(R, L) ==
  /\ Held(R) \subseteq R.ready
  /\ R.stage \notin {"executing", "raised"} => Held(R) = {}
  /\ R.todo \cap R.waiting = {} /\ (R.todo \cup R.waiting) \cap R.running = {}
  /\ \A n \in Held(R) : L[n] = "none"
  /\ \A n \in Nodes : L[n] = "blocked" => ~Acyclic(R.flow)

Sound(R, L) ==
  /\ Kept(R, L)
  /\ R.stage # "lost" => /\ Counted(R, L) /\ Entered(R, L) /\ Staged(R)
                         /\ Recorded(R, L) /\ Reasoned(R, L)

AllSound == \A r \in Runs : Sound(run[r], log[r])

-----------------------------------------------------------------------------
(* Starting *)

LEMMA StartedSound ==
  ASSUME NEW flow \in SUBSET Link, NEW cron \in BOOLEAN, NEW reset \in SUBSET Nodes,
         NEW seed \in [Nodes -> Outcome], NEW R, R = Started(flow, cron, reset, seed)
  PROVE  Sound(R, NothingLogged)
<1>1. /\ R.stage = "layer" /\ R.flow = flow /\ R.open = flow /\ R.processed = {}
      /\ R.ready = {} /\ R.todo = {} /\ R.waiting = {} /\ R.running = {}
      /\ R.edges = {} /\ R.skips = {}
  BY DEF Started
<1>2. \A n \in Nodes : NothingLogged[n] = "none" BY DEF NothingLogged
<1>3. \A l \in flow : l.target \in Nodes BY DEF Link
<1>4. Kept(R, NothingLogged) BY <1>1, <1>2 DEF Kept, Held
<1>5. Counted(R, NothingLogged) BY <1>1 DEF Counted
<1>6. Entered(R, NothingLogged) BY <1>1, <1>2, <1>3 DEF Entered, Success
<1>7. Staged(R) BY <1>1 DEF Staged
<1>8. Recorded(R, NothingLogged) BY <1>1, <1>2 DEF Recorded
<1>9. Reasoned(R, NothingLogged) BY <1>1, <1>2 DEF Reasoned
<1> QED BY <1>4, <1>5, <1>6, <1>7, <1>8, <1>9 DEF Sound

LEMMA IdleSound ==
  ASSUME NEW flow \in SUBSET Link, NEW stage \in {"idle", "lost"},
         NEW R, R = [Idle EXCEPT !.stage = stage, !.flow = flow],
         NEW L \in [Nodes -> Outcome],
         stage = "idle" => flow = {} /\ L = NothingLogged,
         \A n \in Nodes : L[n] = "blocked" => ~Acyclic(flow)
  PROVE  Sound(R, L)
<1>1. /\ R.stage = stage /\ R.flow = flow /\ R.open = {} /\ R.processed = {}
      /\ R.ready = {} /\ R.todo = {} /\ R.waiting = {} /\ R.running = {}
      /\ R.edges = {} /\ R.skips = {}
  BY DEF Idle, Started
<1>2. \A n \in Nodes : NothingLogged[n] = "none" BY DEF NothingLogged
<1>3. Kept(R, L) BY <1>1 DEF Kept, Held
<1>4. CASE stage = "lost" BY <1>1, <1>3, <1>4 DEF Sound
<1>5. CASE stage = "idle"
  <2>1. flow = {} /\ \A n \in Nodes : L[n] = "none" BY <1>2, <1>5
  <2>2. Counted(R, L) BY <1>1, <2>1 DEF Counted
  <2>3. Entered(R, L) BY <1>1 DEF Entered
  <2>4. Staged(R) BY <1>1 DEF Staged
  <2>5. Recorded(R, L) BY <1>1, <2>1 DEF Recorded
  <2>6. Reasoned(R, L) BY <1>1, <2>1 DEF Reasoned
  <2> QED BY <1>3, <2>2, <2>3, <2>4, <2>5, <2>6 DEF Sound
<1> QED BY <1>4, <1>5

-----------------------------------------------------------------------------
(* Layers *)

LEMMA BeginLayerSound ==
  ASSUME NEW R \in RunState, NEW L \in [Nodes -> Outcome], Sound(R, L),
         R.stage = "layer", NEW ready, ready = Free(R.open, R.processed),
         NEW S, S = [R EXCEPT !.stage = "executing", !.ready = ready,
                              !.todo = ready \ {n \in Nodes : R.seed[n] # "none"}]
  PROVE  Sound(S, L)
<1>1. /\ S.stage = "executing" /\ S.flow = R.flow /\ S.open = R.open /\ S.seed = R.seed
      /\ S.processed = R.processed /\ S.ready = ready
      /\ S.todo = ready \ {n \in Nodes : R.seed[n] # "none"}
      /\ S.waiting = R.waiting /\ S.running = R.running
      /\ S.edges = R.edges /\ S.skips = R.skips
  BY DEF RunState
<1>2. /\ Kept(R, L) /\ Counted(R, L) /\ Entered(R, L) /\ Staged(R)
      /\ Recorded(R, L) /\ Reasoned(R, L)
  BY DEF Sound
<1>3. R.edges = {} /\ R.skips = {} /\ R.ready = {} BY <1>2 DEF Staged
<1>4. R.todo = {} /\ R.waiting = {} /\ R.running = {} BY <1>2 DEF Kept, Held
<1>5. ready \subseteq Nodes /\ ready \cap R.processed = {} BY DEF Free
<1>6. \A l \in R.open : l.target \notin ready BY DEF Free, Targets
<1>7. \A n \in ready : L[n] = "none" BY <1>2, <1>3, <1>5 DEF Recorded
<1>8. Held(S) = S.todo BY <1>1, <1>4 DEF Held
<1>9. \A l : Chosen(S, L, l) = Chosen(R, L, l) BY <1>1 DEF Chosen, Value
<1>10. \A l : Refused(S, L, l) = Refused(R, L, l) BY <1>1, <1>9 DEF Refused
<1>11. \A n : Has(S, L, n) = Has(R, L, n) BY <1>1 DEF Has
<1>12. Kept(S, L) BY <1>1, <1>2, <1>4, <1>7, <1>8 DEF Kept
<1>13. Counted(S, L) BY <1>1, <1>2, <1>9 DEF Counted
<1>14. Entered(S, L) BY <1>1, <1>2, <1>3, <1>6 DEF Entered
<1>15. Staged(S) BY <1>1, <1>3, <1>5 DEF Staged
<1>16. ASSUME NEW n \in ready PROVE n \in Held(S) \/ Has(S, L, n)
  <2>1. CASE R.seed[n] = "none" BY ZenonT(60), <1>1, <1>8, <2>1
  <2>2. CASE R.seed[n] # "none" BY <1>1, <2>2 DEF Has
  <2> QED BY <2>1, <2>2
<1>17. Recorded(S, L) BY <1>1, <1>2, <1>3, <1>11, <1>16 DEF Recorded
<1>18. Reasoned(S, L) BY ZenonT(60), <1>1, <1>2, <1>10 DEF Reasoned
<1> QED BY <1>12, <1>13, <1>14, <1>15, <1>17, <1>18 DEF Sound

\* The heart of AcyclicRunsThrough: the nodes that are left when none is free
\* each have a connection from one of them.
LEMMA BlockedIsCyclic ==
  ASSUME NEW R \in RunState, NEW L, Counted(R, L), R.edges = {}, R.skips = {},
         R.processed # Nodes, Free(R.open, R.processed) = {}
  PROVE  ~Acyclic(R.flow)
<1> DEFINE rest == Nodes \ R.processed
<1>1. rest \in (SUBSET Nodes) \ {{}} BY DEF RunState
<1>2. ASSUME NEW n \in rest
      PROVE  \E l \in R.flow : l.target = n /\ l.source \in rest
  <2>1. n \in Targets(R.open) BY DEF Free
  <2>2. PICK l \in R.open : l.target = n BY <2>1 DEF Targets
  <2>3. l \in R.flow BY DEF Counted
  <2>4. l.source \notin R.processed BY <2>2 DEF Counted
  <2>5. l.source \in Nodes BY <2>3 DEF RunState, Link
  <2> QED BY <2>2, <2>3, <2>4, <2>5
<1> HIDE DEF rest
<1> QED BY <1>1, <1>2 DEF Acyclic

LEMMA BlockSound ==
  ASSUME NEW R \in RunState, NEW L \in [Nodes -> Outcome], Sound(R, L),
         R.stage = "layer", R.processed # Nodes, Free(R.open, R.processed) = {},
         NEW S, S = [R EXCEPT !.stage = "closing"],
         NEW M, M = [n \in Nodes |-> IF n \in R.processed THEN L[n] ELSE "blocked"]
  PROVE  Sound(S, M)
<1>1. /\ S.stage = "closing" /\ S.flow = R.flow /\ S.open = R.open /\ S.seed = R.seed
      /\ S.processed = R.processed /\ S.ready = R.ready /\ S.todo = R.todo
      /\ S.waiting = R.waiting /\ S.running = R.running
      /\ S.edges = R.edges /\ S.skips = R.skips
  BY DEF RunState
<1>2. /\ Kept(R, L) /\ Counted(R, L) /\ Entered(R, L) /\ Staged(R)
      /\ Recorded(R, L) /\ Reasoned(R, L)
  BY DEF Sound
<1>3. R.edges = {} /\ R.skips = {} /\ R.ready = {} BY <1>2 DEF Staged
<1>4. Held(S) = {} BY <1>1, <1>2 DEF Kept, Held
<1>5. ~Acyclic(R.flow) BY <1>2, <1>3, BlockedIsCyclic
<1>6. R.processed \subseteq Nodes /\ \A l \in R.flow : l.source \in Nodes /\ l.target \in Nodes
  BY DEF RunState, Link
<1>7. \A n \in R.processed : M[n] = L[n] BY <1>6
<1>8. \A n \in Nodes : M[n] \notin {"blocked"} => n \in R.processed /\ M[n] = L[n]
  OBVIOUS
<1>9. \A l : l.source \in R.processed => Chosen(S, M, l) = Chosen(R, L, l)
  BY <1>1, <1>7 DEF Chosen, Value
<1>10. \A l : Refused(R, L, l) /\ l \in R.flow => Refused(S, M, l)
  BY <1>1, <1>2, <1>6, <1>7, <1>9 DEF Refused, Reasoned
<1>11. Kept(S, M) BY <1>1, <1>4, <1>5 DEF Kept, Held
<1>12. Counted(S, M) BY <1>1, <1>2, <1>7, <1>9 DEF Counted
<1>17. \A l \in R.open : M[l.target] \in {L[l.target], "blocked"}
  BY <1>2, <1>6 DEF Counted
<1>13. Entered(S, M) BY <1>1, <1>2, <1>17 DEF Entered, Success
<1>14. Staged(S) BY <1>1, <1>3 DEF Staged
<1>15. Recorded(S, M) BY <1>1, <1>2, <1>3, <1>7 DEF Recorded, Has
<1>16. Reasoned(S, M) BY <1>1, <1>2, <1>3, <1>8, <1>10 DEF Reasoned
<1> QED BY <1>11, <1>12, <1>13, <1>14, <1>15, <1>16 DEF Sound

\* Complete, EndLayer and EndRouting change the stage and forget the layer.
LEMMA StageSound ==
  ASSUME NEW R \in RunState, NEW L \in [Nodes -> Outcome], Sound(R, L),
         NEW stage \in {"completed", "routing", "layer"},
         NEW S, S = [R EXCEPT !.stage = stage, !.ready = IF stage = "routing" THEN @ ELSE {}],
         stage = "completed" => \/ R.stage = "closing"
                                \/ R.stage = "layer" /\ R.processed = Nodes,
         stage = "routing" => R.stage = "executing" /\ Held(R) = {},
         stage = "layer" => /\ R.stage = "routing" /\ R.edges = {} /\ R.skips = {}
                            /\ R.ready \subseteq R.processed
  PROVE  Sound(S, L)
<1>1. /\ S.stage = stage /\ S.flow = R.flow /\ S.open = R.open /\ S.seed = R.seed
      /\ S.processed = R.processed /\ S.todo = R.todo
      /\ S.waiting = R.waiting /\ S.running = R.running
      /\ S.edges = R.edges /\ S.skips = R.skips
      /\ S.ready = IF stage = "routing" THEN R.ready ELSE {}
  BY DEF RunState
<1>2. R.stage # "lost" OBVIOUS
<1>3. /\ Kept(R, L) /\ Counted(R, L) /\ Entered(R, L) /\ Staged(R)
      /\ Recorded(R, L) /\ Reasoned(R, L)
  BY <1>2 DEF Sound
<1>4. Held(S) = Held(R) /\ Held(R) = {} BY <1>1, <1>3 DEF Held, Kept
<1>5. \A l : Chosen(S, L, l) = Chosen(R, L, l) BY <1>1 DEF Chosen, Value
<1>6. \A l : Refused(S, L, l) = Refused(R, L, l) BY <1>1, <1>5 DEF Refused
<1>7. \A n : Has(S, L, n) = Has(R, L, n) BY <1>1 DEF Has
<1>8. Kept(S, L) BY <1>1, <1>3, <1>4 DEF Kept
<1>9. Counted(S, L) BY <1>1, <1>3, <1>5 DEF Counted
<1>10. Entered(S, L) BY <1>1, <1>3 DEF Entered
<1>11. Staged(S) BY <1>1, <1>3 DEF Staged
<1>12. Recorded(S, L) BY <1>1, <1>3, <1>4, <1>7, <1>11 DEF Recorded, Staged
<1>13. Reasoned(S, L) BY <1>1, <1>3, <1>6 DEF Reasoned
<1> QED BY <1>8, <1>9, <1>10, <1>11, <1>12, <1>13 DEF Sound

\* StartNode, AwaitPermit, Wake and RefuseLoop only move nodes of the layer
\* between the three sets, or drop them when the run raises.
LEMMA MoveSound ==
  ASSUME NEW R \in RunState, NEW L \in [Nodes -> Outcome], Sound(R, L),
         R.stage \in {"executing", "raised"},
         NEW S \in RunState, S.stage \in {R.stage, "raised"},
         S.flow = R.flow, S.open = R.open, S.seed = R.seed, S.processed = R.processed,
         S.ready = R.ready, S.edges = R.edges, S.skips = R.skips,
         Held(S) \subseteq Held(R),
         S.todo \cap S.waiting = {}, (S.todo \cup S.waiting) \cap S.running = {},
         S.stage = "executing" => Held(S) = Held(R)
  PROVE  Sound(S, L)
<1>1. /\ Kept(R, L) /\ Counted(R, L) /\ Entered(R, L) /\ Staged(R)
      /\ Recorded(R, L) /\ Reasoned(R, L)
  BY DEF Sound
<1>2. \A l : Chosen(S, L, l) = Chosen(R, L, l) BY DEF Chosen, Value
<1>3. \A l : Refused(S, L, l) = Refused(R, L, l) BY <1>2 DEF Refused
<1>4. \A n : Has(S, L, n) = Has(R, L, n) BY DEF Has
<1>5. Kept(S, L) BY <1>1 DEF Kept
<1>6. Counted(S, L) BY <1>1, <1>2 DEF Counted
<1>7. Entered(S, L) BY <1>1 DEF Entered
<1>8. Staged(S) BY <1>1 DEF Staged
<1>9. Recorded(S, L) BY <1>1, <1>4 DEF Recorded
<1>10. Reasoned(S, L) BY <1>1, <1>3 DEF Reasoned
<1> QED BY <1>5, <1>6, <1>7, <1>8, <1>9, <1>10 DEF Sound

\* A node of the layer ends: nothing that is routed so far depends on it.
LEMMA EndNodeSound ==
  ASSUME NEW R \in RunState, NEW L \in [Nodes -> Outcome], Sound(R, L),
         NEW n \in R.running, NEW out \in Success \cup {"error"},
         NEW S, S = [R EXCEPT !.running = @ \ {n}],
         NEW M, M = [L EXCEPT ![n] = out]
  PROVE  Sound(S, M)
<1>1. /\ S.stage = R.stage /\ S.flow = R.flow /\ S.open = R.open /\ S.seed = R.seed
      /\ S.processed = R.processed /\ S.ready = R.ready /\ S.todo = R.todo
      /\ S.waiting = R.waiting /\ S.running = R.running \ {n}
      /\ S.edges = R.edges /\ S.skips = R.skips
  BY DEF RunState
<1>2. Kept(R, L) BY DEF Sound
<1>3. n \in Held(R) /\ n \in R.ready /\ n \in Nodes BY <1>2 DEF Kept, Held, RunState
<1>4. R.stage \in {"executing", "raised"} BY <1>2, <1>3 DEF Kept
<1>5. Counted(R, L) /\ Entered(R, L) /\ Staged(R) /\ Recorded(R, L) /\ Reasoned(R, L)
  BY <1>4 DEF Sound
<1>6. n \notin R.processed /\ R.edges = {} /\ R.skips = {} BY <1>3, <1>4, <1>5 DEF Staged
<1>7. M[n] = out /\ \A k \in Nodes \ {n} : M[k] = L[k] BY <1>3
<1>8. out \notin {"none", "skipped", "blocked"} BY DEF Success
<1>9. \A l \in R.flow : l.source \in Nodes /\ l.target \in Nodes BY DEF RunState, Link
<1>10. \A k \in R.processed : k \in Nodes /\ M[k] = L[k] BY <1>6, <1>7 DEF RunState
<1>11. \A l : l.source \in R.processed => Chosen(S, M, l) = Chosen(R, L, l)
  BY <1>1, <1>10 DEF Chosen, Value
<1>12. ASSUME NEW l \in R.flow, Refused(R, L, l) PROVE Refused(S, M, l)
  <2>1. l.source \in R.processed BY <1>5, <1>9, <1>12 DEF Refused, Reasoned
  <2> QED BY <1>1, <1>10, <1>11, <1>12, <2>1 DEF Refused
<1>13. Held(S) = Held(R) \ {n} BY <1>1, <1>2 DEF Kept, Held
<1>14. Kept(S, M)
  <2>1. \A k \in Held(S) : M[k] = "none" BY <1>2, <1>7, <1>13 DEF Kept, Held, RunState
  <2>2. \A k \in Nodes : M[k] = "blocked" => L[k] = "blocked" BY <1>7, <1>8
  <2> QED BY <1>1, <1>2, <1>13, <2>1, <2>2 DEF Kept
<1>15. Counted(S, M) BY ZenonT(60), <1>1, <1>5, <1>10, <1>11 DEF Counted
<1>16. Entered(S, M)
  <2>1. \A l \in R.open : l.target # n BY <1>3, <1>5 DEF Entered
  <2>2. \A l \in R.open : M[l.target] = L[l.target]
    BY <1>5, <1>7, <1>9, <2>1 DEF Counted
  <2> QED BY <1>1, <1>5, <2>2 DEF Entered
<1>17. Staged(S) BY <1>1, <1>5 DEF Staged
<1>18. Recorded(S, M)
  <2>1. \A k \in Nodes : k # n => Has(S, M, k) = Has(R, L, k) BY <1>1, <1>7 DEF Has
  <2>2. Has(S, M, n) BY <1>7, <1>8 DEF Has
  <2>3. \A k \in Nodes : M[k] # "none" => k \in R.processed \/ k \in R.ready
    BY <1>3, <1>4, <1>5, <1>7 DEF Recorded
  <2>4. \A k \in R.processed : Has(S, M, k)
    BY <1>5, <1>6, <1>10, <2>1 DEF Recorded
  <2>5. ASSUME R.stage \in {"executing", "routing"}, NEW k \in R.ready
        PROVE  k \in Held(S) \/ Has(S, M, k)
    <3>1. k \in Nodes BY DEF RunState
    <3> QED BY <1>5, <1>13, <2>1, <2>2, <2>5, <3>1 DEF Recorded
  <2> QED BY <1>1, <1>4, <2>3, <2>4, <2>5 DEF Recorded
<1>19. Reasoned(S, M)
  <2>1. ASSUME NEW k \in Nodes, M[k] = "skipped"
        PROVE  k \in R.processed /\ \E l \in R.flow : l.target = k /\ Refused(S, M, l)
    <3>1. L[k] = "skipped" BY <1>7, <1>8, <2>1
    <3> QED BY <1>5, <1>12, <3>1 DEF Reasoned
  <2> QED BY <1>1, <1>6, <2>1 DEF Reasoned
<1> QED BY <1>14, <1>15, <1>16, <1>17, <1>18, <1>19 DEF Sound

-----------------------------------------------------------------------------
(* Routing *)

\* A node of the layer becomes processed, and its connections are to follow.
LEMMA RouteNodeSound ==
  ASSUME NEW R \in RunState, NEW L \in [Nodes -> Outcome], Sound(R, L),
         R.stage = "routing", R.edges = {}, R.skips = {},
         NEW n \in R.ready \ R.processed,
         NEW S, S = [R EXCEPT !.processed = @ \cup {n}, !.edges = LinksOf(R.flow, n)]
  PROVE  Sound(S, L)
<1>1. /\ S.stage = R.stage /\ S.flow = R.flow /\ S.open = R.open /\ S.seed = R.seed
      /\ S.processed = R.processed \cup {n} /\ S.ready = R.ready
      /\ S.todo = R.todo /\ S.waiting = R.waiting /\ S.running = R.running
      /\ S.edges = LinksOf(R.flow, n) /\ S.skips = R.skips
  BY DEF RunState
<1>2. /\ Kept(R, L) /\ Counted(R, L) /\ Entered(R, L) /\ Staged(R)
      /\ Recorded(R, L) /\ Reasoned(R, L)
  BY DEF Sound
<1>3. Held(S) = Held(R) /\ Held(R) = {} BY <1>1, <1>2 DEF Held, Kept
<1>4. n \in Nodes BY DEF RunState
<1>5. L[n] # "skipped" BY <1>2, <1>4 DEF Reasoned
<1>6. \A l : Chosen(S, L, l) = Chosen(R, L, l) BY <1>1 DEF Chosen, Value
<1>7. \A l : Refused(R, L, l) => Refused(S, L, l) BY <1>1, <1>6 DEF Refused
<1>8. \A k : Has(S, L, k) = Has(R, L, k) BY <1>1 DEF Has
<1>9. Has(R, L, n) BY <1>2, <1>3 DEF Recorded
<1>10. S.edges \subseteq R.open
  <2>1. ASSUME NEW l \in R.flow, l.source = n PROVE l \in R.open
    BY <1>2, <2>1 DEF Counted
  <2> QED BY <1>1, <2>1 DEF LinksOf
<1>11. \A l \in S.edges : l.source = n BY <1>1 DEF LinksOf
<1>12. Kept(S, L) BY <1>1, <1>2, <1>3 DEF Kept
<1>13. Counted(S, L)
  <2>1. ASSUME NEW l \in S.open, l.source \in S.processed
        PROVE  l \in S.edges \/ l.target \in S.processed \/ l.target \in S.skips
    <3>1. CASE l.source = n BY <1>1, <1>2, <3>1 DEF Counted, LinksOf
    <3>2. CASE l.source # n BY <1>1, <1>2, <2>1, <3>2 DEF Counted
    <3> QED BY <3>1, <3>2
  <2>2. \A l \in S.flow \ S.open :
          l.source \in S.processed /\ (L[l.source] # "skipped" => Chosen(S, L, l))
    BY <1>1, <1>2, <1>6 DEF Counted
  <2>3. \A l \in S.edges : l.source \in S.processed /\ L[l.source] # "skipped"
    BY <1>1, <1>5, <1>11
  <2> QED BY <1>1, <1>2, <1>10, <2>1, <2>2, <2>3 DEF Counted
<1>14. Entered(S, L) BY <1>1, <1>2 DEF Entered
<1>15. Staged(S) BY <1>1 DEF Staged
<1>16. Recorded(S, L) BY <1>1, <1>2, <1>3, <1>8, <1>9 DEF Recorded
<1>17. Reasoned(S, L) BY <1>1, <1>2, <1>7 DEF Reasoned
<1> QED BY <1>12, <1>13, <1>14, <1>15, <1>16, <1>17 DEF Sound

\* A connection is followed: counted down if it is chosen, or its target is
\* the first to be skipped.
LEMMA FollowLinkSound ==
  ASSUME NEW R \in RunState, NEW L \in [Nodes -> Outcome], Sound(R, L),
         R.stage = "routing", R.skips = {}, NEW l \in R.edges,
         NEW S, S = IF Chosen(R, L, l)
                    THEN [R EXCEPT !.edges = @ \ {l}, !.open = @ \ {l}]
                    ELSE [R EXCEPT !.edges = @ \ {l}, !.skips = {l.target}]
  PROVE  Sound(S, L)
<1>1. /\ S.stage = R.stage /\ S.flow = R.flow /\ S.seed = R.seed
      /\ S.processed = R.processed /\ S.ready = R.ready
      /\ S.todo = R.todo /\ S.waiting = R.waiting /\ S.running = R.running
      /\ S.edges = R.edges \ {l}
      /\ Chosen(R, L, l) => S.open = R.open \ {l} /\ S.skips = {}
      /\ ~Chosen(R, L, l) => S.open = R.open /\ S.skips = {l.target}
  BY DEF RunState
<1>2. /\ Kept(R, L) /\ Counted(R, L) /\ Entered(R, L) /\ Staged(R)
      /\ Recorded(R, L) /\ Reasoned(R, L)
  BY DEF Sound
<1>3. Held(S) = Held(R) BY <1>1 DEF Held
<1>4. l \in R.open /\ l \in R.flow /\ l.source \in R.processed /\ L[l.source] # "skipped"
  BY <1>2 DEF Counted
<1>5. \A k : Chosen(S, L, k) = Chosen(R, L, k) BY <1>1 DEF Chosen, Value
<1>6. \A k : Refused(S, L, k) = Refused(R, L, k) BY <1>1, <1>5 DEF Refused
<1>7. \A k : Has(S, L, k) = Has(R, L, k) BY <1>1 DEF Has
<1>8. S.open \subseteq R.open BY <1>1
<1>9. Kept(S, L) BY <1>1, <1>2, <1>3 DEF Kept
<1>10. Counted(S, L)
  <2>1. ASSUME NEW k \in S.open, k.source \in S.processed
        PROVE  k \in S.edges \/ k.target \in S.processed \/ k.target \in S.skips
    BY <1>1, <1>2, <1>8, <2>1 DEF Counted
  <2>2. ASSUME NEW k \in S.flow \ S.open
        PROVE  k.source \in S.processed /\ (L[k.source] # "skipped" => Chosen(S, L, k))
    BY <1>1, <1>2, <1>4, <1>5 DEF Counted
  <2>3. S.edges \subseteq S.open BY <1>1, <1>2 DEF Counted
  <2> QED BY <1>1, <1>2, <1>8, <2>1, <2>2, <2>3 DEF Counted
<1>11. Entered(S, L) BY <1>1, <1>2, <1>4, <1>8 DEF Entered
<1>12. Staged(S) BY <1>1 DEF Staged
<1>13. Recorded(S, L) BY <1>1, <1>2, <1>3, <1>7 DEF Recorded
<1>14. Reasoned(S, L)
  <2>1. ASSUME NEW k \in S.skips PROVE \E j \in S.flow : j.target = k /\ Refused(S, L, j)
    BY <1>1, <1>4, <1>6, <2>1 DEF Refused
  <2> QED BY <1>1, <1>2, <1>6, <2>1 DEF Reasoned
<1> QED BY <1>9, <1>10, <1>11, <1>12, <1>13, <1>14 DEF Sound

LEMMA SkipAgainSound ==
  ASSUME NEW R \in RunState, NEW L \in [Nodes -> Outcome], Sound(R, L),
         R.stage = "routing", NEW n \in R.skips \cap R.processed,
         NEW S, S = [R EXCEPT !.skips = @ \ {n}]
  PROVE  Sound(S, L)
<1>1. /\ S.stage = R.stage /\ S.flow = R.flow /\ S.open = R.open /\ S.seed = R.seed
      /\ S.processed = R.processed /\ S.ready = R.ready
      /\ S.todo = R.todo /\ S.waiting = R.waiting /\ S.running = R.running
      /\ S.edges = R.edges /\ S.skips = R.skips \ {n}
  BY DEF RunState
<1>2. /\ Kept(R, L) /\ Counted(R, L) /\ Entered(R, L) /\ Staged(R)
      /\ Recorded(R, L) /\ Reasoned(R, L)
  BY DEF Sound
<1>3. Held(S) = Held(R) BY <1>1 DEF Held
<1>4. \A k : Chosen(S, L, k) = Chosen(R, L, k) BY <1>1 DEF Chosen, Value
<1>5. \A k : Refused(S, L, k) = Refused(R, L, k) BY <1>1, <1>4 DEF Refused
<1>6. \A k : Has(S, L, k) = Has(R, L, k) BY <1>1 DEF Has
<1>7. Kept(S, L) BY <1>1, <1>2, <1>3 DEF Kept
<1>8. Counted(S, L) BY <1>1, <1>2, <1>4 DEF Counted
<1>9. Entered(S, L) BY <1>1, <1>2 DEF Entered
<1>10. Staged(S) BY <1>1 DEF Staged
<1>11. Recorded(S, L) BY <1>1, <1>2, <1>3, <1>6 DEF Recorded
<1>12. Reasoned(S, L) BY <1>1, <1>2, <1>5 DEF Reasoned
<1> QED BY <1>7, <1>8, <1>9, <1>10, <1>11, <1>12 DEF Sound

\* A node is skipped: all connections out of it are counted down, and what is
\* queued next depends on it.
LEMMA SkipNodeSound ==
  ASSUME NEW R \in RunState, NEW L \in [Nodes -> Outcome], Sound(R, L),
         R.stage = "routing", NEW n \in R.skips \ R.processed,
         NEW links, links = LinksOf(R.flow, n),
         NEW open, open = R.open \ links,
         NEW processed, processed = R.processed \cup {n},
         NEW next, next = Targets(links) \cap Free(open, processed),
         NEW S, S = [R EXCEPT !.processed = processed, !.open = open,
                              !.skips = (@ \ {n}) \cup next],
         NEW M, M = [L EXCEPT ![n] = "skipped"]
  PROVE  Sound(S, M)
<1>1. /\ S.stage = R.stage /\ S.flow = R.flow /\ S.open = open /\ S.seed = R.seed
      /\ S.processed = processed /\ S.ready = R.ready
      /\ S.todo = R.todo /\ S.waiting = R.waiting /\ S.running = R.running
      /\ S.edges = R.edges /\ S.skips = (R.skips \ {n}) \cup next
  BY DEF RunState
<1>2. /\ Kept(R, L) /\ Counted(R, L) /\ Entered(R, L) /\ Staged(R)
      /\ Recorded(R, L) /\ Reasoned(R, L)
  BY DEF Sound
<1>3. Held(S) = {} BY <1>1, <1>2 DEF Held, Kept
<1>4. n \in Nodes /\ n \notin R.ready BY <1>2 DEF RunState, Entered
<1>5. L[n] = "none" BY <1>2, <1>4 DEF Recorded
<1>6. M[n] = "skipped" /\ \A k \in Nodes \ {n} : M[k] = L[k] BY <1>4
<1>7. \A l \in R.flow : l.source \in Nodes /\ l.target \in Nodes BY DEF RunState, Link
<1>8. \A k \in R.processed : k \in Nodes /\ M[k] = L[k] BY <1>6 DEF RunState
<1>9. \A l \in links : l \in R.flow /\ l.source = n BY DEF LinksOf
<1>10. \A l \in R.flow : l.source = n => l \in links BY DEF LinksOf
<1>11. \A l : l.source \in R.processed => Chosen(S, M, l) = Chosen(R, L, l)
  BY <1>1, <1>8 DEF Chosen, Value
<1>12. ASSUME NEW l \in R.flow, Refused(R, L, l) PROVE Refused(S, M, l)
  <2>1. l.source \in R.processed BY <1>2, <1>7, <1>12 DEF Refused, Reasoned
  <2> QED BY <1>1, <1>8, <1>11, <1>12, <2>1 DEF Refused
<1>13. \A l \in links : Refused(S, M, l) BY <1>6, <1>9 DEF Refused
<1>14. Kept(S, M)
  <2>1. \A k \in Nodes : M[k] = "blocked" => L[k] = "blocked" BY <1>6
  <2> QED BY <1>1, <1>2, <1>3, <2>1 DEF Kept, Held
<1>15. Counted(S, M)
  <2>1. S.open \subseteq S.flow /\ S.edges \subseteq S.open
    <3>1. \A l \in R.edges : l \notin links BY <1>2, <1>9 DEF Counted
    <3> QED BY <1>1, <1>2, <3>1 DEF Counted
  <2>2. ASSUME NEW l \in S.flow \ S.open
        PROVE  l.source \in S.processed /\ (M[l.source] # "skipped" => Chosen(S, M, l))
    <3>1. CASE l \in links BY <1>1, <1>6, <1>9, <3>1
    <3>2. CASE l \notin links
      <4>1. l \in R.flow \ R.open BY <1>1, <3>2
      <4> QED BY <1>1, <1>2, <1>8, <1>11, <4>1 DEF Counted
    <3> QED BY <3>1, <3>2
  <2>3. \A l \in S.edges : l.source \in S.processed /\ M[l.source] # "skipped"
    BY <1>1, <1>2, <1>8 DEF Counted
  <2>4. ASSUME NEW l \in S.open, l.source \in S.processed
        PROVE  l \in S.edges \/ l.target \in S.processed \/ l.target \in S.skips
    <3>1. l \in R.open /\ l \in R.flow /\ l \notin links BY <1>1, <1>2 DEF Counted
    <3>2. l.source \in R.processed BY <1>1, <1>10, <2>4, <3>1
    <3> QED BY <1>1, <1>2, <3>1, <3>2 DEF Counted
  <2> QED BY <2>1, <2>2, <2>3, <2>4 DEF Counted
<1>16. Entered(S, M)
  <2>1. \A l \in S.open : l \in R.open /\ l.target \in Nodes
    BY <1>1, <1>2, <1>7 DEF Counted
  <2>2. \A l \in S.open : M[l.target] \notin Success \cup {"error"}
    BY <1>2, <1>6, <2>1 DEF Entered, Success
  <2>3. next \cap R.ready = {}
    <3>1. ASSUME NEW l \in links PROVE l.target \notin R.ready
      <4>1. l \in R.open BY <1>2, <1>9 DEF Counted
      <4> QED BY <1>2, <4>1 DEF Entered
    <3> QED BY <3>1 DEF Targets
  <2> QED BY <1>1, <1>2, <2>1, <2>2, <2>3 DEF Entered
<1>17. Staged(S) BY <1>1 DEF Staged
<1>18. Recorded(S, M)
  <2>1. \A k \in Nodes : k # n => Has(S, M, k) = Has(R, L, k) BY <1>1, <1>6 DEF Has
  <2>2. Has(S, M, n) BY <1>6 DEF Has
  <2>3. \A k \in Nodes : M[k] # "none" => k \in S.processed \/ k \in S.ready
    BY <1>1, <1>2, <1>6 DEF Recorded
  <2>4. \A k \in S.processed : Has(S, M, k)
    BY <1>1, <1>2, <1>8, <2>1, <2>2 DEF Recorded
  <2>5. \A k \in S.ready : Has(S, M, k)
    <3>1. \A k \in R.ready : k \in Nodes /\ k # n BY <1>4 DEF RunState
    <3>2. \A k \in R.ready : Has(R, L, k) BY <1>2 DEF Recorded, Kept
    <3> QED BY <1>1, <2>1, <3>1, <3>2
  <2> QED BY <1>1, <2>3, <2>4, <2>5 DEF Recorded
<1>19. Reasoned(S, M)
  <2>1. ASSUME NEW k \in S.skips PROVE \E l \in S.flow : l.target = k /\ Refused(S, M, l)
    <3>1. CASE k \in R.skips BY <1>1, <1>2, <1>12, <3>1 DEF Reasoned
    <3>2. CASE k \in next
      <4>1. PICK l \in links : l.target = k BY <3>2 DEF Targets
      <4> QED BY <1>1, <1>9, <1>13, <4>1
    <3> QED BY <1>1, <2>1, <3>1, <3>2
  <2>2. ASSUME NEW k \in Nodes, M[k] = "skipped"
        PROVE  k \in S.processed /\ \E l \in S.flow : l.target = k /\ Refused(S, M, l)
    <3>1. CASE k = n
      <4>1. PICK l \in R.flow : l.target = n /\ Refused(R, L, l) BY <1>2 DEF Reasoned
      <4> QED BY <1>1, <1>12, <3>1, <4>1
    <3>2. CASE k # n
      <4>1. L[k] = "skipped" BY <1>6, <2>2, <3>2
      <4> QED BY <1>1, <1>2, <1>12, <4>1 DEF Reasoned
    <3> QED BY <3>1, <3>2
  <2> QED BY <2>1, <2>2 DEF Reasoned
<1> QED BY <1>14, <1>15, <1>16, <1>17, <1>18, <1>19 DEF Sound

-----------------------------------------------------------------------------
(* The invariant, for all runs *)

LEMMA OneRun ==
  ASSUME TypeOK, AllSound, NEW r \in Runs, NEW S, NEW M, Sound(S, M),
         run' = [run EXCEPT ![r] = S], log' = [log EXCEPT ![r] = M]
  PROVE  AllSound'
<1>1. ASSUME NEW k \in Runs PROVE Sound(run'[k], log'[k])
  <2>1. CASE k = r
    <3>1. run'[k] = S /\ log'[k] = M BY <2>1 DEF TypeOK
    <3> QED BY <3>1
  <2>2. CASE k # r
    <3>1. run'[k] = run[k] /\ log'[k] = log[k] BY <2>2 DEF TypeOK
    <3>2. Sound(run[k], log[k]) BY DEF AllSound
    <3> QED BY <3>1, <3>2
  <2> QED BY <2>1, <2>2
<1> QED BY <1>1 DEF AllSound

\* A step that does not write logs.
LEMMA OneRunUnlogged ==
  ASSUME TypeOK, AllSound, NEW r \in Runs, NEW S, Sound(S, log[r]),
         run' = [run EXCEPT ![r] = S], UNCHANGED log
  PROVE  AllSound'
<1>1. log' = [log EXCEPT ![r] = log[r]] BY DEF TypeOK
<1> QED BY <1>1, OneRun

LEMMA TakenIsChosen ==
  ASSUME NEW r \in Runs, NEW l
  PROVE  Taken(r, l) <=> Chosen(run[r], log[r], l)
  BY DEF Taken, Chosen, Value, ResultOf

LEMMA InitSound == Init => AllSound
<1> SUFFICES ASSUME Init, NEW r \in Runs PROVE Sound(run[r], log[r]) BY DEF AllSound
<1>1. run[r] = Idle /\ log[r] = NothingLogged BY DEF Init
<1>2. Idle = [Idle EXCEPT !.stage = "idle", !.flow = {}]
  <2>1. Idle.stage = "idle" /\ Idle.flow = {} BY DEF Idle, Started
  <2> QED BY <2>1, IdleTyped DEF RunState
<1>3. NothingLogged \in [Nodes -> Outcome] BY DEF NothingLogged, Outcome
<1>4. \A n \in Nodes : NothingLogged[n] # "blocked" BY DEF NothingLogged
<1>5. Sound(Idle, NothingLogged) BY ZenonT(60), <1>2, <1>3, <1>4, IdleSound
<1> QED BY <1>1, <1>5

\* Nothing is logged of a run that has not started.
LEMMA IdleUnlogged ==
  ASSUME TypeOK, AllSound, NEW r \in Runs, run[r].stage = "idle"
  PROVE  log[r] = NothingLogged
<1>1. \A n \in Nodes : log[r][n] = "none" BY DEF AllSound, Sound, Recorded
<1> QED BY <1>1, Elements DEF NothingLogged

LEMMA StartSound ==
  ASSUME TypeOK, AllSound, NEW r \in Runs,
         Execute(r) \/ \E old \in Runs : Resume(r, old)
  PROVE  AllSound'
<1>1. PICK flow \in SUBSET Link, cron \in BOOLEAN, reset \in SUBSET Nodes,
           seed \in [Nodes -> Outcome] :
        /\ run' = [run EXCEPT ![r] = Started(flow, cron, reset, seed)]
        /\ UNCHANGED log /\ run[r].stage = "idle"
  <2>1. CASE Execute(r)
    <3>1. PICK flow \in Workflows, cron \in BOOLEAN :
            run' = [run EXCEPT ![r] = Started(flow, cron, {}, NothingLogged)]
      BY <2>1 DEF Execute
    <3>2. flow \in SUBSET Link BY WorkflowsAssumption
    <3>3. NothingLogged \in [Nodes -> Outcome] BY DEF NothingLogged, Outcome
    <3>4. {} \in SUBSET Nodes OBVIOUS
    <3>5. UNCHANGED log /\ run[r].stage = "idle" BY <2>1 DEF Execute
    <3> QED BY <3>1, <3>2, <3>3, <3>4, <3>5
  <2>2. ASSUME NEW old \in Runs, Resume(r, old)
        PROVE \E flow \in SUBSET Link, cron \in BOOLEAN, reset \in SUBSET Nodes,
                 seed \in [Nodes -> Outcome] :
                /\ run' = [run EXCEPT ![r] = Started(flow, cron, reset, seed)]
                /\ UNCHANGED log /\ run[r].stage = "idle"
    <3>1. PICK reset \in Resets :
            run' = [run EXCEPT ![r] =
                      Started(run[old].flow, FALSE, reset, Snapshots(old, reset))]
      BY <2>2 DEF Resume
    <3>2. reset \in SUBSET Nodes BY WorkflowsAssumption
    <3>3. run[old].flow \in SUBSET Link BY Elements DEF RunState
    <3>4. Snapshots(old, reset) \in [Nodes -> Outcome] BY SnapshotsTyped
    <3>5. UNCHANGED log /\ run[r].stage = "idle" BY <2>2 DEF Resume
    <3> QED BY <3>1, <3>2, <3>3, <3>4, <3>5
  <2> QED BY <2>1, <2>2
<1>2. log[r] = NothingLogged BY <1>1, IdleUnlogged
<1>3. Sound(Started(flow, cron, reset, seed), log[r]) BY <1>2, StartedSound
<1> QED BY <1>1, <1>3, OneRunUnlogged

LEMMA LayerSound ==
  ASSUME TypeOK, AllSound, NEW r \in Runs,
         BeginLayer(r) \/ Block(r) \/ Complete(r) \/ EndLayer(r) \/ EndRouting(r)
  PROVE  AllSound'
<1>0. run[r] \in RunState /\ log[r] \in [Nodes -> Outcome] BY Elements
<1>1. Sound(run[r], log[r]) BY DEF AllSound
<1>2. CASE BeginLayer(r)
  <2> DEFINE ready == Free(run[r].open, run[r].processed)
             S == [run[r] EXCEPT !.stage = "executing", !.ready = ready,
                                 !.todo = ready \ {n \in Nodes : run[r].seed[n] # "none"}]
  <2>1. run' = [run EXCEPT ![r] = S] /\ UNCHANGED log /\ run[r].stage = "layer"
    BY <1>2 DEF BeginLayer, Reused, TypeOK
  <2>2. Sound(S, log[r]) BY <1>0, <1>1, <2>1, BeginLayerSound
  <2> HIDE DEF S
  <2> QED BY <2>1, <2>2, OneRunUnlogged
<1>3. CASE Block(r)
  <2> DEFINE S == [run[r] EXCEPT !.stage = "closing"]
             M == [n \in Nodes |-> IF n \in run[r].processed THEN log[r][n] ELSE "blocked"]
  <2>1. run' = [run EXCEPT ![r] = S] /\ log' = [log EXCEPT ![r] = M]
    BY <1>3 DEF Block, TypeOK
  <2>2. Sound(S, M) BY <1>0, <1>1, <1>3, BlockSound DEF Block
  <2> HIDE DEF S, M
  <2> QED BY <2>1, <2>2, OneRun
<1>4. CASE Complete(r)
  <2> DEFINE S == [run[r] EXCEPT !.stage = "completed"]
             T == [run[r] EXCEPT !.stage = "completed",
                                 !.ready = IF "completed" = "routing" THEN @ ELSE {}]
  <2>1. run' = [run EXCEPT ![r] = S] /\ UNCHANGED log BY <1>4 DEF Complete, TypeOK
  <2>2. run[r].ready = {} BY <1>1, <1>4 DEF Complete, Sound, Staged
  <2>3. S = T BY <1>0, <2>2 DEF RunState
  <2>4. Sound(T, log[r]) BY <1>0, <1>1, <1>4, StageSound DEF Complete
  <2> HIDE DEF S, T
  <2> QED BY <2>1, <2>3, <2>4, OneRunUnlogged
<1>5. CASE EndLayer(r)
  <2> DEFINE S == [run[r] EXCEPT !.stage = "routing"]
             T == [run[r] EXCEPT !.stage = "routing",
                                 !.ready = IF "routing" = "routing" THEN @ ELSE {}]
  <2>1. run' = [run EXCEPT ![r] = S] /\ UNCHANGED log BY <1>5 DEF EndLayer, TypeOK
  <2>2. S = T BY <1>0 DEF RunState
  <2>3. Held(run[r]) = {} BY <1>5 DEF EndLayer, Busy, Held
  <2>4. Sound(T, log[r]) BY <1>0, <1>1, <1>5, <2>3, StageSound DEF EndLayer
  <2> HIDE DEF S, T
  <2> QED BY <2>1, <2>2, <2>4, OneRunUnlogged
<1>6. CASE EndRouting(r)
  <2> DEFINE S == [run[r] EXCEPT !.stage = "layer", !.ready = {}]
             T == [run[r] EXCEPT !.stage = "layer",
                                 !.ready = IF "layer" = "routing" THEN @ ELSE {}]
  <2>1. run' = [run EXCEPT ![r] = S] /\ UNCHANGED log BY <1>6 DEF EndRouting, TypeOK
  <2>2. S = T BY <1>0 DEF RunState
  <2>3. Sound(T, log[r]) BY <1>0, <1>1, <1>6, StageSound DEF EndRouting
  <2> HIDE DEF S, T
  <2> QED BY <2>1, <2>2, <2>3, OneRunUnlogged
<1> QED BY <1>2, <1>3, <1>4, <1>5, <1>6

LEMMA NodeSound ==
  ASSUME TypeOK, AllSound, NEW r \in Runs, NEW n \in Nodes,
         \/ StartNode(r, n) \/ AwaitPermit(r, n) \/ RefuseLoop(r, n)
         \/ Wake(r, n) \/ EndNode(r, n)
  PROVE  AllSound'
<1>0. run[r] \in RunState /\ log[r] \in [Nodes -> Outcome] BY Elements
<1>1. Sound(run[r], log[r]) BY DEF AllSound
<1>2. Kept(run[r], log[r]) BY <1>1 DEF Sound
<1>3. ASSUME NEW S, run' = [run EXCEPT ![r] = S], UNCHANGED log,
             run[r].stage \in {"executing", "raised"},
             S \in RunState, S.stage \in {run[r].stage, "raised"},
             S.flow = run[r].flow, S.open = run[r].open, S.seed = run[r].seed,
             S.processed = run[r].processed, S.ready = run[r].ready,
             S.edges = run[r].edges, S.skips = run[r].skips,
             Held(S) \subseteq Held(run[r]),
             S.todo \cap S.waiting = {}, (S.todo \cup S.waiting) \cap S.running = {},
             S.stage = "executing" => Held(S) = Held(run[r])
      PROVE  AllSound'
  <2>1. Sound(S, log[r]) BY <1>0, <1>1, <1>3, MoveSound
  <2> QED BY <1>3, <2>1, OneRunUnlogged
<1>4. CASE StartNode(r, n)
  <2> DEFINE S == [run[r] EXCEPT !.todo = @ \ {n}, !.running = @ \cup {n}]
  <2>1. run' = [run EXCEPT ![r] = S] /\ UNCHANGED log
    BY <1>4 DEF StartNode, TypeOK
  <2>2. /\ S \in RunState /\ S.stage = run[r].stage
        /\ S.flow = run[r].flow /\ S.open = run[r].open /\ S.seed = run[r].seed
        /\ S.processed = run[r].processed /\ S.ready = run[r].ready
        /\ S.edges = run[r].edges /\ S.skips = run[r].skips
        /\ S.todo = run[r].todo \ {n} /\ S.waiting = run[r].waiting
        /\ S.running = run[r].running \cup {n}
    BY <1>0 DEF RunState
  <2>3. n \in run[r].todo /\ run[r].stage \in {"executing", "raised"}
    BY <1>4 DEF StartNode, Gathered
  <2> HIDE DEF S
  <2>4. Held(S) = Held(run[r]) BY <2>2, <2>3 DEF Held
  <2> QED BY <1>2, <1>3, <2>1, <2>2, <2>3, <2>4 DEF Kept
<1>5. CASE AwaitPermit(r, n)
  <2> DEFINE S == [run[r] EXCEPT !.todo = @ \ {n}, !.waiting = @ \cup {n}]
  <2>1. run' = [run EXCEPT ![r] = S] /\ UNCHANGED log
    BY <1>5 DEF AwaitPermit, TypeOK
  <2>2. /\ S \in RunState /\ S.stage = run[r].stage
        /\ S.flow = run[r].flow /\ S.open = run[r].open /\ S.seed = run[r].seed
        /\ S.processed = run[r].processed /\ S.ready = run[r].ready
        /\ S.edges = run[r].edges /\ S.skips = run[r].skips
        /\ S.todo = run[r].todo \ {n} /\ S.waiting = run[r].waiting \cup {n}
        /\ S.running = run[r].running
    BY <1>0 DEF RunState
  <2>3. n \in run[r].todo /\ run[r].stage \in {"executing", "raised"}
    BY <1>5 DEF AwaitPermit, Gathered
  <2> HIDE DEF S
  <2>4. Held(S) = Held(run[r]) BY <2>2, <2>3 DEF Held
  <2> QED BY <1>2, <1>3, <2>1, <2>2, <2>3, <2>4 DEF Kept
<1>6. CASE RefuseLoop(r, n)
  <2> DEFINE S == [run[r] EXCEPT
                     !.stage = "raised",
                     !.todo = IF run[r].cron THEN {} ELSE @ \ {n},
                     !.waiting = IF run[r].cron THEN {} ELSE @,
                     !.running = IF run[r].cron THEN {} ELSE @]
  <2>1. run' = [run EXCEPT ![r] = S] /\ UNCHANGED log
    BY <1>6 DEF RefuseLoop, TypeOK
  <2>2. /\ S \in RunState /\ S.stage = "raised"
        /\ S.flow = run[r].flow /\ S.open = run[r].open /\ S.seed = run[r].seed
        /\ S.processed = run[r].processed /\ S.ready = run[r].ready
        /\ S.edges = run[r].edges /\ S.skips = run[r].skips
        /\ S.todo \subseteq run[r].todo /\ S.waiting \subseteq run[r].waiting
        /\ S.running \subseteq run[r].running
    BY <1>0 DEF RunState, Stage
  <2>3. run[r].stage \in {"executing", "raised"} BY <1>6 DEF RefuseLoop, Gathered
  <2> HIDE DEF S
  <2>4. Held(S) \subseteq Held(run[r]) BY <2>2 DEF Held
  <2>5. S.todo \cap S.waiting = {} /\ (S.todo \cup S.waiting) \cap S.running = {}
    BY <1>2, <2>2 DEF Kept
  <2> QED BY <1>3, <2>1, <2>2, <2>3, <2>4, <2>5
<1>7. CASE Wake(r, n)
  <2> DEFINE S == [run[r] EXCEPT !.waiting = @ \ {n}, !.running = @ \cup {n}]
  <2>1. run' = [run EXCEPT ![r] = S] /\ UNCHANGED log BY <1>7 DEF Wake, TypeOK
  <2>2. /\ S \in RunState /\ S.stage = run[r].stage
        /\ S.flow = run[r].flow /\ S.open = run[r].open /\ S.seed = run[r].seed
        /\ S.processed = run[r].processed /\ S.ready = run[r].ready
        /\ S.edges = run[r].edges /\ S.skips = run[r].skips
        /\ S.todo = run[r].todo /\ S.waiting = run[r].waiting \ {n}
        /\ S.running = run[r].running \cup {n}
    BY <1>0 DEF RunState
  <2>3. n \in run[r].waiting BY <1>7 DEF Wake
  <2>4. run[r].stage \in {"executing", "raised"} BY <1>2, <2>3 DEF Kept, Held
  <2> HIDE DEF S
  <2>5. Held(S) = Held(run[r]) BY <2>2, <2>3 DEF Held
  <2> QED BY <1>2, <1>3, <2>1, <2>2, <2>3, <2>4, <2>5 DEF Kept
<1>8. CASE EndNode(r, n)
  <2>1. PICK out \in OutcomesOf(n) : log' = [log EXCEPT ![r][n] = out]
    BY <1>8 DEF EndNode
  <2> DEFINE S == [run[r] EXCEPT !.running = @ \ {n}]
             M == [log[r] EXCEPT ![n] = out]
  <2>2. run' = [run EXCEPT ![r] = S] /\ log' = [log EXCEPT ![r] = M]
    BY <1>8, <2>1 DEF EndNode, TypeOK
  <2>3. out \in Success \cup {"error"} BY DEF OutcomesOf, Success
  <2>4. n \in run[r].running BY <1>8 DEF EndNode
  <2>5. Sound(S, M) BY <1>0, <1>1, <2>3, <2>4, EndNodeSound
  <2> HIDE DEF S, M
  <2> QED BY <2>2, <2>5, OneRun
<1> QED BY <1>4, <1>5, <1>6, <1>7, <1>8

LEMMA RouteSound ==
  ASSUME TypeOK, AllSound, NEW r \in Runs,
         \/ \E n \in Nodes : RouteNode(r, n) \/ SkipAgain(r, n) \/ SkipNode(r, n)
         \/ \E l \in run[r].edges : FollowLink(r, l)
  PROVE  AllSound'
<1>0. run[r] \in RunState /\ log[r] \in [Nodes -> Outcome] BY Elements
<1>1. Sound(run[r], log[r]) BY DEF AllSound
<1>2. ASSUME NEW n \in Nodes, RouteNode(r, n) PROVE AllSound'
  <2> DEFINE S == [run[r] EXCEPT !.processed = @ \cup {n},
                                 !.edges = LinksOf(run[r].flow, n)]
  <2>1. run' = [run EXCEPT ![r] = S] /\ UNCHANGED log BY <1>2 DEF RouteNode, TypeOK
  <2>2. Sound(S, log[r]) BY <1>0, <1>1, <1>2, RouteNodeSound DEF RouteNode
  <2> HIDE DEF S
  <2> QED BY <2>1, <2>2, OneRunUnlogged
<1>3. ASSUME NEW n \in Nodes, SkipAgain(r, n) PROVE AllSound'
  <2> DEFINE S == [run[r] EXCEPT !.skips = @ \ {n}]
  <2>1. run' = [run EXCEPT ![r] = S] /\ UNCHANGED log BY <1>3 DEF SkipAgain, TypeOK
  <2>2. Sound(S, log[r]) BY <1>0, <1>1, <1>3, SkipAgainSound DEF SkipAgain
  <2> HIDE DEF S
  <2> QED BY <2>1, <2>2, OneRunUnlogged
<1>4. ASSUME NEW n \in Nodes, SkipNode(r, n) PROVE AllSound'
  <2> DEFINE links == LinksOf(run[r].flow, n)
             open == run[r].open \ links
             processed == run[r].processed \cup {n}
             next == Targets(links) \cap Free(open, processed)
             S == [run[r] EXCEPT !.processed = processed, !.open = open,
                                 !.skips = (@ \ {n}) \cup next]
             M == [log[r] EXCEPT ![n] = "skipped"]
  <2>1. run' = [run EXCEPT ![r] = S] BY <1>4 DEF SkipNode, TypeOK
  <2>2. log' = [log EXCEPT ![r] = M] BY <1>4 DEF SkipNode, TypeOK
  <2>3. Sound(S, M) BY <1>0, <1>1, <1>4, SkipNodeSound DEF SkipNode
  <2> HIDE DEF S, M
  <2> QED BY <2>1, <2>2, <2>3, OneRun
<1>5. ASSUME NEW l \in run[r].edges, FollowLink(r, l) PROVE AllSound'
  <2> DEFINE S == IF Chosen(run[r], log[r], l)
                  THEN [run[r] EXCEPT !.edges = @ \ {l}, !.open = @ \ {l}]
                  ELSE [run[r] EXCEPT !.edges = @ \ {l}, !.skips = {l.target}]
  <2>1. Taken(r, l) <=> Chosen(run[r], log[r], l) BY TakenIsChosen
  <2>2. run' = [run EXCEPT ![r] = S] /\ UNCHANGED log BY <1>5, <2>1 DEF FollowLink, TypeOK
  <2>3. Sound(S, log[r]) BY <1>0, <1>1, <1>5, FollowLinkSound DEF FollowLink
  <2> HIDE DEF S
  <2> QED BY <2>2, <2>3, OneRunUnlogged
<1> QED BY <1>2, <1>3, <1>4, <1>5

LEMMA CrashSound ==
  ASSUME TypeOK, AllSound, Crash
  PROVE  AllSound'
<1>1. ASSUME NEW r \in Runs PROVE Sound(run'[r], log'[r])
  <2>1. log'[r] = log[r] BY DEF Crash
  <2>2. Sound(run[r], log[r]) BY DEF AllSound
  <2>3. CASE run'[r] = run[r] BY <2>1, <2>2, <2>3
  <2>4. CASE run'[r] = [Idle EXCEPT !.stage = "lost", !.flow = run[r].flow]
    <3>1. run[r].flow \in SUBSET Link /\ log[r] \in [Nodes -> Outcome]
      BY Elements DEF RunState
    <3>2. \A n \in Nodes : log[r][n] = "blocked" => ~Acyclic(run[r].flow)
      BY <2>2 DEF Sound, Kept
    <3>3. Sound([Idle EXCEPT !.stage = "lost", !.flow = run[r].flow], log[r])
      BY <3>1, <3>2, IdleSound
    <3> QED BY <2>1, <2>4, <3>3
  <2> QED BY <2>3, <2>4 DEF Crash
<1> QED BY <1>1 DEF AllSound

LEMMA NextSound ==
  ASSUME TypeOK, AllSound, [Next]_vars
  PROVE  AllSound'
<1>1. CASE UNCHANGED vars BY <1>1 DEF AllSound, vars
<1>2. ASSUME NEW r \in Runs, RunStep(r) PROVE AllSound'
  BY <1>2, RunSteps, LayerSound, NodeSound, RouteSound
<1>3. ASSUME NEW r \in Runs, Execute(r) \/ \E old \in Runs : Resume(r, old)
      PROVE  AllSound'
  BY <1>3, StartSound
<1>4. CASE Crash BY <1>4, CrashSound
<1> QED BY <1>1, <1>2, <1>3, <1>4 DEF Next

\* The inductive invariant: every run has kept to the rules of its stage.
THEOREM RunsAreSound == Spec => [](TypeOK /\ AllSound)
<1>1. Init => AllSound BY InitSound
<1>2. TypeOK /\ AllSound /\ [Next]_vars => AllSound' BY NextSound
<1> QED BY <1>1, <1>2, TypeCorrect, PTL DEF Spec

-----------------------------------------------------------------------------
(* What follows from it *)

\* No node starts before the nodes it depends on have a result, and none starts
\* behind a condition that chose the other branch.
THEOREM StartsAfterUpstream == Spec => []UpstreamFirst
<1>1. TypeOK /\ AllSound => UpstreamFirst
  <2> SUFFICES ASSUME TypeOK, AllSound, NEW r \in Runs, NEW n \in Nodes,
                      run[r].stage # "lost", n \in Busy(r) \/ Executed(r, n),
                      NEW l \in run[r].flow, l.target = n
               PROVE  /\ l.source \in run[r].processed
                      /\ Settled(r, l.source)
                      /\ log[r][l.source] # "skipped" => Taken(r, l)
    BY DEF UpstreamFirst
  <2>1. /\ Kept(run[r], log[r]) /\ Counted(run[r], log[r]) /\ Entered(run[r], log[r])
        /\ Recorded(run[r], log[r])
    BY DEF AllSound, Sound
  <2>2. l \notin run[r].open
    <3>1. CASE n \in Busy(r) BY <2>1, <3>1 DEF Busy, Held, Kept, Entered
    <3>2. CASE Executed(r, n) BY <2>1, <3>2 DEF Executed, Entered
    <3> QED BY <3>1, <3>2
  <2>3. /\ l.source \in run[r].processed
        /\ log[r][l.source] # "skipped" => Chosen(run[r], log[r], l)
    BY <2>1, <2>2 DEF Counted
  <2>4. l.source \in Nodes BY Elements DEF RunState, Link
  <2>5. Settled(r, l.source) BY <2>1, <2>3, <2>4 DEF Recorded, Has, Settled, Reused
  <2> QED BY <2>3, <2>5, TakenIsChosen
<1> QED BY <1>1, RunsAreSound, PTL

\* A workflow without a cycle is never blocked, whatever its conditions say.
THEOREM AcyclicNeverBlocked == Spec => []AcyclicRunsThrough
<1>1. AllSound => AcyclicRunsThrough BY DEF AllSound, Sound, Kept, AcyclicRunsThrough
<1> QED BY <1>1, RunsAreSound, PTL

\* Nothing is skipped but below a refused branch or a skipped node.
THEOREM SkipsHaveReasons == Spec => []SkippedForAReason
<1>1. AllSound => SkippedForAReason
  <2> SUFFICES ASSUME AllSound, NEW r \in Runs, NEW n \in Nodes,
                      run[r].stage # "lost", log[r][n] = "skipped"
               PROVE  \E l \in run[r].flow : l.target = n /\ Dead(r, l)
    BY DEF SkippedForAReason
  <2>1. PICK l \in run[r].flow : l.target = n /\ Refused(run[r], log[r], l)
    BY DEF AllSound, Sound, Reasoned
  <2>2. Dead(r, l) BY <2>1, TakenIsChosen DEF Dead, Refused
  <2> QED BY <2>1, <2>2
<1> QED BY <1>1, RunsAreSound, PTL

\* A completed run has a result, a skip or an error for every node, and no node
\* of it is left in the semaphore.
THEOREM CompletedRunsAccount == Spec => []CompletedAccountsForAll
<1>1. AllSound => CompletedAccountsForAll
  <2> SUFFICES ASSUME AllSound, NEW r \in Runs, run[r].stage = "completed"
               PROVE  Busy(r) = {} /\ \A n \in Nodes : Settled(r, n)
    BY DEF CompletedAccountsForAll
  <2>1. Kept(run[r], log[r]) /\ Recorded(run[r], log[r]) BY DEF AllSound, Sound
  <2>2. Busy(r) = {} BY <2>1 DEF Kept, Held, Busy
  <2>3. \A n \in Nodes : Settled(r, n) BY <2>1 DEF Recorded, Has, Settled, Reused
  <2> QED BY <2>2, <2>3
<1> QED BY <1>1, RunsAreSound, PTL

\* The log of a node is written once: no step rewrites it.
THEOREM LogsAreFinal == Spec => SettledOnce
<1> DEFINE Final == \A r \in Runs, n \in Nodes : log[r][n] # "none" => log'[r][n] = log[r][n]
<1>1. TypeOK /\ AllSound /\ [Next]_vars => [Final]_vars
  <2> SUFFICES ASSUME TypeOK, AllSound, Next, NEW k \in Runs, NEW n \in Nodes,
                      log[k][n] # "none"
               PROVE  log'[k][n] = log[k][n]
    OBVIOUS
  <2>1. CASE UNCHANGED log BY <2>1
  <2>2. ASSUME NEW r \in Runs, Block(r) PROVE log'[k][n] = log[k][n]
    <3>1. CASE k # r BY <2>2, <3>1 DEF Block, TypeOK
    <3>2. CASE k = r
      <4>1. n \in run[r].processed
        BY <2>2, <3>2 DEF Block, AllSound, Sound, Recorded, Staged
      <4> QED BY <2>2, <3>2, <4>1 DEF Block, TypeOK
    <3> QED BY <3>1, <3>2
  <2>3. ASSUME NEW r \in Runs, NEW m \in Nodes, EndNode(r, m) PROVE log'[k][n] = log[k][n]
    <3>1. PICK out \in OutcomesOf(m) : log' = [log EXCEPT ![r][m] = out]
      BY <2>3 DEF EndNode
    <3>2. log[r][m] = "none"
      BY <2>3 DEF EndNode, AllSound, Sound, Kept, Held
    <3>3. k # r \/ n # m BY <3>2
    <3> QED BY <3>1, <3>3 DEF TypeOK
  <2>4. ASSUME NEW r \in Runs, NEW m \in Nodes, SkipNode(r, m) PROVE log'[k][n] = log[k][n]
    <3>1. m \in run[r].skips /\ m \notin run[r].processed /\ run[r].stage = "routing"
          /\ log' = [log EXCEPT ![r][m] = "skipped"]
      BY <2>4 DEF SkipNode
    <3>2. log[r][m] = "none" BY <3>1 DEF AllSound, Sound, Recorded, Entered
    <3>3. k # r \/ n # m BY <3>2
    <3> QED BY <3>1, <3>3 DEF TypeOK
  <2>5. CASE Crash BY <2>1, <2>5 DEF Crash
  <2>6. ASSUME NEW r \in Runs, Execute(r) \/ \E old \in Runs : Resume(r, old)
        PROVE  UNCHANGED log
    BY <2>6 DEF Execute, Resume
  <2>7. ASSUME NEW r \in Runs, RunStep(r) PROVE log'[k][n] = log[k][n]
    <3>1. CASE BeginLayer(r) \/ Complete(r) \/ EndLayer(r) \/ EndRouting(r)
      BY <2>1, <3>1 DEF BeginLayer, Complete, EndLayer, EndRouting
    <3>2. ASSUME NEW m \in Nodes,
                 \/ StartNode(r, m) \/ AwaitPermit(r, m) \/ RefuseLoop(r, m)
                 \/ Wake(r, m) \/ RouteNode(r, m) \/ SkipAgain(r, m)
          PROVE  UNCHANGED log
      BY <3>2 DEF StartNode, AwaitPermit, RefuseLoop, Wake, RouteNode, SkipAgain
    <3>3. ASSUME NEW l \in run[r].edges, FollowLink(r, l) PROVE UNCHANGED log
      BY <3>3 DEF FollowLink
    <3> QED BY <2>1, <2>2, <2>3, <2>4, <2>7, <3>1, <3>2, <3>3, RunSteps
  <2> QED BY <2>1, <2>5, <2>6, <2>7 DEF Next
<1>2. Spec => [][Final]_vars BY <1>1, RunsAreSound, PTL DEF Spec
<1> QED BY <1>2 DEF SettledOnce
=============================================================================
