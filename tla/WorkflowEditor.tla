--------------------------- MODULE WorkflowEditor ---------------------------
(***************************************************************************)
(* The canvas of frontend/src/pages/WorkflowEditorPage.jsx: editing, undo  *)
(* and redo with a 400 ms debounce, autosave with a 2 s debounce, manual   *)
(* save, restoring a version, and the service's side of saving             *)
(* (backend/agent_api.py), which drops a write within 1.5 s of another.    *)
(* A canvas is its nodes, the nodes whose position, label or configuration *)
(* was changed, and its edges; an edit runs with the effects it triggers.  *)
(***************************************************************************)
EXTENDS Integers, Sequences, FiniteSets

CONSTANTS
  Nodes,     \* ids of nodes
  None,      \* no node, no snapshot
  MaxPast,   \* snapshots kept for undo (50 in the code)
  MaxEdits,  \* bound: edits of the user
  MaxSends   \* bound: save and restore requests of the page

ASSUME NoneIsNoNode == None \notin Nodes
ASSUME MaxPastPositive == MaxPast \in Nat \ {0}
ASSUME BoundsInNat == MaxEdits \in Nat /\ MaxSends \in Nat

Canvas == [nodes : SUBSET Nodes, changed : SUBSET Nodes, edges : SUBSET (Nodes \X Nodes)]
Blank  == [nodes |-> {}, changed |-> {}, edges |-> {}]

VARIABLES
  canvas,      \* nodes and edges, and their mirror stateRef
  linking,     \* pendingConnection: the node a connection is drawn from
  past, prev, future, histTimer,  \* pastRef, prevSnapshotRef, futureRef, historyTimerRef
  lastSaved, saveTimer,           \* lastSavedSnapshotRef, autoSaveTimerRef
  saveStatus,  \* autoSaveStatus
  loaded,      \* loadedRef
  load,        \* loadWorkflow: "idle", "asked", "answered", "failed"
  answer,      \* what the GET read
  puts,        \* saves on their way
  restore,     \* a restore on its way, or None
  edits, sent, \* counters of the bounds
  stored,      \* the service: the workflow row
  recent,      \* the service: a write less than 1.5 s ago
  versions,    \* the service: archived contents (20 are kept; the bound is not reached)
  applied,     \* history: number of the latest request the service has handled
  mishaps      \* history: what happened to saves since the latest one was applied

history == <<past, prev, future, histTimer>>
saving  == <<lastSaved, saveTimer>>
service == <<stored, recent, versions, applied>>
vars == <<canvas, linking, history, saving, saveStatus, loaded, load, answer, puts,
          restore, edits, sent, service, mishaps>>

Put == [n : Nat, content : Canvas, manual : BOOLEAN, done : BOOLEAN]

ASSUME NoneIsNoCanvas == None \notin Canvas /\ None \notin Put

TypeOK ==
  /\ canvas \in Canvas /\ stored \in Canvas
  /\ linking \in Nodes \cup {None}
  /\ past \in Seq(Canvas) /\ Len(past) <= MaxPast /\ future \in Seq(Canvas)
  /\ prev \in Canvas
  /\ {histTimer, lastSaved, saveTimer, answer} \subseteq Canvas \cup {None}
  /\ saveStatus \in {"idle", "saving", "saved", "error"}
  /\ loaded \in BOOLEAN /\ recent \in BOOLEAN
  /\ load \in {"idle", "asked", "answered", "failed"}
  /\ puts \subseteq Put
  /\ restore \in Put \cup {None}
  /\ edits \in 0..MaxEdits /\ sent \in 0..MaxSends /\ applied \in 0..MaxSends
  /\ versions \subseteq Canvas
  /\ mishaps \subseteq {"dropped", "overtaken", "failed", "unnoticed"}

\* The page is opened: the first render takes the blank canvas for the history's
\* baseline, and the workflow is asked for.
Init ==
  /\ canvas = Blank /\ linking = None
  /\ past = <<>> /\ prev = Blank /\ future = <<>> /\ histTimer = None
  /\ lastSaved = None /\ saveTimer = None
  /\ saveStatus = "idle"
  /\ loaded = FALSE /\ load = "asked" /\ answer = None
  /\ puts = {} /\ restore = None
  /\ edits = 0 /\ sent = 0
  /\ \E N \in SUBSET Nodes : stored = [Blank EXCEPT !.nodes = N]
  /\ recent = FALSE /\ versions = {} /\ applied = 0
  /\ mishaps = {}

-----------------------------------------------------------------------------
(* The effects of a change of the canvas                                   *)

\* A canvas that differs from the history's baseline waits for the timer.
Uncommitted(c) == IF c = prev THEN None ELSE c

\* The guard of the autosave effect.
NeedsSaveByHistory(c) == c # prev
NeedsSave(c) == c # lastSaved

\* The autosave effect: what was autosaved last needs no timer, whatever the
\* service holds by now.
Autosaves(c, isLoaded) ==
  /\ saveTimer' = IF isLoaded /\ NeedsSave(c) THEN c ELSE None
  /\ mishaps' = IF isLoaded /\ c = lastSaved /\ (stored # c \/ puts # {})
                THEN mishaps \cup {"unnoticed"} ELSE mishaps
  /\ UNCHANGED lastSaved

\* The user may use the mouse: no dialog is open, nothing is being loaded.
AtCanvas == loaded /\ load = "idle" /\ restore = None

\* An edit of the canvas with its effects: the history timer is set anew.
Edit(c) ==
  /\ AtCanvas
  /\ edits < MaxEdits
  /\ c # canvas
  /\ edits' = edits + 1
  /\ canvas' = c
  /\ histTimer' = Uncommitted(c)
  /\ Autosaves(c, loaded)
  /\ UNCHANGED <<past, prev, future, saveStatus, loaded, load, answer, puts, restore,
                 sent, service>>

AddNode(n) ==
  /\ n \notin canvas.nodes
  /\ Edit([canvas EXCEPT !.nodes = @ \cup {n}])
  /\ UNCHANGED linking

WithoutNode(c, n) ==
  [c EXCEPT !.nodes = @ \ {n}, !.changed = @ \ {n}]
Without(c, n) ==
  [nodes |-> c.nodes \ {n}, changed |-> c.changed \ {n},
   edges |-> {e \in c.edges : n \notin {e[1], e[2]}}]

\* Its edges go with it; a connection being drawn from it stays.
DeleteNode(n) ==
  /\ n \in canvas.nodes
  /\ Edit(Without(canvas, n))
  /\ UNCHANGED linking

\* A move, a new label or a new configuration.
UpdateNode(n) ==
  /\ n \in canvas.nodes
  /\ Edit([canvas EXCEPT !.changed = @ \cup {n}])
  /\ UNCHANGED linking

\* A click on a node's output starts, or ends, drawing connections from it.
ToggleLink(n) ==
  /\ AtCanvas
  /\ n \in canvas.nodes
  /\ linking' = IF linking = n THEN None ELSE n
  /\ UNCHANGED <<canvas, history, saving, saveStatus, loaded, load, answer, puts,
                 restore, edits, sent, service, mishaps>>

\* A click on a node while connections are drawn: drawing goes on.
AddEdge(n) ==
  /\ n \in canvas.nodes
  /\ linking \notin {None, n}
  /\ Edit([canvas EXCEPT !.edges = @ \cup {<<linking, n>>}])
  /\ UNCHANGED linking

\* An edge is drawn, and can be clicked, only between two nodes of the canvas.
DeleteEdge(e) ==
  /\ e \in canvas.edges
  /\ {e[1], e[2]} \subseteq canvas.nodes
  /\ Edit([canvas EXCEPT !.edges = @ \ {e}])
  /\ UNCHANGED linking

-----------------------------------------------------------------------------
(* History                                                                 *)

\* At most MaxPast snapshots are kept, and an edit ends what could be redone.
Capped(p) == IF Len(p) > MaxPast THEN Tail(p) ELSE p
FutureKept(f) == f
FutureAfterEdit(f) == <<>>

\* 400 ms without a change: the baseline goes to the past.  (The check of the
\* timer that it differs from the canvas holds: whatever moves it stops the timer.)
HistoryTimer ==
  /\ histTimer # None
  /\ past' = Capped(Append(past, prev))
  /\ future' = FutureAfterEdit(future)
  /\ prev' = histTimer
  /\ histTimer' = None
  /\ UNCHANGED <<canvas, linking, saving, saveStatus, loaded, load, answer, puts,
                 restore, edits, sent, service, mishaps>>

\* The keyboard works everywhere, also while a dialog is open or the page loads.
\* An edit the timer had not committed is gone.
Travel(c, newPast, newFuture) ==
  /\ past' = newPast /\ future' = newFuture
  /\ prev' = c /\ canvas' = c
  /\ histTimer' = None
  /\ Autosaves(c, loaded)
  /\ UNCHANGED <<linking, saveStatus, loaded, load, answer, puts, restore, edits,
                 sent, service>>

Undone(p) == <<p>> \o future

Undo ==
  /\ past # <<>>
  /\ Travel(past[Len(past)], SubSeq(past, 1, Len(past) - 1), Undone(prev))

\* The push is not bounded by MaxPast: what is redone was undone before.
Redo ==
  /\ future # <<>>
  /\ Travel(Head(future), Append(past, prev), Tail(future))

\* With nothing to go to, the shortcut still stops the history timer.
IdleShortcut ==
  /\ past = <<>> \/ future = <<>>
  /\ histTimer # None
  /\ histTimer' = None
  /\ UNCHANGED <<canvas, linking, past, prev, future, saving, saveStatus, loaded, load,
                 answer, puts, restore, edits, sent, service, mishaps>>

-----------------------------------------------------------------------------
(* Saving                                                                  *)

\* doSave sends what stateRef holds now.
Send(manual) ==
  /\ sent < MaxSends
  /\ sent' = sent + 1
  /\ puts' = puts \cup {[n |-> sent + 1, content |-> canvas, manual |-> manual,
                         done |-> FALSE]}
  /\ saveStatus' = "saving"
  /\ UNCHANGED <<canvas, linking, history, loaded, load, answer, restore, edits,
                 service, mishaps>>

\* 2 s without a change; the 400 ms of the history are over by then.
AutosaveTimer ==
  /\ saveTimer # None
  /\ histTimer = None
  /\ lastSaved' = saveTimer
  /\ saveTimer' = None
  /\ Send(FALSE)

\* The save button, disabled while its own request runs.
ManualSave ==
  /\ AtCanvas
  /\ ~\E r \in puts : r.manual
  /\ Send(TRUE)
  /\ UNCHANGED saving

\* PUT: a write within 1.5 s of the last one is dropped and answered as done.
Update(r) ==
  /\ ~r.done
  /\ puts' = (puts \ {r}) \cup {[r EXCEPT !.done = TRUE]}
  /\ IF recent
     THEN /\ mishaps' = IF stored = r.content THEN mishaps ELSE mishaps \cup {"dropped"}
          /\ UNCHANGED <<stored, versions, recent>>
     ELSE /\ stored' = r.content
          /\ versions' = versions \cup {r.content}
          /\ recent' = TRUE
          /\ mishaps' = IF r.n = sent /\ r.content = canvas THEN {}
                        ELSE IF r.n < applied THEN mishaps \cup {"overtaken"}
                        ELSE mishaps
  /\ applied' = IF r.n > applied THEN r.n ELSE applied
  /\ UNCHANGED <<canvas, linking, history, saving, saveStatus, loaded, load, answer,
                 restore, edits, sent>>

WindowEnds ==
  /\ recent
  /\ recent' = FALSE
  /\ UNCHANGED <<canvas, linking, history, saving, saveStatus, loaded, load, answer,
                 puts, restore, edits, sent, stored, versions, applied,
                 mishaps>>

Saved(r) ==
  /\ r.done
  /\ puts' = puts \ {r}
  /\ saveStatus' = "saved"
  /\ UNCHANGED <<canvas, linking, history, saving, loaded, load, answer, restore,
                 edits, sent, service, mishaps>>

\* The request or its answer is lost: nothing is sent again.
SaveFails(r) ==
  /\ puts' = puts \ {r}
  /\ saveStatus' = "error"
  /\ mishaps' = mishaps \cup {"failed"}
  /\ UNCHANGED <<canvas, linking, history, saving, loaded, load, answer, restore,
                 edits, sent, service>>

-----------------------------------------------------------------------------
(* Versions                                                                *)

\* The user confirms to go back to a version; timers and saves go on.
Restore(c) ==
  /\ AtCanvas
  /\ sent < MaxSends
  /\ sent' = sent + 1
  /\ restore' = [n |-> sent + 1, content |-> c, manual |-> TRUE, done |-> FALSE]
  /\ UNCHANGED <<canvas, linking, history, saving, saveStatus, loaded, load, answer,
                 puts, edits, service, mishaps>>

\* The service archives the row as it is, then writes the version back.
RestoreRuns ==
  /\ restore # None
  /\ ~restore.done
  /\ restore' = [restore EXCEPT !.done = TRUE]
  /\ versions' = versions \cup {stored}
  /\ stored' = restore.content
  /\ applied' = IF restore.n > applied THEN restore.n ELSE applied
  /\ mishaps' = IF restore.n < applied THEN mishaps \cup {"overtaken"} ELSE mishaps
  /\ UNCHANGED <<canvas, linking, history, saving, saveStatus, loaded, load, answer,
                 puts, edits, sent, recent>>

\* loadWorkflow, after a restore or from the error page.
Reload ==
  /\ \/ restore # None /\ restore.done /\ restore' = None
     \/ load = "failed" /\ UNCHANGED restore
  /\ load' = "asked"
  /\ UNCHANGED <<canvas, linking, history, saving, saveStatus, loaded, answer, puts,
                 edits, sent, service, mishaps>>

RestoreFails ==
  /\ restore # None
  /\ restore' = None
  /\ mishaps' = mishaps \cup {"failed"}
  /\ UNCHANGED <<canvas, linking, history, saving, saveStatus, loaded, load, answer,
                 puts, edits, sent, service>>

Read ==
  /\ load = "asked"
  /\ load' = "answered"
  /\ answer' = stored
  /\ UNCHANGED <<canvas, linking, history, saving, saveStatus, loaded, puts, restore,
                 edits, sent, service, mishaps>>

LoadFails ==
  /\ load \in {"asked", "answered"}
  /\ load' = "failed"
  /\ answer' = None
  /\ UNCHANGED <<canvas, linking, history, saving, saveStatus, loaded, puts, restore,
                 edits, sent, service, mishaps>>

\* The canvas is replaced and the history starts over.
Loaded ==
  /\ load = "answered"
  /\ load' = "idle" /\ answer' = None
  /\ loaded' = TRUE
  /\ canvas' = answer
  /\ past' = <<>> /\ prev' = answer /\ future' = <<>> /\ histTimer' = None
  /\ Autosaves(answer, TRUE)
  /\ UNCHANGED <<linking, saveStatus, puts, restore, edits, sent, service>>

-----------------------------------------------------------------------------
Next ==
  \/ \E n \in Nodes : \/ AddNode(n) \/ DeleteNode(n) \/ UpdateNode(n)
                      \/ ToggleLink(n) \/ AddEdge(n)
  \/ \E e \in canvas.edges : DeleteEdge(e)
  \/ HistoryTimer \/ Undo \/ Redo \/ IdleShortcut
  \/ AutosaveTimer \/ ManualSave
  \/ \E r \in puts : Update(r) \/ Saved(r) \/ SaveFails(r)
  \/ WindowEnds
  \/ \E c \in versions : Restore(c)
  \/ RestoreRuns \/ Reload \/ RestoreFails \/ Read \/ LoadFails \/ Loaded

Spec == Init /\ [][Next]_vars
-----------------------------------------------------------------------------
\* Every edge ends at a node of the canvas and never at the node it starts
\* from, through deletions, undo, redo and reloads (a start may be missing: a
\* node deleted while connections are drawn from it is still drawn from).
EdgesArrive ==
  \A c \in {canvas, stored, prev} : \A e \in c.edges : e[2] \in c.nodes /\ e[1] # e[2]

\* When nothing is being saved, loaded or waited for, the service holds what the
\* canvas shows, unless one of four things happened since the last save that
\* counted: the service dropped a write, requests arrived out of order, one
\* failed, or the canvas came back to what was autosaved last while the service
\* held, or was being sent, something else.
Settled == loaded /\ load = "idle" /\ restore = None /\ saveTimer = None /\ puts = {}

SettledIsStored == Settled /\ mishaps = {} => stored = canvas

\* The timeline of undo and redo never stands still: no two neighbours of it are
\* equal, however edits, debounces, undo, redo and reloads interleave.
Timeline == past \o <<prev>> \o future

TimelineMoves == \A i \in 1..(Len(Timeline) - 1) : Timeline[i] # Timeline[i + 1]
=============================================================================
