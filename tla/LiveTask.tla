------------------------------ MODULE LiveTask ------------------------------
(***************************************************************************)
(* One page that submits generation tasks and waits for their end:         *)
(* frontend/src/hooks/useAsyncTask.js over the shared sockets of           *)
(* frontend/src/lib/ws.js.  The service is TaskLifecycle, the              *)
(* specification that TaskQueue implements, with the pushes of             *)
(* backend/task_queue.py through backend/realtime.py.  Progress events     *)
(* only repaint the page and are left out; so is a retry of the row from   *)
(* the tasks page, which starts a new life of the same id.                 *)
(***************************************************************************)
EXTENDS Integers, FiniteSets

CONSTANTS
  NTasks,   \* bound: rows the service creates; the n-th one is task n
  None,     \* no task, no event, no status
  MaxReqs   \* bound: requests of the hook on their way at one time

Tasks == 1..NTasks

ASSUME NTasksInNat == NTasks \in Nat
ASSUME NoneIsNoTask == None \notin Int
ASSUME MaxReqsPositive == MaxReqs \in Nat \ {0}

VARIABLES
  status, paid,  \* the service (TaskLifecycle)
  tracked,       \* activeRef, timerRef and wsUnsubRef: the task they serve, or None
  busy,          \* the page's own flag: set by its submit, cleared by a callback
  sock,          \* Tasks -> the socket of channel task:<id>
  wsOk,          \* Tasks -> wsOk of the closure that startPolling made for the task
  inbox,         \* Tasks -> a terminal event pushed to that socket, not yet read
  reqs,          \* requests of the hook on their way
  told,          \* Tasks -> the outcomes the page's callbacks were given
  displaced      \* history: tasks whose tracking a callback of another task ended

hookVars == <<tracked, busy, wsOk, told, displaced>>
vars == <<status, paid, sock, inbox, reqs, hookVars>>

Server == INSTANCE TaskLifecycle

Ended  == {"success", "failed", "interrupted", "canceled"}
Pushed == {"success", "failed", "canceled"}   \* a restart interrupts without a push
Sock   == {"none", "connecting", "joined", "open", "down", "abandoned"}
Held   == {"connecting", "joined", "open", "down"}

\* The statuses on which a poll ends the tracking.
FinalButInterrupted == {"success", "failed", "canceled"}
Final == {"success", "failed", "interrupted", "canceled"}

\* The callback an end leads to: onSuccess or onError.
OutcomeOfFailure(s) == IF s = "failed" THEN "error" ELSE "success"
Outcome(s) == IF s = "success" THEN "success" ELSE "error"

Request ==
  [task : Tasks, kind : {"post", "poll", "detail"},
   event : Pushed \cup {None}, answer : Server!Shown \cup {"removed", None}]

Asked(t, k, e) == [task |-> t, kind |-> k, event |-> e, answer |-> None]

TypeOK ==
  /\ status \in [Tasks -> Server!Shown \cup {"none", "removed"}]
  /\ paid \in [Tasks -> Int]
  /\ tracked \in Tasks \cup {None}
  /\ busy \in BOOLEAN
  /\ sock \in [Tasks -> Sock]
  /\ wsOk \in [Tasks -> BOOLEAN]
  /\ inbox \in [Tasks -> Pushed \cup {None}]
  /\ reqs \in SUBSET Request
  /\ told \in [Tasks -> SUBSET {"success", "error", "not_submitted"}]
  /\ displaced \in SUBSET Tasks

Init ==
  /\ Server!Init
  /\ tracked = None
  /\ busy = FALSE
  /\ sock = [t \in Tasks |-> "none"]
  /\ wsOk = [t \in Tasks |-> FALSE]
  /\ inbox = [t \in Tasks |-> None]
  /\ reqs = {}
  /\ told = [t \in Tasks |-> {}]
  /\ displaced = {}

-----------------------------------------------------------------------------
(* Sockets (ws.js)                                                         *)

\* The last subscriber leaves: a socket still CONNECTING is closed once it
\* opens, every other one at once; nothing of it reaches the hook any more.
LeftListening(s) == s
Left(s) == IF s \in {"connecting", "joined", "abandoned"} THEN "abandoned" ELSE "none"

\* stopPolling unsubscribes the tracked task, and startPolling(next) subscribes.
Resubscribed(next) ==
  /\ sock' = [t \in Tasks |-> IF t = next THEN "connecting"
                              ELSE IF t = tracked THEN Left(sock[t]) ELSE sock[t]]
  /\ inbox' = [t \in Tasks |-> IF t \in {tracked, next} THEN None ELSE inbox[t]]

\* The socket is gone: onclose, and a reconnection in 3 s unless nobody listens.
Dropped(s) == IF s \in {"none", "abandoned"} THEN "none" ELSE "down"

\* The endpoint accepts the socket and registers it; it refuses an unknown task.
Join(t) ==
  /\ sock[t] = "connecting"
  /\ status[t] # "removed"
  /\ sock' = [sock EXCEPT ![t] = "joined"]
  /\ UNCHANGED <<status, paid, inbox, reqs, hookVars>>

Open(t) ==
  /\ sock[t] \in {"joined", "abandoned"}
  /\ sock' = [sock EXCEPT ![t] = IF @ = "joined" THEN "open" ELSE "none"]
  /\ wsOk' = [wsOk EXCEPT ![t] = sock[t] = "joined"]
  /\ UNCHANGED <<status, paid, inbox, reqs, tracked, busy, told, displaced>>

\* A connection fails, breaks or is refused; what it carried is lost.
Lose(t) ==
  /\ sock[t] \in {"connecting", "joined", "open", "abandoned"}
  /\ sock' = [sock EXCEPT ![t] = Dropped(@)]
  /\ wsOk' = [wsOk EXCEPT ![t] = FALSE]
  /\ inbox' = [inbox EXCEPT ![t] = None]
  /\ UNCHANGED <<status, paid, reqs, tracked, busy, told, displaced>>

Reconnect(t) ==
  /\ sock[t] = "down"
  /\ sock' = [sock EXCEPT ![t] = "connecting"]
  /\ UNCHANGED <<status, paid, inbox, reqs, hookVars>>

-----------------------------------------------------------------------------
(* The service                                                             *)

\* A terminal event goes to the sockets registered at that moment, to no other.
Push(t, e) ==
  inbox' = [inbox EXCEPT ![t] = IF sock[t] \in {"joined", "open"} THEN e ELSE @]

End(t) ==
  /\ \/ Server!Deliver(t) /\ Push(t, "success")
     \/ Server!Fail(t) /\ Push(t, "failed")
     \/ Server!Cancel(t) /\ Push(t, "canceled")
  /\ UNCHANGED <<sock, reqs, hookVars>>

Work(t) ==
  /\ Server!Begin(t) \/ Server!Again(t)
  /\ UNCHANGED <<sock, inbox, reqs, hookVars>>

\* The service restarts: running tasks are interrupted, every socket breaks.
Restart ==
  /\ Server!Interrupt
  /\ sock' = [t \in Tasks |-> Dropped(sock[t])]
  /\ wsOk' = [t \in Tasks |-> FALSE]
  /\ inbox' = [t \in Tasks |-> None]
  /\ UNCHANGED <<reqs, tracked, busy, told, displaced>>

\* The user clears ended rows from the tasks page; the hook ignores that event.
Cleanup ==
  /\ Server!Remove
  /\ UNCHANGED <<sock, inbox, reqs, hookVars>>

\* A GET reads the row when it reaches the service.
Answer(r) ==
  /\ r.kind # "post"
  /\ r.answer = None
  /\ reqs' = (reqs \ {r}) \cup {[r EXCEPT !.answer = status[r.task]]}
  /\ UNCHANGED <<status, paid, sock, inbox, hookVars>>

-----------------------------------------------------------------------------
(* The hook (useAsyncTask.js)                                              *)

\* submitTask: the POST has created the row, its answer is on the way.
Submit(t) ==
  /\ ~busy
  /\ Cardinality(reqs) < MaxReqs
  /\ \A u \in Tasks : u < t => status[u] # "none"
  /\ Server!Submit(t)
  /\ busy' = TRUE
  /\ reqs' = reqs \cup {Asked(t, "post", None)}
  /\ UNCHANGED <<sock, inbox, tracked, wsOk, told, displaced>>

\* startPolling: drop what was tracked, subscribe, poll at once.
Start(r) ==
  /\ r.kind = "post"
  /\ tracked' = r.task
  /\ wsOk' = [wsOk EXCEPT ![r.task] = FALSE]
  /\ Resubscribed(r.task)
  /\ reqs' = (reqs \ {r}) \cup {Asked(r.task, "poll", None)}
  /\ UNCHANGED <<status, paid, busy, told, displaced>>

\* The POST times out on the page although the row exists: onError.
SubmitTimesOut(r) ==
  /\ r.kind = "post"
  /\ reqs' = reqs \ {r}
  /\ busy' = FALSE
  /\ told' = [told EXCEPT ![r.task] = @ \cup {"not_submitted"}]
  /\ UNCHANGED <<status, paid, sock, inbox, tracked, wsOk, displaced>>

\* The interval fires: it polls only while the socket is not open.
Poll(t) ==
  /\ tracked = t
  /\ ~wsOk[t]
  /\ Cardinality(reqs) < MaxReqs
  /\ reqs' = reqs \cup {Asked(t, "poll", None)}
  /\ UNCHANGED <<status, paid, sock, inbox, hookVars>>

\* onMessage with a terminal event: fetch the details.
Message(t) ==
  /\ sock[t] = "open"
  /\ tracked # None
  /\ inbox[t] # None
  /\ inbox' = [inbox EXCEPT ![t] = None]
  /\ reqs' = reqs \cup {Asked(t, "detail", inbox[t])}
  /\ UNCHANGED <<status, paid, sock, hookVars>>

\* finish: if anything is tracked, stop tracking it and call back for t.
Finish(t, outcome) ==
  IF tracked = None
  THEN UNCHANGED <<sock, inbox, hookVars>>
  ELSE /\ tracked' = None
       /\ busy' = FALSE
       /\ told' = [told EXCEPT ![t] = @ \cup {outcome}]
       /\ displaced' = IF tracked = t THEN displaced ELSE displaced \cup {tracked}
       /\ Resubscribed(None)
       /\ UNCHANGED wsOk

\* A poll comes back; a removed row answers 404, which is swallowed.
PollArrives(r) ==
  /\ r.kind = "poll"
  /\ r.answer # None
  /\ reqs' = reqs \ {r}
  /\ IF r.answer \in Final
     THEN Finish(r.task, Outcome(r.answer))
     ELSE UNCHANGED <<sock, inbox, hookVars>>
  /\ UNCHANGED <<status, paid>>

PollFails(r) ==
  /\ r.kind = "poll"
  /\ reqs' = reqs \ {r}
  /\ UNCHANGED <<status, paid, sock, inbox, hookVars>>

\* Whether the details arrive or not, the event decides the callback.
DetailArrives(r) ==
  /\ r.kind = "detail"
  /\ reqs' = reqs \ {r}
  /\ Finish(r.task, Outcome(r.event))
  /\ UNCHANGED <<status, paid>>

-----------------------------------------------------------------------------
Arrives(t) ==
  \E r \in reqs : r.task = t /\ (Start(r) \/ PollArrives(r) \/ DetailArrives(r))

Next ==
  \/ \E t \in Tasks : \/ Submit(t) \/ Work(t) \/ End(t)
                      \/ Join(t) \/ Open(t) \/ Lose(t) \/ Reconnect(t)
                      \/ Poll(t) \/ Message(t) \/ Arrives(t)
  \/ \E r \in reqs : Answer(r) \/ SubmitTimesOut(r) \/ PollFails(r)
  \/ Restart
  \/ Cleanup

Spec == Init /\ [][Next]_vars

\* The service ends its tasks (TaskQueue's EveryTaskEnds), the interval fires,
\* a request tried often enough is answered, what arrives is handled.  Nothing
\* is assumed about sockets, losses, restarts, timeouts or the user.
Fairness ==
  \A t \in Tasks :
    /\ WF_vars(End(t))
    /\ WF_vars(Message(t))
    /\ SF_vars(Poll(t))
    /\ SF_vars(\E r \in reqs : r.task = t /\ Answer(r))
    /\ SF_vars(Arrives(t))

FairSpec == Spec /\ Fairness
-----------------------------------------------------------------------------
\* One socket is held per tracked task and none for any other: every callback
\* path of useAsyncTask.js gives back the subscription it took (ws.js:36-57),
\* and polling is suspended exactly while that socket is open.
SocketsFollowTracking ==
  \A t \in Tasks :
    /\ (sock[t] \in Held) <=> (tracked = t)
    /\ tracked = t => (wsOk[t] <=> sock[t] = "open")

\* A callback never says anything the task did not do, whichever way the news
\* came: a push whose details failed to load, a poll sent before the end, an
\* answer that a later submission overtook.
ToldTruly ==
  \A t \in Tasks :
    /\ "success" \in told[t] => status[t] \in {"success", "removed"}
    /\ "error" \in told[t] => status[t] \in (Ended \ {"success"}) \cup {"removed"}

\* The end of t went by while its socket was not registered, and the socket is
\* open now: nothing is on its way, and no poll will be sent.
Stranded(t) ==
  /\ tracked = t
  /\ sock[t] = "open"
  /\ status[t] \in Ended
  /\ inbox[t] = None
  /\ ~\E r \in reqs : r.task = t

\* A tracked task is reported through losses, restarts and failed requests,
\* except in three ways: it is stranded behind an open socket, a late answer
\* of an earlier task ends its tracking, or its row is cleared before the news.
ReportedOrStranded ==
  \A t \in Tasks :
    tracked = t ~> \/ told[t] # {}
                   \/ Stranded(t)
                   \/ t \in displaced
                   \/ status[t] = "removed"

\* What useAsyncTask.js:6-7 promises: a submitted task is followed by push, and
\* by polling when the connection breaks, until its callback is called.
EveryTaskReported ==
  \A t \in Tasks :
    tracked = t ~> (told[t] # {} \/ status[t] = "removed")
=============================================================================
