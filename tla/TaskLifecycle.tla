---------------------------- MODULE TaskLifecycle ----------------------------
(***************************************************************************)
(* What the task framework of backend/task_queue.py promises the user who  *)
(* submits a task: the life of its status, and that while the task is owed *)
(* to the user exactly one charge is held for it.  No threads, queues,     *)
(* processes or transactions: TaskQueue implements this specification.     *)
(***************************************************************************)
EXTENDS Integers

CONSTANT Tasks

VARIABLES
  status,  \* Tasks -> what the tasks page shows, or "none"
  paid     \* Tasks -> charges held for the task: neither refunded nor delivered

vars == <<status, paid>>

Ended == {"success", "failed", "interrupted", "canceled"}
Kept  == {"interrupted", "canceled"}    \* ended without delivery, never refunded
Shown == {"pending", "running"} \cup Ended

Init ==
  /\ status = [t \in Tasks |-> "none"]
  /\ paid = [t \in Tasks |-> 0]

Becomes(t, from, to) ==
  /\ status[t] \in from
  /\ status' = [status EXCEPT ![t] = to]

Pays(t, n) == paid' = [paid EXCEPT ![t] = @ + n]

\* A task enters paid for, and once.
Submit(t) == Becomes(t, {"none"}, "pending") /\ Pays(t, 1)

Begin(t) == Becomes(t, {"pending"}, "running") /\ UNCHANGED paid

\* The result is delivered in exchange for the charge.
Deliver(t) == Becomes(t, {"running"}, "success") /\ Pays(t, -1)

\* A failed task is refunded in the same step.
Fail(t) == Becomes(t, {"running"}, "failed") /\ Pays(t, -1)

\* The framework tries again on the charge it holds.
Again(t) == Becomes(t, {"running"}, "pending") /\ UNCHANGED paid

\* A canceled task keeps its charge: a retry takes it up again.
Cancel(t) == Becomes(t, {"pending", "running"}, "canceled") /\ UNCHANGED paid

\* A restart of the service cuts every running task short.
Interrupt ==
  /\ status' = [t \in Tasks |->
                  IF status[t] = "running" THEN "interrupted" ELSE status[t]]
  /\ UNCHANGED paid

\* The user retries: a task that was refunded or delivered is charged again.
Retry(t) ==
  /\ Becomes(t, Ended, "pending")
  /\ Pays(t, IF status[t] \in Kept THEN 0 ELSE 1)

\* The service dies after charging for a retry and before recording the retry.
LoseCharge(t) ==
  /\ status[t] \in Ended \ Kept
  /\ Pays(t, 1)
  /\ UNCHANGED status

\* Rows of ended tasks are removed, one by one or in bulk.
Remove ==
  \E S \in SUBSET {t \in Tasks : status[t] \in Ended} :
    /\ status' = [t \in Tasks |-> IF t \in S THEN "removed" ELSE status[t]]
    /\ paid' = [t \in Tasks |-> IF t \in S THEN 0 ELSE paid[t]]

Next ==
  \/ \E t \in Tasks : \/ Submit(t) \/ Begin(t) \/ Deliver(t) \/ Fail(t)
                      \/ Again(t) \/ Cancel(t) \/ Retry(t) \/ LoseCharge(t)
  \/ Interrupt
  \/ Remove

Spec == Init /\ [][Next]_vars
=============================================================================
