------------------------------ MODULE Gateway ------------------------------
(***************************************************************************)
(* The pay-per-use gateway (backend/dh_gateway.py) for one account: posted *)
(* requests run on threads of the pool, status queries and recharges on    *)
(* the event loop of their server process, one at a time. A transaction is *)
(* opened by the first write, so what a handler read before is not locked: *)
(* reads and the transaction are steps of their own. The tasks themselves  *)
(* live as TaskLifecycle promises.                                         *)
(***************************************************************************)
EXTENDS Integers, FiniteSets, FiniteSetsExt

CONSTANTS
  Reqs,       \* POST /v1/dh/videos requests of the account, each with its bill and task
  Loops,      \* event loops, one per server process
  Price,      \* what each request costs (engine and resolution)
  TopUps,     \* amounts an administrator recharges
  None,
  MaxTopUps,  \* bound: recharges
  MaxRetries, \* bound: retries of tasks
  MaxCrashes  \* bound: restarts of the service

ASSUME PriceOfReqs == Price \in [Reqs -> Nat \ {0}]
ASSUME TopUpsPositive == TopUps \subseteq Nat \ {0}
ASSUME NoneIsNew == None \notin Reqs
ASSUME ActorsFinite == IsFiniteSet(Reqs) /\ IsFiniteSet(Loops)
ASSUME BoundsInNat == {MaxTopUps, MaxRetries, MaxCrashes} \subseteq Nat

VARIABLES
  balance,   \* users.balance
  bill,      \* dh_billing_records: status, and whether task_id is set
  post,      \* where each posted request is, and the balance it has read
  loop,      \* what each event loop is doing
  task,      \* async_tasks.status
  held,      \* the framework's own charges (daily quota) for each task
  topped,    \* history: what was recharged
  clashed,   \* history: a money transaction ran inside another's read and write
  stranded,  \* history: requests that broke off: their thread died, or a write failed
  again,     \* history: tasks taken up again after they had ended
  used       \* recharges, retries and restarts so far

money == <<balance, bill>>
framework == <<task, held>>
history == <<topped, clashed, stranded, again, used>>
vars == <<balance, bill, post, loop, task, held, topped, clashed, stranded, again, used>>

Framework == INSTANCE TaskLifecycle WITH Tasks <- Reqs, status <- task, paid <- held

Undelivered == {"failed", "interrupted", "canceled"}
Active == {r \in Reqs : task[r] \in {"pending", "running"}}
Idle == [op |-> "idle", req |-> None, amount |-> 0, seen |-> 0]

TypeOK ==
  /\ balance \in Int /\ topped \in Nat /\ clashed \in BOOLEAN
  /\ bill \in [Reqs -> [status : {"none", "charged", "refunded"}, linked : BOOLEAN]]
  /\ post \in [Reqs -> [pc : {"idle", "check", "charge", "create", "link", "undo",
                              "give", "done"}, seen : Int]]
  /\ loop \in [Loops -> [op : {"idle", "settle", "owed", "refund", "recharge"},
                         req : Reqs \cup {None}, amount : Nat, seen : Int]]
  /\ task \in [Reqs -> Framework!Shown \cup {"none", "removed"}] /\ held \in [Reqs -> Int]
  /\ stranded \subseteq Reqs /\ again \subseteq Reqs
  /\ used \in [top : 0..MaxTopUps, retry : 0..MaxRetries, crash : 0..MaxCrashes]

Init ==
  /\ balance = 0 /\ topped = 0 /\ clashed = FALSE
  /\ bill = [r \in Reqs |-> [status |-> "none", linked |-> FALSE]]
  /\ post = [r \in Reqs |-> [pc |-> "idle", seen |-> 0]]
  /\ loop = [l \in Loops |-> Idle]
  /\ Framework!Init
  /\ stranded = {} /\ again = {}
  /\ used = [top |-> 0, retry |-> 0, crash |-> 0]

-----------------------------------------------------------------------------
(* Who has read the balance, found it sufficient, or found a bill to be    *)
(* refunded, and has not written yet. A refused request is no such one     *)
(* before it reads: its bill is still its own.                             *)

Posting(r) == post[r].pc \in {"check", "charge", "give"}
Looping(l) == loop[l].op \in {"owed", "refund", "recharge"}
Dealing == Cardinality({r \in Reqs : Posting(r)}) + Cardinality({l \in Loops : Looping(l)})

\* A transaction that writes the balance, among those that are about to.
Pays(amount) ==
  /\ balance' = amount
  /\ clashed' = (clashed \/ Dealing > 1)

PostTo(r, pc) == post' = [post EXCEPT ![r].pc = pc]
PostReads(r, pc) == post' = [post EXCEPT ![r] = [pc |-> pc, seen |-> balance]]

-----------------------------------------------------------------------------
(* POST /v1/dh/videos.                                                     *)

\* _check_and_charge: 402 unless the balance suffices; the connection is given back.
AffordableAlways(r) == TRUE
Affordable(r) == balance >= Price[r]
Check(r) ==
  /\ post[r].pc = "idle"
  /\ PostTo(r, IF Affordable(r) THEN "check" ELSE "done")
  /\ UNCHANGED <<money, loop, framework, history>>

\* _charge reads the balance once more,
ReadToCharge(r) ==
  /\ post[r].pc = "check" /\ PostReads(r, "charge")
  /\ UNCHANGED <<money, loop, framework, history>>

\* and writes the rest and the bill in one transaction.
Billed(r) == [bill EXCEPT ![r].status = "charged"]
Charge(r) ==
  /\ post[r].pc = "charge" /\ PostTo(r, "create")
  /\ Pays(post[r].seen - Price[r]) /\ bill' = Billed(r)
  /\ UNCHANGED <<loop, framework, topped, stranded, again, used>>

\* create_task: one active task of this type per user, else 429.
CreateTask(r) ==
  /\ post[r].pc = "create" /\ Active = {}
  /\ Framework!Submit(r) /\ PostTo(r, "link")
  /\ UNCHANGED <<money, loop, history>>

\* The active task may also be one that the user has started in the application.
Refused(r) ==
  /\ post[r].pc = "create" /\ PostTo(r, "undo")
  /\ UNCHANGED <<money, loop, framework, history>>

\* The bill learns its task. Only now can a query of the task find the bill.
LinkedNowhere(r) == bill
Linked(r) == [bill EXCEPT ![r].linked = TRUE]
Link(r) ==
  /\ post[r].pc = "link" /\ PostTo(r, "done") /\ bill' = Linked(r)
  /\ UNCHANGED <<balance, loop, framework, history>>

\* _refund of a refused request: the bill was looked up, the balance is read,
ReadToUndo(r) ==
  /\ post[r].pc = "undo" /\ bill[r].status = "charged" /\ PostReads(r, "give")
  /\ UNCHANGED <<money, loop, framework, history>>

\* and balance and bill are written in one transaction.
ReturnedUnmarked(r) == bill
Returned(r) == [bill EXCEPT ![r].status = "refunded"]
Undo(r) ==
  /\ post[r].pc = "give" /\ PostTo(r, "done")
  /\ Pays(post[r].seen + Price[r]) /\ bill' = Returned(r)
  /\ UNCHANGED <<loop, framework, topped, stranded, again, used>>

\* Only an HTTPException of create_task is caught. Whatever else a write raises (the
\* database is locked) rolls its transaction back and ends the request: in the charge,
\* in create_task, in the link of the bill, or in the refund of a refused request.
Breaks(r) ==
  /\ post[r].pc \in {"charge", "create", "link", "give"} /\ PostTo(r, "done")
  /\ stranded' = stranded \cup {r}
  /\ UNCHANGED <<money, loop, framework, topped, clashed, again, used>>

-----------------------------------------------------------------------------
(* GET /v1/dh/videos/{task_id}, and recharges.                             *)

\* _lazy_refund_failed: the bills of a task that ended without delivery.
RefundableEnded(r) == task[r] \in Framework!Ended /\ bill[r].linked /\ bill[r].status = "charged"
RefundableFailed(r) == task[r] = "failed" /\ bill[r].linked /\ bill[r].status = "charged"
Refundable(r) == task[r] \in Undelivered /\ bill[r].linked /\ bill[r].status = "charged"

Query(l, r) ==
  /\ loop[l] = Idle /\ Refundable(r)
  /\ loop' = [loop EXCEPT ![l] = [Idle EXCEPT !.op = "settle", !.req = r]]
  /\ UNCHANGED <<money, post, framework, history>>

\* _refund looks at the bill, reads the balance, and writes both.
LookAtBill(l) ==
  /\ loop[l].op = "settle"
  /\ loop' = [loop EXCEPT ![l] = IF bill[@.req].status = "charged"
                                   THEN [@ EXCEPT !.op = "owed"] ELSE Idle]
  /\ UNCHANGED <<money, post, framework, history>>

ReadToRefund(l) ==
  /\ loop[l].op = "owed"
  /\ loop' = [loop EXCEPT ![l] = [@ EXCEPT !.op = "refund", !.seen = balance]]
  /\ UNCHANGED <<money, post, framework, history>>

Refund(l) ==
  /\ loop[l].op = "refund" /\ loop' = [loop EXCEPT ![l] = Idle]
  /\ Pays(loop[l].seen + Price[loop[l].req]) /\ bill' = Returned(loop[l].req)
  /\ UNCHANGED <<post, framework, topped, stranded, again, used>>

\* admin_recharge.
ReadToRecharge(l, a) ==
  /\ loop[l] = Idle /\ used.top < MaxTopUps
  /\ loop' = [loop EXCEPT ![l] = [Idle EXCEPT !.op = "recharge", !.amount = a, !.seen = balance]]
  /\ used' = [used EXCEPT !.top = @ + 1]
  /\ UNCHANGED <<money, post, framework, topped, clashed, stranded, again>>

Recharge(l) ==
  /\ loop[l].op = "recharge" /\ loop' = [loop EXCEPT ![l] = Idle]
  /\ Pays(loop[l].seen + loop[l].amount) /\ topped' = topped + loop[l].amount
  /\ UNCHANGED <<bill, post, framework, stranded, again, used>>

\* Either transaction may fail as well: it is rolled back and the caller gets a 500.
LoopBreaks(l) ==
  /\ loop[l].op \in {"refund", "recharge"} /\ loop' = [loop EXCEPT ![l] = Idle]
  /\ UNCHANGED <<money, post, framework, history>>

-----------------------------------------------------------------------------
(* The task framework, its user and restarts.                              *)

Works(r) == Framework!Begin(r) \/ Framework!Deliver(r) \/ Framework!Fail(r) \/ Framework!Again(r)

Work(r) == Works(r) /\ UNCHANGED <<money, post, loop, history>>

Cancel(r) == Framework!Cancel(r) /\ UNCHANGED <<money, post, loop, history>>

Retry(r) ==
  /\ used.retry < MaxRetries /\ Framework!Retry(r)
  /\ used' = [used EXCEPT !.retry = @ + 1] /\ again' = again \cup {r}
  /\ UNCHANGED <<money, post, loop, topped, clashed, stranded>>

Remove == Framework!Remove /\ UNCHANGED <<money, post, loop, history>>

\* The service dies and starts again: handlers are gone, running tasks interrupted.
Crash ==
  /\ used.crash < MaxCrashes /\ used' = [used EXCEPT !.crash = @ + 1]
  /\ stranded' = stranded \cup {r \in Reqs : post[r].pc \notin {"idle", "done"}}
  /\ post' = [r \in Reqs |-> [post[r] EXCEPT !.pc = IF @ = "idle" THEN "idle" ELSE "done"]]
  /\ loop' = [l \in Loops |-> Idle]
  /\ Framework!Interrupt
  /\ UNCHANGED <<money, topped, clashed, again>>

PostStep(r) ==
  \/ Check(r) \/ ReadToCharge(r) \/ Charge(r) \/ CreateTask(r) \/ Refused(r)
  \/ Link(r) \/ ReadToUndo(r) \/ Undo(r) \/ Breaks(r)
LoopStep(l) == LookAtBill(l) \/ ReadToRefund(l) \/ Refund(l) \/ Recharge(l) \/ LoopBreaks(l)

Next ==
  \/ \E r \in Reqs : PostStep(r) \/ Work(r) \/ Cancel(r) \/ Retry(r)
  \/ \E l \in Loops : \/ LoopStep(l)
                      \/ \E r \in Reqs : Query(l, r)
                      \/ \E a \in TopUps : ReadToRecharge(l, a)
  \/ Remove \/ Crash

Spec == Init /\ [][Next]_vars

\* Handlers run to their end, the user asks for the task, as the interface tells the
\* caller to (poll GET /v1/dh/videos/{task_id}), and a refund that is tried again and
\* again does not find the database locked every time.
FairSpec ==
  /\ Spec
  /\ \A l \in Loops : WF_vars(LoopStep(l)) /\ SF_vars(Refund(l))
  /\ \A r \in Reqs : SF_vars(\E l \in Loops : Query(l, r))

-----------------------------------------------------------------------------
(* Properties.                                                             *)

Owed == {r \in Reqs : bill[r].status = "charged"}

\* The balance is what was recharged less the bills that are not refunded, unless
\* two money transactions of the account overlapped: then one of them is lost.
AccountsForBills == clashed \/ balance = topped - MapThenSumSet(LAMBDA r : Price[r], Owed)

\* The balance never falls below zero, unless two of them overlapped.
NeverOverdrawn == clashed \/ balance >= 0

\* A delivered video is paid for; its bill was refunded only if the task had ended
\* without delivery first and was taken up again.
DeliveredIsPaid ==
  \A r \in Reqs : task[r] = "success" /\ bill[r].status = "refunded" => r \in again

\* Why a charged bill may stay charged for good: its request broke off, or the task
\* was deleted, and a query of a deleted task is answered 404 before the refund.
OutOfReach(r) == r \in stranded \/ task[r] = "removed"

\* The account can always get back what it was charged for nothing: a charged bill is
\* linked to a task that can be asked for, or its own request is still to create the
\* task, to link the bill or to refund it, or it is out of reach for one of the two
\* reasons above.
BillHasTask ==
  \A r \in Owed : \/ bill[r].linked /\ task[r] \notin {"none", "removed"}
                  \/ post[r].pc \in {"create", "undo", "give"} /\ task[r] = "none"
                  \/ post[r].pc = "link" /\ task[r] # "none"
                  \/ OutOfReach(r)

\* The bill of a task that ended without delivery is refunded, or the task is taken
\* up again or removed, if its user keeps asking.
FailureIsRefunded ==
  \A r \in Reqs :
    (task[r] \in Undelivered /\ bill[r].linked) ~>
      (bill[r].status = "refunded" \/ task[r] \notin Undelivered)
=============================================================================
