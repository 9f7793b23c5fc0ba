--------------------------- MODULE GatewayProofs ---------------------------
(* Theorems about Gateway for every value of its constants: whatever the    *)
(* number of requests, event loops, retries and restarts.                   *)
EXTENDS Gateway, FiniteSetTheorems, TLAPS

BillRow == [status : {"none", "charged", "refunded"}, linked : BOOLEAN]
PostRow == [pc : {"idle", "check", "charge", "create", "link", "undo", "give", "done"}, seen : Int]
LoopRow == [op : {"idle", "settle", "owed", "refund", "recharge"},
            req : Reqs \cup {None}, amount : Nat, seen : Int]
TaskStatus == {"pending", "running", "success", "failed", "interrupted", "canceled",
               "none", "removed"}

UsedRow == [top : 0..MaxTopUps, retry : 0..MaxRetries, crash : 0..MaxCrashes]

\* A loop that settles a bill knows whose it is.
LoopTyped ==
  /\ loop \in [Loops -> LoopRow]
  /\ \A l \in Loops : loop[l].op \in {"settle", "owed", "refund"} => loop[l].req \in Reqs

\* TypeOK with its sets named.
Typed ==
  /\ balance \in Int /\ topped \in Nat /\ clashed \in BOOLEAN
  /\ bill \in [Reqs -> BillRow] /\ post \in [Reqs -> PostRow] /\ LoopTyped
  /\ task \in [Reqs -> TaskStatus] /\ held \in [Reqs -> Int]
  /\ stranded \subseteq Reqs /\ again \subseteq Reqs
  /\ used \in UsedRow

LEMMA TypedIsTypeOK == Typed => TypeOK
<1>1. Framework!Shown \cup {"none", "removed"} = TaskStatus
  BY DEF Framework!Shown, Framework!Ended, TaskStatus
<1>2. QED
  BY <1>1 DEF TypeOK, Typed, LoopTyped, BillRow, PostRow, LoopRow, UsedRow

LEMMA RowTypes ==
  ASSUME bill \in [Reqs -> BillRow], post \in [Reqs -> PostRow], balance \in Int, NEW r \in Reqs
  PROVE  /\ Billed(r) \in [Reqs -> BillRow]
         /\ Linked(r) \in [Reqs -> BillRow]
         /\ Returned(r) \in [Reqs -> BillRow]
         /\ \A pc \in {"idle", "check", "charge", "create", "link", "undo", "give", "done"} :
              /\ [post EXCEPT ![r].pc = pc] \in [Reqs -> PostRow]
              /\ [post EXCEPT ![r] = [pc |-> pc, seen |-> balance]] \in [Reqs -> PostRow]
BY DEF Billed, Linked, Returned, BillRow, PostRow

LEMMA IdleType == Idle \in LoopRow
BY DEF Idle, LoopRow

LEMMA UsedTypes ==
  ASSUME used \in UsedRow
  PROVE  /\ used.top < MaxTopUps => [used EXCEPT !.top = @ + 1] \in UsedRow
         /\ used.retry < MaxRetries => [used EXCEPT !.retry = @ + 1] \in UsedRow
         /\ used.crash < MaxCrashes => [used EXCEPT !.crash = @ + 1] \in UsedRow
BY BoundsInNat DEF UsedRow

LEMMA PriceInNat == \A r \in Reqs : Price[r] \in Nat /\ Price[r] > 0
BY PriceOfReqs

LEMMA TopUpInNat == \A a \in TopUps : a \in Nat
BY TopUpsPositive

-----------------------------------------------------------------------------
(* Types.                                                                   *)

LEMMA PostTypes ==
  ASSUME Typed, NEW r \in Reqs, PostStep(r)
  PROVE  Typed'
<1>f. /\ balance \in Int /\ topped \in Nat /\ clashed \in BOOLEAN
      /\ bill \in [Reqs -> BillRow] /\ post \in [Reqs -> PostRow] /\ LoopTyped
      /\ task \in [Reqs -> TaskStatus] /\ held \in [Reqs -> Int]
      /\ stranded \subseteq Reqs /\ again \subseteq Reqs
      /\ used \in UsedRow
  BY DEF Typed
<1>l. UNCHANGED loop => LoopTyped'
  BY <1>f DEF LoopTyped
<1>rows. /\ Billed(r) \in [Reqs -> BillRow]
         /\ Linked(r) \in [Reqs -> BillRow]
         /\ Returned(r) \in [Reqs -> BillRow]
         /\ \A pc \in {"idle", "check", "charge", "create", "link", "undo", "give", "done"} :
              /\ [post EXCEPT ![r].pc = pc] \in [Reqs -> PostRow]
              /\ [post EXCEPT ![r] = [pc |-> pc, seen |-> balance]] \in [Reqs -> PostRow]
  BY <1>f, RowTypes
<1> USE <1>f, <1>l, <1>rows DEF Typed, Pays, PostTo, PostReads, money, framework, history
<1>1. CASE Check(r)
  BY <1>1 DEF Check
<1>2. CASE ReadToCharge(r)
  BY <1>2 DEF ReadToCharge
<1>3. CASE Charge(r)
  <2>1. post[r].seen - Price[r] \in Int
    BY PriceInNat DEF PostRow
  <2>2. QED
    BY <1>3, <2>1 DEF Charge
<1>4. CASE CreateTask(r)
  <2>1. task' \in [Reqs -> TaskStatus] /\ held' \in [Reqs -> Int]
    BY <1>4 DEF CreateTask, Framework!Submit, Framework!Becomes, Framework!Pays, TaskStatus
  <2>2. QED
    BY <1>4, <2>1 DEF CreateTask
<1>5. CASE Refused(r)
  BY <1>5 DEF Refused
<1>6. CASE Breaks(r)
  BY <1>6 DEF Breaks
<1>7. CASE Link(r)
  BY <1>7 DEF Link
<1>8. CASE ReadToUndo(r)
  BY <1>8 DEF ReadToUndo
<1>9. CASE Undo(r)
  <2>1. post[r].seen + Price[r] \in Int
    BY PriceInNat DEF PostRow
  <2>2. QED
    BY <1>9, <2>1 DEF Undo
<1>10. QED
  BY <1>1, <1>2, <1>3, <1>4, <1>5, <1>6, <1>7, <1>8, <1>9 DEF PostStep

LEMMA LoopTypes ==
  ASSUME Typed, NEW l \in Loops,
         LoopStep(l) \/ (\E r \in Reqs : Query(l, r)) \/ (\E a \in TopUps : ReadToRecharge(l, a))
  PROVE  Typed'
<1>f. /\ balance \in Int /\ topped \in Nat /\ clashed \in BOOLEAN
      /\ bill \in [Reqs -> BillRow] /\ post \in [Reqs -> PostRow] /\ LoopTyped
      /\ task \in [Reqs -> TaskStatus] /\ held \in [Reqs -> Int]
      /\ stranded \subseteq Reqs /\ again \subseteq Reqs
      /\ used \in UsedRow
  BY DEF Typed
<1>l. UNCHANGED loop => LoopTyped'
  BY <1>f DEF LoopTyped
<1> USE <1>f, <1>l DEF Typed, Pays, money, framework, history
<1>i. ASSUME NEW h \in LoopRow, loop' = [loop EXCEPT ![l] = h],
             h.op \in {"settle", "owed", "refund"} => h.req \in Reqs
      PROVE  LoopTyped'
  BY <1>i DEF Typed, LoopTyped
<1>t. /\ loop \in [Loops -> LoopRow]
      /\ loop[l] \in LoopRow /\ (loop[l].op \in {"settle", "owed", "refund"} => loop[l].req \in Reqs)
  BY DEF Typed, LoopTyped
<1>idle. loop' = [loop EXCEPT ![l] = Idle] => LoopTyped'
  BY <1>i, IdleType DEF Idle
<1>1. CASE LookAtBill(l)
  <2>1. [loop[l] EXCEPT !.op = "owed"] \in LoopRow
    BY <1>t DEF LoopRow
  <2>2. LoopTyped'
    BY <1>1, <1>i, <1>t, <2>1, IdleType DEF LookAtBill, Idle, LoopRow
  <2>3. QED
    BY <1>1, <2>2 DEF LookAtBill
<1>2. CASE ReadToRefund(l)
  <2> DEFINE h == [loop[l] EXCEPT !.op = "refund", !.seen = balance]
  <2>1. h \in LoopRow /\ h.req \in Reqs
    BY <1>2, <1>t DEF ReadToRefund, LoopRow
  <2>2. loop' = [loop EXCEPT ![l] = h]
    BY <1>2 DEF ReadToRefund
  <2>3. LoopTyped'
    <3> HIDE DEF h
    <3>1. QED
      BY <1>i, <2>1, <2>2
  <2>4. QED
    BY <1>2, <2>3 DEF ReadToRefund
<1>3. CASE Refund(l)
  <2>1. loop[l].req \in Reqs /\ loop[l].seen + Price[loop[l].req] \in Int
    BY <1>3, <1>t, PriceInNat DEF Refund, LoopRow
  <2>2. Returned(loop[l].req) \in [Reqs -> BillRow]
    BY <2>1, RowTypes
  <2>3. QED
    BY <1>3, <1>idle, <2>1, <2>2 DEF Refund
<1>4. CASE Recharge(l)
  <2>1. loop[l].seen + loop[l].amount \in Int /\ topped + loop[l].amount \in Nat
    BY <1>t DEF LoopRow
  <2>2. QED
    BY <1>4, <1>idle, <2>1 DEF Recharge
<1>5. ASSUME NEW r \in Reqs, Query(l, r) PROVE Typed'
  <2> DEFINE h == [Idle EXCEPT !.op = "settle", !.req = r]
  <2>r. r \in Reqs
    BY <1>5
  <2>1. h \in LoopRow /\ h.req \in Reqs
    BY <2>r, IdleType DEF Idle, LoopRow
  <2>2. loop' = [loop EXCEPT ![l] = h]
    BY <1>5 DEF Query
  <2>3. LoopTyped'
    <3> HIDE DEF h
    <3>1. QED
      BY <1>i, <2>1, <2>2
  <2>4. QED
    BY <1>5, <2>3 DEF Query
<1>6. ASSUME NEW a \in TopUps, ReadToRecharge(l, a) PROVE Typed'
  <2> DEFINE h == [Idle EXCEPT !.op = "recharge", !.amount = a, !.seen = balance]
  <2>1. h \in LoopRow /\ h.op = "recharge"
    BY <1>6, TopUpInNat DEF Idle, LoopRow
  <2>2. loop' = [loop EXCEPT ![l] = h]
    BY <1>6 DEF ReadToRecharge
  <2>3. LoopTyped'
    <3> HIDE DEF h
    <3>1. QED
      BY <1>i, <2>1, <2>2
  <2>4. used' \in UsedRow
    BY <1>6, UsedTypes DEF ReadToRecharge
  <2>5. QED
    BY <1>6, <2>3, <2>4 DEF ReadToRecharge
<1>7. CASE LoopBreaks(l)
  BY <1>7, <1>idle DEF LoopBreaks
<1>8. QED
  BY <1>1, <1>2, <1>3, <1>4, <1>5, <1>6, <1>7 DEF LoopStep

LEMMA TaskTypes ==
  ASSUME Typed,
         \/ \E r \in Reqs : Work(r) \/ Cancel(r) \/ Retry(r)
         \/ Remove
         \/ Crash
  PROVE  Typed'
<1>f. /\ balance \in Int /\ topped \in Nat /\ clashed \in BOOLEAN
      /\ bill \in [Reqs -> BillRow] /\ post \in [Reqs -> PostRow] /\ LoopTyped
      /\ task \in [Reqs -> TaskStatus] /\ held \in [Reqs -> Int]
      /\ stranded \subseteq Reqs /\ again \subseteq Reqs
      /\ used \in UsedRow
  BY DEF Typed
<1>l. UNCHANGED loop => LoopTyped'
  BY <1>f DEF LoopTyped
<1> USE <1>f, <1>l DEF Typed, money, framework, history
<1>1. ASSUME NEW r \in Reqs, Work(r) PROVE Typed'
  <2>1. task' \in [Reqs -> TaskStatus] /\ held' \in [Reqs -> Int]
    BY <1>1 DEF Work, Works, Framework!Begin, Framework!Deliver, Framework!Fail, Framework!Again,
                Framework!Becomes, Framework!Pays, TaskStatus
  <2>2. QED
    BY <1>1, <2>1 DEF Work
<1>2. ASSUME NEW r \in Reqs, Cancel(r) PROVE Typed'
  <2>1. task' \in [Reqs -> TaskStatus] /\ held' \in [Reqs -> Int]
    BY <1>2 DEF Cancel, Framework!Cancel, Framework!Becomes, TaskStatus
  <2>2. QED
    BY <1>2, <2>1 DEF Cancel
<1>3. ASSUME NEW r \in Reqs, Retry(r) PROVE Typed'
  <2>1. task' \in [Reqs -> TaskStatus] /\ held' \in [Reqs -> Int]
    BY <1>3 DEF Retry, Framework!Retry, Framework!Becomes, Framework!Pays, TaskStatus
  <2>2. used' \in UsedRow
    BY <1>3, UsedTypes DEF Retry
  <2>3. QED
    BY <1>3, <2>1, <2>2 DEF Retry
<1>4. CASE Remove
  <2>1. task' \in [Reqs -> TaskStatus] /\ held' \in [Reqs -> Int]
    BY <1>4 DEF Remove, Framework!Remove, TaskStatus
  <2>2. QED
    BY <1>4, <2>1 DEF Remove
<1>5. CASE Crash
  <2>1. task' \in [Reqs -> TaskStatus] /\ held' \in [Reqs -> Int]
    BY <1>5 DEF Crash, Framework!Interrupt, TaskStatus
  <2>2. used' \in UsedRow
    BY <1>5, UsedTypes DEF Crash
  <2>3. post' \in [Reqs -> PostRow]
    <3>1. \A r \in Reqs :
            [post[r] EXCEPT !.pc = IF @ = "idle" THEN "idle" ELSE "done"] \in PostRow
      BY DEF PostRow
    <3>2. QED
      BY <1>5, <3>1 DEF Crash
  <2>4. LoopTyped'
    BY <1>5, IdleType DEF Crash, LoopTyped, Idle
  <2>5. stranded' \subseteq Reqs
    BY <1>5 DEF Crash
  <2>6. QED
    BY <1>5, <2>1, <2>2, <2>3, <2>4, <2>5 DEF Crash
<1>6. QED
  BY <1>1, <1>2, <1>3, <1>4, <1>5

LEMMA TypedAlways == Spec => []Typed
<1>1. Init => Typed
  <2> SUFFICES ASSUME Init PROVE Typed
    OBVIOUS
  <2>1. task \in [Reqs -> TaskStatus] /\ held \in [Reqs -> Int]
    BY DEF Init, Framework!Init, TaskStatus
  <2>2. LoopTyped
    BY IdleType DEF Init, Idle, LoopTyped
  <2>3. used \in UsedRow
    BY BoundsInNat DEF UsedRow, Init
  <2>4. bill \in [Reqs -> BillRow] /\ post \in [Reqs -> PostRow]
    BY DEF Init, BillRow, PostRow
  <2>5. balance \in Int /\ topped \in Nat /\ stranded \subseteq Reqs /\ again \subseteq Reqs
    BY DEF Init
  <2>c. clashed \in BOOLEAN
    BY Zenon DEF Init
  <2>6. QED
    BY <2>1, <2>2, <2>3, <2>4, <2>5, <2>c DEF Typed
<1>2. Typed /\ [Next]_vars => Typed'
  <2>1. Typed /\ UNCHANGED vars => Typed'
    BY DEF vars, Typed, LoopTyped
  <2>2. QED
    BY <2>1, PostTypes, LoopTypes, TaskTypes DEF Next
<1>3. QED
  BY <1>1, <1>2, PTL DEF Spec

\* Every state of the gateway has the types of TypeOK: the balance is a number, a
\* bill one of three states, a handler one of its steps.
THEOREM TypeCorrect == Spec => []TypeOK
BY TypedAlways, TypedIsTypeOK, PTL

-----------------------------------------------------------------------------
(* Bills.                                                                   *)

\* The task of r ended without delivery, or has been taken up again since it ended.
Excused(r) == task[r] \in Undelivered \cup {"removed"} \/ r \in again

\* What the stage of a request says of its bill and its task.
BillSound(r) ==
  /\ post[r].pc \in {"idle", "check", "charge"} =>
       bill[r].status = "none" /\ ~bill[r].linked /\ task[r] = "none"
  /\ post[r].pc \in {"create", "undo", "give"} =>
       bill[r].status = "charged" /\ ~bill[r].linked /\ task[r] = "none"
  /\ post[r].pc = "link" => bill[r].status = "charged" /\ ~bill[r].linked /\ task[r] # "none"
  /\ post[r].pc = "done" /\ bill[r].status = "charged" => bill[r].linked \/ r \in stranded
  /\ bill[r].linked => post[r].pc = "done" /\ task[r] # "none"
  /\ bill[r].status = "refunded" => task[r] = "none" \/ Excused(r)

\* A loop settles only bills whose task was seen to end without delivery.
Settling(l) ==
  loop[l].op \in {"settle", "owed", "refund"} =>
    bill[loop[l].req].linked /\ Excused(loop[l].req)

BillsSound == (\A r \in Reqs : BillSound(r)) /\ (\A l \in Loops : Settling(l))

\* A task is created once, and an excuse stays.
LEMMA TaskMoves ==
  ASSUME Typed, [Next]_vars, NEW r \in Reqs
  PROVE  /\ task[r] # "none" => task'[r] # "none"
         /\ task[r] = "none" /\ ~CreateTask(r) => task'[r] = "none"
         /\ Excused(r) => Excused(r)'
<1>t. task \in [Reqs -> TaskStatus]
  BY DEF Typed
<1>u. UNCHANGED <<task, again>> => Excused(r)' = Excused(r)
  BY DEF Excused
<1>1. CASE UNCHANGED <<task, again>>
  BY <1>1, <1>u
<1>2. ASSUME NEW q \in Reqs, CreateTask(q)
      PROVE  task[q] = "none" /\ post[q].pc = "create" /\ again' = again
             /\ task' = [task EXCEPT ![q] = "pending"]
  BY <1>2 DEF CreateTask, Framework!Submit, Framework!Becomes, history
<1>3. ASSUME NEW q \in Reqs, Work(q) \/ Cancel(q)
      PROVE  task[q] \in {"pending", "running"} /\ again' = again
             /\ \E to \in {"running", "success", "failed", "pending", "canceled"} :
                  task' = [task EXCEPT ![q] = to]
  BY <1>3 DEF Work, Works, Cancel, Framework!Begin, Framework!Deliver, Framework!Fail,
              Framework!Again, Framework!Cancel, Framework!Becomes, history
<1>4. ASSUME NEW q \in Reqs, Retry(q)
      PROVE  task[q] \in Framework!Ended /\ again' = again \cup {q}
             /\ task' = [task EXCEPT ![q] = "pending"]
  BY <1>4 DEF Retry, Framework!Retry, Framework!Becomes
<1>5. ASSUME Remove
      PROVE  again' = again /\ \A q \in Reqs : task'[q] = task[q] \/
                                  (task[q] \in Framework!Ended /\ task'[q] = "removed")
  BY <1>5 DEF Remove, Framework!Remove, history
<1>6. ASSUME Crash
      PROVE  again' = again /\ \A q \in Reqs : task'[q] = task[q] \/
                                  (task[q] = "running" /\ task'[q] = "interrupted")
  BY <1>6 DEF Crash, Framework!Interrupt, history
<1>7. ASSUME NEW q \in Reqs, PostStep(q) PROVE CreateTask(q) \/ UNCHANGED <<task, again>>
  BY <1>7 DEF PostStep, Check, ReadToCharge, Charge, Refused, Breaks, Link, ReadToUndo,
              Undo, framework, history
<1>8. ASSUME NEW l \in Loops,
             LoopStep(l) \/ (\E q \in Reqs : Query(l, q)) \/ (\E a \in TopUps : ReadToRecharge(l, a))
      PROVE  UNCHANGED <<task, again>>
  BY <1>8 DEF LoopStep, LookAtBill, ReadToRefund, Refund, Recharge, LoopBreaks, Query, ReadToRecharge,
              framework, history
<1>9. ASSUME NEW q \in Reqs, CreateTask(q) \/ Work(q) \/ Cancel(q) \/ Retry(q) PROVE
        /\ task[r] # "none" => task'[r] # "none"
        /\ task[r] = "none" /\ ~CreateTask(r) => task'[r] = "none"
        /\ Excused(r) => Excused(r)'
  BY <1>9, <1>2, <1>3, <1>4, <1>t DEF Excused, Undelivered, Framework!Ended
<1>10. CASE Remove \/ Crash
  BY <1>10, <1>5, <1>6, <1>t DEF Excused, Undelivered, Framework!Ended
<1>11. CASE UNCHANGED vars
  BY <1>11, <1>1 DEF vars
<1>12. QED
  BY <1>1, <1>7, <1>8, <1>9, <1>10, <1>11 DEF Next

LEMMA BillSame ==
  ASSUME Typed, [Next]_vars, NEW r \in Reqs, BillSound(r), ~CreateTask(r),
         bill'[r] = bill[r], post'[r].pc = post[r].pc, stranded \subseteq stranded'
  PROVE  BillSound(r)'
BY TaskMoves DEF BillSound

\* The stages of a request keep its bill sound; the other bills are not touched.
LEMMA PostBills ==
  ASSUME Typed, BillsSound, NEW r \in Reqs, PostStep(r), Next
  PROVE  \A q \in Reqs : BillSound(q)'
<1>t. /\ bill \in [Reqs -> BillRow] /\ post \in [Reqs -> PostRow] /\ task \in [Reqs -> TaskStatus]
      /\ BillSound(r)
  BY DEF Typed, BillsSound
<1>m. /\ task[r] # "none" => task'[r] # "none"
      /\ task[r] = "none" /\ ~CreateTask(r) => task'[r] = "none"
      /\ Excused(r) => Excused(r)'
  BY TaskMoves
<1>o. ASSUME NEW q \in Reqs, q # r PROVE BillSound(q)'
  <2>1. bill'[q] = bill[q] /\ post'[q] = post[q] /\ stranded \subseteq stranded'
    BY <1>o, <1>t DEF PostStep, Check, ReadToCharge, Charge, CreateTask, Refused, Breaks, Link,
       ReadToUndo, Undo, PostTo, PostReads, Billed, Linked, Returned, money, history, BillRow, PostRow
  <2>2. ~CreateTask(q)
    <3>1. CreateTask(q) => post'[q].pc = "link" /\ post[q].pc = "create"
      BY <1>t DEF CreateTask, PostTo, PostRow
    <3>2. QED
      BY <2>1, <3>1
  <2>3. QED
    BY <2>1, <2>2, BillSame DEF BillsSound
<1>r. BillSound(r)'
  <2> USE <1>t DEF PostTo, PostReads, money, framework, history, BillRow, PostRow
  <2>1. CASE Check(r)
    BY <2>1, <1>m DEF Check, BillSound, CreateTask
  <2>2. CASE ReadToCharge(r)
    BY <2>2, <1>m DEF ReadToCharge, BillSound, CreateTask
  <2>3. CASE Charge(r)
    BY <2>3, <1>m DEF Charge, Billed, BillSound, CreateTask
  <2>4. CASE CreateTask(r)
    <3>1. task'[r] = "pending"
      BY <2>4 DEF CreateTask, Framework!Submit, Framework!Becomes
    <3>2. QED
      BY <2>4, <3>1 DEF CreateTask, BillSound
  <2>5. CASE Refused(r)
    BY <2>5, <1>m DEF Refused, BillSound, CreateTask
  <2>6. CASE Breaks(r)
    BY <2>6, <1>m DEF Breaks, BillSound, CreateTask
  <2>7. CASE Link(r)
    BY <2>7, <1>m DEF Link, Linked, BillSound, CreateTask
  <2>8. CASE ReadToUndo(r)
    BY <2>8, <1>m DEF ReadToUndo, BillSound, CreateTask
  <2>9. CASE Undo(r)
    BY <2>9, <1>m DEF Undo, Returned, BillSound, CreateTask
  <2>10. QED
    BY <2>1, <2>2, <2>3, <2>4, <2>5, <2>6, <2>7, <2>8, <2>9 DEF PostStep
<1>q. QED
  BY <1>o, <1>r

\* A refund is given only on the bill of a task that has its excuse.
LEMMA LoopBills ==
  ASSUME Typed, BillsSound, NEW l \in Loops, Next,
         LoopStep(l) \/ (\E q \in Reqs : Query(l, q)) \/ (\E a \in TopUps : ReadToRecharge(l, a))
  PROVE  (\A q \in Reqs : BillSound(q)') /\ Settling(l)'
<1>t. /\ bill \in [Reqs -> BillRow] /\ loop \in [Loops -> LoopRow] /\ LoopTyped
      /\ \A q \in Reqs : BillSound(q)
      /\ Settling(l)
  BY DEF Typed, LoopTyped, BillsSound
<1>l. loop \in [Loops -> LoopRow]
  BY <1>t
<1>u. UNCHANGED <<task, again, post, stranded>>
  BY DEF LoopStep, LookAtBill, ReadToRefund, Refund, Recharge, LoopBreaks, Query, ReadToRecharge,
         framework, history, money
<1>c. ASSUME NEW q \in Reqs PROVE ~CreateTask(q) /\ Excused(q)' = Excused(q)
  BY <1>c, <1>u DEF Excused, CreateTask, Framework!Submit, Framework!Becomes, Typed
<1>1. CASE Refund(l)
  <2>1. PICK q \in Reqs : q = loop[l].req /\ bill[q].linked /\ Excused(q)
    BY <1>1, <1>t DEF Refund, Settling, LoopTyped
  <2>2. bill' = [bill EXCEPT ![q].status = "refunded"] /\ loop' = [loop EXCEPT ![l] = Idle]
    BY <1>1, <2>1 DEF Refund, Returned
  <2>3. BillSound(q)'
    BY <1>c, <1>t, <1>u, <2>1, <2>2 DEF BillSound, BillRow
  <2>4. ASSUME NEW p \in Reqs, p # q PROVE BillSound(p)'
    <3>1. bill'[p] = bill[p]
      BY <1>t, <2>2, <2>4
    <3>2. QED
      BY <1>c, <1>t, <1>u, <3>1, BillSame
  <2>5. Settling(l)'
    BY <1>t, <2>2 DEF Settling, Idle
  <2>6. QED
    BY <2>3, <2>4, <2>5
<1>2. CASE ~Refund(l)
  <2>1. UNCHANGED bill
    BY <1>2 DEF LoopStep, LookAtBill, ReadToRefund, Recharge, LoopBreaks, Query, ReadToRecharge, money
  <2>2. \A q \in Reqs : BillSound(q)'
    BY <1>c, <1>t, <1>u, <2>1, BillSame
  <2>3. ASSUME NEW q \in Reqs, Query(l, q) PROVE Settling(l)'
    <3>1. loop'[l].req = q
      BY <1>t, <2>3 DEF Query, Idle
    <3>2. bill'[q].linked /\ Excused(q)'
      BY <1>c, <2>1, <2>3 DEF Query, Refundable, Excused
    <3>3. QED
      BY <3>1, <3>2 DEF Settling
  <2>4. ASSUME LookAtBill(l) \/ ReadToRefund(l) PROVE Settling(l)'
    <3>1. PICK q \in Reqs : q = loop[l].req /\ bill[q].linked /\ Excused(q)
      BY <1>t, <2>4 DEF LookAtBill, ReadToRefund, Settling, LoopTyped
    <3>2. loop'[l] = Idle \/ loop'[l].req = loop[l].req
      <4>1. PICK h \in {loop[l], [loop[l] EXCEPT !.op = "owed"], Idle,
                        [loop[l] EXCEPT !.op = "refund", !.seen = balance]} :
              loop' = [loop EXCEPT ![l] = h]
        BY <2>4 DEF LookAtBill, ReadToRefund
      <4>2. h = Idle \/ h.req = loop[l].req
        BY <1>l DEF LoopRow
      <4>3. QED
        BY <1>l, <4>1, <4>2
    <3>3. bill'[q].linked /\ Excused(q)'
      BY <1>c, <2>1, <3>1
    <3>4. CASE loop'[l] = Idle
      BY <3>4 DEF Settling, Idle
    <3>5. QED
      BY <3>1, <3>2, <3>3, <3>4 DEF Settling
  <2>5. ASSUME Recharge(l) \/ LoopBreaks(l) \/ \E a \in TopUps : ReadToRecharge(l, a)
        PROVE  Settling(l)'
    <3>1. Recharge(l) \/ LoopBreaks(l) => loop'[l].op = "idle"
      BY <1>l DEF Recharge, LoopBreaks, Idle
    <3>2. ASSUME NEW a \in TopUps, ReadToRecharge(l, a) PROVE loop'[l].op = "recharge"
      <4>1. loop'[l] = [Idle EXCEPT !.op = "recharge", !.amount = a, !.seen = balance]
        BY <1>l, <3>2 DEF ReadToRecharge
      <4>2. QED
        BY <4>1 DEF Idle
    <3>3. loop'[l].op \in {"idle", "recharge"}
      BY <2>5, <3>1, <3>2
    <3>4. QED
      BY <3>3 DEF Settling
  <2>6. QED
    BY <1>2, <2>2, <2>3, <2>4, <2>5 DEF LoopStep
<1>3. QED
  BY <1>1, <1>2

LEMMA TaskBills ==
  ASSUME Typed, BillsSound, NEW r \in Reqs, Next,
         (\E q \in Reqs : Work(q) \/ Cancel(q) \/ Retry(q)) \/ Remove \/ Crash
  PROVE  BillSound(r)'
<1>t. BillSound(r) /\ post \in [Reqs -> PostRow] /\ task \in [Reqs -> TaskStatus]
  BY DEF Typed, BillsSound
<1>1. CASE Crash
  <2>1. UNCHANGED bill /\ ~CreateTask(r)
    BY <1>1, <1>t DEF Crash, CreateTask, Framework!Submit, Framework!Becomes,
                      Framework!Interrupt, money
  <2>2. post'[r].pc = IF post[r].pc = "idle" THEN "idle" ELSE "done"
    BY <1>1, <1>t DEF Crash, PostRow
  <2>3. /\ stranded \subseteq stranded'
        /\ post[r].pc \notin {"idle", "done"} => r \in stranded'
    BY <1>1 DEF Crash
  <2>4. QED
    BY <1>t, <2>1, <2>2, <2>3, TaskMoves DEF BillSound, PostRow
<1>2. CASE ~Crash
  <2>1. UNCHANGED <<bill, post, stranded>>
    BY <1>2 DEF Work, Cancel, Retry, Remove, money, history
  <2>2. ~CreateTask(r)
    BY <1>t, <2>1 DEF CreateTask, PostTo, PostRow
  <2>3. QED
    BY <1>t, <2>1, <2>2, BillSame
<1>3. QED
  BY <1>1, <1>2

\* A loop that this step does not move goes on settling a bill with an excuse.
LEMMA LoopsGoOn ==
  ASSUME Typed, BillsSound, NEW l \in Loops, loop'[l] = loop[l], Next
  PROVE  Settling(l)'
<1>1. SUFFICES ASSUME loop[l].op \in {"settle", "owed", "refund"}
               PROVE  bill'[loop[l].req].linked /\ Excused(loop[l].req)'
  BY DEF Settling
<1>2. PICK q \in Reqs : q = loop[l].req /\ bill[q].linked /\ Excused(q)
  BY <1>1 DEF Typed, LoopTyped, BillsSound, Settling
<1>3. bill \in [Reqs -> BillRow]
  BY DEF Typed
<1>4. bill'[q].linked
  <2>1. \A r \in Reqs : \A f \in {Billed(r), Linked(r), Returned(r)} : f[q].linked
    BY <1>2, <1>3 DEF Billed, Linked, Returned, BillRow
  <2>2. ASSUME NEW r \in Reqs, PostStep(r) PROVE bill' \in {bill, Billed(r), Linked(r), Returned(r)}
    BY <2>2 DEF PostStep, Check, ReadToCharge, Charge, CreateTask, Refused, Breaks, Link,
                ReadToUndo, Undo, money
  <2>3. ASSUME NEW k \in Loops,
               LoopStep(k) \/ (\E r \in Reqs : Query(k, r)) \/ (\E a \in TopUps : ReadToRecharge(k, a))
        PROVE  UNCHANGED bill \/ \E r \in Reqs : bill' = Returned(r)
    BY <2>3 DEF LoopStep, LookAtBill, ReadToRefund, Refund, Recharge, LoopBreaks, Query, ReadToRecharge, money,
                Typed, LoopTyped
  <2>4. ASSUME (\E r \in Reqs : Work(r) \/ Cancel(r) \/ Retry(r)) \/ Remove \/ Crash
        PROVE  UNCHANGED bill
    BY <2>4 DEF Work, Cancel, Retry, Remove, Crash, money
  <2>5. QED
    BY <1>2, <2>1, <2>2, <2>3, <2>4 DEF Next
<1>5. QED
  BY <1>2, <1>4, TaskMoves

LEMMA BillsInvariant == Spec => []BillsSound
<1>1. Init => BillsSound
  BY DEF Init, BillsSound, BillSound, Settling, Idle, Framework!Init
<1>2. ASSUME Typed, BillsSound, Next PROVE BillsSound'
  <2>1. \A r \in Reqs : BillSound(r)'
    BY <1>2, PostBills, LoopBills, TaskBills DEF Next
  <2>2. ASSUME NEW l \in Loops PROVE Settling(l)'
    <3>1. CASE loop'[l] = loop[l]
      BY <1>2, <3>1, LoopsGoOn
    <3>2. CASE Crash
      BY <3>2 DEF Crash, Settling, Idle
    <3>3. ASSUME NEW k \in Loops, k # l,
                 LoopStep(k) \/ (\E r \in Reqs : Query(k, r)) \/ (\E a \in TopUps : ReadToRecharge(k, a))
          PROVE  loop'[l] = loop[l]
      BY <1>2, <3>3 DEF LoopStep, LookAtBill, ReadToRefund, Refund, Recharge, LoopBreaks, Query, ReadToRecharge,
                        Typed, LoopTyped
    <3>4. ASSUME (\E r \in Reqs : PostStep(r) \/ Work(r) \/ Cancel(r) \/ Retry(r)) \/ Remove
          PROVE  loop' = loop
      BY <3>4 DEF PostStep, Check, ReadToCharge, Charge, CreateTask, Refused, Breaks, Link,
                  ReadToUndo, Undo, Work, Cancel, Retry, Remove
    <3>5. QED
      BY <1>2, <3>1, <3>2, <3>3, <3>4, LoopBills DEF Next
  <2>3. QED
    BY <2>1, <2>2 DEF BillsSound
<1>3. ASSUME BillsSound, UNCHANGED vars PROVE BillsSound'
  BY <1>3 DEF BillsSound, BillSound, Settling, Excused, vars
<1>4. QED
  BY <1>1, <1>2, <1>3, TypedAlways, PTL DEF Spec

\* A charged bill is linked to a task, or its request is under way or broke off:
\* BillSound says so stage by stage, whichever write fails and wherever a thread dies.
THEOREM BillsHaveTasks == Spec => []BillHasTask
<1>1. Typed /\ BillsSound => BillHasTask
  BY DEF Typed, BillsSound, BillSound, BillHasTask, OutOfReach, Owed, BillRow, PostRow
<1>2. QED
  BY <1>1, TypedAlways, BillsInvariant, PTL

\* A delivered video whose bill was refunded had ended without delivery and was taken
\* up again: the excuse that the refund was given on outlives it.
THEOREM DeliveredArePaid == Spec => []DeliveredIsPaid
<1>1. Typed /\ BillsSound => DeliveredIsPaid
  BY DEF Typed, BillsSound, BillSound, DeliveredIsPaid, Excused, Undelivered
<1>2. QED
  BY <1>1, TypedAlways, BillsInvariant, PTL

-----------------------------------------------------------------------------
(* The balance.                                                             *)

\* What a request, or a loop, that deals in the balance has found is still there.
PostLevel(r) ==
  /\ post[r].pc = "check" => balance >= Price[r]
  /\ post[r].pc = "charge" => post[r].seen = balance /\ balance >= Price[r]
  /\ post[r].pc = "give" => post[r].seen = balance
LoopLevel(l) == loop[l].op \in {"refund", "recharge"} => loop[l].seen = balance

Level ==
  clashed \/ (balance >= 0 /\ (\A r \in Reqs : PostLevel(r)) /\ (\A l \in Loops : LoopLevel(l)))

LEMMA NobodyElse ==
  ASSUME NEW S, IsFiniteSet(S), Cardinality(S) <= 1, NEW x \in S, NEW y \in S
  PROVE  x = y
<1>1. IsFiniteSet(S \ {x}) /\ Cardinality(S \ {x}) = Cardinality(S) - 1
  BY FS_RemoveElement
<1>2. Cardinality(S) \in Nat /\ Cardinality(S \ {x}) \in Nat
  BY <1>1, FS_CardinalityType
<1>3. Cardinality(S \ {x}) = 0
  BY <1>1, <1>2
<1>4. S \ {x} = {}
  BY <1>1, <1>3, FS_EmptySet
<1>5. QED
  BY <1>4

\* Whoever writes the balance without a clash is the only one that deals in it.
LEMMA WritesAlone ==
  ASSUME ~(Dealing > 1)
  PROVE  /\ \A r \in Reqs : Posting(r) =>
              (\A q \in Reqs \ {r} : ~Posting(q)) /\ (\A l \in Loops : ~Looping(l))
         /\ \A l \in Loops : Looping(l) =>
              (\A k \in Loops \ {l} : ~Looping(k)) /\ (\A r \in Reqs : ~Posting(r))
<1> DEFINE P == {r \in Reqs : Posting(r)}
           L == {l \in Loops : Looping(l)}
<1>1. IsFiniteSet(P) /\ IsFiniteSet(L)
  BY ActorsFinite, FS_Subset
<1>2. Cardinality(P) \in Nat /\ Cardinality(L) \in Nat
  BY <1>1, FS_CardinalityType
<1>3. Cardinality(P) + Cardinality(L) <= 1
  BY <1>2 DEF Dealing
<1>4. Cardinality(P) <= 1 /\ Cardinality(L) <= 1 /\ (Cardinality(P) = 0 \/ Cardinality(L) = 0)
  <2> HIDE DEF P, L
  <2>1. QED
    BY <1>2, <1>3
<1>5. P = {} \/ L = {}
  <2> HIDE DEF P, L
  <2>1. QED
    BY <1>1, <1>4, FS_EmptySet
<1>6. \A r, q \in P : r = q
  <2> HIDE DEF P, L
  <2>1. QED
    BY <1>1, <1>4, NobodyElse
<1>7. \A l, k \in L : l = k
  <2> HIDE DEF P, L
  <2>1. QED
    BY <1>1, <1>4, NobodyElse
<1>8. QED
  BY <1>5, <1>6, <1>7

LEMMA PostKeepsLevel ==
  ASSUME Typed, Level, NEW r \in Reqs, PostStep(r), ~clashed'
  PROVE  Level'
<1>f. /\ balance \in Int /\ post \in [Reqs -> PostRow] /\ Price[r] \in Nat
      /\ ~clashed => balance >= 0 /\ (\A q \in Reqs : PostLevel(q)) /\ (\A l \in Loops : LoopLevel(l))
  BY PriceInNat DEF Typed, Level
<1>o. \A q \in Reqs \ {r} : post'[q] = post[q]
  BY <1>f DEF PostStep, Check, ReadToCharge, Charge, CreateTask, Refused, Breaks, Link,
              ReadToUndo, Undo, PostTo, PostReads
<1>l. UNCHANGED loop
  BY DEF PostStep, Check, ReadToCharge, Charge, CreateTask, Refused, Breaks, Link,
         ReadToUndo, Undo
<1>1. CASE Charge(r) \/ Undo(r)
  <2>1. ~clashed /\ ~(Dealing > 1) /\ Posting(r)
    BY <1>1 DEF Charge, Undo, Pays, Posting
  <2>2. (\A q \in Reqs \ {r} : ~Posting(q)) /\ (\A l \in Loops : ~Looping(l))
    BY <2>1, WritesAlone
  <2>3. PostLevel(r) /\ balance >= 0
    BY <1>f, <2>1
  <2>4. balance' >= 0
    BY <1>f, <1>1, <2>3 DEF Charge, Undo, Pays, PostLevel, PostRow
  <2>5. post'[r].pc \in {"create", "done"}
    BY <1>f, <1>1 DEF Charge, Undo, PostTo, PostRow
  <2>6. \A q \in Reqs : PostLevel(q)'
    BY <1>o, <2>2, <2>5 DEF PostLevel, Posting
  <2>7. \A l \in Loops : LoopLevel(l)'
    BY <1>l, <2>2 DEF LoopLevel, Looping
  <2>8. QED
    BY <2>4, <2>6, <2>7 DEF Level
<1>2. CASE ~(Charge(r) \/ Undo(r))
  <2>1. UNCHANGED <<balance, clashed>>
    BY <1>2 DEF PostStep, Check, ReadToCharge, CreateTask, Refused, Breaks, Link,
                ReadToUndo, money, history
  <2>2. balance >= 0 /\ (\A q \in Reqs : PostLevel(q)) /\ (\A l \in Loops : LoopLevel(l))
    BY <1>f, <2>1
  <2>3. PostLevel(r)'
    BY <1>f, <1>2, <2>1, <2>2 DEF PostStep, Check, ReadToCharge, CreateTask, Refused, Breaks,
       Link, ReadToUndo, PostTo, PostReads, PostRow, PostLevel, Affordable
  <2>4. \A q \in Reqs : PostLevel(q)'
    BY <1>o, <2>1, <2>2, <2>3 DEF PostLevel
  <2>5. QED
    BY <1>l, <2>1, <2>2, <2>4 DEF Level, LoopLevel
<1>3. QED
  BY <1>1, <1>2

LEMMA LoopKeepsLevel ==
  ASSUME Typed, Level, NEW l \in Loops, ~clashed',
         LoopStep(l) \/ (\E q \in Reqs : Query(l, q)) \/ (\E a \in TopUps : ReadToRecharge(l, a))
  PROVE  Level'
<1>f. /\ balance \in Int /\ loop \in [Loops -> LoopRow] /\ LoopTyped
      /\ ~clashed => balance >= 0 /\ (\A q \in Reqs : PostLevel(q)) /\ (\A k \in Loops : LoopLevel(k))
  BY DEF Typed, Level, LoopTyped
<1>o. \A k \in Loops \ {l} : loop'[k] = loop[k]
  BY <1>f DEF LoopStep, LookAtBill, ReadToRefund, Refund, Recharge, LoopBreaks, Query, ReadToRecharge
<1>p. UNCHANGED post
  BY DEF LoopStep, LookAtBill, ReadToRefund, Refund, Recharge, LoopBreaks, Query, ReadToRecharge
<1>1. CASE Refund(l) \/ Recharge(l)
  <2>1. ~clashed /\ ~(Dealing > 1) /\ Looping(l)
    BY <1>1 DEF Refund, Recharge, Pays, Looping
  <2>2. (\A k \in Loops \ {l} : ~Looping(k)) /\ (\A q \in Reqs : ~Posting(q))
    BY <2>1, WritesAlone
  <2>3. LoopLevel(l) /\ balance >= 0
    BY <1>f, <2>1
  <2>4. loop[l].amount \in Nat /\ (loop[l].op = "refund" => Price[loop[l].req] \in Nat)
    BY <1>f, PriceInNat DEF LoopRow, LoopTyped
  <2>5. balance' >= 0
    BY <1>f, <1>1, <2>3, <2>4 DEF Refund, Recharge, Pays, LoopLevel
  <2>6. loop'[l].op = "idle"
    BY <1>f, <1>1 DEF Refund, Recharge, Idle
  <2>7. \A k \in Loops : LoopLevel(k)'
    BY <1>o, <2>2, <2>6 DEF LoopLevel, Looping
  <2>8. \A q \in Reqs : PostLevel(q)'
    BY <1>p, <2>2 DEF PostLevel, Posting
  <2>9. QED
    BY <2>5, <2>7, <2>8 DEF Level
<1>2. CASE ~(Refund(l) \/ Recharge(l))
  <2>1. UNCHANGED <<balance, clashed>>
    BY <1>2 DEF LoopStep, LookAtBill, ReadToRefund, LoopBreaks, Query, ReadToRecharge, money, history
  <2>2. balance >= 0 /\ (\A q \in Reqs : PostLevel(q)) /\ (\A k \in Loops : LoopLevel(k))
    BY <1>f, <2>1
  <2>3. LoopLevel(l)'
    <3>1. CASE LookAtBill(l)
      BY <1>f, <3>1 DEF LookAtBill, LoopRow, LoopLevel, Idle
    <3>2. CASE ReadToRefund(l)
      <4>1. loop'[l].seen = balance
        BY <1>f, <3>2 DEF ReadToRefund, LoopRow
      <4>2. QED
        BY <2>1, <4>1 DEF LoopLevel
    <3>3. ASSUME NEW q \in Reqs, Query(l, q) PROVE LoopLevel(l)'
      BY <1>f, <3>3 DEF Query, Idle, LoopLevel
    <3>4. ASSUME NEW a \in TopUps, ReadToRecharge(l, a) PROVE LoopLevel(l)'
      <4>1. loop'[l] = [Idle EXCEPT !.op = "recharge", !.amount = a, !.seen = balance]
        BY <1>f, <3>4 DEF ReadToRecharge
      <4>2. loop'[l].seen = balance
        BY <4>1 DEF Idle
      <4>3. QED
        BY <2>1, <4>2 DEF LoopLevel
    <3>5. CASE LoopBreaks(l)
      BY <1>f, <3>5 DEF LoopBreaks, Idle, LoopLevel
    <3>6. QED
      BY <1>2, <3>1, <3>2, <3>3, <3>4, <3>5 DEF LoopStep
  <2>4. QED
    BY <1>o, <1>p, <2>1, <2>2, <2>3 DEF Level, PostLevel, LoopLevel
<1>3. QED
  BY <1>1, <1>2

LEMMA LevelInvariant == Spec => []Level
<1>1. Init => Level
  BY DEF Init, Level, PostLevel, LoopLevel, Idle
<1>2. ASSUME Typed, Level, Next PROVE Level'
  <2>1. CASE clashed'
    BY <2>1 DEF Level
  <2>2. ASSUME (\E r \in Reqs : Work(r) \/ Cancel(r) \/ Retry(r)) \/ Remove
        PROVE  Level'
    BY <1>2, <2>2 DEF Work, Cancel, Retry, Remove, Level, PostLevel, LoopLevel, money, history
  <2>3. CASE Crash
    <3>1. UNCHANGED <<balance, clashed>> /\ \A l \in Loops : loop'[l].op = "idle"
      BY <2>3 DEF Crash, Idle, money
    <3>2. \A r \in Reqs : post'[r].pc \in {"idle", "done"}
      BY <1>2, <2>3 DEF Crash, Typed, PostRow
    <3>3. QED
      BY <1>2, <3>1, <3>2 DEF Level, PostLevel, LoopLevel
  <2>4. QED
    BY <1>2, <2>1, <2>2, <2>3, PostKeepsLevel, LoopKeepsLevel DEF Next
<1>3. ASSUME Level, UNCHANGED vars PROVE Level'
  BY <1>3 DEF Level, PostLevel, LoopLevel, vars
<1>4. QED
  BY <1>1, <1>2, <1>3, TypedAlways, PTL DEF Spec

\* Without an overlap of two money transactions the balance never falls below zero:
\* what a request found to be enough is still there when it is charged.
THEOREM NoOverdraft == Spec => []NeverOverdrawn
<1>1. Level => NeverOverdrawn
  BY DEF Level, NeverOverdrawn
<1>2. QED
  BY <1>1, LevelInvariant, PTL

-----------------------------------------------------------------------------
(* What a set of bills comes to. The sum is defined by taking one bill out  *)
(* after the other; what it is for every finite set follows from a least    *)
(* counterexample.                                                          *)

\* Among sets of elements of a finite set there is one that contains no other.
LEMMA LeastSet ==
  ASSUME NEW S, IsFiniteSet(S), NEW W \in SUBSET (SUBSET S), W # {}
  PROVE  \E T \in W : \A U \in W : U \subseteq T => U = T
<1>1. IsWellFoundedOn(StrictSubsetOrdering(S), SUBSET S)
  BY FS_StrictSubsetOrderingWellFounded, FS_FiniteSubsetsOfFinite
<1>2. PICK T \in W : \A U \in W : ~ (<<U, T>> \in StrictSubsetOrdering(S))
  BY <1>1, WFMin
<1>3. QED
  BY <1>2 DEF StrictSubsetOrdering

\* What a set of bills comes to, given as a function that adds up.
Sums(F, S) ==
  /\ F \in [SUBSET S -> Int] /\ F[{}] = 0
  /\ \A T \in SUBSET S : \A r \in S \ T : F[T \cup {r}] = F[T] + Price[r]

\* Such a function exists: extend that of a largest set that has one.
LEMMA SumsExist ==
  ASSUME NEW S \in SUBSET Reqs
  PROVE  \E F : Sums(F, S)
<1> DEFINE W == {C \in SUBSET S : \E F : Sums(F, S \ C)}
<1>0. IsFiniteSet(S) /\ \A r \in S : Price[r] \in Int
  BY ActorsFinite, FS_Subset, PriceInNat
<1>1. S \in W
  <2>1. Sums([T \in SUBSET {} |-> 0], {})
    BY DEF Sums
  <2>2. S \ S = {}
    OBVIOUS
  <2>3. QED
    BY <2>1, <2>2
<1>2. PICK C \in W : \A D \in W : D \subseteq C => D = C
  <2> HIDE DEF W
  <2>1. W \in SUBSET (SUBSET S)
    BY DEF W
  <2>2. QED
    BY <1>0, <1>1, <2>1, LeastSet
<1>3. ASSUME NEW c \in C PROVE FALSE
  <2>1. PICK F : Sums(F, S \ C)
    OBVIOUS
  <2>2. C \in SUBSET S /\ c \in S
    BY <1>3
  <2> DEFINE R == S \ C
             G == [T \in SUBSET (R \cup {c}) |->
                     IF c \in T THEN F[T \ {c}] + Price[c] ELSE F[T]]
  <2>3. G \in [SUBSET (R \cup {c}) -> Int] /\ G[{}] = 0
    <3>1. ASSUME NEW T \in SUBSET (R \cup {c}) PROVE (T \ {c}) \in SUBSET R /\ (c \notin T => T \in SUBSET R)
      BY <3>1
    <3>2. \A T \in SUBSET R : F[T] \in Int
      BY <2>1 DEF Sums
    <3>3. QED
      BY <1>0, <2>1, <2>2, <3>1, <3>2 DEF Sums
  <2>4. ASSUME NEW T \in SUBSET (R \cup {c}), NEW r \in (R \cup {c}) \ T
        PROVE  G[T \cup {r}] = G[T] + Price[r]
    <3>0. \A Q \in SUBSET R : F[Q] \in Int
      BY <2>1 DEF Sums
    <3>p. Price[r] \in Int /\ Price[c] \in Int
      BY <1>0, <2>2, <2>4
    <3>1. CASE r = c
      <4>1. T \in SUBSET R /\ (T \cup {r}) \ {c} = T /\ T \cup {r} \in SUBSET (R \cup {c})
        BY <2>4, <3>1
      <4>2. G[T] = F[T] /\ G[T \cup {r}] = F[T] + Price[r]
        BY <2>4, <3>1, <4>1
      <4>3. QED
        BY <4>2
    <3>2. CASE r # c /\ c \in T
      <4>1. T \ {c} \in SUBSET R /\ (T \cup {r}) \ {c} = (T \ {c}) \cup {r} /\ r \in R \ (T \ {c})
            /\ T \cup {r} \in SUBSET (R \cup {c})
        BY <2>4, <3>2
      <4>2. F[(T \ {c}) \cup {r}] = F[T \ {c}] + Price[r]
        BY <2>1, <4>1 DEF Sums
      <4>3. G[T] = F[T \ {c}] + Price[c] /\ G[T \cup {r}] = F[(T \ {c}) \cup {r}] + Price[c]
        BY <2>4, <3>2, <4>1
      <4>4. F[T \ {c}] \in Int
        BY <3>0, <4>1
      <4> HIDE DEF G
      <4>5. QED
        BY <3>p, <4>2, <4>3, <4>4
    <3>3. CASE r # c /\ c \notin T
      <4>1. T \in SUBSET R /\ c \notin T \cup {r} /\ r \in R \ T /\ T \cup {r} \in SUBSET (R \cup {c})
        BY <2>4, <3>3
      <4>2. F[T \cup {r}] = F[T] + Price[r]
        BY <2>1, <4>1 DEF Sums
      <4>3. G[T] = F[T] /\ G[T \cup {r}] = F[T \cup {r}]
        BY <2>4, <3>3, <4>1
      <4>4. QED
        BY <4>2, <4>3
    <3>4. QED
      BY <3>1, <3>2, <3>3
  <2>5. R \cup {c} = S \ (C \ {c})
    BY <2>2
  <2>6. Sums(G, S \ (C \ {c}))
    <3> HIDE DEF G
    <3>1. Sums(G, R \cup {c})
      BY <2>3, <2>4 DEF Sums
    <3>2. QED
      BY <2>5, <3>1
  <2>7. C \ {c} \in W
    BY <2>2, <2>6
  <2>8. QED
    BY <1>2, <2>7
<1>4. C = {}
  BY <1>3
<1>5. QED
  BY <1>2, <1>4

\* What the bills of S come to, as AccountsForBills adds them up.
Total(S) == MapThenSumSet(LAMBDA r : Price[r], S)

\* The sum is what a function that adds up says: both do the same at the element
\* that the sum takes out first.
LEMMA TotalIsSum ==
  ASSUME NEW S \in SUBSET Reqs, NEW F, Sums(F, S)
  PROVE  Total(S) = F[S]
<1> DEFINE Step(g) == [T \in SUBSET S |->
                         IF T = {} THEN 0
                         ELSE Price[CHOOSE x \in T : TRUE] + g[T \ {CHOOSE x \in T : TRUE}]]
           I == CHOOSE g : g = Step(g)
<1>0. IsFiniteSet(S) /\ \A r \in S : Price[r] \in Int
  BY ActorsFinite, FS_Subset, PriceInNat
<1>1. Total(S) = I[S]
  BY DEF Total, MapThenSumSet, MapThenFoldSet
<1>2. F = Step(F)
  <2>1. ASSUME NEW T \in SUBSET S, T # {}
        PROVE  F[T] = Price[CHOOSE x \in T : TRUE] + F[T \ {CHOOSE x \in T : TRUE}]
    <3> DEFINE c == CHOOSE x \in T : TRUE
    <3>1. c \in T
      BY <2>1
    <3> HIDE DEF c
    <3>2. T \ {c} \in SUBSET S /\ c \in S \ (T \ {c}) /\ (T \ {c}) \cup {c} = T
      BY <3>1
    <3>3. F[T] = F[T \ {c}] + Price[c] /\ F[T \ {c}] \in Int /\ Price[c] \in Int
      BY <1>0, <3>1, <3>2 DEF Sums
    <3>4. QED
      BY <3>3 DEF c
  <2>2. F \in [SUBSET S -> Int] /\ F[{}] = 0
    BY DEF Sums
  <2>3. QED
    BY <2>1, <2>2
<1>3. I = Step(I)
  BY <1>2
<1>4. ASSUME NEW T \in SUBSET S, I[T] # F[T] PROVE FALSE
  <2> DEFINE W == {Q \in SUBSET S : I[Q] # F[Q]}
  <2>1. W \in SUBSET (SUBSET S) /\ W # {}
    BY <1>4
  <2>2. PICK Q \in W : \A U \in W : U \subseteq Q => U = Q
    <3> HIDE DEF W
    <3>1. QED
      BY <1>0, <2>1, LeastSet
  <2> DEFINE c == CHOOSE x \in Q : TRUE
  <2>3. CASE Q = {}
    BY <1>2, <1>3, <2>2, <2>3
  <2>4. CASE Q # {}
    <3>1. c \in Q /\ Q \ {c} # Q /\ Q \ {c} \in SUBSET S
      BY <2>2, <2>4
    <3>2. I[Q \ {c}] = F[Q \ {c}]
      BY <2>2, <3>1
    <3>3. I[Q] = Price[c] + I[Q \ {c}]
      BY <1>3, <2>2, <2>4
    <3>4. F[Q] = Price[c] + F[Q \ {c}]
      BY <1>2, <2>2, <2>4
    <3>5. QED
      BY <2>2, <3>2, <3>3, <3>4
  <2>5. QED
    BY <2>3, <2>4
<1>5. QED
  BY <1>1, <1>4

\* No bills come to nothing.
LEMMA TotalEmpty == Total({}) = 0
<1>1. Sums([T \in SUBSET {} |-> 0], {})
  BY DEF Sums
<1>2. QED
  BY <1>1, TotalIsSum

\* One bill more, and one less.
LEMMA TotalAdds ==
  ASSUME NEW S \in SUBSET Reqs, NEW r \in Reqs \ S
  PROVE  Total(S) \in Int /\ Total(S \cup {r}) = Total(S) + Price[r]
<1>1. PICK F : Sums(F, S \cup {r})
  BY SumsExist
<1> DEFINE G == [T \in SUBSET S |-> F[T]]
<1>2. Sums(G, S)
  <2>1. \A T \in SUBSET S : T \in SUBSET (S \cup {r}) /\ F[T] \in Int
    BY <1>1 DEF Sums
  <2>2. \A T \in SUBSET S : \A q \in S \ T : F[T \cup {q}] = F[T] + Price[q] /\ T \cup {q} \in SUBSET S
    BY <1>1 DEF Sums
  <2>3. F[{}] = 0
    BY <1>1 DEF Sums
  <2>4. QED
    BY <2>1, <2>2, <2>3 DEF Sums
<1>3. Total(S) = F[S] /\ F[S] \in Int
  <2>1. G[S] = F[S] /\ G[S] \in Int
    BY <1>2 DEF Sums
  <2> HIDE DEF G
  <2>2. Total(S) = G[S]
    BY <1>2, TotalIsSum
  <2>3. QED
    BY <2>1, <2>2
<1>4. Total(S \cup {r}) = F[S \cup {r}]
  BY <1>1, TotalIsSum
<1>5. F[S \cup {r}] = F[S] + Price[r]
  BY <1>1 DEF Sums
<1>6. QED
  BY <1>3, <1>4, <1>5

-----------------------------------------------------------------------------
(* The money.                                                               *)

\* A loop that is about to refund a bill has found it charged.
Owing(l) == loop[l].op \in {"owed", "refund"} => bill[loop[l].req].status = "charged"

\* What the balance comes to, and who is about to change it.
Accounted == clashed \/ (balance = topped - Total(Owed) /\ \A l \in Loops : Owing(l))

\* What is owed comes to a number, and to the same while no bill changes its status.
LEMMA OwedSame ==
  /\ Total(Owed) \in Int
  /\ (\A q \in Reqs : bill'[q].status = bill[q].status) => Total(Owed)' = Total(Owed)
<1>1. Total(Owed)' = Total(Owed')
  BY DEF Total, MapThenSumSet, MapThenFoldSet
<1>2. (\A q \in Reqs : bill'[q].status = bill[q].status) => Owed' = Owed
  BY DEF Owed
<1>3. Total(Owed) \in Int
  <2>1. PICK F : Sums(F, Owed)
    BY SumsExist DEF Owed
  <2>2. Owed \in SUBSET Reqs /\ F[Owed] \in Int
    BY <2>1 DEF Sums, Owed
  <2>3. QED
    BY <2>1, <2>2, TotalIsSum
<1>4. QED
  BY <1>1, <1>2, <1>3

\* One more bill that is owed, and one less.
LEMMA OwedMoves ==
  ASSUME Typed, NEW r \in Reqs
  PROVE  /\ Total(Owed) \in Int
         /\ bill[r].status = "none" /\ bill' = Billed(r) => Total(Owed)' = Total(Owed) + Price[r]
         /\ bill[r].status = "charged" /\ bill' = Returned(r) =>
              Total(Owed)' = Total(Owed) - Price[r]
         /\ bill' = Linked(r) => Total(Owed)' = Total(Owed)
<1>1. /\ bill \in [Reqs -> BillRow] /\ Owed \in SUBSET Reqs /\ Price[r] \in Int
      /\ \A q \in Reqs : q \in Owed <=> bill[q].status = "charged"
      /\ \A q \in Reqs : q \in Owed' <=> bill'[q].status = "charged"
      /\ Owed' \in SUBSET Reqs
  BY PriceInNat DEF Typed, Owed
<1>2. Total(Owed)' = Total(Owed')
  BY DEF Total, MapThenSumSet, MapThenFoldSet
<1>3. Total(Owed) \in Int
  BY OwedSame
<1>4. ASSUME bill[r].status = "none", bill' = Billed(r)
      PROVE  Total(Owed') = Total(Owed) + Price[r]
  <2>1. \A q \in Reqs : bill'[q].status = IF q = r THEN "charged" ELSE bill[q].status
    BY <1>1, <1>4 DEF Billed, BillRow
  <2>2. Owed' = Owed \cup {r} /\ r \in Reqs \ Owed
    BY <1>1, <1>4, <2>1
  <2>3. QED
    BY <1>1, <2>2, TotalAdds
<1>5. ASSUME bill[r].status = "charged", bill' = Returned(r)
      PROVE  Total(Owed') = Total(Owed) - Price[r]
  <2>1. \A q \in Reqs : bill'[q].status = IF q = r THEN "refunded" ELSE bill[q].status
    BY <1>1, <1>5 DEF Returned, BillRow
  <2>2. Owed = Owed' \cup {r} /\ r \in Reqs \ Owed'
    BY <1>1, <1>5, <2>1
  <2>3. Total(Owed') \in Int /\ Total(Owed' \cup {r}) = Total(Owed') + Price[r]
    BY <1>1, <2>2, TotalAdds
  <2>4. Total(Owed) = Total(Owed') + Price[r]
    BY <2>2, <2>3
  <2>5. QED
    BY <1>1, <2>3, <2>4
<1>6. ASSUME bill' = Linked(r) PROVE Total(Owed)' = Total(Owed)
  <2>1. \A q \in Reqs : bill'[q].status = bill[q].status
    BY <1>1, <1>6 DEF Linked, BillRow
  <2>2. QED
    BY <2>1, OwedSame
<1>7. QED
  BY <1>2, <1>3, <1>4, <1>5, <1>6

LEMMA PostAccounts ==
  ASSUME Typed, BillsSound, Level, Accounted, NEW r \in Reqs, PostStep(r), ~clashed'
  PROVE  Accounted'
<1>f. /\ balance \in Int /\ topped \in Nat /\ post \in [Reqs -> PostRow] /\ Price[r] \in Int
      /\ BillSound(r) /\ Total(Owed) \in Int
  BY PriceInNat, OwedMoves DEF Typed, BillsSound
<1>l. UNCHANGED <<loop, topped>>
  BY DEF PostStep, Check, ReadToCharge, Charge, CreateTask, Refused, Breaks, Link,
         ReadToUndo, Undo, history
<1>1. CASE Charge(r) \/ Undo(r)
  <2>1. ~clashed /\ ~(Dealing > 1) /\ Posting(r)
    BY <1>1 DEF Charge, Undo, Pays, Posting
  <2>2. \A l \in Loops : ~Looping(l)
    BY <2>1, WritesAlone
  <2>3. \A l \in Loops : Owing(l)'
    <3>1. \A l \in Loops : loop[l].op # "owed" /\ loop[l].op # "refund"
      BY <2>2 DEF Looping
    <3>2. QED
      BY <1>l, <3>1 DEF Owing
  <2>4. balance = topped - Total(Owed) /\ PostLevel(r)
    BY <2>1 DEF Accounted, Level
  <2>5. CASE Charge(r)
    <3>1. Total(Owed)' = Total(Owed) + Price[r]
      BY <1>f, <2>5, OwedMoves DEF Charge, BillSound
    <3>2. balance' = balance - Price[r]
      BY <2>4, <2>5 DEF Charge, Pays, PostLevel
    <3>3. balance' = topped' - Total(Owed)'
      BY <1>f, <1>l, <2>4, <3>1, <3>2
    <3>4. QED
      BY <2>3, <3>3 DEF Accounted
  <2>6. CASE Undo(r)
    <3>1. Total(Owed)' = Total(Owed) - Price[r]
      BY <1>f, <2>6, OwedMoves DEF Undo, BillSound
    <3>2. balance' = balance + Price[r]
      BY <2>4, <2>6 DEF Undo, Pays, PostLevel
    <3>3. balance' = topped' - Total(Owed)'
      BY <1>f, <1>l, <2>4, <3>1, <3>2
    <3>4. QED
      BY <2>3, <3>3 DEF Accounted
  <2>7. QED
    BY <1>1, <2>5, <2>6
<1>2. CASE ~(Charge(r) \/ Undo(r))
  <2>1. UNCHANGED <<balance, clashed>> /\ (UNCHANGED bill \/ bill' = Linked(r))
    BY <1>2 DEF PostStep, Check, ReadToCharge, CreateTask, Refused, Breaks, Link,
                ReadToUndo, money, history
  <2>3. \A l \in Loops : Owing(l) => Owing(l)'
    <3>1. \A q \in Reqs : bill'[q].status = bill[q].status
      BY <2>1 DEF Linked, BillRow, Typed
    <3>2. \A l \in Loops : loop[l].op \in {"owed", "refund"} => loop[l].req \in Reqs
      BY DEF Typed, LoopTyped
    <3>3. QED
      BY <1>l, <3>1, <3>2 DEF Owing
  <2>4. Total(Owed)' = Total(Owed)
    BY <2>1, OwedMoves, OwedSame
  <2>5. QED
    BY <1>l, <2>1, <2>3, <2>4 DEF Accounted
<1>3. QED
  BY <1>1, <1>2

LEMMA LoopAccounts ==
  ASSUME Typed, Level, Accounted, NEW l \in Loops, ~clashed',
         LoopStep(l) \/ (\E q \in Reqs : Query(l, q)) \/ (\E a \in TopUps : ReadToRecharge(l, a))
  PROVE  Accounted'
<1>f. /\ balance \in Int /\ topped \in Nat /\ loop \in [Loops -> LoopRow] /\ loop[l] \in LoopRow
      /\ loop[l].op \in {"owed", "refund"} => loop[l].req \in Reqs
  BY DEF Typed, LoopTyped
<1>o. \A k \in Loops \ {l} : loop'[k] = loop[k]
  BY <1>f DEF LoopStep, LookAtBill, ReadToRefund, Refund, Recharge, LoopBreaks, Query, ReadToRecharge
<1>1. CASE Refund(l) \/ Recharge(l)
  <2>1. ~clashed /\ ~(Dealing > 1) /\ Looping(l)
    BY <1>1 DEF Refund, Recharge, Pays, Looping
  <2>2. \A k \in Loops \ {l} : ~Looping(k)
    BY <2>1, WritesAlone
  <2>3. \A k \in Loops : loop'[k].op # "owed" /\ loop'[k].op # "refund"
    <3>1. loop'[l].op = "idle"
      BY <1>f, <1>1 DEF Refund, Recharge, Idle
    <3>2. QED
      BY <1>o, <2>2, <3>1 DEF Looping
  <2>4. \A k \in Loops : Owing(k)'
    BY <2>3 DEF Owing
  <2>5. balance = topped - Total(Owed) /\ LoopLevel(l) /\ Owing(l)
    BY <2>1 DEF Accounted, Level
  <2>6. CASE Refund(l)
    <3>1. PICK q \in Reqs : q = loop[l].req /\ bill[q].status = "charged" /\ bill' = Returned(q)
      BY <1>f, <2>5, <2>6 DEF Refund, Owing
    <3>2. Total(Owed)' = Total(Owed) - Price[q] /\ Total(Owed) \in Int /\ Price[q] \in Int
      BY <3>1, OwedMoves, PriceInNat
    <3>3. balance' = balance + Price[q] /\ topped' = topped
      BY <2>5, <2>6, <3>1 DEF Refund, Pays, LoopLevel
    <3>4. balance' = topped' - Total(Owed)'
      BY <1>f, <2>5, <3>2, <3>3
    <3>5. QED
      BY <2>4, <3>4 DEF Accounted
  <2>7. CASE Recharge(l)
    <3>1. UNCHANGED bill /\ topped' = topped + loop[l].amount /\ balance' = balance + loop[l].amount
      BY <2>5, <2>7 DEF Recharge, Pays, LoopLevel
    <3>2. Total(Owed)' = Total(Owed) /\ Total(Owed) \in Int
      BY <3>1, OwedSame
    <3>3. loop[l].amount \in Int
      BY <1>f DEF LoopRow
    <3>4. balance' = topped' - Total(Owed)'
      BY <1>f, <2>5, <3>1, <3>2, <3>3
    <3>5. QED
      BY <2>4, <3>4 DEF Accounted
  <2>8. QED
    BY <1>1, <2>6, <2>7
<1>2. CASE ~(Refund(l) \/ Recharge(l))
  <2>1. UNCHANGED <<balance, clashed, topped, bill>>
    BY <1>2 DEF LoopStep, LookAtBill, ReadToRefund, LoopBreaks, Query, ReadToRecharge, money, history
  <2>2. \A k \in Loops : Owing(k)
    BY <2>1 DEF Accounted
  <2>3. Owing(l)'
    <3>1. CASE LookAtBill(l)
      BY <1>f, <2>1, <3>1 DEF LookAtBill, LoopRow, Owing, Idle
    <3>2. CASE ReadToRefund(l)
      <4>1. loop'[l].req = loop[l].req /\ loop[l].op = "owed"
        BY <1>f, <3>2 DEF ReadToRefund, LoopRow
      <4>2. QED
        BY <2>1, <2>2, <4>1 DEF Owing
    <3>3. ASSUME NEW q \in Reqs, Query(l, q) PROVE Owing(l)'
      BY <1>f, <3>3 DEF Query, Idle, Owing
    <3>4. ASSUME NEW a \in TopUps, ReadToRecharge(l, a) PROVE Owing(l)'
      <4>1. loop'[l] = [Idle EXCEPT !.op = "recharge", !.amount = a, !.seen = balance]
        BY <1>f, <3>4 DEF ReadToRecharge
      <4>2. QED
        BY <4>1 DEF Owing, Idle
    <3>5. CASE LoopBreaks(l)
      BY <1>f, <3>5 DEF LoopBreaks, Idle, Owing
    <3>6. QED
      BY <1>2, <3>1, <3>2, <3>3, <3>4, <3>5 DEF LoopStep
  <2>4. \A k \in Loops : Owing(k)'
    BY <1>o, <2>1, <2>2, <2>3 DEF Owing
  <2>5. Total(Owed)' = Total(Owed)
    BY <2>1, OwedSame
  <2>6. QED
    BY <2>1, <2>4, <2>5 DEF Accounted
<1>3. QED
  BY <1>1, <1>2

LEMMA AccountedInvariant == Spec => []Accounted
<1>1. Init => Accounted
  <2> SUFFICES ASSUME Init PROVE Accounted
    OBVIOUS
  <2>1. Owed = {} /\ balance = 0 /\ topped = 0
    BY DEF Init, Owed
  <2>2. \A l \in Loops : Owing(l)
    BY DEF Init, Owing, Idle
  <2>3. QED
    BY <2>1, <2>2, TotalEmpty DEF Accounted
<1>2. ASSUME Typed, BillsSound, Level, Accounted, Next PROVE Accounted'
  <2>1. CASE clashed'
    BY <2>1 DEF Accounted
  <2>2. ASSUME (\E r \in Reqs : Work(r) \/ Cancel(r) \/ Retry(r)) \/ Remove
        PROVE  Accounted'
    <3>1. UNCHANGED <<balance, bill, loop, topped, clashed>>
      BY <2>2 DEF Work, Cancel, Retry, Remove, money, history
    <3>2. Total(Owed)' = Total(Owed)
      BY <3>1, OwedSame
    <3>3. QED
      BY <1>2, <3>1, <3>2 DEF Accounted, Owing
  <2>3. CASE Crash
    <3>1. UNCHANGED <<balance, bill, topped, clashed>> /\ \A l \in Loops : loop'[l].op = "idle"
      BY <2>3 DEF Crash, Idle, money
    <3>2. Total(Owed)' = Total(Owed)
      BY <3>1, OwedSame
    <3>3. QED
      BY <1>2, <3>1, <3>2 DEF Accounted, Owing
  <2>4. QED
    BY <1>2, <2>1, <2>2, <2>3, PostAccounts, LoopAccounts DEF Next
<1>3. ASSUME Accounted, UNCHANGED vars PROVE Accounted'
  <2>1. Total(Owed)' = Total(Owed)
    BY <1>3, OwedSame DEF vars
  <2>2. QED
    BY <1>3, <2>1 DEF Accounted, Owing, vars
<1>4. QED
  BY <1>1, <1>2, <1>3, TypedAlways, BillsInvariant, LevelInvariant, PTL DEF Spec

\* Without an overlap of two money transactions no money appears or is lost: the
\* balance is what was recharged less the bills that are not refunded.
THEOREM MoneyAccounted == Spec => []AccountsForBills
<1>1. Accounted => AccountsForBills
  BY DEF Accounted, AccountsForBills, Total
<1>2. QED
  BY <1>1, AccountedInvariant, PTL
=============================================================================
