--------------------------- MODULE LiveTaskProofs ---------------------------
(* Theorems about LiveTask for every value of its constants: whatever the   *)
(* number of tasks a page submits and of requests on their way.             *)
EXTENDS LiveTask, TLAPS

StatusSet == {"pending", "running", "success", "failed", "interrupted", "canceled",
              "none", "removed"}
ToldSet == SUBSET {"success", "error", "not_submitted"}

\* TypeOK with its sets named, but for the requests, which need to know the rows.
Typed ==
  /\ status \in [Tasks -> StatusSet]
  /\ paid \in [Tasks -> Int]
  /\ tracked \in Tasks \cup {None}
  /\ busy \in BOOLEAN
  /\ sock \in [Tasks -> Sock]
  /\ wsOk \in [Tasks -> BOOLEAN]
  /\ inbox \in [Tasks -> Pushed \cup {None}]
  /\ reqs \subseteq Request
  /\ told \in [Tasks -> ToldSet]
  /\ displaced \subseteq Tasks

LEMMA TypedIsTypeOK == Typed => TypeOK
BY DEF Typed, TypeOK, StatusSet, ToldSet, Server!Shown, Server!Ended

\* Task t ended as s, or its row is cleared: no step of the service undoes that.
Settled(t, s) == status[t] \in {s, "removed"}

\* What the page knows, and what is on its way to it, is about tasks that exist
\* and says how they ended.
RequestSound(r) ==
  /\ status[r.task] # "none"
  /\ r.event # None => Settled(r.task, r.event)
  /\ r.kind = "detail" => r.event # None
  /\ r.answer # None /\ r.answer \in Ended => Settled(r.task, r.answer)

NewsSound ==
  /\ \A t \in Tasks : inbox[t] # None => Settled(t, inbox[t])
  /\ \A r \in reqs : RequestSound(r)
  /\ tracked \in Tasks => status[tracked] # "none"

IInv == Typed /\ SocketsFollowTracking /\ NewsSound /\ ToldTruly

-----------------------------------------------------------------------------
(* The service                                                              *)

\* A step of the service, or none.
Moves ==
  \/ \E t \in Tasks : \/ Server!Submit(t) \/ Server!Begin(t) \/ Server!Deliver(t)
                      \/ Server!Fail(t) \/ Server!Again(t) \/ Server!Cancel(t)
  \/ Server!Interrupt
  \/ Server!Remove
  \/ UNCHANGED <<status, paid>>

\* An end is only ever cleared, and a row that was made is never unmade.
Steady ==
  \A t \in Tasks :
    /\ status[t] \in Ended \cup {"removed"} => status'[t] \in {status[t], "removed"}
    /\ status[t] # "none" => status'[t] # "none"

LEMMA ServiceSteps ==
  ASSUME Typed, Moves
  PROVE  status' \in [Tasks -> StatusSet] /\ paid' \in [Tasks -> Int] /\ Steady
<1>0. status \in [Tasks -> StatusSet] /\ paid \in [Tasks -> Int]
  BY DEF Typed
<1>1. ASSUME NEW t \in Tasks,
             \/ Server!Submit(t) \/ Server!Begin(t) \/ Server!Deliver(t)
             \/ Server!Fail(t) \/ Server!Again(t) \/ Server!Cancel(t)
      PROVE  status' \in [Tasks -> StatusSet] /\ paid' \in [Tasks -> Int] /\ Steady
  <2>1. \E from \in SUBSET {"none", "pending", "running"}, to \in StatusSet \ {"none"} :
          Server!Becomes(t, from, to)
    BY <1>1 DEF StatusSet, Server!Submit, Server!Begin, Server!Deliver, Server!Fail,
                Server!Again, Server!Cancel
  <2>2. status' \in [Tasks -> StatusSet] /\ Steady
    BY <1>0, <2>1 DEF Server!Becomes, Steady, Ended
  <2>3. paid' \in [Tasks -> Int]
    BY <1>0, <1>1 DEF Server!Submit, Server!Begin, Server!Deliver, Server!Fail,
                      Server!Again, Server!Cancel, Server!Pays
  <2>4. QED
    BY <2>2, <2>3
<1>2. CASE Server!Interrupt
  BY <1>0, <1>2 DEF Server!Interrupt, StatusSet, Steady, Ended
<1>3. CASE Server!Remove
  BY <1>0, <1>3 DEF Server!Remove, StatusSet, Steady, Ended
<1>4. CASE UNCHANGED <<status, paid>>
  BY <1>0, <1>4 DEF Steady
<1>5. QED
  BY <1>1, <1>2, <1>3, <1>4 DEF Moves

\* What was settled stays settled, and what the page was told stays true.
LEMMA SettledStays ==
  ASSUME Steady, NEW t \in Tasks, NEW s \in Ended, Settled(t, s)
  PROVE  Settled(t, s)'
BY DEF Steady, Settled, Ended

LEMMA SoundStays ==
  ASSUME Typed, Steady, NEW r \in Request, RequestSound(r)
  PROVE  RequestSound(r)'
<1>1. r.task \in Tasks /\ r.event \in Pushed \cup {None}
  BY DEF Request
<1>2. status'[r.task] # "none"
  BY <1>1 DEF Steady, RequestSound
<1>3. r.event # None => Settled(r.task, r.event)'
  BY <1>1, SettledStays DEF RequestSound, Pushed, Ended
<1>4. r.answer # None /\ r.answer \in Ended => Settled(r.task, r.answer)'
  BY <1>1, SettledStays DEF RequestSound
<1>5. QED
  BY <1>2, <1>3, <1>4 DEF RequestSound

LEMMA TruthStays ==
  ASSUME Steady, ToldTruly, UNCHANGED told
  PROVE  ToldTruly'
BY DEF Steady, ToldTruly, Ended

\* A step that adds nothing to the news keeps it sound.
LEMMA NewsStays ==
  ASSUME Typed, Steady, NewsSound,
         \A t \in Tasks : inbox'[t] \in {inbox[t], None},
         \A r \in reqs' : r \in reqs \/ (r \in Request /\ RequestSound(r)'),
         tracked' \in {tracked, None}
  PROVE  NewsSound'
<1>1. ASSUME NEW t \in Tasks, inbox'[t] # None PROVE Settled(t, inbox[t])'
  BY <1>1, SettledStays DEF Typed, NewsSound, Pushed, Ended
<1>2. ASSUME NEW r \in reqs' PROVE RequestSound(r)'
  BY SoundStays DEF Typed, NewsSound
<1>3. tracked' \in Tasks => status'[tracked'] # "none"
  BY NoneIsNoTask DEF NewsSound, Steady, Tasks
<1>4. ASSUME NEW t \in Tasks, inbox'[t] # None PROVE Settled(t, inbox[t])' /\ inbox'[t] = inbox[t]
  BY <1>1, <1>4
<1>5. QED
  BY <1>2, <1>3, <1>4 DEF NewsSound
-----------------------------------------------------------------------------
(* The sockets and the service: nothing new is asked or told.               *)

LEMMA TasksKnown == None \notin Tasks
BY NoneIsNoTask DEF Tasks

LEMMA SocketSteps ==
  ASSUME IInv, NEW t \in Tasks, Join(t) \/ Open(t) \/ Lose(t) \/ Reconnect(t)
  PROVE  IInv'
<1>0. Typed /\ SocketsFollowTracking /\ NewsSound /\ ToldTruly
  BY DEF IInv
<1>1. /\ UNCHANGED <<status, paid, reqs, tracked, busy, told, displaced>>
      /\ inbox' \in {inbox, [inbox EXCEPT ![t] = None]}
  BY DEF Join, Open, Lose, Reconnect, hookVars
<1>2. Steady
  BY <1>0, <1>1, ServiceSteps DEF Moves
<1>3. sock' \in [Tasks -> Sock] /\ wsOk' \in [Tasks -> BOOLEAN]
  BY <1>0 DEF Typed, Join, Open, Lose, Reconnect, Sock, Dropped, hookVars
<1>4. Typed'
  BY <1>0, <1>1, <1>3 DEF Typed
<1>5. SocketsFollowTracking'
  <2> SUFFICES ASSUME NEW u \in Tasks
               PROVE  /\ (sock'[u] \in Held) <=> (tracked = u)
                      /\ tracked = u => (wsOk'[u] <=> sock'[u] = "open")
    BY <1>1 DEF SocketsFollowTracking
  <2>1. /\ (sock[u] \in Held) <=> (tracked = u)
        /\ tracked = u => (wsOk[u] <=> sock[u] = "open")
    BY <1>0 DEF SocketsFollowTracking
  <2>2. sock \in [Tasks -> Sock] /\ wsOk \in [Tasks -> BOOLEAN]
    BY <1>0 DEF Typed
  <2>3. CASE Join(t)
    BY <2>1, <2>2, <2>3 DEF Join, Held, hookVars
  <2>4. CASE Open(t)
    BY <2>1, <2>2, <2>4 DEF Open, Held
  <2>5. CASE Lose(t)
    BY <2>1, <2>2, <2>5 DEF Lose, Held, Dropped
  <2>6. CASE Reconnect(t)
    BY <2>1, <2>2, <2>6 DEF Reconnect, Held, hookVars
  <2>7. QED
    BY <2>3, <2>4, <2>5, <2>6
<1>6. NewsSound'
  <2>1. \A u \in Tasks : inbox'[u] \in {inbox[u], None}
    BY <1>0, <1>1 DEF Typed
  <2>2. QED
    BY <1>0, <1>1, <1>2, <2>1, NewsStays
<1>7. ToldTruly'
  BY <1>0, <1>1, <1>2, TruthStays
<1>8. QED
  BY <1>4, <1>5, <1>6, <1>7 DEF IInv

LEMMA ServiceKeeps ==
  ASSUME IInv, (\E t \in Tasks : Work(t) \/ End(t)) \/ Restart \/ Cleanup
  PROVE  IInv'
<1>0. Typed /\ SocketsFollowTracking /\ NewsSound /\ ToldTruly
  BY DEF IInv
<1>1. Moves /\ UNCHANGED <<reqs, tracked, busy, told, displaced>>
  BY DEF Moves, Work, End, Restart, Cleanup, hookVars
<1>2. status' \in [Tasks -> StatusSet] /\ paid' \in [Tasks -> Int] /\ Steady
  BY <1>0, <1>1, ServiceSteps
<1>3. ToldTruly'
  BY <1>0, <1>1, <1>2, TruthStays
<1>4. ASSUME UNCHANGED <<sock, wsOk>>,
             inbox' \in [Tasks -> Pushed \cup {None}],
             \A u \in Tasks : inbox'[u] \in {inbox[u], None} \/ Settled(u, inbox[u])'
      PROVE  IInv'
  <2>1. Typed'
    BY <1>0, <1>1, <1>2, <1>4 DEF Typed
  <2>2. SocketsFollowTracking'
    BY <1>0, <1>1, <1>4 DEF SocketsFollowTracking
  <2>3. \A u \in Tasks : inbox'[u] # None => Settled(u, inbox[u])'
    <3>1. ASSUME NEW u \in Tasks, inbox'[u] = inbox[u], inbox'[u] # None
          PROVE  Settled(u, inbox[u])'
      <4>1. inbox[u] \in Ended /\ Settled(u, inbox[u])
        BY <1>0, <3>1 DEF Typed, NewsSound, Pushed, Ended
      <4>2. QED
        BY <1>2, <3>1, <4>1 DEF Steady, Settled
    <3>2. QED
      BY <1>4, <3>1
  <2>4. \A r \in reqs' : RequestSound(r)'
    BY <1>0, <1>1, <1>2, SoundStays DEF Typed, NewsSound
  <2>5. NewsSound'
    BY <1>0, <1>1, <1>2, <2>3, <2>4 DEF NewsSound, Steady
  <2>6. QED
    BY <1>3, <2>1, <2>2, <2>5 DEF IInv
<1>5. CASE (\E t \in Tasks : Work(t)) \/ Cleanup
  BY <1>0, <1>4, <1>5 DEF Work, Cleanup, hookVars, Typed
<1>6. ASSUME NEW t \in Tasks, End(t) PROVE IInv'
  <2>1. PICK e \in Pushed : status'[t] = e /\ Push(t, e)
    BY <1>0, <1>6 DEF End, Pushed, Typed, Server!Deliver, Server!Fail, Server!Cancel,
                      Server!Becomes
  <2>2. UNCHANGED <<sock, wsOk>>
    BY <1>6 DEF End, hookVars
  <2>3. /\ inbox' \in [Tasks -> Pushed \cup {None}]
        /\ \A u \in Tasks : inbox'[u] \in {inbox[u], None} \/ Settled(u, inbox[u])'
    BY <1>0, <2>1 DEF Push, Typed, Settled
  <2>4. QED
    BY <1>4, <2>2, <2>3
<1>7. CASE Restart
  <2>1. /\ sock' = [u \in Tasks |-> Dropped(sock[u])]
        /\ wsOk' = [u \in Tasks |-> FALSE]
        /\ inbox' = [u \in Tasks |-> None]
    BY <1>7 DEF Restart
  <2>2. Typed'
    BY <1>0, <1>1, <1>2, <2>1 DEF Typed, Sock, Dropped
  <2>3. SocketsFollowTracking'
    BY <1>0, <1>1, <2>1 DEF SocketsFollowTracking, Typed, Sock, Held, Dropped
  <2>4. NewsSound'
    BY <1>0, <1>1, <1>2, <2>1, NewsStays DEF Typed
  <2>5. QED
    BY <1>3, <2>2, <2>3, <2>4 DEF IInv
<1>8. QED
  BY <1>5, <1>6, <1>7

-----------------------------------------------------------------------------
(* The hook                                                                 *)

\* Whoever takes over the tracking, or nobody, the other sockets are let go.
LEMMA ResubscribedFollows ==
  ASSUME Typed, SocketsFollowTracking, NEW next \in Tasks \cup {None}, Resubscribed(next),
         tracked' = next,
         wsOk' \in [Tasks -> BOOLEAN],
         next \in Tasks => wsOk'[next] = FALSE
  PROVE  /\ sock' \in [Tasks -> Sock] /\ inbox' \in [Tasks -> Pushed \cup {None}]
         /\ \A t \in Tasks : inbox'[t] \in {inbox[t], None}
         /\ SocketsFollowTracking'
<1>0. sock \in [Tasks -> Sock] /\ inbox \in [Tasks -> Pushed \cup {None}]
  BY DEF Typed
<1>1. /\ sock' \in [Tasks -> Sock] /\ inbox' \in [Tasks -> Pushed \cup {None}]
      /\ \A t \in Tasks : inbox'[t] \in {inbox[t], None}
  BY <1>0 DEF Resubscribed, Sock, Left
<1>2. ASSUME NEW t \in Tasks
      PROVE  /\ (sock'[t] \in Held) <=> (tracked' = t)
             /\ tracked' = t => (wsOk'[t] <=> sock'[t] = "open")
  <2>1. sock'[t] = IF t = next THEN "connecting"
                   ELSE IF t = tracked THEN Left(sock[t]) ELSE sock[t]
    BY DEF Resubscribed
  <2>2. (sock[t] \in Held) <=> (tracked = t)
    BY DEF SocketsFollowTracking
  <2>3. (sock'[t] \in Held) <=> (t = next)
    BY <2>1, <2>2 DEF Held, Left
  <2>4. t = next => sock'[t] = "connecting" /\ wsOk'[t] = FALSE
    BY <2>1
  <2>5. QED
    BY <2>3, <2>4
<1>3. QED
  BY <1>1, <1>2 DEF SocketsFollowTracking

\* The requests of the hook are about rows that exist.
LEMMA AskedSound ==
  ASSUME Typed, NEW t \in Tasks, status[t] # "none", NEW k \in {"post", "poll"}
  PROVE  Asked(t, k, None) \in Request /\ RequestSound(Asked(t, k, None))
BY DEF Asked, Request, RequestSound

\* Requests come and go while the service, the sockets and the page stand still.
LEMMA RequestSteps ==
  ASSUME IInv,
         UNCHANGED <<status, paid, sock, wsOk, tracked, told, displaced>>,
         busy' \in BOOLEAN,
         inbox' \in [Tasks -> Pushed \cup {None}],
         \A t \in Tasks : inbox'[t] \in {inbox[t], None},
         \A r \in reqs' : r \in reqs \/ (r \in Request /\ RequestSound(r))
  PROVE  IInv'
<1>0. Typed /\ SocketsFollowTracking /\ NewsSound /\ ToldTruly
  BY DEF IInv
<1>1. Steady
  BY <1>0, ServiceSteps DEF Moves
<1>2. Typed'
  BY <1>0 DEF Typed
<1>3. \A r \in reqs' : r \in reqs \/ (r \in Request /\ RequestSound(r)')
  BY DEF RequestSound, Settled
<1>4. NewsSound'
  BY <1>0, <1>1, <1>3, NewsStays
<1>5. QED
  BY <1>0, <1>2, <1>4 DEF IInv, SocketsFollowTracking, ToldTruly

\* finish says what its caller knows of t.
LEMMA FinishKeeps ==
  ASSUME IInv, NEW t \in Tasks, NEW s \in Ended, Settled(t, s), Finish(t, Outcome(s)),
         UNCHANGED <<status, paid>>, reqs' \subseteq reqs
  PROVE  IInv'
<1>0. Typed /\ SocketsFollowTracking /\ NewsSound /\ ToldTruly
  BY DEF IInv
<1>1. CASE tracked = None
  <2>1. UNCHANGED <<sock, inbox, tracked, busy, wsOk, told, displaced>>
    BY <1>1 DEF Finish, hookVars
  <2>2. QED
    BY <1>0, <2>1, RequestSteps DEF Typed
<1>2. CASE tracked # None
  <2>1. /\ tracked' = None /\ busy' = FALSE
        /\ told' = [told EXCEPT ![t] = @ \cup {Outcome(s)}]
        /\ displaced' = IF tracked = t THEN displaced ELSE displaced \cup {tracked}
        /\ Resubscribed(None) /\ UNCHANGED wsOk
    BY <1>2 DEF Finish
  <2>2. /\ sock' \in [Tasks -> Sock] /\ inbox' \in [Tasks -> Pushed \cup {None}]
        /\ \A u \in Tasks : inbox'[u] \in {inbox[u], None}
        /\ SocketsFollowTracking'
    BY <1>0, <2>1, TasksKnown, ResubscribedFollows DEF Typed
  <2>3. Outcome(s) \in {"success", "error"}
    BY DEF Outcome
  <2>4. Typed'
    <3>1. told' \in [Tasks -> ToldSet]
      BY <1>0, <2>1, <2>3 DEF Typed, ToldSet
    <3>2. displaced' \subseteq Tasks
      BY <1>0, <1>2, <2>1 DEF Typed
    <3>3. QED
      BY <1>0, <2>1, <2>2, <3>1, <3>2 DEF Typed
  <2>5. Steady
    BY <1>0, ServiceSteps DEF Moves
  <2>6. NewsSound'
    BY <1>0, <2>1, <2>2, <2>5, NewsStays DEF Typed
  <2>7. ToldTruly'
    BY <1>0, <2>1 DEF ToldTruly, Typed, Settled, Outcome, Ended
  <2>8. QED
    BY <2>2, <2>4, <2>6, <2>7 DEF IInv
<1>3. QED
  BY <1>1, <1>2

\* A submission makes a row and asks for it.
LEMMA SubmitKeeps ==
  ASSUME IInv, NEW t \in Tasks, Submit(t)
  PROVE  IInv'
<1>0. Typed /\ SocketsFollowTracking /\ NewsSound /\ ToldTruly
  BY DEF IInv
<1>1. /\ Server!Submit(t) /\ busy' = TRUE /\ reqs' = reqs \cup {Asked(t, "post", None)}
      /\ UNCHANGED <<sock, inbox, tracked, wsOk, told, displaced>>
  BY DEF Submit
<1>2. status' \in [Tasks -> StatusSet] /\ paid' \in [Tasks -> Int] /\ Steady
  BY <1>0, <1>1, ServiceSteps DEF Moves
<1>3. status'[t] # "none"
  BY <1>0, <1>1 DEF Typed, Server!Submit, Server!Becomes
<1>4. Asked(t, "post", None) \in Request /\ RequestSound(Asked(t, "post", None))'
  BY <1>3 DEF Asked, Request, RequestSound
<1>5. Typed'
  BY <1>0, <1>1, <1>2, <1>4 DEF Typed
<1>6. NewsSound'
  BY <1>0, <1>1, <1>2, <1>4, NewsStays
<1>7. ToldTruly'
  BY <1>0, <1>1, <1>2, TruthStays
<1>8. QED
  BY <1>0, <1>1, <1>5, <1>6, <1>7 DEF IInv, SocketsFollowTracking

\* The POST is answered: its task takes over the tracking.
LEMMA StartKeeps ==
  ASSUME IInv, NEW r \in reqs, Start(r)
  PROVE  IInv'
<1>0. Typed /\ SocketsFollowTracking /\ NewsSound /\ ToldTruly
  BY DEF IInv
<1>1. r.task \in Tasks /\ status[r.task] # "none"
  BY <1>0 DEF Typed, Request, NewsSound, RequestSound
<1>2. /\ tracked' = r.task /\ wsOk' = [wsOk EXCEPT ![r.task] = FALSE]
      /\ Resubscribed(r.task)
      /\ reqs' = (reqs \ {r}) \cup {Asked(r.task, "poll", None)}
      /\ UNCHANGED <<status, paid, busy, told, displaced>>
  BY DEF Start
<1>3. wsOk' \in [Tasks -> BOOLEAN] /\ wsOk'[r.task] = FALSE
  BY <1>0, <1>1, <1>2 DEF Typed
<1>4. /\ sock' \in [Tasks -> Sock] /\ inbox' \in [Tasks -> Pushed \cup {None}]
      /\ \A u \in Tasks : inbox'[u] \in {inbox[u], None}
      /\ SocketsFollowTracking'
  BY <1>0, <1>1, <1>2, <1>3, ResubscribedFollows
<1>5. Asked(r.task, "poll", None) \in Request /\ RequestSound(Asked(r.task, "poll", None))
  BY <1>0, <1>1, AskedSound
<1>6. Typed'
  BY <1>0, <1>1, <1>2, <1>3, <1>4, <1>5 DEF Typed
<1>7. \A q \in reqs' : RequestSound(q)'
  BY <1>0, <1>2, <1>5 DEF NewsSound, RequestSound, Settled
<1>8. NewsSound'
  BY <1>0, <1>1, <1>2, <1>4, <1>7 DEF NewsSound, Settled
<1>9. QED
  BY <1>0, <1>2, <1>4, <1>6, <1>8 DEF IInv, ToldTruly

\* Without its answer the page is told that nothing was submitted.
LEMMA TimesOutKeeps ==
  ASSUME IInv, NEW r \in reqs, SubmitTimesOut(r)
  PROVE  IInv'
<1>0. Typed /\ SocketsFollowTracking /\ NewsSound /\ ToldTruly
  BY DEF IInv
<1>1. /\ reqs' = reqs \ {r} /\ busy' = FALSE
      /\ told' = [told EXCEPT ![r.task] = @ \cup {"not_submitted"}]
      /\ UNCHANGED <<status, paid, sock, inbox, tracked, wsOk, displaced>>
  BY DEF SubmitTimesOut
<1>2. Typed'
  <2>1. told' \in [Tasks -> ToldSet]
    BY <1>0, <1>1 DEF Typed, ToldSet
  <2>2. QED
    BY <1>0, <1>1, <2>1 DEF Typed
<1>3. NewsSound'
  BY <1>0, <1>1 DEF NewsSound, RequestSound, Settled
<1>4. ToldTruly'
  BY <1>0, <1>1 DEF ToldTruly, Typed
<1>5. QED
  BY <1>0, <1>1, <1>2, <1>3, <1>4 DEF IInv, SocketsFollowTracking

LEMMA AsksKeep ==
  ASSUME IInv, NEW t \in Tasks, Poll(t) \/ Message(t)
  PROVE  IInv'
<1>0. Typed /\ NewsSound
  BY DEF IInv
<1>1. CASE Poll(t)
  <2>1. Asked(t, "poll", None) \in Request /\ RequestSound(Asked(t, "poll", None))
    BY <1>0, <1>1, AskedSound DEF Poll, NewsSound
  <2>2. QED
    BY <1>0, <1>1, <2>1, RequestSteps DEF Poll, Typed, hookVars
<1>2. CASE Message(t)
  <2>1. inbox[t] \in Pushed /\ Settled(t, inbox[t])
    BY <1>0, <1>2 DEF Message, Typed, NewsSound
  <2>2. Asked(t, "detail", inbox[t]) \in Request /\ RequestSound(Asked(t, "detail", inbox[t]))
    BY <1>2, <2>1 DEF Message, Asked, Request, RequestSound, Settled, Pushed
  <2>3. QED
    BY <1>0, <1>2, <2>2, RequestSteps DEF Message, Typed, hookVars
<1>3. QED
  BY <1>1, <1>2

LEMMA AnswersKeep ==
  ASSUME IInv, NEW r \in reqs,
         Answer(r) \/ PollArrives(r) \/ PollFails(r) \/ DetailArrives(r)
  PROVE  IInv'
<1>0. Typed /\ NewsSound /\ r \in Request /\ RequestSound(r)
  BY DEF IInv, Typed, NewsSound
<1>1. r.task \in Tasks /\ r.event \in Pushed \cup {None}
  BY <1>0 DEF Request
<1>2. CASE Answer(r)
  <2> DEFINE q == [r EXCEPT !.answer = status[r.task]]
  <2>1. status[r.task] \in Server!Shown \cup {"removed"}
    BY <1>0, <1>1 DEF Typed, StatusSet, RequestSound, Server!Shown, Server!Ended
  <2>2. q \in Request /\ RequestSound(q)
    BY <1>0, <2>1 DEF Request, RequestSound, Settled
  <2>3. QED
    BY <1>0, <1>2, <2>2, RequestSteps DEF Answer, Typed, hookVars
<1>3. CASE PollArrives(r)
  <2>1. UNCHANGED <<status, paid>> /\ reqs' = reqs \ {r} /\ r.answer # None
    BY <1>3 DEF PollArrives
  <2>2. CASE r.answer \in Final
    <3>1. r.answer \in Ended /\ Settled(r.task, r.answer)
      BY <1>0, <2>1, <2>2 DEF Final, Ended, RequestSound
    <3>2. QED
      BY <1>1, <1>3, <2>1, <2>2, <3>1, FinishKeeps DEF PollArrives
  <2>3. CASE r.answer \notin Final
    BY <1>0, <1>3, <2>1, <2>3, RequestSteps DEF PollArrives, Typed, hookVars
  <2>4. QED
    BY <2>2, <2>3
<1>4. CASE PollFails(r)
  BY <1>0, <1>4, RequestSteps DEF PollFails, Typed, hookVars
<1>5. CASE DetailArrives(r)
  <2>1. r.event \in Ended /\ Settled(r.task, r.event)
    BY <1>0, <1>1, <1>5 DEF DetailArrives, RequestSound, Pushed, Ended
  <2>2. QED
    BY <1>1, <1>5, <2>1, FinishKeeps DEF DetailArrives
<1>6. QED
  BY <1>2, <1>3, <1>4, <1>5

-----------------------------------------------------------------------------
LEMMA Invariant == Spec => []IInv
<1>1. Init => IInv
  <2>1. ASSUME Init PROVE Typed
    <3>1. /\ status \in [Tasks -> StatusSet] /\ paid \in [Tasks -> Int]
          /\ sock \in [Tasks -> Sock] /\ wsOk \in [Tasks -> BOOLEAN]
          /\ inbox \in [Tasks -> Pushed \cup {None}] /\ told \in [Tasks -> ToldSet]
      BY <2>1 DEF Init, Server!Init, StatusSet, Sock, ToldSet
    <3>2. /\ tracked \in Tasks \cup {None} /\ busy \in BOOLEAN
          /\ reqs \subseteq Request /\ displaced \subseteq Tasks
      BY <2>1 DEF Init
    <3>3. QED
      BY <3>1, <3>2 DEF Typed
  <2>2. ASSUME Init PROVE SocketsFollowTracking
    BY <2>2, TasksKnown DEF Init, SocketsFollowTracking, Held
  <2>3. ASSUME Init PROVE NewsSound /\ ToldTruly
    BY <2>3, TasksKnown DEF Init, NewsSound, ToldTruly
  <2>4. QED
    BY <2>1, <2>2, <2>3 DEF IInv
<1>2. ASSUME IInv, Next PROVE IInv'
  <2>1. ASSUME NEW t \in Tasks,
               \/ Submit(t) \/ Work(t) \/ End(t) \/ Join(t) \/ Open(t) \/ Lose(t)
               \/ Reconnect(t) \/ Poll(t) \/ Message(t)
        PROVE  IInv'
    BY <1>2, <2>1, SubmitKeeps, ServiceKeeps, SocketSteps, AsksKeep
  <2>2. ASSUME NEW r \in reqs,
               \/ Start(r) \/ PollArrives(r) \/ DetailArrives(r)
               \/ Answer(r) \/ SubmitTimesOut(r) \/ PollFails(r)
        PROVE  IInv'
    BY <1>2, <2>2, StartKeeps, AnswersKeep, TimesOutKeeps
  <2>3. CASE Restart \/ Cleanup
    BY <1>2, <2>3, ServiceKeeps
  <2>4. QED
    BY <1>2, <2>1, <2>2, <2>3 DEF Next, Arrives
<1>3. ASSUME IInv, UNCHANGED vars PROVE IInv'
  BY <1>3 DEF vars, hookVars, IInv, Typed, SocketsFollowTracking, NewsSound, RequestSound,
     Settled, ToldTruly
<1>4. QED
  BY <1>1, <1>2, <1>3, PTL DEF Spec

\* Every state of the page and the service has the types of TypeOK: above all, no
\* request is ever about a row that does not exist.
THEOREM TypeCorrect == Spec => []TypeOK
<1>1. IInv => TypeOK
  BY TypedIsTypeOK DEF IInv
<1>2. QED
  BY <1>1, Invariant, PTL

\* The hook holds the socket of the task it tracks and no other, and has stopped
\* polling exactly while that socket is open: for any number of tasks.
THEOREM SocketsAreGivenBack == Spec => []SocketsFollowTracking
<1>1. IInv => SocketsFollowTracking
  BY DEF IInv
<1>2. QED
  BY <1>1, Invariant, PTL

\* Whatever is lost, late or overtaken, the page is told success of a task that
\* succeeded and an error of a task that did not.
THEOREM NewsIsTrue == Spec => []ToldTruly
<1>1. IInv => ToldTruly
  BY DEF IInv
<1>2. QED
  BY <1>1, Invariant, PTL
=============================================================================
