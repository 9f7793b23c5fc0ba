----------------------------- MODULE ChatPages -----------------------------
(***************************************************************************)
(* The conversation pages of the frontend, one open at a time:             *)
(*   "chat"       pages/ChatPage.jsx          @mentions, streams or calls  *)
(*   "agent"      pages/AgentExecutePage.jsx  sessions of one agent        *)
(*   "workspace"  pages/AIWorkspacePage.jsx   one tab of the stages        *)
(*   "assistant"  components/FloatingAssistant.jsx                         *)
(*   "voice"      pages/VoiceChatPage.jsx                                  *)
(* with the SSE client lib/sse.js and the service's side of a stream       *)
(* (chat_engine.py). A handler runs until its next await; what it does     *)
(* after an answer is an action of its own. A text is the set of asks      *)
(* whose answers it was put together from.                                 *)
(***************************************************************************)
EXTENDS Integers, Sequences, FiniteSets

CONSTANTS
  Pages,     \* the pages considered, a subset of PageNames
  Convs,     \* ids of conversations (sessions)
  None,      \* no conversation, no stream
  MaxAsks,   \* bound: messages sent and answers retried
  MaxInPlay  \* bound: those, and loads, creations and deletions in flight

PageNames == {"chat", "agent", "workspace", "assistant", "voice"}

ASSUME PagesKnown == Pages \subseteq PageNames
ASSUME NoneIsNoConv == None \notin Convs /\ None \notin Nat
ASSUME BoundsInNat == MaxAsks \in Nat /\ MaxInPlay \in Nat

VARIABLES
  page,     \* the page that is open
  shown,    \* messages
  current,  \* activeConversationId, currentSession
  busy,     \* sending, loading
  handle,   \* abortRef: the ask whose stream the stop button ends
  asks,     \* what became of each message sent
  convs,    \* the service's conversations
  stored,   \* the service's rows in messages, per conversation
  calls,    \* the page's other calls in flight
  clues     \* history: what the user did that excuses a mix-up

vars == <<page, shown, current, busy, handle, asks, convs, stored, calls, clues>>

Ids == 1..MaxAsks
Phases == {"idle", "create", "persist", "stream", "said", "closing", "cut",
           "run", "keep", "speak", "thrown", "done"}
Asks == [pc : Phases, kind : {"one", "many"}, q : Ids, conv : Convs \cup {None}]
Messages == [who : {"user", "bot", "fault"}, ask : Ids, from : SUBSET Ids,
             live : BOOLEAN, bad : BOOLEAN]
Rows == [who : {"user", "bot"}, ask : Ids]
Calls == [op : {"load", "new", "delete"}, conv : Convs \cup {None},
          at : Convs \cup {None}, read : BOOLEAN, rows : Seq(Rows)]

-----------------------------------------------------------------------------
(* Messages and the stream's callbacks.                                    *)

User(n)   == [who |-> "user", ask |-> n, from |-> {}, live |-> FALSE, bad |-> FALSE]
Bubble(n) == [who |-> "bot", ask |-> n, from |-> {}, live |-> TRUE, bad |-> FALSE]
Reply(n)  == [who |-> "bot", ask |-> n, from |-> {n}, live |-> FALSE, bad |-> FALSE]
Sorry(n)  == [who |-> "bot", ask |-> n, from |-> {}, live |-> FALSE, bad |-> FALSE]
Fault(n)  == [who |-> "fault", ask |-> n, from |-> {}, live |-> FALSE, bad |-> TRUE]

\* A stored conversation as the page shows it.
FromRowSwapped(r) == IF r.who = "user" THEN Reply(r.ask) ELSE User(r.ask)
FromRow(r) == IF r.who = "user" THEN User(r.ask) ELSE Reply(r.ask)
Loaded(rows) == [i \in DOMAIN rows |-> FromRow(rows[i])]

\* patchStream touches the last message, and only while it is streaming.
Streaming(s) == s # <<>> /\ s[Len(s)].live
Grown(s, n) ==
  IF Streaming(s) THEN [s EXCEPT ![Len(s)].from = @ \cup {n}] ELSE s
\* A plausible slip of the done event: the text is set, the cursor stays.
FinishedStillLive(s, n) ==
  IF Streaming(s) THEN [s EXCEPT ![Len(s)].from = {n}] ELSE s
Finished(s, n) ==
  IF Streaming(s) THEN [s EXCEPT ![Len(s)].from = {n}, ![Len(s)].live = FALSE] ELSE s
Failed(s) ==
  IF Streaming(s) THEN [s EXCEPT ![Len(s)].bad = TRUE, ![Len(s)].live = FALSE] ELSE s
Halted(s) ==
  IF Streaming(s) THEN [s EXCEPT ![Len(s)].live = FALSE] ELSE s

Fresh == Cardinality({n \in Ids : asks[n].pc # "idle"}) + 1
Room == Fresh + Cardinality(calls) <= MaxInPlay
UnderWay == {n \in Ids : asks[n].pc \notin {"idle", "cut", "thrown", "done"}}
Begun(n, pc, kind, q) == [asks EXCEPT ![n] = [pc |-> pc, kind |-> kind, q |-> q, conv |-> current]]
Moves(n, pc) == asks' = [asks EXCEPT ![n].pc = pc]

\* The rows of c, if there is one, once the service was told to add one: the write
\* may fail, which neither the page nor the stream reports.
Added(c, row) ==
  {stored} \cup {[stored EXCEPT ![d] = Append(@, row)] : d \in {c} \cap Convs}

\* History: questions under way when what is shown was replaced (or retried while
\* another session was being opened or while still under way, as after a stop that
\* came too early), questions that were not stored, calls that overlapped, a stop
\* before the stream had started, a retried answer that was not the last message,
\* and questions whose stream ended without done or error.
NoClues == [moved |-> {}, unsaved |-> {}, crossed |-> FALSE, hasty |-> FALSE,
            buried |-> FALSE, lost |-> {}]
MovedOn == [clues EXCEPT !.moved = @ \cup {asks[n].q : n \in UnderWay}]

Init ==
  /\ page \in Pages
  /\ shown = <<>> /\ current = None /\ busy = FALSE /\ handle = None
  /\ asks = [n \in Ids |-> [pc |-> "idle", kind |-> "one", q |-> n, conv |-> None]]
  /\ convs \in IF page \in {"chat", "agent"} THEN [Convs -> {"unborn", "listed"}]
               ELSE {[c \in Convs |-> "unborn"]}
  /\ stored = [c \in Convs |-> <<>>]
  /\ calls = {} /\ clues = NoClues

-----------------------------------------------------------------------------
(* Sending.                                                                *)

\* What a send needs: the sending flag is the only thing that keeps two apart.
MaySendAnyway == Fresh \in Ids /\ Room
MaySend == ~busy /\ Fresh \in Ids /\ Room

\* ChatPage creates a conversation first if none is open and the user has an agent
\* to create it for; without one only teams and workflows are asked, and nothing
\* is stored.
FirstSteps(kind) ==
  IF current # None THEN {"persist"}
  ELSE {"create"} \cup {pc \in {"run"} : kind = "many"}

\* ChatPage: the message shows at once, then it is stored, then the agents run.
ChatSends(base, kind) ==
  /\ page = "chat" /\ MaySend
  /\ shown' = Append(base, User(Fresh)) /\ busy' = TRUE
  /\ \E pc \in FirstSteps(kind) : asks' = Begun(Fresh, pc, kind, Fresh)
  /\ UNCHANGED <<page, current, handle, convs, stored, calls, clues>>

ChatSend(kind) == ChatSends(shown, kind)

\* A failed answer is dropped and its question sent again, as a new message.
Without(s, i) == SubSeq(s, 1, i - 1) \o SubSeq(s, i + 1, Len(s))
Question(i) == {j \in 1..(i - 1) : shown[j].who = "user"}
Asked(i) == CHOOSE j \in Question(i) : \A k \in Question(i) : k <= j
ChatRetry(i) ==
  /\ shown[i].bad /\ Question(i) # {}
  /\ ChatSends(Without(shown, i), asks[shown[Asked(i)].ask].kind)

\* AgentExecutePage: the bubble is there before the message is stored.
AgentSend ==
  /\ page = "agent" /\ MaySend /\ current # None
  /\ shown' = shown \o <<User(Fresh), Bubble(Fresh)>> /\ busy' = TRUE
  /\ asks' = Begun(Fresh, "persist", "one", Fresh)
  /\ UNCHANGED <<page, current, handle, convs, stored, calls, clues>>

\* The failed bubble streams again, in its place, for the question above it.
AgentRetry(i) ==
  /\ page = "agent" /\ MaySend /\ current # None
  /\ shown[i].bad /\ Question(i) # {}
  /\ LET q == asks[shown[Asked(i)].ask].q
     IN  /\ asks' = Begun(Fresh, "stream", "one", q)
         /\ clues' = [clues EXCEPT
              !.buried = @ \/ i # Len(shown),
              !.moved = IF calls = {} /\ q \notin {asks[n].q : n \in UnderWay} THEN @ ELSE @ \cup {q}]
  /\ shown' = [shown EXCEPT ![i].from = {}, ![i].bad = FALSE, ![i].live = TRUE]
  /\ busy' = TRUE /\ handle' = Fresh
  /\ UNCHANGED <<page, current, convs, stored, calls>>

\* AIWorkspacePage: the message shows, loading is set, and then the handler
\* calls runChatStream, which no module defines.
WorkspaceSend ==
  /\ page = "workspace" /\ MaySend
  /\ shown' = Append(shown, User(Fresh)) /\ busy' = TRUE
  /\ asks' = Begun(Fresh, "thrown", "one", Fresh)
  /\ UNCHANGED <<page, current, handle, convs, stored, calls, clues>>

\* AIWorkspacePage: improving reviewed code is a plain call.
WorkspaceImprove ==
  /\ page = "workspace" /\ MaySend
  /\ shown' = Append(shown, User(Fresh)) /\ busy' = TRUE
  /\ asks' = Begun(Fresh, "run", "many", Fresh)
  /\ UNCHANGED <<page, current, handle, convs, stored, calls, clues>>

AssistantSend ==
  /\ page = "assistant" /\ MaySend
  /\ shown' = Append(shown, User(Fresh)) /\ busy' = TRUE
  /\ asks' = Begun(Fresh, "run", "many", Fresh)
  /\ UNCHANGED <<page, current, handle, convs, stored, calls, clues>>

\* VoiceChatPage: the Enter key and the recognizer send without looking at loading.
VoiceSend ==
  /\ page = "voice" /\ Fresh \in Ids /\ Room
  /\ shown' = Append(shown, User(Fresh)) /\ busy' = TRUE
  /\ asks' = Begun(Fresh, "run", "many", Fresh)
  /\ UNCHANGED <<page, current, handle, convs, stored, calls, clues>>

-----------------------------------------------------------------------------
(* The steps of a send.                                                    *)

\* The id in the answer of a creation: data.id here, data.session_id there.
NewId(c) == c

\* The new conversation becomes the open one, whatever was opened meanwhile.
Created(n, c) ==
  /\ asks[n].pc = "create" /\ convs[c] = "unborn"
  /\ convs' = [convs EXCEPT ![c] = "listed"] /\ current' = NewId(c)
  /\ asks' = [asks EXCEPT ![n].pc = "persist", ![n].conv = NewId(c)]
  /\ UNCHANGED <<page, shown, busy, handle, stored, calls, clues>>

\* handleSend's catch and finally.
CreateFails(n) ==
  /\ asks[n].pc = "create" /\ Moves(n, "done")
  /\ shown' = Append(shown, Fault(n)) /\ busy' = FALSE
  /\ UNCHANGED <<page, current, handle, convs, stored, calls, clues>>

\* The question is stored, or not; then the stream or the calls start.
Persisted(n) ==
  /\ asks[n].pc = "persist"
  /\ stored' \in Added(asks[n].conv, [who |-> "user", ask |-> n])
  /\ clues' = [clues EXCEPT !.unsaved = IF stored' = stored THEN @ \cup {n} ELSE @]
  /\ \/ /\ asks[n].kind = "one" /\ Moves(n, "stream") /\ handle' = n
        /\ shown' = IF page = "chat" THEN Append(shown, Bubble(n)) ELSE shown
     \/ /\ asks[n].kind = "many" /\ Moves(n, "run")
        /\ UNCHANGED <<shown, handle>>
  /\ UNCHANGED <<page, current, busy, convs, calls>>

\* A delta or tool event.
Delta(n) ==
  /\ asks[n].pc = "stream" /\ shown' = Grown(shown, n)
  /\ UNCHANGED <<page, current, busy, handle, asks, convs, stored, calls, clues>>

\* The service stores the answer before it sends done; a stream the client left
\* may still get this far.
Answered(n) ==
  /\ \/ asks[n].pc = "stream" /\ Moves(n, "said")
     \/ asks[n].pc = "cut" /\ Moves(n, "done")
  /\ stored' \in Added(asks[n].conv, [who |-> "bot", ask |-> n])
  /\ UNCHANGED <<page, shown, current, busy, handle, convs, calls, clues>>

DoneArrives(n) ==
  /\ asks[n].pc = "said" /\ Moves(n, "closing") /\ shown' = Finished(shown, n)
  /\ UNCHANGED <<page, current, busy, handle, convs, stored, calls, clues>>

ErrorArrives(n) ==
  /\ asks[n].pc = "stream" /\ Moves(n, "closing") /\ shown' = Failed(shown)
  /\ UNCHANGED <<page, current, busy, handle, convs, stored, calls, clues>>

\* onClose: the page forgets its stop handle, whichever stream it belongs to.
ClosedStillBusy(n) ==
  /\ asks[n].pc = "closing" /\ Moves(n, "done") /\ handle' = None
  /\ UNCHANGED <<page, shown, current, busy, convs, stored, calls, clues>>
Closed(n) ==
  /\ asks[n].pc = "closing" /\ Moves(n, "done")
  /\ handle' = None /\ busy' = FALSE
  /\ UNCHANGED <<page, shown, current, convs, stored, calls, clues>>

\* No connection, an error status, or a connection that breaks: onError, onClose.
\* The service may be at work on the answer all the same.
Breaks(n) ==
  /\ \/ asks[n].pc = "stream" /\ Moves(n, "cut")
     \/ asks[n].pc = "said" /\ Moves(n, "done")
  /\ shown' = Failed(shown) /\ handle' = None /\ busy' = FALSE
  /\ UNCHANGED <<page, current, convs, stored, calls, clues>>

\* The reader comes to the end of the body, and neither done nor error was in it:
\* the service's process ended in mid-stream behind a proxy that takes the close of
\* the connection for the end. Only onClose runs: nothing touches the bubble.
Ends(n) ==
  /\ asks[n].pc \in {"stream", "said"} /\ Moves(n, "done")
  /\ handle' = None /\ busy' = FALSE
  /\ clues' = [clues EXCEPT !.lost = @ \cup {asks[n].q}]
  /\ UNCHANGED <<page, shown, current, convs, stored, calls>>

\* The stop button: AgentExecutePage shows it with sending, the others with a handle
\* (and nothing on AIWorkspacePage sets one).
Stop ==
  /\ page \in {"chat", "agent", "workspace"} /\ busy
  /\ page # "agent" => handle # None
  /\ asks' = IF handle = None THEN asks
             ELSE [asks EXCEPT ![handle].pc = IF @ = "stream" THEN "cut" ELSE "done"]
  /\ shown' = Halted(shown) /\ handle' = None /\ busy' = FALSE
  /\ clues' = [clues EXCEPT !.hasty = @ \/ \E n \in Ids : asks[n].pc = "persist"]
  /\ UNCHANGED <<page, current, convs, stored, calls>>

\* Answers of the calls that do not stream.
RunAnswered(n) ==
  /\ asks[n].pc = "run"
  /\ \/ /\ page = "chat" /\ Moves(n, "keep") /\ UNCHANGED <<shown, busy>>
     \/ /\ page \in {"assistant", "workspace"} /\ Moves(n, "done")
        /\ shown' = Append(shown, Reply(n)) /\ busy' = FALSE
     \/ /\ page = "voice" /\ Moves(n, "speak")
        /\ shown' = Append(shown, Reply(n)) /\ UNCHANGED busy
  /\ UNCHANGED <<page, current, handle, convs, stored, calls, clues>>

RunFails(n) ==
  /\ asks[n].pc = "run" /\ Moves(n, "done") /\ busy' = FALSE
  /\ shown' = CASE page = "chat"      -> Append(shown, Fault(n))
                [] page = "assistant" -> Append(shown, Sorry(n))
                [] OTHER              -> shown
  /\ UNCHANGED <<page, current, handle, convs, stored, calls, clues>>

\* ChatPage stores an answer that did not stream, then shows it.
Kept(n) ==
  /\ asks[n].pc = "keep" /\ Moves(n, "done")
  /\ stored' \in Added(asks[n].conv, [who |-> "bot", ask |-> n])
  /\ shown' = Append(shown, Reply(n)) /\ busy' = FALSE
  /\ UNCHANGED <<page, current, handle, convs, calls, clues>>

\* VoiceChatPage is loading until the speech of the reply has come or failed.
Spoken(n) ==
  /\ asks[n].pc = "speak" /\ Moves(n, "done") /\ busy' = FALSE
  /\ UNCHANGED <<page, shown, current, handle, convs, stored, calls, clues>>

-----------------------------------------------------------------------------
(* Moving between conversations. None of it looks at sending.              *)

Calling(k) ==
  /\ Room /\ calls' = calls \cup {k}
  /\ clues' = [clues EXCEPT !.crossed = @ \/ calls # {}]
  /\ UNCHANGED <<page, shown, busy, handle, asks, convs, stored>>

\* AgentExecutePage switches at once and shows the old messages until the new come.
Open(c) ==
  /\ page \in {"chat", "agent"} /\ convs[c] = "listed"
  /\ Calling([op |-> "load", conv |-> c, at |-> None, read |-> FALSE, rows |-> <<>>])
  /\ current' = IF page = "agent" THEN c ELSE current

StartNew ==
  /\ page \in {"chat", "agent"}
  /\ Calling([op |-> "new", conv |-> None, at |-> None, read |-> FALSE, rows |-> <<>>])
  /\ UNCHANGED current

Delete(c) ==
  /\ page \in {"chat", "agent"} /\ convs[c] = "listed"
  /\ Calling([op |-> "delete", conv |-> c, at |-> current, read |-> FALSE, rows |-> <<>>])
  /\ UNCHANGED current

\* The service reads the messages of a conversation.
Served(k) ==
  /\ k \in calls /\ k.op = "load" /\ ~k.read
  /\ calls' = (calls \ {k}) \cup {[k EXCEPT !.read = TRUE, !.rows = stored[k.conv]]}
  /\ UNCHANGED <<page, shown, current, busy, handle, asks, convs, stored, clues>>

\* The open conversation once the messages of c have come.
OpenAsBefore(c) == current
OpenAfterLoad(c) == IF page = "chat" THEN c ELSE current

Opened(k) ==
  /\ k \in calls /\ k.op = "load" /\ k.read /\ calls' = calls \ {k}
  /\ shown' = Loaded(k.rows) /\ current' = OpenAfterLoad(k.conv)
  /\ clues' = MovedOn
  /\ UNCHANGED <<page, busy, handle, asks, convs, stored>>

NewOpened(k, c) ==
  /\ k \in calls /\ k.op = "new" /\ convs[c] = "unborn" /\ calls' = calls \ {k}
  /\ convs' = [convs EXCEPT ![c] = "listed"]
  /\ shown' = <<>> /\ current' = NewId(c) /\ clues' = MovedOn
  /\ UNCHANGED <<page, busy, handle, asks, stored>>

\* Closed if it was the open one when the user asked, not when the answer comes.
Deleted(k) ==
  /\ k \in calls /\ k.op = "delete" /\ calls' = calls \ {k}
  /\ convs' = [convs EXCEPT ![k.conv] = "deleted"]
  /\ IF k.at = k.conv
       THEN shown' = <<>> /\ current' = None /\ clues' = MovedOn
       ELSE UNCHANGED <<shown, current, clues>>
  /\ UNCHANGED <<page, busy, handle, asks, stored>>

\* A failed load leaves ChatPage as it is and empties AgentExecutePage.
CallFails(k) ==
  /\ k \in calls /\ calls' = calls \ {k}
  /\ IF page = "agent" /\ k.op = "load"
       THEN shown' = <<>> /\ clues' = MovedOn
       ELSE UNCHANGED <<shown, clues>>
  /\ UNCHANGED <<page, current, busy, handle, asks, convs, stored>>

Clear ==
  /\ page \in {"assistant", "voice"} /\ shown # <<>>
  /\ shown' = <<>> /\ clues' = MovedOn
  /\ UNCHANGED <<page, current, busy, handle, asks, convs, stored, calls>>

-----------------------------------------------------------------------------
UserSends ==
  \/ \E kind \in {"one", "many"} : ChatSend(kind)
  \/ AgentSend \/ \E i \in DOMAIN shown : ChatRetry(i) \/ AgentRetry(i)
  \/ WorkspaceSend \/ WorkspaceImprove \/ AssistantSend \/ VoiceSend

\* What goes on without the user once ask n was sent.
Progress(n) ==
  \/ \E c \in Convs : Created(n, c)
  \/ CreateFails(n) \/ Persisted(n) \/ Answered(n) \/ DoneArrives(n)
  \/ ErrorArrives(n) \/ Closed(n) \/ Breaks(n) \/ Ends(n)
  \/ RunAnswered(n) \/ RunFails(n) \/ Kept(n) \/ Spoken(n)

UserMoves ==
  \/ Stop \/ StartNew \/ Clear
  \/ \E c \in Convs : Open(c) \/ Delete(c)

CallEnds ==
  \E k \in calls : Served(k) \/ Opened(k) \/ Deleted(k) \/ CallFails(k)
                   \/ \E c \in Convs : NewOpened(k, c)

Next == UserSends \/ UserMoves \/ CallEnds \/ \E n \in Ids : Progress(n) \/ Delta(n)

Spec == Init /\ [][Next]_vars

-----------------------------------------------------------------------------
(* Properties.                                                             *)

\* The values the variables take; an ask's conversation and number are its own.
TypeOK ==
  /\ page \in Pages /\ shown \in Seq(Messages) /\ current \in Convs \cup {None}
  /\ busy \in BOOLEAN /\ handle \in Ids \cup {None}
  /\ asks \in [Ids -> Asks] /\ convs \in [Convs -> {"unborn", "listed", "deleted"}]
  /\ stored \in [Convs -> Seq(Rows)] /\ calls \subseteq Calls
  /\ clues \in [moved : SUBSET Ids, unsaved : SUBSET Ids, crossed : BOOLEAN,
                hasty : BOOLEAN, buried : BOOLEAN, lost : SUBSET Ids]

\* A bubble holds answers to no other message than its own.
OneQuestion(m) == {asks[n].q : n \in m.from} \subseteq {asks[m.ask].q}

\* Every answer shown was put together from answers to its own question only: what
\* AgentExecutePage updates the last streaming message functionally for. It may not
\* be so if that page was stopped before the stream had started (the stream starts
\* all the same and writes into the next question's bubble), or if an answer that
\* was not the last was retried below which a stream had ended without a last word:
\* the retry writes into that stream's bubble.
AnswersItsQuestion ==
  \/ clues.hasty
  \/ \A i \in DOMAIN shown :
       shown[i].who = "bot" =>
         \/ OneQuestion(shown[i])
         \/ clues.buried /\ asks[shown[i].ask].q \in clues.lost

\* An answer stands below its question, unless the user opened something else,
\* or cleared the page, while it was under way, or asked again a question that was
\* still under way, or the question was not stored.
QuestionAboveAnswer ==
  \A i \in DOMAIN shown :
    shown[i].who = "bot" /\ asks[shown[i].ask].q \notin clues.moved \cup clues.unsaved =>
      \E j \in Question(i) : asks[shown[j].ask].q = asks[shown[i].ask].q

\* What is shown belongs to the conversation that is open, or is about to be
\* replaced, or to none as its conversation could not be created or there was no agent
\* to create it for; otherwise a send was under way when the user moved on, or two
\* calls overlapped.
ShownBelongs ==
  \/ clues.moved # {} \/ clues.crossed
  \/ \E k \in calls : page = "agent" /\ k.op = "load" /\ k.conv = current
  \/ \A i \in DOMAIN shown : asks[shown[i].ask].conv \in {current, None}

\* A bubble that shows the thinking cursor is the last message, and an ask for its
\* question is under way that will end it. It may not be so if the page was stopped
\* too early (see above), if an answer was retried that was not the last (patchStream
\* never reaches that one), or if the stream of its own question ended without done
\* or error: every other bubble's cursor ends.
ThinkingEnds ==
  \/ clues.hasty \/ clues.buried
  \/ \A i \in DOMAIN shown :
       shown[i].live /\ asks[shown[i].ask].q \notin clues.lost =>
         /\ i = Len(shown)
         /\ \E n \in Ids : /\ asks[n].pc \in {"persist", "stream", "said"}
                          /\ asks[n].q = asks[shown[i].ask].q

\* A page that says it is working has a send under way whose last step says it is
\* not: none is left with its send button off. AIWorkspacePage's handler throws
\* before it does anything.
BusyIsWorking == (busy /\ page # "workspace") => UnderWay # {}
=============================================================================
