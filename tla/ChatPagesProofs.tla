-------------------------- MODULE ChatPagesProofs --------------------------
(***************************************************************************)
(* ChatPages for any pages, conversations and number of messages.          *)
(*   Known      types, the asks there are, which step occurs on which page *)
(*   Cursors    one send at a time, what the stop button ends, the cursor  *)
(*   Questions  answers below their questions, shown and stored            *)
(*   Views      what is shown, what is loaded and what is open             *)
(* Each is inductive, the last two relative to Cursors.                    *)
(***************************************************************************)
EXTENDS ChatPages, FiniteSetTheorems, SequenceTheorems, TLAPS

-----------------------------------------------------------------------------
(* Messages, patches of a stream, the question above an answer.            *)

LEMMA IdsAreNumbers == Ids \subseteq Nat \ {0} /\ None \notin Ids /\ IsFiniteSet(Ids)
  /\ \A n \in Nat \ {0} : n \in Ids <=> n <= MaxAsks
<1>1. IsFiniteSet(1..MaxAsks)
  BY BoundsInNat, FS_Interval
<1>2. QED
  BY <1>1, BoundsInNat, NoneIsNoConv DEF Ids

LEMMA MessageTypes ==
  ASSUME NEW n \in Ids
  PROVE  {User(n), Bubble(n), Reply(n), Sorry(n), Fault(n)} \subseteq Messages
BY DEF User, Bubble, Reply, Sorry, Fault, Messages

\* A patch changes the last message at most, and only while it streams.
Patch(s, t) ==
  /\ t \in Seq(Messages) /\ Len(t) = Len(s) /\ DOMAIN t = DOMAIN s
  /\ \A i \in DOMAIN s : t[i].who = s[i].who /\ t[i].ask = s[i].ask
  /\ \A i \in DOMAIN s : i # Len(s) \/ ~s[i].live => t[i] = s[i]

LEMMA Patches ==
  ASSUME NEW s \in Seq(Messages), NEW n \in Ids
  PROVE  /\ Patch(s, Grown(s, n)) /\ Patch(s, Finished(s, n)) /\ Patch(s, Failed(s)) /\ Patch(s, Halted(s))
         /\ Streaming(s) =>
              /\ Len(s) \in DOMAIN s
              /\ Grown(s, n)[Len(s)] = [s[Len(s)] EXCEPT !.from = @ \cup {n}]
              /\ Finished(s, n)[Len(s)] = [s[Len(s)] EXCEPT !.from = {n}, !.live = FALSE]
              /\ Failed(s)[Len(s)] = [s[Len(s)] EXCEPT !.bad = TRUE, !.live = FALSE]
              /\ Halted(s)[Len(s)] = [s[Len(s)] EXCEPT !.live = FALSE]
<1>0. Len(s) \in Nat /\ DOMAIN s = 1..Len(s) /\ s \in [1..Len(s) -> Messages]
  OBVIOUS
<1>1. CASE ~Streaming(s)
  <2>1. Patch(s, s)
    BY <1>0 DEF Patch
  <2>2. QED
    BY <1>1, <2>1 DEF Grown, Finished, Failed, Halted
<1>2. CASE Streaming(s)
  <2> DEFINE l == Len(s)
  <2>1. l \in DOMAIN s /\ s[l] \in Messages
    <3>1. s # <<>>
      BY <1>2 DEF Streaming
    <3>2. Len(s) # 0
      BY <1>0, <3>1
    <3>3. QED
      BY <1>0, <3>2
  <2>2. ASSUME NEW m \in Messages, m.who = s[l].who, m.ask = s[l].ask, NEW t, t = [s EXCEPT ![l] = m]
        PROVE  Patch(s, t) /\ t[l] = m
    <3>1. t \in Seq(Messages) /\ Len(t) = Len(s)
      BY <1>0, <2>1, <2>2
    <3>2. QED
      BY <1>0, <1>2, <2>1, <2>2, <3>1 DEF Patch, Streaming
  <2>3. Patch(s, Grown(s, n)) /\ Grown(s, n)[l] = [s[l] EXCEPT !.from = @ \cup {n}]
    <3>1. Grown(s, n) = [s EXCEPT ![l] = [s[l] EXCEPT !.from = @ \cup {n}]]
      BY <1>2 DEF Grown
    <3>2. [s[l] EXCEPT !.from = @ \cup {n}] \in Messages
          /\ [s[l] EXCEPT !.from = @ \cup {n}].who = s[l].who
          /\ [s[l] EXCEPT !.from = @ \cup {n}].ask = s[l].ask
      BY <2>1 DEF Messages
    <3>3. QED
      BY <2>2, <3>1, <3>2
  <2>4. Patch(s, Finished(s, n)) /\ Finished(s, n)[l] = [s[l] EXCEPT !.from = {n}, !.live = FALSE]
    <3>1. Finished(s, n) = [[s EXCEPT ![l].from = {n}] EXCEPT ![l].live = FALSE]
      BY <1>2 DEF Finished
    <3>2. Finished(s, n) = [s EXCEPT ![l] = [s[l] EXCEPT !.from = {n}, !.live = FALSE]]
      BY <1>0, <2>1, <3>1
    <3>3. [s[l] EXCEPT !.from = {n}, !.live = FALSE] \in Messages
          /\ [s[l] EXCEPT !.from = {n}, !.live = FALSE].who = s[l].who
          /\ [s[l] EXCEPT !.from = {n}, !.live = FALSE].ask = s[l].ask
      BY <2>1 DEF Messages
    <3>4. QED
      BY <2>2, <3>2, <3>3
  <2>5. Patch(s, Failed(s)) /\ Failed(s)[l] = [s[l] EXCEPT !.bad = TRUE, !.live = FALSE]
    <3>1. Failed(s) = [[s EXCEPT ![l].bad = TRUE] EXCEPT ![l].live = FALSE]
      BY <1>2 DEF Failed
    <3>2. Failed(s) = [s EXCEPT ![l] = [s[l] EXCEPT !.bad = TRUE, !.live = FALSE]]
      BY <1>0, <2>1, <3>1
    <3>3. [s[l] EXCEPT !.bad = TRUE, !.live = FALSE] \in Messages
          /\ [s[l] EXCEPT !.bad = TRUE, !.live = FALSE].who = s[l].who
          /\ [s[l] EXCEPT !.bad = TRUE, !.live = FALSE].ask = s[l].ask
      BY <2>1 DEF Messages
    <3>4. QED
      BY <2>2, <3>2, <3>3
  <2>6. Patch(s, Halted(s)) /\ Halted(s)[l] = [s[l] EXCEPT !.live = FALSE]
    <3>1. Halted(s) = [s EXCEPT ![l] = [s[l] EXCEPT !.live = FALSE]]
      BY <1>2 DEF Halted
    <3>2. [s[l] EXCEPT !.live = FALSE] \in Messages
          /\ [s[l] EXCEPT !.live = FALSE].who = s[l].who /\ [s[l] EXCEPT !.live = FALSE].ask = s[l].ask
      BY <2>1 DEF Messages
    <3>3. QED
      BY <2>2, <3>1, <3>2
  <2>7. QED
    BY <2>1, <2>3, <2>4, <2>5, <2>6
<1>3. QED
  BY <1>1, <1>2

LEMMA LoadedRows ==
  ASSUME NEW rows \in Seq(Rows)
  PROVE  /\ Loaded(rows) \in Seq(Messages) /\ DOMAIN Loaded(rows) = DOMAIN rows
         /\ \A i \in DOMAIN rows :
              /\ i \in Nat
              /\ Loaded(rows)[i] \in {User(rows[i].ask), Reply(rows[i].ask)}
              /\ Loaded(rows)[i].who = rows[i].who
<1>0. DOMAIN rows = 1..Len(rows) /\ Len(rows) \in Nat /\ \A i \in DOMAIN rows : i \in Nat /\ rows[i] \in Rows
  OBVIOUS
<1>1. \A i \in DOMAIN rows : /\ FromRow(rows[i]) \in {User(rows[i].ask), Reply(rows[i].ask)}
                             /\ FromRow(rows[i]).who = rows[i].who
                             /\ FromRow(rows[i]) \in Messages
  BY <1>0, MessageTypes DEF FromRow, User, Reply, Rows
<1>2. QED
  BY <1>0, <1>1 DEF Loaded

LEMMA WithoutOne ==
  ASSUME NEW s \in Seq(Messages), NEW i \in DOMAIN s
  PROVE  /\ Without(s, i) \in Seq(Messages) /\ Len(Without(s, i)) = Len(s) - 1
         /\ DOMAIN Without(s, i) = 1..(Len(s) - 1)
         /\ \A j \in 1..(Len(s) - 1) : Without(s, i)[j] = IF j < i THEN s[j] ELSE s[j + 1]
<1>0. Len(s) \in Nat /\ i \in 1..Len(s) /\ DOMAIN s = 1..Len(s) /\ \A j \in 1..Len(s) : s[j] \in Messages
  OBVIOUS
<1> DEFINE a == SubSeq(s, 1, i - 1)
           b == SubSeq(s, i + 1, Len(s))
<1>1. a \in Seq(Messages) /\ Len(a) = i - 1 /\ \A j \in 1..(i - 1) : a[j] = s[j]
  BY <1>0
<1>2. b \in Seq(Messages) /\ Len(b) = Len(s) - i /\ \A j \in 1..(Len(s) - i) : b[j] = s[i + j]
  <2>1. /\ i + 1 \in Int /\ Len(s) \in Int /\ \A j \in (i + 1)..Len(s) : s[j] \in Messages
        /\ Len(s) - (i + 1) + 1 = Len(s) - i /\ (~(i + 1 <= Len(s)) => Len(s) - i = 0)
        /\ \A j \in 1..(Len(s) - i) : i + 1 + j - 1 = i + j
    BY <1>0
  <2>2. /\ b \in Seq(Messages) /\ Len(b) = IF i + 1 <= Len(s) THEN Len(s) - (i + 1) + 1 ELSE 0
        /\ \A j \in 1..(Len(s) - (i + 1) + 1) : b[j] = s[i + 1 + j - 1]
    BY SMTT(30), <2>1, SubSeqProperties
  <2> HIDE DEF b
  <2>3. QED
    BY <2>1, <2>2
<1> HIDE DEF a, b
<1>3. /\ a \o b \in Seq(Messages) /\ Len(a \o b) = Len(s) - 1
      /\ \A j \in 1..(Len(s) - 1) : (a \o b)[j] = IF j <= i - 1 THEN a[j] ELSE b[j - (i - 1)]
  <2>1. /\ a \o b \in Seq(Messages) /\ Len(a \o b) = Len(a) + Len(b)
        /\ \A j \in 1 .. Len(a) + Len(b) : (a \o b)[j] = IF j <= Len(a) THEN a[j] ELSE b[j - Len(a)]
    BY <1>1, <1>2, ConcatProperties
  <2>2. QED
    BY SMTT(30), <1>0, <1>1, <1>2, <2>1
<1>4. ASSUME NEW j \in 1..(Len(s) - 1) PROVE (a \o b)[j] = IF j < i THEN s[j] ELSE s[j + 1]
  <2>1. CASE j < i
    BY <1>0, <1>1, <1>3, <2>1
  <2>2. CASE ~(j < i)
    <3>1. (a \o b)[j] = b[j - (i - 1)] /\ j - (i - 1) \in 1..(Len(s) - i)
      BY <1>0, <1>3, <2>2
    <3>2. QED
      BY SMTT(30), <1>0, <1>2, <2>2, <3>1
  <2>3. QED
    BY <2>1, <2>2
<1>5. DOMAIN (a \o b) = 1..(Len(s) - 1)
  <2>1. \A q \in Seq(Messages) : DOMAIN q = 1..Len(q)
    OBVIOUS
  <2>2. QED
    BY <1>3, <2>1
<1>6. QED
  BY <1>3, <1>4, <1>5 DEF Without, a, b

\* A bounded set of numbers has a largest one.
LEMMA Largest ==
  ASSUME NEW n \in Nat, NEW S \in SUBSET (1..n), S # {}
  PROVE  \E j \in S : \A k \in S : k <= j
<1> DEFINE T == {n - k : k \in S}
<1>1. T \subseteq Nat /\ T # {}
  <2>1. \A k \in S : n - k \in Nat
    OBVIOUS
  <2>2. QED
    BY <2>1
<1>2. PICK x \in T : \A y \in T : ~(<<y, x>> \in OpToRel(<, Nat))
  BY <1>1, NatLessThanWellFounded, WFMin
<1>3. PICK j \in S : x = n - j
  OBVIOUS
<1>4. ASSUME NEW k \in S PROVE k <= j
  <2>1. n - k \in T /\ n - k \in Nat /\ x \in Nat
    BY <1>1
  <2>2. ~(n - k < x)
    BY <1>2, <2>1 DEF OpToRel
  <2>3. QED
    BY <1>3, <2>1, <2>2
<1>5. QED
  BY <1>4

LEMMA AskedAbove ==
  ASSUME shown \in Seq(Messages), NEW i \in DOMAIN shown, Question(i) # {}
  PROVE  /\ Asked(i) \in DOMAIN shown /\ Asked(i) < i /\ shown[Asked(i)].who = "user"
         /\ \A k \in DOMAIN shown : k < i /\ shown[k].who = "user" => k <= Asked(i)
<1>1. i \in Nat /\ DOMAIN shown = 1..Len(shown) /\ i \in 1..Len(shown) /\ Len(shown) \in Nat
  OBVIOUS
<1>2. Question(i) \in SUBSET (1..i)
  BY <1>1 DEF Question
<1>3. \E j \in Question(i) : \A k \in Question(i) : k <= j
  BY <1>1, <1>2, Largest
<1>4. Asked(i) \in Question(i) /\ \A k \in Question(i) : k <= Asked(i)
  BY <1>3 DEF Asked
<1>5. QED
  BY <1>1, <1>4 DEF Question

-----------------------------------------------------------------------------
(* The four ways a send begins.                                             *)

Sends(pc, kind, q) ==
  /\ Fresh \in Ids /\ asks' = Begun(Fresh, pc, kind, q) /\ busy' = TRUE
  /\ UNCHANGED <<page, current, convs, stored, calls>>

\* The list a message of ChatPage is appended to: a retry has dropped a failed answer.
Base(s) == s = shown \/ \E i \in DOMAIN shown : shown[i].bad /\ s = Without(shown, i)

ChatSending ==
  /\ page = "chat" /\ ~busy
  /\ \E pc \in {"create", "persist", "run"}, kind \in {"one", "many"} :
       /\ pc = "persist" <=> current # None
       /\ pc = "run" => kind = "many"
       /\ Sends(pc, kind, Fresh)
  /\ \E s \in Seq(Messages) : Base(s) /\ shown' = Append(s, User(Fresh))
  /\ UNCHANGED <<handle, clues>>

AgentSending ==
  /\ page = "agent" /\ ~busy /\ current # None
  /\ Sends("persist", "one", Fresh)
  /\ shown' = shown \o <<User(Fresh), Bubble(Fresh)>>
  /\ UNCHANGED <<handle, clues>>

AgentRetrying(i) ==
  LET q == asks[shown[Asked(i)].ask].q
  IN  /\ page = "agent" /\ ~busy /\ current # None
      /\ shown[i].bad /\ Asked(i) \in DOMAIN shown /\ q \in Ids
      /\ Sends("stream", "one", q) /\ handle' = Fresh
      /\ shown' = [shown EXCEPT ![i].from = {}, ![i].bad = FALSE, ![i].live = TRUE]
      /\ clues' = [clues EXCEPT
           !.buried = @ \/ i # Len(shown),
           !.moved = IF calls = {} /\ q \notin {asks[n].q : n \in UnderWay} THEN @ ELSE @ \cup {q}]

PlainSending ==
  /\ page \in {"workspace", "assistant", "voice"} /\ (busy => page = "voice")
  /\ \E pc \in {"run", "thrown"}, kind \in {"one", "many"} :
       (pc = "thrown" => page = "workspace") /\ Sends(pc, kind, Fresh)
  /\ shown' = Append(shown, User(Fresh))
  /\ UNCHANGED <<handle, clues>>

\* The types, with the calls that are about a conversation.
Typed ==
  /\ TypeOK
  /\ \A k \in calls : k.op \in {"load", "delete"} => k.conv \in Convs

LEMMA TypedParts ==
  ASSUME Typed
  PROVE  /\ \A n \in Ids : /\ asks[n] \in Asks /\ asks[n].pc \in Phases /\ asks[n].q \in Ids
                           /\ asks[n].kind \in {"one", "many"}
                           /\ asks[n].conv \in Convs \cup {None}
         /\ \A i \in DOMAIN shown : /\ i \in Nat \ {0} /\ shown[i] \in Messages /\ shown[i].ask \in Ids
                                    /\ shown[i].from \subseteq Ids
         /\ DOMAIN shown = 1..Len(shown) /\ Len(shown) \in Nat
         /\ \A k \in calls : k \in Calls /\ k.rows \in Seq(Rows)
         /\ clues.moved \subseteq Ids /\ clues.unsaved \subseteq Ids /\ clues.lost \subseteq Ids
<1>1. ASSUME NEW n \in Ids
      PROVE  /\ asks[n] \in Asks /\ asks[n].pc \in Phases /\ asks[n].q \in Ids
             /\ asks[n].kind \in {"one", "many"} /\ asks[n].conv \in Convs \cup {None}
  <2>1. asks[n] \in Asks
    BY <1>1 DEF Typed, TypeOK
  <2>2. QED
    BY <2>1 DEF Asks
<1>2. DOMAIN shown = 1..Len(shown) /\ Len(shown) \in Nat
      /\ \A i \in DOMAIN shown : i \in Nat \ {0} /\ shown[i] \in Messages
  BY DEF Typed, TypeOK
<1>3. \A m \in Messages : m.ask \in Ids /\ m.from \subseteq Ids
  BY DEF Messages
<1>4. \A k \in calls : k \in Calls /\ k.rows \in Seq(Rows)
  BY DEF Typed, TypeOK, Calls
<1>5. clues.moved \subseteq Ids /\ clues.unsaved \subseteq Ids /\ clues.lost \subseteq Ids
  BY DEF Typed, TypeOK
<1>6. QED
  BY <1>1, <1>2, <1>3, <1>4, <1>5

LEMMA SendKinds ==
  ASSUME Typed, UserSends
  PROVE  ChatSending \/ AgentSending \/ (\E i \in DOMAIN shown : AgentRetrying(i)) \/ PlainSending
<1>0. shown \in Seq(Messages)
  BY DEF Typed, TypeOK
<1>s. ASSUME NEW kind \in {"one", "many"}, NEW s \in Seq(Messages), Base(s), ChatSends(s, kind)
      PROVE  ChatSending
  <2>1. PICK pc \in FirstSteps(kind) : asks' = Begun(Fresh, pc, kind, Fresh)
    BY <1>s DEF ChatSends
  <2>2. pc \in {"create", "persist", "run"} /\ (pc = "persist" <=> current # None)
        /\ (pc = "run" => kind = "many")
    BY <2>1 DEF FirstSteps
  <2>3. Sends(pc, kind, Fresh)
    BY <1>s, <2>1 DEF ChatSends, Sends, MaySend
  <2>4. QED
    BY <1>s, <2>2, <2>3 DEF ChatSends, ChatSending, MaySend
<1>1. ASSUME NEW kind \in {"one", "many"}, ChatSend(kind) PROVE ChatSending
  BY <1>0, <1>1, <1>s DEF ChatSend, Base
<1>2. ASSUME NEW i \in DOMAIN shown, ChatRetry(i) PROVE ChatSending
  <2>1. Asked(i) \in DOMAIN shown
    BY <1>0, <1>2, AskedAbove DEF ChatRetry
  <2>2. asks[shown[Asked(i)].ask].kind \in {"one", "many"}
    BY <2>1, TypedParts
  <2>3. Without(shown, i) \in Seq(Messages)
    BY <1>0, <1>2, WithoutOne
  <2>4. Base(Without(shown, i))
    BY <1>2 DEF ChatRetry, Base
  <2>5. QED
    BY <1>2, <1>s, <2>2, <2>3, <2>4 DEF ChatRetry
<1>3. CASE AgentSend
  BY <1>3 DEF AgentSend, AgentSending, Sends, MaySend
<1>4. ASSUME NEW i \in DOMAIN shown, AgentRetry(i) PROVE AgentRetrying(i)
  <2>1. Asked(i) \in DOMAIN shown
    BY <1>0, <1>4, AskedAbove DEF AgentRetry
  <2>2. asks[shown[Asked(i)].ask].q \in Ids
    BY <2>1, TypedParts
  <2>3. QED
    BY <1>4, <2>1, <2>2 DEF AgentRetry, AgentRetrying, Sends, MaySend
<1>5. CASE WorkspaceSend \/ WorkspaceImprove \/ AssistantSend \/ VoiceSend
  BY <1>5 DEF WorkspaceSend, WorkspaceImprove, AssistantSend, VoiceSend, PlainSending, Sends, MaySend
<1>6. QED
  BY <1>1, <1>2, <1>3, <1>4, <1>5 DEF UserSends

-----------------------------------------------------------------------------
(* Types.                                                                   *)

LEMMA AskTypes ==
  ASSUME Typed, NEW n \in Ids
  PROVE  /\ \A pc \in Phases, kind \in {"one", "many"}, q \in Ids :
              Begun(n, pc, kind, q) \in [Ids -> Asks]
         /\ \A pc \in Phases : [asks EXCEPT ![n].pc = pc] \in [Ids -> Asks]
<1>0. asks \in [Ids -> Asks] /\ asks[n] \in Asks /\ current \in Convs \cup {None}
  BY DEF Typed, TypeOK
<1>1. \A pc \in Phases, kind \in {"one", "many"}, q \in Ids :
        [pc |-> pc, kind |-> kind, q |-> q, conv |-> current] \in Asks
  BY <1>0 DEF Asks
<1>2. \A pc \in Phases : [asks[n] EXCEPT !.pc = pc] \in Asks
  BY <1>0 DEF Asks
<1>3. QED
  BY <1>0, <1>1, <1>2 DEF Begun

LEMMA AddedTyped ==
  ASSUME Typed, NEW row \in Rows, NEW c, stored' \in Added(c, row)
  PROVE  stored' \in [Convs -> Seq(Rows)]
<1>1. stored \in [Convs -> Seq(Rows)]
  BY DEF Typed, TypeOK
<1>2. CASE c \in Convs /\ stored' = [stored EXCEPT ![c] = Append(stored[c], row)]
  <2>1. Append(stored[c], row) \in Seq(Rows)
    BY <1>1, <1>2
  <2>2. QED
    BY <1>1, <1>2, <2>1
<1>3. QED
  BY <1>1, <1>2 DEF Added

LEMMA UpdatedSeq ==
  ASSUME NEW S, NEW s \in Seq(S), NEW i \in DOMAIN s, NEW m \in S
  PROVE  [s EXCEPT ![i] = m] \in Seq(S) /\ Len([s EXCEPT ![i] = m]) = Len(s)
OBVIOUS

LEMMA RetryShown ==
  ASSUME shown \in Seq(Messages), NEW i \in DOMAIN shown,
         shown' = [shown EXCEPT ![i].from = {}, ![i].bad = FALSE, ![i].live = TRUE]
  PROVE  /\ shown' \in Seq(Messages) /\ Len(shown') = Len(shown) /\ DOMAIN shown' = DOMAIN shown
         /\ shown'[i] = [shown[i] EXCEPT !.from = {}, !.bad = FALSE, !.live = TRUE]
         /\ \A j \in DOMAIN shown : j # i => shown'[j] = shown[j]
<1> DEFINE m == [shown[i] EXCEPT !.from = {}, !.bad = FALSE, !.live = TRUE]
<1>0. shown \in [1..Len(shown) -> Messages] /\ i \in 1..Len(shown) /\ shown[i] \in Messages
      /\ DOMAIN shown = 1..Len(shown)
  OBVIOUS
<1>1. m \in Messages
  BY <1>0 DEF Messages
<1>2. shown' = [[[shown EXCEPT ![i].from = {}] EXCEPT ![i].bad = FALSE] EXCEPT ![i].live = TRUE]
  OBVIOUS
<1>3. shown' = [shown EXCEPT ![i] = m]
  BY <1>0, <1>2
<1> HIDE DEF m
<1>4. [shown EXCEPT ![i] = m] \in Seq(Messages) /\ Len([shown EXCEPT ![i] = m]) = Len(shown)
  BY <1>1, UpdatedSeq
<1>5. QED
  BY <1>0, <1>1, <1>3, <1>4 DEF m

LEMMA MovedOnTyped ==
  ASSUME Typed
  PROVE  /\ MovedOn \in [moved : SUBSET Ids, unsaved : SUBSET Ids, crossed : BOOLEAN,
                         hasty : BOOLEAN, buried : BOOLEAN, lost : SUBSET Ids]
         /\ MovedOn.moved = clues.moved \cup {asks[n].q : n \in UnderWay}
         /\ MovedOn.unsaved = clues.unsaved /\ MovedOn.crossed = clues.crossed
         /\ MovedOn.hasty = clues.hasty /\ MovedOn.buried = clues.buried
         /\ MovedOn.lost = clues.lost
<1>1. {asks[n].q : n \in UnderWay} \subseteq Ids
  BY TypedParts DEF UnderWay
<1>2. QED
  BY <1>1 DEF Typed, TypeOK, MovedOn

LEMMA TypedSends ==
  ASSUME Typed, UserSends
  PROVE  Typed'
<1>0. shown \in Seq(Messages)
  BY DEF Typed, TypeOK
<1>p. {"create", "persist", "stream", "run", "thrown"} \subseteq Phases
  BY DEF Phases
<1>1. CASE ChatSending
  <2>1. Fresh \in Ids /\ asks' \in [Ids -> Asks]
    BY <1>1, <1>p, AskTypes DEF ChatSending, Sends
  <2>2. shown' \in Seq(Messages)
    BY <1>1, <2>1, MessageTypes DEF ChatSending
  <2>3. QED
    BY <1>1, <2>1, <2>2 DEF ChatSending, Sends, Typed, TypeOK
<1>2. CASE AgentSending
  <2>1. Fresh \in Ids /\ asks' \in [Ids -> Asks]
    BY <1>2, <1>p, AskTypes DEF AgentSending, Sends
  <2>2. shown' \in Seq(Messages)
    <3>1. <<User(Fresh), Bubble(Fresh)>> \in Seq(Messages)
      BY <2>1, MessageTypes
    <3>2. QED
      BY <1>0, <1>2, <3>1, ConcatProperties DEF AgentSending
  <2>3. QED
    BY <1>2, <2>1, <2>2 DEF AgentSending, Sends, Typed, TypeOK
<1>3. ASSUME NEW i \in DOMAIN shown, AgentRetrying(i) PROVE Typed'
  <2>1. Fresh \in Ids /\ asks' \in [Ids -> Asks]
    BY <1>3, <1>p, AskTypes DEF AgentRetrying, Sends
  <2>2. shown' \in Seq(Messages)
    BY <1>0, <1>3, RetryShown DEF AgentRetrying
  <2>3. clues' \in [moved : SUBSET Ids, unsaved : SUBSET Ids, crossed : BOOLEAN,
                    hasty : BOOLEAN, buried : BOOLEAN, lost : SUBSET Ids]
    BY <1>3 DEF AgentRetrying, Typed, TypeOK
  <2>4. QED
    BY <1>3, <2>1, <2>2, <2>3 DEF AgentRetrying, Sends, Typed, TypeOK
<1>4. CASE PlainSending
  <2>1. Fresh \in Ids /\ asks' \in [Ids -> Asks]
    BY <1>4, <1>p, AskTypes DEF PlainSending, Sends
  <2>2. shown' \in Seq(Messages)
    BY <1>0, <1>4, <2>1, MessageTypes DEF PlainSending
  <2>3. QED
    BY <1>4, <2>1, <2>2 DEF PlainSending, Sends, Typed, TypeOK
<1>5. QED
  BY <1>1, <1>2, <1>3, <1>4, SendKinds

LEMMA TypedProgress ==
  ASSUME Typed, NEW n \in Ids, Progress(n) \/ Delta(n)
  PROVE  Typed'
<1>0. shown \in Seq(Messages) /\ asks[n].conv \in Convs \cup {None}
  BY TypedParts DEF Typed, TypeOK
<1>a. \A pc \in Phases : Moves(n, pc) => asks' \in [Ids -> Asks]
  BY AskTypes DEF Moves
<1>m. \A m \in {User(n), Bubble(n), Reply(n), Sorry(n), Fault(n)} : Append(shown, m) \in Seq(Messages)
  BY <1>0, MessageTypes
<1>p. /\ Grown(shown, n) \in Seq(Messages) /\ Finished(shown, n) \in Seq(Messages)
      /\ Failed(shown) \in Seq(Messages)
  BY <1>0, Patches DEF Patch
<1>r. [who |-> "user", ask |-> n] \in Rows /\ [who |-> "bot", ask |-> n] \in Rows
  BY DEF Rows
<1>h. {"stream", "run", "said", "closing", "cut", "done", "keep", "speak", "persist"} \subseteq Phases
  BY DEF Phases
<1>1. ASSUME NEW c \in Convs, Created(n, c) PROVE Typed'
  <2>1. asks' \in [Ids -> Asks]
    <3>1. asks \in [Ids -> Asks] /\ asks[n] \in Asks /\ "persist" \in Phases
      BY <1>h DEF Typed, TypeOK
    <3>2. asks' = [[asks EXCEPT ![n].pc = "persist"] EXCEPT ![n].conv = c]
      BY <1>1 DEF Created, NewId
    <3>3. [asks[n] EXCEPT !.pc = "persist", !.conv = c] \in Asks
      BY <1>1, <3>1 DEF Asks
    <3>4. asks' = [asks EXCEPT ![n] = [asks[n] EXCEPT !.pc = "persist", !.conv = c]]
      BY <3>1, <3>2
    <3>5. QED
      BY <3>1, <3>3, <3>4
  <2>2. QED
    BY <1>1, <2>1 DEF Created, Typed, TypeOK, NewId
<1>2. CASE CreateFails(n)
  BY <1>a, <1>h, <1>m, <1>2 DEF CreateFails, Typed, TypeOK
<1>3. CASE Persisted(n)
  <2>1. asks' \in [Ids -> Asks]
    BY <1>a, <1>h, <1>3 DEF Persisted
  <2>2. stored' \in [Convs -> Seq(Rows)]
    BY <1>r, <1>3, AddedTyped DEF Persisted
  <2>3. clues' \in [moved : SUBSET Ids, unsaved : SUBSET Ids, crossed : BOOLEAN,
                    hasty : BOOLEAN, buried : BOOLEAN, lost : SUBSET Ids]
    BY <1>3 DEF Persisted, Typed, TypeOK
  <2>4. shown' \in Seq(Messages) /\ handle' \in Ids \cup {None}
    BY <1>0, <1>m, <1>3 DEF Persisted, Typed, TypeOK
  <2>5. QED
    BY <1>3, <2>1, <2>2, <2>3, <2>4 DEF Persisted, Typed, TypeOK
<1>4. CASE Answered(n)
  <2>1. asks' \in [Ids -> Asks]
    BY <1>a, <1>h, <1>4 DEF Answered
  <2>2. stored' \in [Convs -> Seq(Rows)]
    BY <1>r, <1>4, AddedTyped DEF Answered
  <2>3. QED
    BY <1>4, <2>1, <2>2 DEF Answered, Typed, TypeOK
<1>5. CASE DoneArrives(n)
  BY <1>a, <1>h, <1>p, <1>5 DEF DoneArrives, Typed, TypeOK
<1>6. CASE ErrorArrives(n)
  BY <1>a, <1>h, <1>p, <1>6 DEF ErrorArrives, Typed, TypeOK
<1>7. CASE Closed(n)
  BY <1>a, <1>h, <1>7 DEF Closed, Typed, TypeOK
<1>8. CASE Breaks(n)
  BY <1>a, <1>h, <1>p, <1>8 DEF Breaks, Typed, TypeOK
<1>e. CASE Ends(n)
  <2>1. asks' \in [Ids -> Asks]
    BY <1>a, <1>h, <1>e DEF Ends
  <2>2. clues' \in [moved : SUBSET Ids, unsaved : SUBSET Ids, crossed : BOOLEAN,
                    hasty : BOOLEAN, buried : BOOLEAN, lost : SUBSET Ids]
    BY <1>e, TypedParts DEF Ends, Typed, TypeOK
  <2>3. QED
    BY <1>e, <2>1, <2>2 DEF Ends, Typed, TypeOK
<1>9. CASE RunAnswered(n)
  BY <1>a, <1>h, <1>m, <1>9 DEF RunAnswered, Typed, TypeOK
<1>10. CASE RunFails(n)
  <2>1. shown' \in Seq(Messages)
    BY <1>0, <1>m, <1>10 DEF RunFails
  <2>2. QED
    BY <1>a, <1>h, <1>10, <2>1 DEF RunFails, Typed, TypeOK
<1>11. CASE Kept(n)
  <2>1. stored' \in [Convs -> Seq(Rows)]
    BY <1>r, <1>11, AddedTyped DEF Kept
  <2>2. QED
    BY <1>a, <1>h, <1>m, <1>11, <2>1 DEF Kept, Typed, TypeOK
<1>12. CASE Spoken(n)
  BY <1>a, <1>h, <1>12 DEF Spoken, Typed, TypeOK
<1>13. CASE Delta(n)
  BY <1>p, <1>13 DEF Delta, Typed, TypeOK
<1>14. QED
  BY <1>1, <1>2, <1>3, <1>4, <1>5, <1>6, <1>7, <1>8, <1>e, <1>9, <1>10, <1>11, <1>12, <1>13 DEF Progress

LEMMA TypedMoves ==
  ASSUME Typed, UserMoves \/ CallEnds
  PROVE  Typed'
<1>0. shown \in Seq(Messages) /\ <<>> \in Seq(Messages) /\ <<>> \in Seq(Rows)
  BY DEF Typed, TypeOK
<1>m. MovedOn \in [moved : SUBSET Ids, unsaved : SUBSET Ids, crossed : BOOLEAN,
                   hasty : BOOLEAN, buried : BOOLEAN, lost : SUBSET Ids]
  BY MovedOnTyped
<1>1. CASE Stop
  <2>1. asks' \in [Ids -> Asks]
    <3>1. asks \in [Ids -> Asks] /\ handle \in Ids \cup {None}
      BY DEF Typed, TypeOK
    <3>2. CASE handle \in Ids
      <4>1. asks' = [asks EXCEPT ![handle].pc = IF asks[handle].pc = "stream" THEN "cut" ELSE "done"]
        BY <1>1, <3>2, IdsAreNumbers DEF Stop
      <4>2. "cut" \in Phases /\ "done" \in Phases
        BY DEF Phases
      <4>3. QED
        BY <3>2, <4>1, <4>2, AskTypes
    <3>3. QED
      BY <1>1, <3>1, <3>2 DEF Stop
  <2>2. Halted(shown) \in Seq(Messages)
    <3>1. CASE Ids = {}
      BY <1>0, <1>1, <3>1 DEF Halted, Stop, Typed, TypeOK, Streaming, Messages
    <3>2. CASE Ids # {}
      BY <1>0, <3>2, Patches DEF Patch
    <3>3. QED
      BY <3>1, <3>2
  <2>3. clues' \in [moved : SUBSET Ids, unsaved : SUBSET Ids, crossed : BOOLEAN,
                    hasty : BOOLEAN, buried : BOOLEAN, lost : SUBSET Ids]
    BY <1>1 DEF Stop, Typed, TypeOK
  <2>4. QED
    BY <1>1, <2>1, <2>2, <2>3 DEF Stop, Typed, TypeOK
<1>c. ASSUME NEW k \in Calls, k.op \in {"load", "delete"} => k.conv \in Convs,
             Calling(k), current' \in Convs \cup {None}
      PROVE  Typed'
  BY <1>c DEF Calling, Typed, TypeOK
<1>t. current \in Convs \cup {None}
  BY DEF Typed, TypeOK
<1>2. ASSUME NEW c \in Convs, Open(c) \/ Delete(c) PROVE Typed'
  <2>1. CASE Open(c)
    <3> DEFINE k == [op |-> "load", conv |-> c, at |-> None, read |-> FALSE, rows |-> <<>>]
    <3>1. k \in Calls /\ k.conv = c
      BY <1>0, <1>2 DEF Calls
    <3>2. Calling(k) /\ current' \in Convs \cup {None}
      BY <1>2, <1>t, <2>1 DEF Open
    <3> HIDE DEF k
    <3>3. QED
      BY <1>2, <1>c, <3>1, <3>2
  <2>2. CASE Delete(c)
    <3> DEFINE k == [op |-> "delete", conv |-> c, at |-> current, read |-> FALSE, rows |-> <<>>]
    <3>1. k \in Calls /\ k.conv = c
      BY <1>0, <1>2, <1>t DEF Calls
    <3>2. Calling(k) /\ current' \in Convs \cup {None}
      BY <1>t, <2>2 DEF Delete
    <3> HIDE DEF k
    <3>3. QED
      BY <1>2, <1>c, <3>1, <3>2
  <2>3. QED
    BY <1>2, <2>1, <2>2
<1>3. CASE StartNew
  <2> DEFINE k == [op |-> "new", conv |-> None, at |-> None, read |-> FALSE, rows |-> <<>>]
  <2>1. k \in Calls /\ k.op = "new"
    BY <1>0 DEF Calls
  <2>2. Calling(k) /\ current' \in Convs \cup {None}
    BY <1>t, <1>3 DEF StartNew
  <2> HIDE DEF k
  <2>3. QED
    BY <1>c, <2>1, <2>2
<1>4. CASE Clear
  BY <1>0, <1>m, <1>4 DEF Clear, Typed, TypeOK
<1>5. ASSUME NEW k \in calls, Served(k) PROVE Typed'
  <2>1. k \in Calls /\ stored[k.conv] \in Seq(Rows)
    BY <1>5 DEF Served, Typed, TypeOK
  <2>2. [k EXCEPT !.read = TRUE, !.rows = stored[k.conv]] \in Calls
        /\ [k EXCEPT !.read = TRUE, !.rows = stored[k.conv]].conv = k.conv
    BY <2>1 DEF Calls
  <2>3. QED
    BY <1>5, <2>2 DEF Served, Typed, TypeOK
<1>6. ASSUME NEW k \in calls, Opened(k) PROVE Typed'
  <2>1. Loaded(k.rows) \in Seq(Messages)
    BY <1>6, TypedParts, LoadedRows
  <2>2. QED
    BY <1>6, <1>m, <2>1 DEF Opened, OpenAfterLoad, Typed, TypeOK
<1>7. ASSUME NEW k \in calls, Deleted(k) \/ CallFails(k) PROVE Typed'
  BY ZenonT(60), <1>0, <1>m, <1>7 DEF Deleted, CallFails, Typed, TypeOK
<1>8. ASSUME NEW k \in calls, NEW c \in Convs, NewOpened(k, c) PROVE Typed'
  BY <1>0, <1>m, <1>8 DEF NewOpened, NewId, Typed, TypeOK
<1>9. QED
  BY <1>1, <1>2, <1>3, <1>4, <1>5, <1>6, <1>7, <1>8 DEF UserMoves, CallEnds

LEMMA TypedInductive ==
  /\ Init => Typed
  /\ Typed /\ [Next]_vars => Typed'
<1>1. Init => Typed
  <2> SUFFICES ASSUME Init PROVE Typed
    OBVIOUS
  <2>1. asks \in [Ids -> Asks]
    BY DEF Init, Asks, Phases
  <2>2. convs \in [Convs -> {"unborn", "listed", "deleted"}]
    BY DEF Init
  <2>3. stored \in [Convs -> Seq(Rows)] /\ shown \in Seq(Messages)
    BY DEF Init
  <2>4. QED
    BY <2>1, <2>2, <2>3 DEF Init, Typed, TypeOK, NoClues
<1>2. ASSUME Typed, UNCHANGED vars PROVE Typed'
  BY <1>2 DEF vars, Typed, TypeOK
<1>3. QED
  BY <1>1, <1>2, TypedSends, TypedProgress, TypedMoves DEF Next

\* The page, the service and the calls in flight stay in their types, and a page
\* only ever loads and deletes conversations it knows the id of.
THEOREM TypeCorrect == Spec => []TypeOK
BY TypedInductive, PTL DEF Spec, Typed

-----------------------------------------------------------------------------
(* Which asks there are, and on which page which step of one can be found.  *)

Sent == {n \in Ids : asks[n].pc # "idle"}

NumbersInOrder == \E k \in 0..MaxAsks : Sent = 1..k

StepsOfPage ==
  /\ \A n \in Ids :
       /\ asks[n].pc \in {"create", "keep"} => page = "chat"
       /\ asks[n].pc \in {"persist", "stream", "said", "closing", "cut"} => page \in {"chat", "agent"}
       /\ asks[n].pc = "run" => page # "agent"
       /\ asks[n].pc = "speak" => page = "voice"
       /\ asks[n].pc = "thrown" => page = "workspace"
       /\ page = "agent" => asks[n].kind = "one"
  /\ handle # None => handle \in Sent /\ page \in {"chat", "agent"}
  /\ calls # {} => page \in {"chat", "agent"}

OfSent(s) == \A i \in DOMAIN s : s[i].ask \in Sent
KnownAsks ==
  /\ OfSent(shown) /\ \A i \in DOMAIN shown : shown[i].from \subseteq Sent
  /\ \A c \in Convs : OfSent(stored[c])
  /\ \A k \in calls : OfSent(k.rows)

Known == Typed /\ NumbersInOrder /\ StepsOfPage /\ KnownAsks

LEMMA FreshIsNew ==
  ASSUME Typed, NumbersInOrder
  PROVE  /\ Sent \subseteq Ids /\ IsFiniteSet(Sent) /\ Fresh \in Nat \ {0}
         /\ Fresh \notin Sent /\ Sent \cup {Fresh} = 1..Fresh
<1>1. PICK k \in 0..MaxAsks : Sent = 1..k
  BY DEF NumbersInOrder
<1>2. k \in Nat
  BY <1>1, BoundsInNat
<1>3. Cardinality(1..k) = k /\ IsFiniteSet(1..k)
  BY <1>2, FS_Interval
<1>4. Fresh = k + 1
  BY <1>1, <1>3 DEF Fresh, Sent
<1>5. Sent \cup {k + 1} = 1..(k + 1)
  BY <1>1, <1>2
<1>6. Sent \subseteq Ids
  BY DEF Sent
<1>7. k + 1 \notin 1..k /\ k + 1 \in Nat \ {0}
  BY <1>2
<1>8. QED
  BY <1>1, <1>3, <1>4, <1>5, <1>6, <1>7

\* What a step does not change about an ask.
Lasts(n) ==
  /\ asks'[n].pc # "idle" /\ asks'[n].q = asks[n].q /\ asks'[n].kind = asks[n].kind
  /\ asks[n].pc # "create" => asks'[n].conv = asks[n].conv

OthersLast(n) == \A m \in Ids \ {n} : asks'[m] = asks[m]

LEMMA MovesLast ==
  ASSUME Typed, NEW n \in Ids, NEW pc, pc # "idle", Moves(n, pc)
  PROVE  /\ OthersLast(n) /\ Lasts(n) /\ asks'[n].pc = pc /\ asks'[n].conv = asks[n].conv
<1>1. asks \in [Ids -> Asks] /\ asks[n] \in Asks
  BY DEF Typed, TypeOK
<1>2. asks' = [asks EXCEPT ![n] = [asks[n] EXCEPT !.pc = pc]]
  BY <1>1 DEF Moves
<1>3. QED
  BY <1>1, <1>2 DEF OthersLast, Lasts, Asks

LEMMA SendsLast ==
  ASSUME Typed, NumbersInOrder, NEW pc, NEW kind, NEW q, Sends(pc, kind, q)
  PROVE  /\ Fresh \in Ids /\ OthersLast(Fresh)
         /\ asks'[Fresh] = [pc |-> pc, kind |-> kind, q |-> q, conv |-> current]
         /\ asks'[Fresh].pc = pc /\ asks'[Fresh].q = q /\ asks'[Fresh].kind = kind
         /\ asks'[Fresh].conv = current
BY DEF Sends, Begun, Typed, TypeOK, OthersLast

\* A retry asks the question of the answer it retries.
LEMMA RetryAsks ==
  ASSUME Typed, NumbersInOrder, NEW i, AgentRetrying(i)
  PROVE  /\ asks'[Fresh].q = asks[shown[Asked(i)].ask].q /\ asks'[Fresh].conv = current
         /\ asks'[Fresh].pc = "stream" /\ handle' = Fresh /\ Fresh \in Ids
<1> DEFINE q == asks[shown[Asked(i)].ask].q
<1>1. Sends("stream", "one", q) /\ handle' = Fresh
  BY DEF AgentRetrying
<1> HIDE DEF q
<1>2. /\ asks'[Fresh].q = q /\ asks'[Fresh].conv = current /\ asks'[Fresh].pc = "stream"
      /\ Fresh \in Ids
  BY <1>1, SendsLast
<1>3. QED
  BY <1>1, <1>2 DEF q

\* The changes of the asks by what goes on without the user.
LEMMA ProgressMoves ==
  ASSUME Typed, NEW n \in Ids, Progress(n)
  PROVE  /\ n \in Sent /\ OthersLast(n) /\ Lasts(n)
         /\ asks'[n].conv = asks[n].conv \/ \E c \in Convs : Created(n, c)
<1>1. ASSUME NEW c \in Convs, Created(n, c)
      PROVE  n \in Sent /\ OthersLast(n) /\ Lasts(n)
  <2>1. asks \in [Ids -> Asks] /\ asks[n] \in Asks
    BY DEF Typed, TypeOK
  <2>2. asks' = [[asks EXCEPT ![n].pc = "persist"] EXCEPT ![n].conv = c]
    BY <1>1 DEF Created, NewId
  <2>3. asks' = [asks EXCEPT ![n] = [asks[n] EXCEPT !.pc = "persist", !.conv = c]]
    BY <2>1, <2>2
  <2>4. QED
    BY <1>1, <2>1, <2>3 DEF Created, OthersLast, Lasts, Asks, Sent
<1>2. CASE CreateFails(n) \/ Persisted(n) \/ Answered(n) \/ DoneArrives(n) \/ ErrorArrives(n) \/ Closed(n)
           \/ Breaks(n) \/ Ends(n) \/ RunAnswered(n) \/ RunFails(n) \/ Kept(n) \/ Spoken(n)
  <2>1. /\ asks[n].pc # "idle"
        /\ \E pc \in {"done", "stream", "run", "said", "closing", "cut", "keep", "speak"} : Moves(n, pc)
    BY <1>2 DEF CreateFails, Persisted, Answered, DoneArrives, ErrorArrives, Closed, Breaks, Ends,
                RunAnswered, RunFails, Kept, Spoken
  <2>2. QED
    BY <2>1, MovesLast DEF Sent
<1>3. QED
  BY <1>1, <1>2 DEF Progress

LEMMA StopMoves ==
  ASSUME Typed, StepsOfPage, Stop
  PROVE  \/ handle = None /\ asks' = asks
         \/ /\ handle \in Sent /\ OthersLast(handle) /\ Lasts(handle)
            /\ asks'[handle].conv = asks[handle].conv
            /\ asks'[handle].pc = IF asks[handle].pc = "stream" THEN "cut" ELSE "done"
<1>1. CASE handle = None
  BY <1>1 DEF Stop
<1>2. CASE handle # None
  <2>1. handle \in Sent /\ handle \in Ids /\ asks \in [Ids -> Asks] /\ asks[handle] \in Asks
    BY <1>2 DEF StepsOfPage, Sent, Typed, TypeOK
  <2>2. asks' = [asks EXCEPT ![handle] =
                   [asks[handle] EXCEPT !.pc = IF asks[handle].pc = "stream" THEN "cut" ELSE "done"]]
    BY <1>2, <2>1 DEF Stop
  <2>3. QED
    BY <2>1, <2>2 DEF OthersLast, Lasts, Asks
<1>3. QED
  BY <1>1, <1>2

\* The moves between conversations and the stream's deltas leave the asks alone.
LEMMA AsksStay ==
  ASSUME StartNew \/ Clear \/ CallEnds \/ (\E c \in Convs : Open(c) \/ Delete(c)) \/ (\E n \in Ids : Delta(n))
         \/ UNCHANGED vars
  PROVE  asks' = asks
BY DEF StartNew, Clear, CallEnds, Open, Delete, Calling, Delta, Served, Opened, Deleted, CallFails,
       NewOpened, vars

LEMMA SendsSomething ==
  ASSUME Typed, UserSends
  PROVE  \E pc \in {"create", "persist", "stream", "run", "thrown"}, kind \in {"one", "many"}, q \in Ids :
           /\ Sends(pc, kind, q)
           /\ q # Fresh => page = "agent" /\ pc = "stream"
           /\ pc = "create" => page = "chat" /\ current = None
           /\ pc = "persist" => page \in {"chat", "agent"} /\ current # None
           /\ pc = "stream" => page = "agent" /\ current # None
           /\ pc = "run" => page \in {"chat", "workspace", "assistant", "voice"}
           /\ pc = "run" /\ page = "chat" => current = None
           /\ pc = "thrown" => page = "workspace"
           /\ page = "agent" => kind = "one"
           /\ busy => page = "voice"
<1>1. CASE ChatSending
  BY <1>1 DEF ChatSending, Sends
<1>2. CASE AgentSending
  BY <1>2 DEF AgentSending, Sends
<1>3. ASSUME NEW i \in DOMAIN shown, AgentRetrying(i)
      PROVE  /\ page = "agent" /\ current # None /\ ~busy
             /\ \E q \in Ids : Sends("stream", "one", q)
  BY <1>3 DEF AgentRetrying
<1>4. CASE PlainSending
  BY <1>4 DEF PlainSending, Sends
<1>5. QED
  BY <1>1, <1>2, <1>3, <1>4, SendKinds

\* No ask is forgotten, and none changes what it asks.
LEMMA AsksLast ==
  ASSUME Typed, NumbersInOrder, StepsOfPage, [Next]_vars
  PROVE  /\ \A n \in Sent : Lasts(n)
         /\ Sent' = Sent \/ (Sent' = Sent \cup {Fresh} /\ Fresh \in Ids)
         /\ \A n \in Ids \ Sent : asks'[n] = asks[n] \/ (n = Fresh /\ UserSends)
<1>u. ASSUME asks' = asks
      PROVE Sent' = Sent /\ (\A n \in Sent : Lasts(n)) /\ \A n \in Ids \ Sent : asks'[n] = asks[n]
  BY <1>u DEF Sent, Lasts
<1>m. ASSUME NEW n \in Sent, OthersLast(n), Lasts(n)
      PROVE  Sent' = Sent /\ (\A m \in Sent : Lasts(m)) /\ \A m \in Ids \ Sent : asks'[m] = asks[m]
  BY <1>m DEF Sent, Lasts, OthersLast
<1>1. CASE UserSends
  <2>1. PICK pc \in {"create", "persist", "stream", "run", "thrown"},
             kind \in {"one", "many"}, q \in Ids : Sends(pc, kind, q)
    BY <1>1, SendsSomething
  <2>2. Fresh \in Ids /\ OthersLast(Fresh) /\ asks'[Fresh].pc # "idle" /\ Fresh \notin Sent
    <3>1. /\ Fresh \in Ids /\ OthersLast(Fresh)
          /\ asks'[Fresh] = [pc |-> pc, kind |-> kind, q |-> q, conv |-> current]
      BY <2>1, SendsLast
    <3>2. pc # "idle"
      BY <2>1
    <3>3. QED
      BY <3>1, <3>2, FreshIsNew
  <2>3. QED
    BY <1>1, <2>2 DEF Sent, Lasts, OthersLast
<1>2. CASE \E n \in Ids : Progress(n)
  BY <1>2, <1>m, ProgressMoves
<1>3. CASE Stop
  BY <1>3, <1>u, <1>m, StopMoves
<1>4. CASE StartNew \/ Clear \/ CallEnds \/ (\E c \in Convs : Open(c) \/ Delete(c)) \/ (\E n \in Ids : Delta(n))
           \/ UNCHANGED vars
  BY <1>4, <1>u, AsksStay
<1>5. QED
  BY <1>1, <1>2, <1>3, <1>4 DEF Next, UserMoves

LEMMA NumbersStep ==
  ASSUME Typed, NumbersInOrder, StepsOfPage, [Next]_vars
  PROVE  NumbersInOrder'
<1>1. CASE Sent' = Sent
  BY <1>1 DEF NumbersInOrder
<1>2. CASE Sent' = Sent \cup {Fresh} /\ Fresh \in Ids
  <2>1. Sent' = 1..Fresh /\ Fresh \in 0..MaxAsks
    BY <1>2, FreshIsNew, BoundsInNat DEF Ids
  <2>2. QED
    BY <2>1 DEF NumbersInOrder
<1>3. QED
  BY <1>1, <1>2, AsksLast

\* What a step does to the list that is shown.
Appends(n) ==
  /\ n \in UnderWay /\ page # "agent"
  /\ \/ /\ shown' \in {Append(shown, Fault(n)), Append(shown, Reply(n)), Append(shown, Sorry(n))}
        /\ page = "chat" => asks[n].pc \notin {"stream", "said"}
     \/ /\ page = "chat" /\ asks[n].pc = "persist" /\ asks'[n].pc = "stream"
        /\ shown' = Append(shown, Bubble(n))
Fills(n) == asks[n].pc \in {"stream", "said"} /\ shown' \in {Grown(shown, n), Finished(shown, n)}
Replaces ==
  /\ clues' = MovedOn /\ asks' = asks
  /\ shown' = <<>> \/ \E k \in calls : k.op = "load" /\ k.read /\ shown' = Loaded(k.rows)

LEMMA ProgressShows ==
  ASSUME Typed, StepsOfPage, NEW n \in Ids, Progress(n)
  PROVE  shown' = shown \/ Appends(n) \/ Fills(n) \/ shown' = Failed(shown)
<1>1. CASE CreateFails(n) \/ RunFails(n) \/ Kept(n) \/ RunAnswered(n)
  <2>1. n \in UnderWay /\ page # "agent" /\ asks[n].pc \notin {"stream", "said"}
    BY <1>1 DEF CreateFails, RunFails, Kept, RunAnswered, UnderWay, StepsOfPage
  <2>2. shown' = shown \/ shown' \in {Append(shown, Fault(n)), Append(shown, Reply(n)), Append(shown, Sorry(n))}
    BY <1>1 DEF CreateFails, RunFails, Kept, RunAnswered
  <2>3. QED
    BY <2>1, <2>2 DEF Appends
<1>2. CASE Persisted(n)
  <2>1. CASE shown' = shown
    BY <2>1
  <2>2. CASE shown' = Append(shown, Bubble(n)) /\ page = "chat" /\ Moves(n, "stream")
    <3>1. asks'[n].pc = "stream"
      BY <2>2, MovesLast
    <3>2. QED
      BY <1>2, <2>2, <3>1 DEF Persisted, Appends, UnderWay
  <2>3. QED
    BY <1>2, <2>1, <2>2 DEF Persisted
<1>3. CASE (\E c \in Convs : Created(n, c)) \/ Answered(n) \/ Closed(n) \/ Ends(n) \/ Spoken(n)
  BY <1>3 DEF Created, Answered, Closed, Ends, Spoken
<1>4. CASE DoneArrives(n) \/ ErrorArrives(n) \/ Breaks(n)
  BY <1>4 DEF DoneArrives, ErrorArrives, Breaks, Fills
<1>5. QED
  BY <1>1, <1>2, <1>3, <1>4 DEF Progress

LEMMA ShownMoves ==
  ASSUME Typed, StepsOfPage, [Next]_vars
  PROVE  \/ shown' = shown
         \/ UserSends
         \/ \E n \in Ids : Appends(n) \/ Fills(n)
         \/ shown' \in {Failed(shown), Halted(shown)}
         \/ Replaces
<1>1. ASSUME NEW n \in Ids, Progress(n)
      PROVE  shown' = shown \/ Appends(n) \/ Fills(n) \/ shown' = Failed(shown)
  BY <1>1, ProgressShows
<1>2. ASSUME NEW n \in Ids, Delta(n) PROVE Fills(n)
  BY <1>2 DEF Delta, Fills
<1>3. CASE UserMoves
  <2>1. CASE Stop
    BY <2>1 DEF Stop
  <2>2. CASE Clear
    BY <2>2 DEF Clear, Replaces
  <2>3. CASE StartNew \/ \E c \in Convs : Open(c) \/ Delete(c)
    BY <2>3 DEF StartNew, Open, Delete, Calling
  <2>4. QED
    BY <1>3, <2>1, <2>2, <2>3 DEF UserMoves
<1>4. ASSUME NEW k \in calls,
             Served(k) \/ Opened(k) \/ Deleted(k) \/ CallFails(k) \/ \E c \in Convs : NewOpened(k, c)
      PROVE  shown' = shown \/ Replaces
  BY <1>4 DEF Served, Opened, Deleted, CallFails, NewOpened, Replaces
<1>5. QED
  BY <1>1, <1>2, <1>3, <1>4 DEF Next, CallEnds, vars

\* What a step does to the service's rows.
Stores(n, who) ==
  /\ n \in Sent /\ asks[n].conv \in Convs /\ who \in {"user", "bot"}
  /\ stored' = [stored EXCEPT ![asks[n].conv] = Append(@, [who |-> who, ask |-> n])]
  /\ UNCHANGED calls

LEMMA StoredMoves ==
  ASSUME Typed, [Next]_vars
  PROVE  \/ stored' = stored
         \/ \E n \in Ids : /\ Persisted(n) /\ Stores(n, "user")
         \/ \E n \in Ids : /\ Answered(n) \/ Kept(n)
                           /\ Stores(n, "bot")
<1>0. \A n \in Ids : asks[n].conv \notin Convs =>
        \A row : Added(asks[n].conv, row) = {stored}
  BY DEF Typed, TypeOK, Added
<1>1. ASSUME NEW n \in Ids, Progress(n)
      PROVE  \/ stored' = stored
             \/ Persisted(n) /\ Stores(n, "user")
             \/ (Answered(n) \/ Kept(n)) /\ Stores(n, "bot")
  <2>1. CASE Persisted(n)
    BY <1>0, <2>1 DEF Persisted, Stores, Added, Sent
  <2>2. CASE Answered(n) \/ Kept(n)
    BY <1>0, <2>2 DEF Answered, Kept, Stores, Added, Sent
  <2>3. QED
    BY <1>1, <2>1, <2>2 DEF Progress, Created, CreateFails, DoneArrives, ErrorArrives, Closed, Breaks, Ends,
       RunAnswered, RunFails, Spoken
<1>2. CASE UserSends
  <2>1. \E pc, kind, q : Sends(pc, kind, q)
    BY <1>2, SendsSomething
  <2>2. QED
    BY <2>1 DEF Sends
<1>3. CASE UserMoves \/ CallEnds \/ UNCHANGED vars \/ \E n \in Ids : Delta(n)
  BY <1>3 DEF UserMoves, Stop, StartNew, Clear, Open, Delete, Calling, CallEnds, Served, Opened,
     Deleted, CallFails, NewOpened, vars, Delta
<1>4. QED
  BY <1>1, <1>2, <1>3 DEF Next

\* What a step does to the calls in flight.
LEMMA CallMoves ==
  ASSUME Typed, [Next]_vars
  PROVE  \A k \in calls' :
           \/ k \in calls
           \/ k.rows = <<>> /\ page \in {"chat", "agent"}
           \/ \E l \in calls : /\ Served(l) /\ k.op = "load" /\ k.conv = l.conv /\ k.conv \in Convs
                               /\ k.rows = stored[k.conv]
<1>1. ASSUME NEW n \in Ids, Progress(n) \/ Delta(n) PROVE calls' = calls
  BY <1>1 DEF Progress, Created, CreateFails, Persisted, Answered, DoneArrives, ErrorArrives, Closed, Breaks, Ends,
       RunAnswered, RunFails, Kept, Spoken, Delta
<1>2. CASE UserSends
  <2>1. \E pc, kind, q : Sends(pc, kind, q)
    BY <1>2, SendsSomething
  <2>2. QED
    BY <2>1 DEF Sends
<1>3. ASSUME UserMoves, NEW k \in calls', k \notin calls
      PROVE k.rows = <<>> /\ page \in {"chat", "agent"}
  <2>1. CASE Stop \/ Clear
    BY <1>3, <2>1 DEF Stop, Clear
  <2>2. CASE StartNew
    BY <1>3, <2>2 DEF StartNew, Calling
  <2>3. ASSUME NEW c \in Convs, Open(c) \/ Delete(c) PROVE k.rows = <<>> /\ page \in {"chat", "agent"}
    BY <1>3, <2>3 DEF Open, Delete, Calling
  <2>4. QED
    BY <1>3, <2>1, <2>2, <2>3 DEF UserMoves
<1>4. ASSUME NEW l \in calls, Served(l), NEW k \in calls', k \notin calls
      PROVE  k.op = "load" /\ k.conv = l.conv /\ k.conv \in Convs /\ k.rows = stored[k.conv]
  <2>1. l \in Calls /\ l.conv \in Convs /\ l.op = "load"
    BY <1>4 DEF Typed, TypeOK, Served
  <2>2. k = [l EXCEPT !.read = TRUE, !.rows = stored[l.conv]]
    BY <1>4 DEF Served
  <2>3. QED
    BY <2>1, <2>2 DEF Calls
<1>5. ASSUME NEW l \in calls, Opened(l) \/ Deleted(l) \/ CallFails(l) \/ \E c \in Convs : NewOpened(l, c)
      PROVE  calls' \subseteq calls
  BY <1>5 DEF Opened, Deleted, CallFails, NewOpened
<1>6. QED
  BY <1>1, <1>2, <1>3, <1>4, <1>5 DEF Next, CallEnds, vars

LEMMA PageStays ==
  ASSUME Typed, [Next]_vars
  PROVE  page' = page
<1>1. CASE UserSends
  <2>1. \E pc, kind, q : Sends(pc, kind, q)
    BY <1>1, SendsSomething
  <2>2. QED
    BY <2>1 DEF Sends
<1>2. QED
  BY <1>1 DEF Next, UserMoves, Stop, StartNew, Clear, Open, Delete, Calling, CallEnds, Served, Opened,
   Deleted, CallFails, NewOpened, vars, Delta, Progress, Created, CreateFails, Persisted, Answered,
   DoneArrives, ErrorArrives, Closed, Breaks, Ends, RunAnswered, RunFails, Kept, Spoken

LEMMA StepsStep ==
  ASSUME Known, [Next]_vars
  PROVE  StepsOfPage'
<1> USE DEF Known
<1>g. page' = page
  BY PageStays
<1>1. ASSUME NEW n \in Ids
      PROVE  /\ asks'[n].pc \in {"create", "keep"} => page = "chat"
             /\ asks'[n].pc \in {"persist", "stream", "said", "closing", "cut"} => page \in {"chat", "agent"}
             /\ asks'[n].pc = "run" => page # "agent"
             /\ asks'[n].pc = "speak" => page = "voice"
             /\ asks'[n].pc = "thrown" => page = "workspace"
             /\ page = "agent" => asks'[n].kind = "one"
  <2>s. CASE asks'[n] = asks[n]
    BY <2>s DEF StepsOfPage
  <2>1. CASE UserSends /\ n = Fresh
    <3>1. PICK pc \in {"create", "persist", "stream", "run", "thrown"}, kind \in {"one", "many"}, q \in Ids :
           /\ Sends(pc, kind, q)
           /\ pc = "create" => page = "chat"
           /\ pc = "persist" => page \in {"chat", "agent"}
           /\ pc = "stream" => page = "agent"
           /\ pc = "run" => page \in {"chat", "workspace", "assistant", "voice"}
           /\ pc = "thrown" => page = "workspace"
           /\ page = "agent" => kind = "one"
      BY <2>1, SendsSomething
    <3>2. asks'[n].pc = pc /\ asks'[n].kind = kind
      <4>1. asks'[Fresh] = [pc |-> pc, kind |-> kind, q |-> q, conv |-> current]
        BY <3>1, SendsLast
      <4>2. QED
        BY <2>1, <4>1
    <3>3. QED
      BY <3>1, <3>2
  <2>2. CASE Progress(n)
    <3>0. asks'[n].kind = asks[n].kind /\ n \in Ids
      BY <1>1, <2>2, ProgressMoves DEF Lasts
    <3>1. CASE CreateFails(n) \/ Answered(n) \/ DoneArrives(n) \/ ErrorArrives(n) \/ Closed(n)
           \/ Breaks(n) \/ Ends(n) \/ RunFails(n) \/ Kept(n) \/ Spoken(n)
      <4>1. \/ Moves(n, "done")
            \/ asks[n].pc = "stream" /\ (Moves(n, "said") \/ Moves(n, "closing") \/ Moves(n, "cut"))
            \/ asks[n].pc = "said" /\ Moves(n, "closing")
        BY <3>1 DEF CreateFails, Answered, DoneArrives, ErrorArrives, Closed, Breaks, Ends, RunFails, Kept, Spoken
      <4>2. asks'[n].pc = "done" \/ (asks[n].pc \in {"stream", "said"} /\ asks'[n].pc \in {"said", "closing", "cut"})
        BY <1>1, <4>1, MovesLast
      <4>3. QED
        BY <3>0, <4>2 DEF StepsOfPage
    <3>2. CASE Persisted(n)
      <4>1. \/ asks'[n].pc = "stream"
            \/ asks[n].kind = "many" /\ asks'[n].pc = "run"
        BY <1>1, <3>2, MovesLast DEF Persisted
      <4>2. asks[n].pc = "persist"
        BY <3>2 DEF Persisted
      <4>3. QED
        BY <3>0, <4>1, <4>2 DEF StepsOfPage
    <3>3. CASE RunAnswered(n)
      <4>1. \/ page = "chat" /\ asks'[n].pc = "keep"
            \/ asks'[n].pc = "done"
            \/ page = "voice" /\ asks'[n].pc = "speak"
        BY <1>1, <3>3, MovesLast DEF RunAnswered
      <4>2. QED
        BY <3>0, <4>1 DEF StepsOfPage
    <3>4. ASSUME NEW c \in Convs, Created(n, c) PROVE asks'[n].pc = "persist" /\ page = "chat"
      BY <1>1, <3>4 DEF Created, Typed, TypeOK, Asks, StepsOfPage
    <3>5. QED
      BY <2>2, <3>0, <3>1, <3>2, <3>3, <3>4 DEF Progress, StepsOfPage
  <2>3. CASE Stop
    <3>1. CASE handle = n
      <4>1. asks' = asks \/ (/\ asks'[n].kind = asks[n].kind
                             /\ asks'[n].pc = IF asks[n].pc = "stream" THEN "cut" ELSE "done")
        BY <2>3, <3>1, StopMoves DEF Lasts
      <4>2. QED
        BY <1>1, <2>s, <4>1 DEF StepsOfPage
    <3>2. CASE handle # n
      <4>1. asks'[n] = asks[n]
        BY <1>1, <2>3, <3>2, StopMoves DEF OthersLast
      <4>2. QED
        BY <2>s, <4>1
    <3>3. QED
      BY <3>1, <3>2
  <2>4. ASSUME NEW m \in Ids, Progress(m), m # n PROVE asks'[n] = asks[n]
    BY <1>1, <2>4, ProgressMoves DEF OthersLast
  <2>5. CASE UserSends /\ n # Fresh
    <3>1. \E pc, kind, q : Sends(pc, kind, q)
      BY <2>5, SendsSomething
    <3>2. QED
      BY <1>1, <2>5, <2>s, <3>1, SendsLast DEF OthersLast
  <2>6. QED
    BY <2>s, <2>1, <2>2, <2>3, <2>4, <2>5, AsksStay DEF Next, UserMoves
<1>2. handle' # None => handle' \in Sent' /\ page \in {"chat", "agent"}
  <2>0. Sent \subseteq Sent'
    BY AsksLast
  <2>1. CASE handle' = handle
    BY <2>0, <2>1 DEF StepsOfPage
  <2>2. CASE handle' = None
    BY <2>2
  <2>3. ASSUME NEW n \in Ids, Persisted(n), handle' = n
        PROVE handle' \in Sent' /\ page \in {"chat", "agent"}
    BY <2>0, <2>3 DEF Persisted, Sent, StepsOfPage
  <2>4. ASSUME NEW i \in DOMAIN shown, AgentRetrying(i)
        PROVE handle' \in Sent' /\ page \in {"chat", "agent"}
    <3>1. handle' = Fresh /\ page = "agent" /\ \E q : Sends("stream", "one", q)
      BY <2>4 DEF AgentRetrying
    <3>2. Fresh \in Ids /\ asks'[Fresh].pc = "stream"
      BY <3>1, SendsLast
    <3>3. QED
      BY <3>1, <3>2 DEF Sent
  <2>5. CASE UserSends
    <3>1. handle' = handle \/ \E i \in DOMAIN shown : AgentRetrying(i)
      BY <2>5, SendKinds DEF ChatSending, AgentSending, PlainSending
    <3>2. QED
      BY <2>1, <2>4, <3>1
  <2>6. ASSUME NEW n \in Ids, Progress(n) \/ Delta(n)
        PROVE handle' = handle \/ handle' = None \/ (Persisted(n) /\ handle' = n)
    BY <2>6 DEF Progress, Created, CreateFails, Persisted, Answered, DoneArrives, ErrorArrives, Closed, Breaks, Ends,
       RunAnswered, RunFails, Kept, Spoken, Delta
  <2>7. CASE UserMoves \/ CallEnds \/ UNCHANGED vars
    <3>1. handle' = handle \/ handle' = None
      BY <2>7 DEF UserMoves, Stop, StartNew, Clear, Open, Delete, Calling, CallEnds, Served, Opened,
        Deleted, CallFails, NewOpened, vars
    <3>2. QED
      BY <2>1, <2>2, <3>1
  <2>8. QED
    BY <2>1, <2>2, <2>3, <2>5, <2>6, <2>7 DEF Next
<1>3. calls' # {} => page \in {"chat", "agent"}
  BY CallMoves DEF StepsOfPage
<1>4. QED
  BY <1>g, <1>1, <1>2, <1>3 DEF StepsOfPage

LEMMA KnownAsksStep ==
  ASSUME Known, [Next]_vars
  PROVE  KnownAsks'
<1> USE DEF Known
<1>0. /\ shown \in Seq(Messages) /\ DOMAIN shown = 1..Len(shown) /\ Len(shown) \in Nat
      /\ Sent \subseteq Sent' /\ UnderWay \subseteq Sent
      /\ \A n \in Ids : asks[n].pc \in {"stream", "said"} => n \in Sent
  <2>1. Sent \subseteq Sent'
    BY AsksLast
  <2>2. QED
    BY <2>1 DEF Typed, TypeOK, Sent, UnderWay
<1> DEFINE Fine(m) == m.ask \in Sent' /\ m.from \subseteq Sent'
<1>f. ASSUME NEW n \in Sent'
      PROVE Fine(User(n)) /\ Fine(Bubble(n)) /\ Fine(Reply(n)) /\ Fine(Sorry(n)) /\ Fine(Fault(n))
  BY <1>f DEF User, Bubble, Reply, Sorry, Fault
<1>s. \A i \in DOMAIN shown : Fine(shown[i])
  BY <1>0 DEF KnownAsks, OfSent
<1>1. ASSUME NEW i \in DOMAIN shown' PROVE Fine(shown'[i])
  <2>1. CASE shown' = shown
    BY <1>1, <1>s, <2>1
  <2>2. CASE UserSends
    <3>0. Fresh \in Sent' /\ Fine(User(Fresh)) /\ Fine(Bubble(Fresh)) /\ Fresh \in Ids
      <4>1. PICK pc \in {"create", "persist", "stream", "run", "thrown"},
                 kind \in {"one", "many"}, q \in Ids : Sends(pc, kind, q)
        BY <2>2, SendsSomething
      <4>2. Fresh \in Ids /\ asks'[Fresh].pc = pc
        BY <4>1, SendsLast
      <4>3. Fresh \in Sent'
        BY <4>1, <4>2 DEF Sent
      <4>4. QED
        BY <1>f, <4>2, <4>3
    <3>1. CASE ChatSending
      <4>1. PICK s \in Seq(Messages) : Base(s) /\ shown' = Append(s, User(Fresh))
        BY <3>1 DEF ChatSending
      <4>2. \A j \in DOMAIN s : Fine(s[j])
        <5>1. ASSUME NEW l \in DOMAIN shown, s = Without(shown, l), NEW j \in DOMAIN s PROVE Fine(s[j])
          <6>1. j \in 1..(Len(shown) - 1) /\ (s[j] = shown[j] \/ s[j] = shown[j + 1])
            BY <1>0, <5>1, WithoutOne
          <6>2. j \in DOMAIN shown /\ j + 1 \in DOMAIN shown
            BY <1>0, <6>1
          <6>3. QED
            BY <1>s, <6>1, <6>2
        <5>2. QED
          BY <1>s, <4>1, <5>1 DEF Base
      <4>3. shown'[i] = User(Fresh) \/ (i \in DOMAIN s /\ shown'[i] = s[i])
        BY <1>1, <4>1
      <4>4. QED
        BY <3>0, <4>2, <4>3
    <3>2. CASE AgentSending
      <4>1. shown' = shown \o <<User(Fresh), Bubble(Fresh)>> /\ <<User(Fresh), Bubble(Fresh)>> \in Seq(Messages)
        BY <3>0, <3>2, MessageTypes DEF AgentSending
      <4>2. \/ i \in DOMAIN shown /\ shown'[i] = shown[i]
            \/ shown'[i] \in {User(Fresh), Bubble(Fresh)}
        BY <1>0, <1>1, <4>1, ConcatProperties
      <4>3. QED
        BY <1>s, <3>0, <4>2
    <3>3. ASSUME NEW j \in DOMAIN shown, AgentRetrying(j) PROVE Fine(shown'[i])
      <4>1. /\ DOMAIN shown' = DOMAIN shown
            /\ shown'[j] = [shown[j] EXCEPT !.from = {}, !.bad = FALSE, !.live = TRUE]
            /\ \A l \in DOMAIN shown : l # j => shown'[l] = shown[l]
        BY <1>0, <3>3, RetryShown DEF AgentRetrying
      <4>2. shown[j] \in Messages
        BY <1>0, <3>3
      <4>3. Fine(shown'[j])
        BY <1>s, <3>3, <4>1, <4>2 DEF Messages
      <4>4. QED
        BY <1>1, <1>s, <4>1, <4>3
    <3>4. CASE PlainSending
      <4>1. shown' = Append(shown, User(Fresh))
        BY <3>4 DEF PlainSending
      <4>2. shown'[i] = User(Fresh) \/ (i \in DOMAIN shown /\ shown'[i] = shown[i])
        BY <1>0, <1>1, <4>1
      <4>3. QED
        BY <1>s, <3>0, <4>2
    <3>5. QED
      BY <2>2, <3>1, <3>2, <3>3, <3>4, SendKinds
  <2>3. ASSUME NEW n \in Ids, Appends(n) PROVE Fine(shown'[i])
    <3>1. PICK m \in {Fault(n), Bubble(n), Reply(n), Sorry(n)} : shown' = Append(shown, m)
      BY <2>3 DEF Appends
    <3>2. n \in Sent'
      BY <1>0, <2>3 DEF Appends
    <3>3. Fine(m)
      BY <1>f, <3>1, <3>2
    <3>4. shown'[i] = m \/ (i \in DOMAIN shown /\ shown'[i] = shown[i])
      BY <1>0, <1>1, <3>1
    <3>5. QED
      BY <1>s, <3>3, <3>4
  <2>p. ASSUME Patch(shown, shown'),
               Streaming(shown) => Fine(shown'[Len(shown)])
        PROVE  Fine(shown'[i])
    <3>1. i \in DOMAIN shown
      BY <1>1, <2>p DEF Patch
    <3>2. CASE i = Len(shown) /\ shown[i].live
      <4>1. Streaming(shown)
        BY <1>0, <3>1, <3>2 DEF Streaming
      <4>2. QED
        BY <2>p, <3>2, <4>1
    <3>3. CASE i # Len(shown) \/ ~shown[i].live
      BY <1>s, <2>p, <3>1, <3>3 DEF Patch
    <3>4. QED
      BY <3>2, <3>3
  <2>l. Streaming(shown) => Len(shown) \in DOMAIN shown /\ shown[Len(shown)] \in Messages /\ Fine(shown[Len(shown)])
    BY <1>0, <1>s DEF Streaming
  <2>4. ASSUME NEW n \in Ids, Fills(n) PROVE Fine(shown'[i])
    <3>1. n \in Sent'
      BY <1>0, <2>4 DEF Fills
    <3>2. CASE shown' = Grown(shown, n)
      <4>1. /\ Patch(shown, shown')
            /\ Streaming(shown) => shown'[Len(shown)] = [shown[Len(shown)] EXCEPT !.from = @ \cup {n}]
        BY <1>0, <3>2, Patches
      <4>2. ASSUME Streaming(shown) PROVE Fine(shown'[Len(shown)])
        <5> DEFINE m == shown[Len(shown)]
        <5>1. m \in Messages /\ Fine(m)
          BY <2>l, <4>2
        <5> HIDE DEF m
        <5>2. shown'[Len(shown)] = [m EXCEPT !.from = @ \cup {n}]
          BY <4>1, <4>2 DEF m
        <5>3. QED
          BY <3>1, <5>1, <5>2 DEF Messages
      <4>3. QED
        BY <2>p, <4>1, <4>2
    <3>3. CASE shown' = Finished(shown, n)
      <4>1. /\ Patch(shown, shown')
            /\ Streaming(shown) => shown'[Len(shown)] = [shown[Len(shown)] EXCEPT !.from = {n}, !.live = FALSE]
        BY <1>0, <3>3, Patches
      <4>2. ASSUME Streaming(shown) PROVE Fine(shown'[Len(shown)])
        <5> DEFINE m == shown[Len(shown)]
        <5>1. m \in Messages /\ Fine(m)
          BY <2>l, <4>2
        <5> HIDE DEF m
        <5>2. shown'[Len(shown)] = [m EXCEPT !.from = {n}, !.live = FALSE]
          BY <4>1, <4>2 DEF m
        <5>3. QED
          BY <3>1, <5>1, <5>2 DEF Messages
      <4>3. QED
        BY <2>p, <4>1, <4>2
    <3>4. QED
      BY <2>4, <3>2, <3>3 DEF Fills
  <2>8. ASSUME NEW n \in Ids, shown' \in {Failed(shown), Halted(shown)} PROVE Fine(shown'[i])
    <3>1. /\ Patch(shown, shown')
          /\ Streaming(shown) => shown'[Len(shown)] \in {[shown[Len(shown)] EXCEPT !.bad = TRUE, !.live = FALSE],
                                                         [shown[Len(shown)] EXCEPT !.live = FALSE]}
      BY <1>0, <2>8, Patches
    <3>2. ASSUME Streaming(shown) PROVE Fine(shown'[Len(shown)])
      <4> DEFINE m == shown[Len(shown)]
      <4>1. m \in Messages /\ Fine(m)
        BY <2>l, <3>2
      <4> HIDE DEF m
      <4>2. shown'[Len(shown)] \in {[m EXCEPT !.bad = TRUE, !.live = FALSE], [m EXCEPT !.live = FALSE]}
        BY <3>1, <3>2 DEF m
      <4>3. QED
        BY <4>1, <4>2 DEF Messages
    <3>3. QED
      BY <2>p, <3>1, <3>2
  <2>5. CASE Replaces
    <3>1. CASE shown' = <<>>
      BY <1>1, <3>1
    <3>2. ASSUME NEW k \in calls, shown' = Loaded(k.rows) PROVE Fine(shown'[i])
      <4>1. k.rows \in Seq(Rows)
        BY <3>2, TypedParts
      <4>2. i \in DOMAIN k.rows /\ shown'[i] \in {User(k.rows[i].ask), Reply(k.rows[i].ask)}
        BY <1>1, <3>2, <4>1, LoadedRows
      <4>3. k.rows[i].ask \in Sent'
        BY <1>0, <3>2, <4>2 DEF KnownAsks, OfSent
      <4>4. QED
        BY <1>f, <4>2, <4>3
    <3>3. QED
      BY <2>5, <3>1, <3>2 DEF Replaces
  <2>6. CASE Ids = {}
    <3>1. shown = <<>>
      BY <1>0, <2>6 DEF Messages
    <3>2. Failed(shown) = shown /\ Halted(shown) = shown
      BY <3>1 DEF Failed, Halted, Streaming
    <3>3. QED
      BY <2>1, <2>2, <2>3, <2>4, <2>5, <3>2, ShownMoves
  <2>7. QED
    BY <2>1, <2>2, <2>3, <2>4, <2>5, <2>6, <2>8, ShownMoves
<1>2. ASSUME NEW c \in Convs, NEW i \in DOMAIN stored'[c] PROVE stored'[c][i].ask \in Sent'
  <2>1. CASE stored' = stored
    BY <1>0, <1>2, <2>1 DEF KnownAsks, OfSent
  <2>2. ASSUME NEW n \in Ids, NEW who, Stores(n, who) PROVE stored'[c][i].ask \in Sent'
    <3>1. stored[c] \in Seq(Rows)
      BY <1>2 DEF Typed, TypeOK
    <3>2. \/ stored'[c] = stored[c]
          \/ stored'[c] = Append(stored[c], [who |-> who, ask |-> n])
      BY <1>2, <2>2 DEF Stores, Typed, TypeOK
    <3>3. \/ i \in DOMAIN stored[c] /\ stored'[c][i] = stored[c][i]
          \/ stored'[c][i] = [who |-> who, ask |-> n]
      BY <1>2, <3>1, <3>2
    <3>4. QED
      BY <1>0, <1>2, <2>2, <3>3 DEF KnownAsks, OfSent, Stores
  <2>3. QED
    BY <2>1, <2>2, StoredMoves
<1>3. ASSUME NEW k \in calls', NEW i \in DOMAIN k.rows PROVE k.rows[i].ask \in Sent'
  BY <1>0, <1>3, CallMoves DEF KnownAsks, OfSent
<1>4. QED
  BY <1>1, <1>2, <1>3 DEF KnownAsks, OfSent

LEMMA KnownInductive ==
  /\ Init => Known
  /\ Known /\ [Next]_vars => Known'
<1>1. Init => Known
  <2> SUFFICES ASSUME Init PROVE Known
    OBVIOUS
  <2>1. Sent = {} /\ 1..0 = {} /\ 0 \in 0..MaxAsks
    BY BoundsInNat DEF Init, Sent
  <2>2. NumbersInOrder
    BY <2>1 DEF NumbersInOrder
  <2>3. StepsOfPage
    BY DEF Init, StepsOfPage
  <2>4. KnownAsks
    BY DEF Init, KnownAsks, OfSent
  <2>5. QED
    BY <2>2, <2>3, <2>4, TypedInductive DEF Known
<1>2. QED
  BY <1>1, TypedInductive, NumbersStep, StepsStep, KnownAsksStep DEF Known

-----------------------------------------------------------------------------
(* One send at a time.                                                      *)

Writing == {n \in Ids : asks[n].pc \in {"stream", "said", "closing"}}

\* What a step of ask n does to the sending flag and the stop handle.
LEMMA ProgressKinds ==
  ASSUME Typed, NEW n \in Ids, Progress(n)
  PROVE  \/ /\ n \in UnderWay /\ n \notin UnderWay' /\ busy' = FALSE
            /\ handle' = None \/ (handle' = handle /\ n \notin Writing)
         \/ /\ n \in UnderWay /\ n \in UnderWay' /\ busy' = busy
            /\ n \in Writing <=> n \in Writing'
            /\ handle' = handle
         \/ /\ n \in UnderWay /\ n \in UnderWay' /\ busy' = busy
            /\ n \notin Writing /\ n \in Writing' /\ handle' = n
         \/ /\ n \notin UnderWay /\ n \notin UnderWay' /\ busy' = busy
            /\ n \notin Writing' /\ handle' = handle
<1>0. /\ n \in UnderWay <=> asks[n].pc \notin {"idle", "cut", "thrown", "done"}
      /\ n \in UnderWay' <=> asks'[n].pc \notin {"idle", "cut", "thrown", "done"}
      /\ n \in Writing <=> asks[n].pc \in {"stream", "said", "closing"}
      /\ n \in Writing' <=> asks'[n].pc \in {"stream", "said", "closing"}
  BY DEF UnderWay, Writing
<1>m. \A pc : pc # "idle" /\ Moves(n, pc) => asks'[n].pc = pc
  BY MovesLast
<1>1. CASE CreateFails(n) \/ RunFails(n) \/ Kept(n) \/ Spoken(n)
  <2>1. asks'[n].pc = "done"
    BY <1>m, <1>1 DEF CreateFails, RunFails, Kept, Spoken
  <2>2. QED
    BY <1>0, <1>1, <2>1 DEF CreateFails, RunFails, Kept, Spoken
<1>2. CASE Closed(n) \/ Breaks(n) \/ Ends(n)
  <2>1. asks'[n].pc \in {"cut", "done"}
    BY <1>m, <1>2 DEF Closed, Breaks, Ends
  <2>2. QED
    BY <1>0, <1>2, <2>1 DEF Closed, Breaks, Ends
<1>3. CASE RunAnswered(n)
  <2>1. /\ \/ asks'[n].pc \in {"keep", "speak"} /\ busy' = busy
           \/ asks'[n].pc = "done" /\ busy' = FALSE
        /\ asks[n].pc = "run" /\ handle' = handle
    BY <1>m, <1>3 DEF RunAnswered
  <2>2. QED
    BY <1>0, <2>1
<1>4. CASE Persisted(n)
  <2>1. /\ \/ asks'[n].pc = "stream" /\ handle' = n
           \/ asks'[n].pc = "run" /\ handle' = handle
        /\ asks[n].pc = "persist" /\ busy' = busy
    BY <1>m, <1>4 DEF Persisted
  <2>2. QED
    BY <1>0, <2>1
<1>5. CASE Answered(n)
  <2>1. /\ \/ asks[n].pc = "stream" /\ asks'[n].pc = "said"
           \/ asks[n].pc = "cut" /\ asks'[n].pc = "done"
        /\ busy' = busy /\ handle' = handle
    BY <1>m, <1>5 DEF Answered
  <2>2. QED
    BY <1>0, <2>1
<1>6. CASE DoneArrives(n) \/ ErrorArrives(n)
  <2>1. asks'[n].pc = "closing"
    BY <1>m, <1>6 DEF DoneArrives, ErrorArrives
  <2>2. QED
    BY <1>0, <1>6, <2>1 DEF DoneArrives, ErrorArrives
<1>7. ASSUME NEW c \in Convs, Created(n, c)
      PROVE  /\ n \in UnderWay /\ n \in UnderWay' /\ busy' = busy
             /\ n \in Writing <=> n \in Writing'
             /\ handle' = handle
  <2>1. asks'[n].pc = "persist" /\ asks[n].pc = "create" /\ busy' = busy /\ handle' = handle
    BY <1>7 DEF Created, Typed, TypeOK, Asks
  <2>2. QED
    BY <1>0, <2>1
<1>8. QED
  BY <1>1, <1>2, <1>3, <1>4, <1>5, <1>6, <1>7 DEF Progress

\* Nothing else but a send, a step of one and the stop button touches them.
LEMMA QuietKinds ==
  ASSUME StartNew \/ Clear \/ CallEnds \/ (\E c \in Convs : Open(c) \/ Delete(c)) \/ (\E n \in Ids : Delta(n))
         \/ UNCHANGED vars, Typed
  PROVE  /\ asks' = asks /\ busy' = busy /\ handle' = handle /\ page' = page
         /\ clues'.hasty = clues.hasty /\ clues'.buried = clues.buried /\ clues'.unsaved = clues.unsaved
         /\ clues'.lost = clues.lost
<1>1. \/ clues' = clues
      \/ clues' = [clues EXCEPT !.crossed = @ \/ calls # {}]
      \/ clues' = MovedOn
  BY DEF StartNew, Clear, CallEnds, Open, Delete, Calling, Delta, Served, Opened, Deleted, CallFails,
       NewOpened, vars
<1>2. /\ clues'.hasty = clues.hasty /\ clues'.buried = clues.buried /\ clues'.unsaved = clues.unsaved
      /\ clues'.lost = clues.lost
  BY <1>1, MovedOnTyped DEF Typed, TypeOK
<1>3. QED
  BY <1>2, AsksStay DEF StartNew, Clear, CallEnds, Open, Delete, Calling, Delta, Served, Opened, Deleted,
       CallFails, NewOpened, vars

LEMMA ProgressClues ==
  ASSUME Typed, NEW n \in Ids, Progress(n)
  PROVE  /\ page' = page /\ clues'.moved = clues.moved /\ clues'.crossed = clues.crossed
         /\ clues'.hasty = clues.hasty /\ clues'.buried = clues.buried
         /\ clues'.unsaved = clues.unsaved \/ (Persisted(n) /\ clues'.unsaved = clues.unsaved \cup {n})
         /\ clues'.lost = clues.lost \/ (Ends(n) /\ clues'.lost = clues.lost \cup {asks[n].q})
<1>1. CASE Persisted(n)
  BY <1>1 DEF Persisted, Typed, TypeOK
<1>2. CASE Ends(n)
  BY <1>2 DEF Ends, Typed, TypeOK
<1>3. QED
  BY <1>1, <1>2 DEF Progress, Created, CreateFails, Answered, DoneArrives, ErrorArrives, Closed, Breaks,
     RunAnswered, RunFails, Kept, Spoken

LEMMA SendClues ==
  ASSUME Typed, UserSends
  PROVE  /\ page' = page /\ clues'.crossed = clues.crossed
         /\ clues'.hasty = clues.hasty /\ clues'.unsaved = clues.unsaved /\ clues'.lost = clues.lost
         /\ clues' = clues \/ (page = "agent" /\ \E i \in DOMAIN shown : AgentRetrying(i))
<1>1. ASSUME NEW i \in DOMAIN shown, AgentRetrying(i)
      PROVE  /\ page = "agent" /\ clues'.hasty = clues.hasty /\ clues'.unsaved = clues.unsaved
             /\ clues'.crossed = clues.crossed /\ clues'.lost = clues.lost
  BY <1>1 DEF AgentRetrying, Typed, TypeOK
<1>2. clues' = clues \/ \E i \in DOMAIN shown : AgentRetrying(i)
  BY SendKinds DEF ChatSending, AgentSending, PlainSending
<1>3. page' = page
  <2>1. \E pc, kind, q : Sends(pc, kind, q)
    BY SendsSomething
  <2>2. QED
    BY <2>1 DEF Sends
<1>4. QED
  BY <1>1, <1>2, <1>3

LEMMA BusyStep ==
  ASSUME Known, BusyIsWorking, [Next]_vars
  PROVE  BusyIsWorking'
<1> USE DEF Known
<1>1. CASE UserSends
  <2>1. PICK pc \in {"create", "persist", "stream", "run", "thrown"}, kind \in {"one", "many"}, q \in Ids :
          Sends(pc, kind, q) /\ (pc = "thrown" => page = "workspace")
    BY <1>1, SendsSomething
  <2>2. Fresh \in Ids /\ asks'[Fresh].pc = pc /\ page' = page
    BY <1>1, <2>1, SendsLast, SendClues
  <2>3. pc # "thrown" => Fresh \in UnderWay'
    BY <2>1, <2>2 DEF UnderWay
  <2>4. QED
    BY <2>1, <2>2, <2>3 DEF BusyIsWorking
<1>2. ASSUME NEW n \in Ids, Progress(n) PROVE BusyIsWorking'
  <2>1. UnderWay \ {n} \subseteq UnderWay' /\ page' = page
    BY <1>2, ProgressMoves, ProgressClues DEF OthersLast, UnderWay
  <2>2. busy' = FALSE \/ (busy' = busy /\ (n \in UnderWay => n \in UnderWay'))
    BY <1>2, ProgressKinds
  <2>3. QED
    BY <2>1, <2>2 DEF BusyIsWorking
<1>3. CASE Stop
  BY <1>3 DEF Stop, BusyIsWorking
<1>4. CASE StartNew \/ Clear \/ CallEnds \/ (\E c \in Convs : Open(c) \/ Delete(c)) \/ (\E n \in Ids : Delta(n))
           \/ UNCHANGED vars
  <2>1. asks' = asks /\ busy' = busy /\ page' = page
    BY <1>4, QuietKinds
  <2>2. QED
    BY <2>1 DEF BusyIsWorking, UnderWay
<1>5. QED
  BY <1>1, <1>2, <1>3, <1>4 DEF Next, UserMoves

\* A page that says it is working has a send under way, for any number of messages
\* and whatever the user opens, stops or deletes meanwhile.
THEOREM WorkingBehindBusy == Spec => []BusyIsWorking
<1>1. Init => BusyIsWorking
  BY DEF Init, BusyIsWorking
<1>2. QED
  BY <1>1, KnownInductive, BusyStep, PTL DEF Spec

\* Only AgentExecutePage can be stopped too early or answer in the middle.
Haste ==
  /\ clues.hasty => page = "agent"
  /\ clues.buried => page = "agent"

\* Without that one send is under way at a time, and the stop button ends its stream.
Alone ==
  ~clues.hasty =>
    /\ page # "voice" => /\ UnderWay # {} => busy
                         /\ \A m, n \in UnderWay : m = n
    /\ handle # None => handle \in Writing
    /\ \A n \in Writing : handle = n

LEMMA AloneStep ==
  ASSUME Known, Haste, Alone, [Next]_vars
  PROVE  Haste' /\ Alone'
<1> USE DEF Known
<1>0. /\ \A n \in Ids : n \in UnderWay <=> asks[n].pc \notin {"idle", "cut", "thrown", "done"}
      /\ \A n \in Ids : n \in UnderWay' <=> asks'[n].pc \notin {"idle", "cut", "thrown", "done"}
      /\ \A n \in Ids : n \in Writing <=> asks[n].pc \in {"stream", "said", "closing"}
      /\ \A n \in Ids : n \in Writing' <=> asks'[n].pc \in {"stream", "said", "closing"}
      /\ UnderWay \subseteq Ids /\ UnderWay' \subseteq Ids /\ Writing \subseteq UnderWay
      /\ Writing' \subseteq UnderWay' /\ None \notin Ids
  BY IdsAreNumbers DEF UnderWay, Writing
<1>v. page = "voice" => handle = None /\ Writing = {}
  BY DEF StepsOfPage, Writing
<1>1. CASE UserSends
  <2>1. PICK pc \in {"create", "persist", "stream", "run", "thrown"}, kind \in {"one", "many"}, q \in Ids :
          /\ Sends(pc, kind, q)
          /\ pc = "stream" => page = "agent"
          /\ busy => page = "voice"
    BY <1>1, SendsSomething
  <2>2. Fresh \in Ids /\ asks'[Fresh].pc = pc /\ OthersLast(Fresh) /\ busy' = TRUE
        /\ page' = page /\ clues'.hasty = clues.hasty /\ (clues'.buried = clues.buried \/ page = "agent")
    BY <1>1, <2>1, SendsLast, SendClues DEF Sends
  <2>3. Haste'
    BY <2>2 DEF Haste
  <2>4. ASSUME ~clues.hasty
        PROVE  /\ page # "voice" => \A m, n \in UnderWay' : m = n
               /\ handle' # None => handle' \in Writing'
               /\ \A n \in Writing' : handle' = n
    <3>1. page # "voice" => UnderWay = {} /\ Writing = {} /\ handle = None
      BY <1>0, <2>1, <2>4 DEF Alone
    <3>2. Writing = {} /\ handle = None
      BY <1>v, <3>1
    <3>3. UnderWay' \subseteq UnderWay \cup {Fresh} /\ Writing' \subseteq {Fresh}
      BY <1>0, <2>2, <3>2 DEF OthersLast
    <3>4. CASE \E i \in DOMAIN shown : AgentRetrying(i)
      <4>1. handle' = Fresh /\ asks'[Fresh].pc = "stream"
        BY <3>4, RetryAsks
      <4>2. QED
        BY <1>0, <2>2, <3>1, <3>3, <4>1
    <3>5. CASE ChatSending \/ AgentSending \/ PlainSending
      <4>1. handle' = None
        BY <3>2, <3>5 DEF ChatSending, AgentSending, PlainSending
      <4>2. asks'[Fresh].pc # "stream" /\ asks'[Fresh].pc \notin {"said", "closing"}
        <5>1. CASE ChatSending
          <6>1. \E pc2 \in {"create", "persist", "run"}, kind2 \in {"one", "many"} : Sends(pc2, kind2, Fresh)
            BY <5>1 DEF ChatSending
          <6>2. QED
            BY <6>1, SendsLast
        <5>2. CASE AgentSending
          BY <5>2, SendsLast DEF AgentSending
        <5>3. CASE PlainSending
          BY <5>3, SendsLast DEF PlainSending
        <5>4. QED
          BY <3>5, <5>1, <5>2, <5>3
      <4>3. Writing' = {}
        BY <1>0, <2>2, <3>3, <4>2
      <4>4. QED
        BY <3>1, <3>3, <4>1, <4>3
    <3>6. QED
      BY <1>1, <3>4, <3>5, SendKinds
  <2>5. QED
    BY <2>2, <2>3, <2>4 DEF Alone
<1>2. ASSUME NEW n \in Ids, Progress(n) PROVE Haste' /\ Alone'
  <2>1. page' = page /\ clues'.hasty = clues.hasty /\ clues'.buried = clues.buried
    BY <1>2, ProgressClues
  <2>2. Haste'
    BY <2>1 DEF Haste
  <2>3. \A m \in Ids \ {n} : (m \in UnderWay' <=> m \in UnderWay) /\ (m \in Writing' <=> m \in Writing)
    BY <1>0, <1>2, ProgressMoves DEF OthersLast
  <2>4. ASSUME ~clues.hasty
        PROVE  /\ page # "voice" => /\ UnderWay' # {} => busy'
                                    /\ \A l, m \in UnderWay' : l = m
               /\ handle' # None => handle' \in Writing'
               /\ \A m \in Writing' : handle' = m
    <3>a. CASE page = "voice"
      <4>1. Writing' = {} /\ handle' = None
        BY <3>a, <2>1, StepsStep, <1>0 DEF StepsOfPage
      <4>2. QED
        BY <3>a, <4>1
    <3>b. CASE page # "voice"
      <4>0. /\ UnderWay # {} => busy
            /\ \A l, m \in UnderWay : l = m
            /\ handle # None => handle \in Writing
            /\ \A m \in Writing : handle = m
        BY <2>4, <3>b DEF Alone
      <4>1. CASE /\ n \in UnderWay /\ n \notin UnderWay' /\ busy' = FALSE
                 /\ handle' = None \/ (handle' = handle /\ n \notin Writing)
        <5>1. UnderWay' = {} /\ Writing' = {}
          BY <1>0, <2>3, <4>0, <4>1
        <5>2. handle' = None
          BY <1>0, <4>0, <4>1
        <5>3. QED
          BY <5>1, <5>2
      <4>2. CASE /\ n \in UnderWay /\ n \in UnderWay' /\ busy' = busy
                 /\ n \in Writing <=> n \in Writing'
                 /\ handle' = handle
        <5>1. UnderWay' = UnderWay /\ Writing' = Writing
          BY <1>0, <2>3, <4>2
        <5>2. QED
          BY <4>0, <4>2, <5>1
      <4>3. CASE /\ n \in UnderWay /\ n \in UnderWay' /\ busy' = busy
                 /\ n \notin Writing /\ n \in Writing' /\ handle' = n
        <5>0. Writing = {}
          BY <1>0, <4>0, <4>3
        <5>1. UnderWay' = UnderWay /\ Writing' = {n}
          BY <1>0, <2>3, <4>3, <5>0
        <5>2. QED
          BY <4>0, <4>3, <5>1
      <4>4. CASE /\ n \notin UnderWay /\ n \notin UnderWay' /\ busy' = busy
                 /\ n \notin Writing' /\ handle' = handle
        <5>1. UnderWay' = UnderWay /\ Writing' = Writing
          BY <1>0, <2>3, <4>4
        <5>2. QED
          BY <4>0, <4>4, <5>1
      <4>5. QED
        BY <1>2, <4>1, <4>2, <4>3, <4>4, ProgressKinds
    <3>c. QED
      BY <3>a, <3>b
  <2>5. QED
    BY <2>1, <2>2, <2>4 DEF Alone
<1>3. CASE Stop
  <2>1. /\ page' = page /\ page \in {"chat", "agent"} /\ handle' = None /\ busy' = FALSE
        /\ clues'.hasty = (clues.hasty \/ \E n \in Ids : asks[n].pc = "persist")
        /\ clues'.buried = clues.buried
        /\ page = "chat" => handle # None
    BY <1>3 DEF Stop, Typed, TypeOK, StepsOfPage
  <2>2. ASSUME ~clues.hasty, handle # None PROVE UnderWay = {handle} /\ handle \in Writing
    BY <1>0, <2>1, <2>2 DEF Alone
  <2>3. clues'.hasty => page = "agent"
    <3>1. ASSUME NEW n \in Ids, asks[n].pc = "persist", page = "chat" PROVE FALSE
      <4>1. n \in UnderWay /\ n \notin Writing /\ ~clues.hasty
        BY <1>0, <3>1 DEF Haste
      <4>2. QED
        BY <2>1, <2>2, <3>1, <4>1
    <3>2. QED
      BY <2>1, <3>1 DEF Haste
  <2>4. ASSUME ~clues'.hasty PROVE UnderWay' = {} /\ Writing' = {}
    <3>1. ~clues.hasty /\ \A n \in Ids : asks[n].pc # "persist"
      BY <2>1, <2>4
    <3>2. CASE handle # None
      <4>1. handle \in Ids /\ asks'[handle].pc \in {"cut", "done"} /\ OthersLast(handle) /\ UnderWay = {handle}
        BY <1>0, <1>3, <2>2, <3>1, <3>2, StopMoves
      <4>2. UnderWay' = {}
        BY <1>0, <4>1 DEF OthersLast
      <4>3. QED
        BY <1>0, <4>2
    <3>3. CASE handle = None
      <4>0. asks' = asks
        BY <1>3, <3>3 DEF Stop
      <4>1. Writing = {} /\ page = "agent" /\ asks' = asks
        BY <1>0, <2>1, <3>1, <3>3, <4>0 DEF Alone
      <4>2. UnderWay = {}
        <5>1. ASSUME NEW n \in Ids, n \in UnderWay PROVE FALSE
          <6>1. asks[n].pc \in Phases
            BY <5>1, TypedParts
          <6>2. QED
            BY <1>0, <3>1, <4>1, <5>1, <6>1 DEF Phases, StepsOfPage
        <5>2. QED
          BY <1>0, <5>1
      <4>3. QED
        BY <1>0, <4>1, <4>2
    <3>4. QED
      BY <3>2, <3>3
  <2>5. QED
    BY <2>1, <2>3, <2>4 DEF Haste, Alone
<1>4. CASE StartNew \/ Clear \/ CallEnds \/ (\E c \in Convs : Open(c) \/ Delete(c)) \/ (\E n \in Ids : Delta(n))
           \/ UNCHANGED vars
  <2>1. /\ asks' = asks /\ busy' = busy /\ page' = page /\ handle' = handle
        /\ clues'.hasty = clues.hasty /\ clues'.buried = clues.buried
    BY <1>4, QuietKinds
  <2>2. UnderWay' = UnderWay /\ Writing' = Writing
    BY <2>1 DEF UnderWay, Writing
  <2>3. QED
    BY <2>1, <2>2 DEF Haste, Alone
<1>5. QED
  BY <1>1, <1>2, <1>3, <1>4 DEF Next, UserMoves

-----------------------------------------------------------------------------
(* What the list that is shown becomes, message by message.                 *)

Patching == (\E n \in Ids : Fills(n)) \/ shown' \in {Failed(shown), Halted(shown)}

LEMMA Patched ==
  ASSUME Typed, Patching
  PROVE  /\ Len(shown') = Len(shown) /\ DOMAIN shown' = DOMAIN shown
         /\ \A i \in DOMAIN shown :
              /\ shown'[i].who = shown[i].who /\ shown'[i].ask = shown[i].ask
              /\ shown'[i].live => shown[i].live
              /\ shown'[i].bad => shown[i].bad \/ shown[i].live
              /\ \/ shown'[i].from \subseteq shown[i].from
                 \/ \E n \in Ids : Fills(n) /\ Streaming(shown) /\ i = Len(shown)
                                   /\ shown'[i].from \subseteq shown[i].from \cup {n}
<1>0. shown \in Seq(Messages) /\ DOMAIN shown = 1..Len(shown) /\ Len(shown) \in Nat
  BY DEF Typed, TypeOK
<1>1. CASE Ids = {}
  <2>1. shown = <<>>
    BY <1>0, <1>1 DEF Messages
  <2>2. shown' = shown
    BY <1>1, <2>1 DEF Patching, Failed, Halted, Streaming
  <2>3. QED
    BY <2>2
<1>2. CASE Ids # {}
  <2>1. PICK n \in Ids : \/ Fills(n) /\ shown' \in {Grown(shown, n), Finished(shown, n)}
                         \/ shown' \in {Failed(shown), Halted(shown)}
    BY <1>2 DEF Patching, Fills
  <2>2. /\ Patch(shown, shown')
        /\ Streaming(shown) =>
             /\ Len(shown) \in DOMAIN shown
             /\ \/ /\ Fills(n)
                   /\ shown'[Len(shown)] \in {[shown[Len(shown)] EXCEPT !.from = @ \cup {n}],
                                              [shown[Len(shown)] EXCEPT !.from = {n}, !.live = FALSE]}
                \/ shown'[Len(shown)] \in {[shown[Len(shown)] EXCEPT !.bad = TRUE, !.live = FALSE],
                                           [shown[Len(shown)] EXCEPT !.live = FALSE]}
    <3>0. /\ Patch(shown, Grown(shown, n)) /\ Patch(shown, Finished(shown, n))
          /\ Patch(shown, Failed(shown)) /\ Patch(shown, Halted(shown))
          /\ Streaming(shown) =>
              /\ Len(shown) \in DOMAIN shown
              /\ Grown(shown, n)[Len(shown)] = [shown[Len(shown)] EXCEPT !.from = @ \cup {n}]
              /\ Finished(shown, n)[Len(shown)] = [shown[Len(shown)] EXCEPT !.from = {n}, !.live = FALSE]
              /\ Failed(shown)[Len(shown)] = [shown[Len(shown)] EXCEPT !.bad = TRUE, !.live = FALSE]
              /\ Halted(shown)[Len(shown)] = [shown[Len(shown)] EXCEPT !.live = FALSE]
      BY <1>0, <2>1, Patches
    <3>1. CASE Fills(n) /\ shown' = Grown(shown, n)
      BY <3>0, <3>1
    <3>2. CASE Fills(n) /\ shown' = Finished(shown, n)
      BY <3>0, <3>2
    <3>3. CASE shown' = Failed(shown)
      BY <3>0, <3>3
    <3>4. CASE shown' = Halted(shown)
      BY <3>0, <3>4
    <3>5. QED
      BY <2>1, <3>1, <3>2, <3>3, <3>4
  <2>3. ASSUME NEW i \in DOMAIN shown
        PROVE  /\ shown'[i].who = shown[i].who /\ shown'[i].ask = shown[i].ask
               /\ shown'[i].live => shown[i].live
               /\ shown'[i].bad => shown[i].bad \/ shown[i].live
               /\ \/ shown'[i].from \subseteq shown[i].from
                  \/ Fills(n) /\ Streaming(shown) /\ i = Len(shown)
                     /\ shown'[i].from \subseteq shown[i].from \cup {n}
    <3>1. CASE i = Len(shown) /\ shown[i].live
      <4>1. Streaming(shown)
        BY <1>0, <2>3, <3>1 DEF Streaming
      <4> DEFINE m == shown[Len(shown)]
      <4>2. m \in Messages /\ m.live /\ m = shown[i]
        BY <1>0, <2>3, <3>1
      <4>3. \/ /\ Fills(n)
               /\ shown'[i] \in {[m EXCEPT !.from = @ \cup {n}], [m EXCEPT !.from = {n}, !.live = FALSE]}
            \/ shown'[i] \in {[m EXCEPT !.bad = TRUE, !.live = FALSE], [m EXCEPT !.live = FALSE]}
        BY <2>2, <3>1, <4>1
      <4> HIDE DEF m
      <4>4. \/ Fills(n) /\ shown'[i].from \subseteq m.from \cup {n}
            \/ shown'[i].from \subseteq m.from
        BY ZenonT(60), <4>2, <4>3 DEF Messages
      <4>5. shown'[i].who = m.who /\ shown'[i].ask = m.ask
        BY <4>2, <4>3 DEF Messages
      <4>6. QED
        BY <3>1, <4>1, <4>2, <4>4, <4>5
    <3>2. CASE i # Len(shown) \/ ~shown[i].live
      BY <2>2, <2>3, <3>2 DEF Patch
    <3>3. QED
      BY <3>1, <3>2
  <2>4. Len(shown') = Len(shown) /\ DOMAIN shown' = DOMAIN shown
    BY <2>2 DEF Patch
  <2>5. QED
    BY <2>3, <2>4
<1>3. QED
  BY <1>1, <1>2

\* The cursor goes with the end of the answer, an error and the stop button.
LEMMA CursorGoes ==
  ASSUME Typed, NEW n \in Ids, shown' \in {Finished(shown, n), Failed(shown), Halted(shown)}
  PROVE  ~Streaming(shown')
<1>0. shown \in Seq(Messages)
  BY DEF Typed, TypeOK
<1>1. CASE Streaming(shown)
  <2> DEFINE m == shown[Len(shown)]
  <2>1. m \in Messages
    BY <1>0, <1>1 DEF Streaming
  <2>2. /\ Len(shown') = Len(shown)
        /\ shown'[Len(shown)] \in {[m EXCEPT !.from = {n}, !.live = FALSE],
                                   [m EXCEPT !.bad = TRUE, !.live = FALSE], [m EXCEPT !.live = FALSE]}
    <3>0. /\ Patch(shown, Finished(shown, n)) /\ Patch(shown, Failed(shown)) /\ Patch(shown, Halted(shown))
          /\ Finished(shown, n)[Len(shown)] = [shown[Len(shown)] EXCEPT !.from = {n}, !.live = FALSE]
          /\ Failed(shown)[Len(shown)] = [shown[Len(shown)] EXCEPT !.bad = TRUE, !.live = FALSE]
          /\ Halted(shown)[Len(shown)] = [shown[Len(shown)] EXCEPT !.live = FALSE]
      BY <1>0, <1>1, Patches
    <3>1. CASE shown' = Finished(shown, n)
      BY <3>0, <3>1 DEF Patch
    <3>2. CASE shown' = Failed(shown)
      BY <3>0, <3>2 DEF Patch
    <3>3. CASE shown' = Halted(shown)
      BY <3>0, <3>3 DEF Patch
    <3>4. QED
      BY <3>1, <3>2, <3>3
  <2> HIDE DEF m
  <2>3. shown'[Len(shown)].live = FALSE
    BY <2>1, <2>2 DEF Messages
  <2>4. QED
    BY <2>2, <2>3 DEF Streaming
<1>2. CASE ~Streaming(shown)
  BY <1>2 DEF Finished, Failed, Halted
<1>3. QED
  BY <1>1, <1>2

LEMMA BaseMessages ==
  ASSUME Typed, NEW s \in Seq(Messages), Base(s)
  PROVE  /\ \A j \in DOMAIN s : \E l \in DOMAIN shown : s[j] = shown[l]
         /\ DOMAIN s = 1..Len(s) /\ Len(s) \in Nat
<1>0. shown \in Seq(Messages) /\ DOMAIN shown = 1..Len(shown) /\ Len(shown) \in Nat
  BY DEF Typed, TypeOK
<1>1. ASSUME NEW l \in DOMAIN shown, s = Without(shown, l), NEW j \in DOMAIN s
      PROVE  \E i \in DOMAIN shown : s[j] = shown[i]
  <2>1. j \in 1..(Len(shown) - 1) /\ (s[j] = shown[j] \/ s[j] = shown[j + 1])
    BY <1>0, <1>1, WithoutOne
  <2>2. j \in DOMAIN shown /\ j + 1 \in DOMAIN shown
    BY <1>0, <2>1
  <2>3. QED
    BY <2>1, <2>2
<1>2. DOMAIN s = 1..Len(s) /\ Len(s) \in Nat
  OBVIOUS
<1>3. QED
  BY <1>1, <1>2 DEF Base

\* The list after a message, or AgentExecutePage's pair of them, was added to s.
LEMMA AddedLast ==
  ASSUME NEW s \in Seq(Messages), NEW m \in Messages
  PROVE  /\ Len(Append(s, m)) = Len(s) + 1 /\ DOMAIN Append(s, m) = 1..(Len(s) + 1)
         /\ Append(s, m)[Len(s) + 1] = m
         /\ \A j \in DOMAIN Append(s, m) :
              (j \in DOMAIN s /\ Append(s, m)[j] = s[j]) \/ (j = Len(s) + 1 /\ Append(s, m)[j] = m)
         /\ \A j \in DOMAIN s : j \in DOMAIN Append(s, m) /\ Append(s, m)[j] = s[j]
OBVIOUS

LEMMA AddedPair ==
  ASSUME NEW s \in Seq(Messages), NEW l \in Messages, NEW m \in Messages
  PROVE  LET t == s \o <<l, m>>
         IN  /\ Len(t) = Len(s) + 2 /\ DOMAIN t = 1..(Len(s) + 2)
             /\ t[Len(s) + 1] = l /\ t[Len(s) + 2] = m
             /\ \A j \in DOMAIN t : \/ j \in DOMAIN s /\ t[j] = s[j]
                                    \/ j = Len(s) + 1 /\ t[j] = l
                                    \/ j = Len(s) + 2 /\ t[j] = m
             /\ \A j \in DOMAIN s : j \in DOMAIN t /\ t[j] = s[j]
<1> DEFINE p == <<l, m>>
           t == s \o p
<1>1. p \in Seq(Messages) /\ Len(p) = 2 /\ p[1] = l /\ p[2] = m
  OBVIOUS
<1>2. DOMAIN s = 1..Len(s) /\ Len(s) \in Nat
  OBVIOUS
<1> HIDE DEF p
<1>3. /\ t \in Seq(Messages) /\ Len(t) = Len(s) + Len(p)
      /\ \A j \in 1 .. Len(s) + Len(p) : t[j] = IF j <= Len(s) THEN s[j] ELSE p[j - Len(s)]
  BY <1>1, ConcatProperties
<1> HIDE DEF t
<1>4. DOMAIN t = 1..Len(t)
  BY <1>3
<1>5. t[Len(s) + 1] = l /\ t[Len(s) + 2] = m
  BY SMTT(30), <1>1, <1>2, <1>3
<1>6. \A j \in DOMAIN s : j \in DOMAIN t /\ t[j] = s[j]
  BY <1>1, <1>2, <1>3, <1>4
<1>7. \A j \in DOMAIN t : j \in DOMAIN s \/ j = Len(s) + 1 \/ j = Len(s) + 2
  BY <1>1, <1>2, <1>3, <1>4
<1>8. Len(t) = Len(s) + 2 /\ DOMAIN t = 1..(Len(s) + 2)
  BY <1>1, <1>3, <1>4
<1>9. QED
  BY <1>5, <1>6, <1>7, <1>8 DEF t, p

LEMMA NewMessages ==
  ASSUME NEW n \in Ids
  PROVE  /\ User(n) \in Messages /\ Bubble(n) \in Messages /\ Reply(n) \in Messages
         /\ Sorry(n) \in Messages /\ Fault(n) \in Messages
         /\ User(n).who = "user" /\ Bubble(n).who = "bot" /\ Reply(n).who = "bot"
         /\ Sorry(n).who = "bot" /\ Fault(n).who = "fault"
         /\ \A m \in {User(n), Bubble(n), Reply(n), Sorry(n), Fault(n)} :
              m.ask = n /\ m.from \subseteq {n} /\ (m.bad => m = Fault(n)) /\ (m.live => m = Bubble(n))
         /\ ~User(n).bad /\ ~User(n).live /\ ~Bubble(n).bad
         /\ User(n).ask = n /\ Bubble(n).ask = n
<1>1. {User(n), Bubble(n), Reply(n), Sorry(n), Fault(n)} \subseteq Messages
  BY MessageTypes
<1>2. /\ ~User(n).bad /\ ~Bubble(n).bad /\ ~Reply(n).bad /\ ~Sorry(n).bad
      /\ ~User(n).live /\ ~Reply(n).live /\ ~Sorry(n).live /\ ~Fault(n).live
  BY DEF User, Bubble, Reply, Sorry, Fault
<1>3. \A m \in {User(n), Bubble(n), Reply(n), Sorry(n), Fault(n)} : m.ask = n /\ m.from \subseteq {n}
  BY DEF User, Bubble, Reply, Sorry, Fault
<1>4. /\ User(n).who = "user" /\ Bubble(n).who = "bot" /\ Reply(n).who = "bot"
      /\ Sorry(n).who = "bot" /\ Fault(n).who = "fault"
  BY DEF User, Bubble, Reply, Sorry, Fault
<1>5. QED
  BY <1>1, <1>2, <1>3, <1>4

\* A loaded conversation has no cursor and nothing to retry.
LEMMA LoadedMessages ==
  ASSUME Typed, NEW k \in calls, shown' = Loaded(k.rows)
  PROVE  /\ DOMAIN shown' = DOMAIN k.rows
         /\ \A i \in DOMAIN shown' :
              /\ ~shown'[i].live /\ ~shown'[i].bad /\ shown'[i].ask = k.rows[i].ask
              /\ shown'[i].who = k.rows[i].who /\ shown'[i].from \subseteq {shown'[i].ask}
<1>1. k.rows \in Seq(Rows) /\ \A i \in DOMAIN k.rows : k.rows[i].ask \in Ids
  <2>1. k.rows \in Seq(Rows)
    BY TypedParts
  <2>2. \A i \in DOMAIN k.rows : k.rows[i] \in Rows
    BY <2>1
  <2>3. QED
    BY <2>1, <2>2 DEF Rows
<1>2. /\ DOMAIN shown' = DOMAIN k.rows
      /\ \A i \in DOMAIN k.rows : /\ shown'[i] \in {User(k.rows[i].ask), Reply(k.rows[i].ask)}
                                  /\ shown'[i].who = k.rows[i].who
  BY <1>1, LoadedRows
<1>3. \A n : /\ ~User(n).live /\ ~Reply(n).live /\ ~User(n).bad /\ ~Reply(n).bad
             /\ User(n).ask = n /\ Reply(n).ask = n /\ User(n).from = {} /\ Reply(n).from = {n}
  BY DEF User, Reply
<1>4. QED
  BY <1>2, <1>3

-----------------------------------------------------------------------------
(* The cursor, and whose answer a bubble holds.                             *)

\* Failed answers, and AgentExecutePage's bubbles below their questions.
MessageKinds ==
  \A i \in DOMAIN shown :
    /\ shown[i].bad => shown[i].who # "user"
    /\ shown[i].live => shown[i].who = "bot" /\ page \in {"chat", "agent"}
    /\ page = "agent" /\ (shown[i].live \/ shown[i].bad) =>
         /\ i > 1 /\ shown[i].who = "bot"
         /\ shown[i - 1].who = "user" /\ shown[i - 1].ask = shown[i].ask

LEMMA KindsStep ==
  ASSUME Known, MessageKinds, [Next]_vars
  PROVE  MessageKinds'
<1> USE DEF Known
<1>0. /\ shown \in Seq(Messages) /\ DOMAIN shown = 1..Len(shown) /\ Len(shown) \in Nat /\ page' = page
      /\ \A i \in DOMAIN shown : i \in Nat
  BY PageStays DEF Typed, TypeOK
<1> DEFINE Kind(s, i) ==
             /\ s[i].bad => s[i].who # "user"
             /\ s[i].live => s[i].who = "bot" /\ page \in {"chat", "agent"}
             /\ page = "agent" /\ (s[i].live \/ s[i].bad) =>
                  /\ i > 1 /\ s[i].who = "bot"
                  /\ s[i - 1].who = "user" /\ s[i - 1].ask = s[i].ask
<1>s. \A i \in DOMAIN shown : Kind(shown, i)
  BY DEF MessageKinds
<1>i. \A i \in DOMAIN shown : i > 1 => i - 1 \in DOMAIN shown
  BY <1>0
<1>q. ASSUME \A i \in DOMAIN shown' : Kind(shown', i) PROVE MessageKinds'
  BY <1>0, <1>q DEF MessageKinds
<1>1. CASE shown' = shown
  BY <1>0, <1>1 DEF MessageKinds
<1>2. CASE ChatSending
  <2>1. PICK s \in Seq(Messages) : Base(s) /\ shown' = Append(s, User(Fresh))
    BY <1>2 DEF ChatSending
  <2>2. page = "chat" /\ Fresh \in Ids
    BY <1>2 DEF ChatSending, Sends
  <2>3. ASSUME NEW i \in DOMAIN shown' PROVE Kind(shown', i)
    <3>1. (i \in DOMAIN s /\ shown'[i] = s[i]) \/ shown'[i] = User(Fresh)
      BY <2>1, <2>2, <2>3, AddedLast, NewMessages
    <3>2. (\E l \in DOMAIN shown : shown'[i] = shown[l]) \/ shown'[i] = User(Fresh)
      BY <2>1, <3>1, BaseMessages
    <3>3. QED
      BY <1>s, <2>2, <3>2, NewMessages
  <2>4. QED
    BY <1>q, <2>3
<1>3. CASE AgentSending
  <2>1. Fresh \in Ids /\ shown' = shown \o <<User(Fresh), Bubble(Fresh)>> /\ page = "agent"
    BY <1>3 DEF AgentSending, Sends
  <2>2. /\ shown'[Len(shown) + 1] = User(Fresh) /\ shown'[Len(shown) + 2] = Bubble(Fresh)
        /\ \A j \in DOMAIN shown' : \/ j \in DOMAIN shown /\ shown'[j] = shown[j]
                                    \/ j = Len(shown) + 1 /\ shown'[j] = User(Fresh)
                                    \/ j = Len(shown) + 2 /\ shown'[j] = Bubble(Fresh)
        /\ \A j \in DOMAIN shown : shown'[j] = shown[j]
    BY <1>0, <2>1, AddedPair, NewMessages
  <2>3. ASSUME NEW i \in DOMAIN shown' PROVE Kind(shown', i)
    <3>1. CASE i \in DOMAIN shown /\ shown'[i] = shown[i]
      BY <1>s, <1>i, <2>2, <3>1
    <3>2. CASE i = Len(shown) + 1 /\ shown'[i] = User(Fresh)
      BY <2>1, <3>2, NewMessages
    <3>3. CASE i = Len(shown) + 2 /\ shown'[i] = Bubble(Fresh)
      <4>1. i > 1 /\ i - 1 = Len(shown) + 1
        BY <1>0, <3>3
      <4>2. QED
        BY <2>1, <2>2, <3>3, <4>1, NewMessages
    <3>4. QED
      BY <2>2, <2>3, <3>1, <3>2, <3>3
  <2>4. QED
    BY <1>q, <2>3
<1>4. ASSUME NEW k \in DOMAIN shown, AgentRetrying(k) PROVE MessageKinds'
  <2>1. /\ DOMAIN shown' = DOMAIN shown
        /\ shown'[k] = [shown[k] EXCEPT !.from = {}, !.bad = FALSE, !.live = TRUE]
        /\ \A l \in DOMAIN shown : l # k => shown'[l] = shown[l]
        /\ shown[k].bad /\ page = "agent"
    BY <1>0, <1>4, RetryShown DEF AgentRetrying
  <2>2. shown[k] \in Messages
    BY <1>0, <1>4
  <2>3. shown'[k].who = shown[k].who /\ shown'[k].ask = shown[k].ask /\ shown'[k].bad = FALSE
    BY <2>1, <2>2 DEF Messages
  <2>4. k > 1 /\ shown[k].who = "bot"
    BY <1>s, <1>4, <2>1
  <2>5. \A l \in DOMAIN shown : shown'[l].who = shown[l].who /\ shown'[l].ask = shown[l].ask
    BY <2>1, <2>3
  <2>6. ASSUME NEW i \in DOMAIN shown' PROVE Kind(shown', i)
    <3>1. CASE i = k
      BY ZenonT(60), <1>s, <1>i, <1>4, <2>1, <2>3, <2>4, <2>5, <3>1
    <3>2. CASE i # k
      BY <1>s, <1>i, <2>1, <2>5, <2>6, <3>2
    <3>3. QED
      BY <3>1, <3>2
  <2>7. QED
    BY <1>q, <2>6
<1>5. CASE PlainSending
  <2>1. /\ Fresh \in Ids /\ shown' = Append(shown, User(Fresh)) /\ page \notin {"chat", "agent"}
    BY <1>5 DEF PlainSending, Sends
  <2>2. ASSUME NEW i \in DOMAIN shown' PROVE Kind(shown', i)
    <3>1. (i \in DOMAIN shown /\ shown'[i] = shown[i]) \/ shown'[i] = User(Fresh)
      BY <1>0, <2>1, <2>2, AddedLast, NewMessages
    <3>2. QED
      BY <1>s, <2>1, <3>1, NewMessages
  <2>3. QED
    BY <1>q, <2>2
<1>6. ASSUME NEW n \in Ids, Appends(n) PROVE MessageKinds'
  <2>1. PICK m \in {Fault(n), Reply(n), Sorry(n), Bubble(n)} :
          shown' = Append(shown, m) /\ page # "agent" /\ (m = Bubble(n) => page = "chat")
    <3>1. CASE shown' \in {Append(shown, Fault(n)), Append(shown, Reply(n)), Append(shown, Sorry(n))}
      <4>1. Bubble(n) \notin {Fault(n), Reply(n), Sorry(n)}
        BY DEF Bubble, Fault, Reply, Sorry
      <4>2. QED
        BY <1>6, <3>1, <4>1 DEF Appends
    <3>2. QED
      BY <1>6, <3>1 DEF Appends
  <2>2. m \in Messages /\ (m.bad => m.who # "user") /\ (m.live => m.who = "bot" /\ page = "chat")
    BY <1>6, <2>1, NewMessages
  <2>3. ASSUME NEW i \in DOMAIN shown' PROVE Kind(shown', i)
    <3>1. (i \in DOMAIN shown /\ shown'[i] = shown[i]) \/ shown'[i] = m
      BY <1>0, <2>1, <2>2, <2>3, AddedLast
    <3>2. QED
      BY <1>s, <2>1, <2>2, <3>1
  <2>4. QED
    BY <1>q, <2>3
<1>7. CASE Patching
  <2>1. DOMAIN shown' = DOMAIN shown
        /\ \A i \in DOMAIN shown : /\ shown'[i].who = shown[i].who /\ shown'[i].ask = shown[i].ask
                                   /\ shown'[i].live => shown[i].live
                                   /\ shown'[i].bad => shown[i].bad \/ shown[i].live
    BY <1>7, Patched
  <2>2. ASSUME NEW i \in DOMAIN shown' PROVE Kind(shown', i)
    BY <1>s, <1>i, <2>1, <2>2
  <2>3. QED
    BY <1>q, <2>2
<1>8. CASE Replaces
  <2>1. ASSUME NEW i \in DOMAIN shown' PROVE ~shown'[i].live /\ ~shown'[i].bad
    BY <1>8, <2>1, LoadedMessages DEF Replaces
  <2>2. QED
    BY <1>q, <2>1
<1>9. QED
  BY <1>1, <1>2, <1>3, <1>4, <1>5, <1>6, <1>7, <1>8, ShownMoves, SendKinds DEF Patching

\* The user's excuses stay.
LEMMA CluesGrow ==
  ASSUME Typed, [Next]_vars
  PROVE  /\ clues.hasty => clues'.hasty
         /\ clues.buried => clues'.buried
         /\ clues.crossed => clues'.crossed
         /\ clues.moved \subseteq clues'.moved
         /\ clues.unsaved \subseteq clues'.unsaved
         /\ clues.lost \subseteq clues'.lost
<1>1. CASE UserSends
  <2>1. ASSUME NEW i \in DOMAIN shown, AgentRetrying(i)
        PROVE  (clues.buried => clues'.buried) /\ clues.moved \subseteq clues'.moved
    BY <2>1 DEF AgentRetrying, Typed, TypeOK
  <2>2. QED
    BY <1>1, <2>1, SendClues
<1>2. CASE \E n \in Ids : Progress(n)
  BY <1>2, ProgressClues
<1>3. CASE Stop
  BY <1>3 DEF Stop, Typed, TypeOK
<1>4. CASE StartNew \/ Clear \/ CallEnds \/ (\E c \in Convs : Open(c) \/ Delete(c)) \/ (\E n \in Ids : Delta(n))
         \/ UNCHANGED vars
  <2>1. \/ clues' = clues
        \/ clues' = [clues EXCEPT !.crossed = @ \/ calls # {}]
        \/ clues' = MovedOn
    BY <1>4 DEF StartNew, Clear, CallEnds, Open, Delete, Calling, Delta, Served, Opened, Deleted, CallFails,
       NewOpened, vars
  <2>2. QED
    BY <2>1, MovedOnTyped DEF Typed, TypeOK
<1>5. QED
  BY <1>1, <1>2, <1>3, <1>4 DEF Next, UserMoves

\* An ask that will end the cursor of the last message.
Ending(n) ==
  /\ asks[n].pc \in {"persist", "stream", "said"}
  /\ page = "chat" => asks[n].pc # "persist"

LEMMA EndingLasts ==
  ASSUME Known, NEW n \in Ids, Ending(n), page \in {"chat", "agent"}, ~UserSends, [Next]_vars
  PROVE  ~Streaming(shown') \/ Ending(n)' \/ asks[n].q \in clues'.lost
<1> USE DEF Known
<1>0. page' = page
  BY PageStays
<1>1. CASE asks'[n] = asks[n]
  BY <1>0, <1>1 DEF Ending
<1>2. CASE Progress(n)
  <2>1. CASE DoneArrives(n) \/ ErrorArrives(n) \/ Breaks(n)
    <3>1. shown' \in {Finished(shown, n), Failed(shown)}
      BY <2>1 DEF DoneArrives, ErrorArrives, Breaks
    <3>2. QED
      BY <3>1, CursorGoes
  <2>2. CASE Persisted(n)
    <3>1. page = "agent"
      BY <2>2 DEF Persisted, Ending
    <3>2. asks'[n].pc = "stream"
      BY <2>2, <3>1, MovesLast DEF Persisted, StepsOfPage
    <3>3. QED
      BY <1>0, <3>1, <3>2 DEF Ending
  <2>3. CASE Answered(n)
    <3>1. asks'[n].pc = "said"
      BY <2>3, MovesLast DEF Answered, Ending
    <3>2. QED
      BY <1>0, <3>1 DEF Ending
  <2>4. CASE Ends(n)
    BY <1>2, <2>4 DEF Ends, Typed, TypeOK
  <2>5. QED
    BY <1>2, <2>1, <2>2, <2>3, <2>4
       DEF Ending, Progress, Created, CreateFails, Closed, RunAnswered, RunFails, Kept, Spoken
<1>3. CASE Stop
  <2>1. shown' = Halted(shown)
    BY <1>3 DEF Stop
  <2>2. QED
    BY <2>1, CursorGoes
<1>4. ASSUME NEW m \in Ids \ {n}, Progress(m) PROVE asks'[n] = asks[n]
  BY <1>4, ProgressMoves DEF OthersLast
<1>5. QED
  BY <1>1, <1>2, <1>3, <1>4, AsksStay DEF Next, UserMoves

\* None comes to be but by a send, and where ChatPage adds its bubble.
LEMMA EndingBefore ==
  ASSUME Known, NEW n \in Ids, Ending(n)', ~UserSends, [Next]_vars
  PROVE  Ending(n) \/ shown' = Append(shown, Bubble(n))
<1> USE DEF Known
<1>0. page' = page
  BY PageStays
<1>1. CASE asks'[n] = asks[n]
  BY <1>0, <1>1 DEF Ending
<1>2. CASE Progress(n)
  <2>1. CASE Persisted(n)
    <3>1. CASE page = "chat"
      <4>1. asks'[n].pc # "run"
        BY <3>1 DEF Ending
      <4>2. QED
        BY <2>1, <3>1, <4>1, MovesLast DEF Persisted
    <3>2. CASE page # "chat"
      BY <2>1, <3>2 DEF Persisted, Ending
    <3>3. QED
      BY <3>1, <3>2
  <2>2. CASE Answered(n)
    <3>1. asks[n].pc = "stream" \/ asks'[n].pc = "done"
      BY <2>2, MovesLast DEF Answered
    <3>2. QED
      BY <3>1 DEF Ending
  <2>3. ASSUME NEW c \in Convs, Created(n, c) PROVE FALSE
    <3>1. asks[n] \in Asks /\ asks'[n].pc = "persist" /\ page = "chat"
      BY <2>3 DEF Created, Typed, TypeOK, Asks, StepsOfPage
    <3>2. QED
      BY <1>0, <3>1 DEF Ending
  <2>4. CASE \/ CreateFails(n) \/ DoneArrives(n) \/ ErrorArrives(n) \/ Closed(n) \/ Breaks(n) \/ Ends(n)
             \/ RunAnswered(n) \/ RunFails(n) \/ Kept(n) \/ Spoken(n)
    <3>1. \E pc \in {"done", "closing", "cut", "keep", "speak"} : Moves(n, pc)
      BY <2>4 DEF CreateFails, DoneArrives, ErrorArrives, Closed, Breaks, Ends, RunAnswered, RunFails, Kept, Spoken
    <3>2. asks'[n].pc \in {"done", "closing", "cut", "keep", "speak"}
      BY <3>1, MovesLast
    <3>3. QED
      BY <3>2 DEF Ending
  <2>5. QED
    BY <1>2, <2>1, <2>2, <2>3, <2>4 DEF Progress
<1>3. CASE Stop
  <2>1. asks'[n] = asks[n] \/ asks'[n].pc \in {"cut", "done"}
    BY <1>3, StopMoves DEF OthersLast
  <2>2. QED
    BY <1>1, <2>1 DEF Ending
<1>4. ASSUME NEW m \in Ids \ {n}, Progress(m) PROVE asks'[n] = asks[n]
  BY <1>4, ProgressMoves DEF OthersLast
<1>5. QED
  BY <1>1, <1>2, <1>3, <1>4, AsksStay DEF Next, UserMoves

\* The stream for the question of m ended without a last word: nothing will end its cursor.
Endless(m) == asks[m.ask].q \in clues.lost

\* A streaming list ends in the bubble of an ask that will end it, and no other is
\* under way; it holds no other bubble that streams. Those of streams that ended without
\* a last word go on for ever.
CursorAtEnd ==
  ~clues.hasty =>
    /\ Streaming(shown) => \/ Endless(shown[Len(shown)])
                          \/ \E n \in Ids : Ending(n) /\ asks[n].q = asks[shown[Len(shown)].ask].q
    /\ ~clues.buried =>
         /\ \A i \in DOMAIN shown : shown[i].live => i = Len(shown) \/ Endless(shown[i])
         /\ Streaming(shown) =>
              \A n \in Ids : Ending(n) => asks[n].q = asks[shown[Len(shown)].ask].q

LEMMA NothingStreams ==
  ASSUME Known, Alone, CursorAtEnd, MessageKinds, ~clues.hasty, ~busy \/ page \notin {"chat", "agent"}
  PROVE  /\ Streaming(shown) => Endless(shown[Len(shown)])
         /\ ~clues.buried => \A i \in DOMAIN shown : shown[i].live => Endless(shown[i])
<1>0. shown \in Seq(Messages) /\ DOMAIN shown = 1..Len(shown) /\ Len(shown) \in Nat
  BY DEF Known, Typed, TypeOK
<1>1. ASSUME Streaming(shown), ~Endless(shown[Len(shown)]) PROVE FALSE
  <2>1. Len(shown) \in DOMAIN shown /\ shown[Len(shown)].live
    BY <1>0, <1>1 DEF Streaming
  <2>2. page \in {"chat", "agent"}
    BY <2>1 DEF MessageKinds
  <2>3. PICK n \in Ids : Ending(n)
    BY <1>1 DEF CursorAtEnd
  <2>4. n \in UnderWay
    BY <2>3 DEF Ending, UnderWay
  <2>5. QED
    BY <2>2, <2>4 DEF Alone
<1>2. ASSUME ~clues.buried, NEW i \in DOMAIN shown, shown[i].live, ~Endless(shown[i]) PROVE FALSE
  <2>1. i = Len(shown)
    BY <1>2 DEF CursorAtEnd
  <2>2. Streaming(shown)
    BY <1>0, <1>2, <2>1 DEF Streaming
  <2>3. QED
    BY <1>1, <1>2, <2>1, <2>2
<1>3. QED
  BY <1>1, <1>2

\* The question of the retried answer is the message above it.
LEMMA RetriedQuestion ==
  ASSUME Known, MessageKinds, NEW k \in DOMAIN shown, AgentRetrying(k)
  PROVE  /\ k - 1 \in DOMAIN shown /\ Asked(k) = k - 1
         /\ shown[k - 1].who = "user" /\ shown[k - 1].ask = shown[k].ask
<1>0. shown \in Seq(Messages) /\ DOMAIN shown = 1..Len(shown) /\ Len(shown) \in Nat
  BY DEF Known, Typed, TypeOK
<1>1. k > 1 /\ shown[k - 1].who = "user" /\ shown[k - 1].ask = shown[k].ask /\ k \in Nat /\ k - 1 \in DOMAIN shown
  BY <1>0 DEF MessageKinds, AgentRetrying
<1>2. k - 1 \in Question(k)
  BY <1>1 DEF Question
<1>3. Asked(k) \in DOMAIN shown /\ Asked(k) < k /\ k - 1 <= Asked(k)
  BY <1>0, <1>1, <1>2, AskedAbove
<1>4. Asked(k) = k - 1
  BY <1>0, <1>1, <1>3
<1>5. QED
  BY <1>1, <1>4

LEMMA CursorStep ==
  ASSUME Known, Haste, Alone, CursorAtEnd, MessageKinds, [Next]_vars
  PROVE  CursorAtEnd'
<1> USE DEF Known
<1>0. /\ shown \in Seq(Messages) /\ DOMAIN shown = 1..Len(shown) /\ Len(shown) \in Nat /\ page' = page
      /\ \A n \in Sent : Lasts(n)
  BY PageStays, AsksLast DEF Typed, TypeOK
<1>t. shown' \in Seq(Messages) /\ DOMAIN shown' = 1..Len(shown') /\ Len(shown') \in Nat
  <2>1. Typed'
    BY TypedInductive
  <2>2. shown' \in Seq(Messages)
    BY <2>1 DEF Typed, TypeOK
  <2>3. QED
    BY <2>2
<1> DEFINE m1 == shown'[Len(shown')]
           EndOfLast == Streaming(shown') => \/ Endless(shown[Len(shown)])'
                                             \/ \E n \in Ids : Ending(n)' /\ asks'[n].q = asks'[m1.ask].q
           LastOnly == \A i \in DOMAIN shown' : shown'[i].live => i = Len(shown') \/ Endless(shown[i])'
           OwnEnd == Streaming(shown') => \A n \in Ids : Ending(n)' => asks'[n].q = asks'[m1.ask].q
<1> SUFFICES ASSUME ~clues'.hasty
             PROVE  EndOfLast /\ (~clues'.buried => LastOnly /\ OwnEnd)
  BY DEF CursorAtEnd, Endless
<1>h. ~clues.hasty /\ (clues.buried => clues'.buried) /\ clues.lost \subseteq clues'.lost
  BY CluesGrow
<1>n. ASSUME \A i \in DOMAIN shown' : shown'[i].live => i # Len(shown') /\ Endless(shown[i])'
      PROVE  EndOfLast /\ (~clues'.buried => LastOnly /\ OwnEnd)
  BY <1>t, <1>n DEF Streaming
<1>l. ASSUME NEW i \in DOMAIN shown, Endless(shown[i]), NEW j \in DOMAIN shown', shown'[j].ask = shown[i].ask
      PROVE  Endless(shown[j])'
  <2>1. shown[i].ask \in Sent
    BY <1>l DEF KnownAsks, OfSent
  <2>2. QED
    BY <1>0, <1>h, <1>l, <2>1 DEF Lasts, Endless
<1>a. ASSUME page # "voice", NEW l \in Ids, NEW n \in Ids, Ending(n)', asks'[l].pc \in {"persist", "stream"}
      PROVE  n = l
  <2>1. n \in UnderWay' /\ l \in UnderWay'
    BY <1>a DEF Ending, UnderWay
  <2>2. QED
    BY <1>0, <1>a, <2>1, AloneStep DEF Alone
<1>1. CASE ~UserSends /\ (shown' = shown \/ Patching)
  <2>1. /\ Len(shown') = Len(shown) /\ DOMAIN shown' = DOMAIN shown
        /\ \A i \in DOMAIN shown : shown'[i].ask = shown[i].ask /\ (shown'[i].live => shown[i].live)
    BY <1>1, Patched
  <2>s. ASSUME Streaming(shown')
        PROVE  /\ Len(shown) \in DOMAIN shown /\ shown[Len(shown)].live /\ Streaming(shown)
               /\ asks'[m1.ask].q = asks[shown[Len(shown)].ask].q
               /\ \A n \in Ids : Ending(n) => asks'[n].q = asks[n].q
    <3>1. Len(shown) \in DOMAIN shown /\ shown[Len(shown)].live /\ Streaming(shown)
      BY <1>0, <1>t, <2>1, <2>s DEF Streaming
    <3>2. shown[Len(shown)].ask \in Sent
      BY <3>1 DEF KnownAsks, OfSent
    <3>3. asks'[shown[Len(shown)].ask].q = asks[shown[Len(shown)].ask].q
      BY <1>0, <3>2 DEF Lasts
    <3>4. \A n \in Ids : Ending(n) => asks'[n].q = asks[n].q
      BY <1>0 DEF Sent, Ending, Lasts
    <3>5. QED
      BY <2>1, <3>1, <3>3, <3>4
  <2>2. ASSUME Streaming(shown'), ~Endless(shown[Len(shown)])'
        PROVE  \E n \in Ids : Ending(n)' /\ asks'[n].q = asks'[m1.ask].q
    <3>1. ~Endless(shown[Len(shown)])
      BY <1>h, <2>2, <2>s DEF Endless
    <3>2. PICK n \in Ids : Ending(n) /\ asks[n].q = asks[shown[Len(shown)].ask].q
      BY <1>h, <2>2, <2>s, <3>1 DEF CursorAtEnd
    <3>3. Ending(n)' \/ asks[n].q \in clues'.lost
      BY <1>1, <2>2, <2>s, <3>2, EndingLasts DEF MessageKinds
    <3>4. asks[n].q \notin clues'.lost
      BY <2>2, <2>s, <3>2 DEF Endless
    <3>5. QED
      BY <2>2, <2>s, <3>2, <3>3, <3>4
  <2>3. ASSUME ~clues'.buried PROVE LastOnly
    <3>1. ASSUME NEW i \in DOMAIN shown', shown'[i].live PROVE i = Len(shown') \/ Endless(shown[i])'
      <4>1. i \in DOMAIN shown /\ shown[i].live /\ shown'[i].ask = shown[i].ask
        BY <2>1, <3>1
      <4>2. i = Len(shown) \/ Endless(shown[i])
        BY <1>h, <2>3, <4>1 DEF CursorAtEnd
      <4>3. QED
        BY <1>l, <2>1, <3>1, <4>1, <4>2
    <3>2. QED
      BY <3>1
  <2>4. ASSUME ~clues'.buried, Streaming(shown'), NEW n \in Ids, Ending(n)'
        PROVE  asks'[n].q = asks'[m1.ask].q
    <3>1. shown' # Append(shown, Bubble(n))
      <4>1. Bubble(n) \in Messages
        BY <2>4, NewMessages
      <4>2. Len(Append(shown, Bubble(n))) = Len(shown) + 1
        BY <1>0, <4>1, AddedLast
      <4>3. Len(shown') = Len(shown) /\ Len(shown) \in Nat
        BY <1>0, <2>1
      <4> HIDE DEF Known, m1, EndOfLast, LastOnly, OwnEnd
      <4>4. QED
        BY <4>2, <4>3
    <3>2. Ending(n)
      BY <1>1, <2>4, <3>1, EndingBefore
    <3>3. asks[n].q = asks[shown[Len(shown)].ask].q
      BY <1>h, <2>4, <2>s, <3>2 DEF CursorAtEnd
    <3>4. QED
      BY <2>4, <2>s, <3>2, <3>3
  <2>5. QED
    BY <2>2, <2>3, <2>4
<1>2. CASE ChatSending
  <2>1. PICK s \in Seq(Messages) : Base(s) /\ shown' = Append(s, User(Fresh))
    BY <1>2 DEF ChatSending
  <2>2. page = "chat" /\ Fresh \in Ids /\ ~busy
    BY <1>2 DEF ChatSending, Sends
  <2>3. \A i \in DOMAIN shown : shown[i].live => Endless(shown[i])
    BY <1>h, <2>2, NothingStreams DEF Haste
  <2>4. ASSUME NEW i \in DOMAIN shown', shown'[i].live PROVE i # Len(shown') /\ Endless(shown[i])'
    <3>1. (i \in DOMAIN s /\ shown'[i] = s[i]) \/ shown'[i] = User(Fresh)
      BY <2>1, <2>2, <2>4, AddedLast, NewMessages
    <3>2. i \in DOMAIN s /\ shown'[i] = s[i]
      BY <2>2, <2>4, <3>1, NewMessages
    <3>3. PICK l \in DOMAIN shown : shown'[i] = shown[l]
      BY <2>1, <3>2, BaseMessages
    <3>4. Endless(shown[i])'
      BY <1>l, <2>3, <2>4, <3>3
    <3>5. shown'[Len(shown')] = User(Fresh)
      BY <2>1, <2>2, AddedLast, NewMessages
    <3>6. QED
      BY <2>2, <2>4, <3>4, <3>5, NewMessages
  <2>5. QED
    BY <1>n, <2>4
<1>3. CASE AgentSending
  <2>1. /\ Fresh \in Ids /\ shown' = shown \o <<User(Fresh), Bubble(Fresh)>> /\ page = "agent"
        /\ ~busy /\ clues' = clues /\ asks'[Fresh].pc = "persist"
    BY <1>3, SendsLast DEF AgentSending, Sends
  <2>2. /\ Len(shown') = Len(shown) + 2 /\ shown'[Len(shown) + 2] = Bubble(Fresh)
        /\ \A j \in DOMAIN shown' : \/ j \in DOMAIN shown /\ shown'[j] = shown[j]
                                    \/ j = Len(shown) + 1 /\ shown'[j] = User(Fresh)
                                    \/ j = Len(shown) + 2 /\ shown'[j] = Bubble(Fresh)
    BY <1>0, <2>1, AddedPair, NewMessages
  <2>m. m1.ask = Fresh
    BY <2>1, <2>2, NewMessages
  <2>3. \E n \in Ids : Ending(n)' /\ asks'[n].q = asks'[m1.ask].q
    <3>1. PICK n \in Ids : n = Fresh /\ asks'[n].pc = "persist"
      BY <2>1
    <3>2. Ending(n)'
      BY <1>0, <2>1, <3>1 DEF Ending
    <3>3. QED
      BY <2>m, <3>1, <3>2
  <2>4. ASSUME ~clues.buried, NEW i \in DOMAIN shown', shown'[i].live
        PROVE  i = Len(shown') \/ Endless(shown[i])'
    <3>1. \A j \in DOMAIN shown : shown[j].live => Endless(shown[j])
      BY <1>h, <2>1, <2>4, NothingStreams
    <3>2. CASE i \in DOMAIN shown /\ shown'[i] = shown[i]
      BY <1>l, <2>4, <3>1, <3>2
    <3>3. QED
      BY <2>1, <2>2, <2>4, <3>2, NewMessages
  <2>5. ASSUME NEW n \in Ids, Ending(n)' PROVE asks'[n].q = asks'[m1.ask].q
    <3>1. n = Fresh
      BY <1>a, <2>1, <2>5
    <3>2. QED
      BY <2>m, <3>1
  <2>6. QED
    BY <2>1, <2>3, <2>4, <2>5
<1>4. ASSUME NEW k \in DOMAIN shown, AgentRetrying(k)
      PROVE  EndOfLast /\ (~clues'.buried => LastOnly /\ OwnEnd)
  <2> DEFINE q == asks[shown[Asked(k)].ask].q
  <2>1. /\ DOMAIN shown' = DOMAIN shown /\ Len(shown') = Len(shown)
        /\ shown'[k] = [shown[k] EXCEPT !.from = {}, !.bad = FALSE, !.live = TRUE]
        /\ \A l \in DOMAIN shown : l # k => shown'[l] = shown[l]
        /\ shown[k].bad /\ page = "agent" /\ ~busy
    BY <1>0, <1>4, RetryShown DEF AgentRetrying
  <2>2. Fresh \in Ids /\ asks'[Fresh].pc = "stream" /\ asks'[Fresh].q = q
    BY <1>4, RetryAsks
  <2>3. shown'[k].ask = shown[k].ask
    <3>1. shown[k] \in Messages
      BY <1>0, <1>4
    <3>2. QED
      BY <2>1, <3>1 DEF Messages
  <2>4. q = asks[shown[k].ask].q
    BY <1>4, RetriedQuestion
  <2>5. asks'[shown[k].ask].q = asks[shown[k].ask].q
    <3>1. shown[k].ask \in Sent
      BY <1>4 DEF KnownAsks, OfSent
    <3>2. QED
      BY <1>0, <3>1 DEF Lasts
  <2>6. Streaming(shown) => Endless(shown[Len(shown)])
    BY <1>h, <2>1, NothingStreams
  <2>7. ASSUME Streaming(shown'), k # Len(shown') PROVE Endless(shown[Len(shown)])'
    <3>1. Len(shown) \in DOMAIN shown /\ shown'[Len(shown)].live
      BY <1>0, <1>t, <2>1, <2>7 DEF Streaming
    <3>2. shown'[Len(shown)] = shown[Len(shown)] /\ shown # <<>>
      BY <1>0, <2>1, <2>7, <3>1
    <3>3. Endless(shown[Len(shown)])
      BY <2>6, <3>1, <3>2 DEF Streaming
    <3>4. QED
      BY <1>l, <2>1, <3>1, <3>2, <3>3
  <2>8. \E n \in Ids : Ending(n)' /\ asks'[n].q = q
    <3>1. PICK n \in Ids : asks'[n].pc = "stream" /\ asks'[n].q = q
      BY <2>2
    <3>2. Ending(n)'
      BY <1>0, <2>1, <3>1 DEF Ending
    <3>3. QED
      BY <3>1, <3>2
  <2>9. ASSUME ~clues'.buried, NEW i \in DOMAIN shown', shown'[i].live
        PROVE  i = Len(shown') \/ Endless(shown[i])'
    <3>1. k = Len(shown)
      BY <1>4, <2>9 DEF AgentRetrying, Typed, TypeOK
    <3>2. \A j \in DOMAIN shown : shown[j].live => Endless(shown[j])
      BY <1>h, <2>1, <2>9, NothingStreams
    <3>3. CASE i # k
      <4>1. i \in DOMAIN shown /\ shown'[i] = shown[i]
        BY <2>1, <2>9, <3>3
      <4>2. QED
        BY <1>l, <2>9, <3>2, <4>1
    <3>4. QED
      BY <2>1, <3>1, <3>3
  <2>10. ASSUME ~clues'.buried, NEW n \in Ids, Ending(n)' PROVE asks'[n].q = asks'[m1.ask].q
    <3>1. k = Len(shown)
      BY <1>4, <2>10 DEF AgentRetrying, Typed, TypeOK
    <3>2. n = Fresh
      BY <1>a, <2>1, <2>2, <2>10
    <3>3. QED
      BY <2>1, <2>2, <2>3, <2>4, <2>5, <3>1, <3>2
  <2> HIDE DEF q
  <2>11. EndOfLast
    BY <2>3, <2>4, <2>5, <2>7, <2>8
  <2>12. QED
    BY <2>9, <2>10, <2>11
<1>5. CASE PlainSending
  <2>1. Fresh \in Ids /\ shown' = Append(shown, User(Fresh)) /\ page \notin {"chat", "agent"}
    BY <1>5 DEF PlainSending, Sends
  <2>2. ASSUME NEW i \in DOMAIN shown' PROVE ~shown'[i].live
    <3>1. (i \in DOMAIN shown /\ shown'[i] = shown[i]) \/ shown'[i] = User(Fresh)
      BY <1>0, <2>1, <2>2, AddedLast, NewMessages
    <3>2. QED
      BY <2>1, <3>1, NewMessages DEF MessageKinds
  <2>3. QED
    BY <1>n, <2>2
<1>6. ASSUME NEW n \in Ids, Appends(n)
      PROVE  EndOfLast /\ (~clues'.buried => LastOnly /\ OwnEnd)
  <2>1. ASSUME NEW i \in DOMAIN shown, shown[i].live PROVE Endless(shown[i])
    <3>1. page = "chat"
      BY <1>6, <2>1 DEF MessageKinds, Appends
    <3>2. SUFFICES ASSUME ~Endless(shown[i]) PROVE FALSE
      OBVIOUS
    <3>3. i = Len(shown)
      BY <1>h, <2>1, <3>1, <3>2 DEF CursorAtEnd, Haste
    <3>4. Streaming(shown)
      BY <1>0, <2>1, <3>3 DEF Streaming
    <3>5. PICK w \in Ids : Ending(w)
      BY <1>h, <3>2, <3>3, <3>4 DEF CursorAtEnd
    <3>6. w \in UnderWay /\ n \in UnderWay
      BY <1>6, <3>5 DEF Ending, UnderWay, Appends
    <3>7. w = n
      BY <1>h, <3>1, <3>6 DEF Alone
    <3>8. QED
      BY <1>6, <3>1, <3>5, <3>7 DEF Ending, Appends
  <2>2. CASE shown' \in {Append(shown, Fault(n)), Append(shown, Reply(n)), Append(shown, Sorry(n))}
    <3>1. PICK m \in {Fault(n), Reply(n), Sorry(n)} : shown' = Append(shown, m)
      BY <2>2
    <3>2. m \in Messages /\ ~m.live
      <4>1. {Fault(n), Reply(n), Sorry(n)} \subseteq Messages
        BY <1>6, NewMessages
      <4>2. ~Fault(n).live /\ ~Reply(n).live /\ ~Sorry(n).live
        BY DEF Fault, Reply, Sorry
      <4>3. QED
        BY <3>1, <4>1, <4>2
    <3>3. ASSUME NEW i \in DOMAIN shown', shown'[i].live PROVE i # Len(shown') /\ Endless(shown[i])'
      <4>1. i \in DOMAIN shown /\ shown'[i] = shown[i] /\ shown'[Len(shown')] = m
        BY <1>0, <3>1, <3>2, <3>3, AddedLast
      <4>2. Endless(shown[i])'
        BY <1>l, <2>1, <3>3, <4>1
      <4>3. QED
        BY <3>2, <3>3, <4>1, <4>2
    <3>4. QED
      BY <1>n, <3>3
  <2>3. CASE shown' = Append(shown, Bubble(n)) /\ page = "chat" /\ asks'[n].pc = "stream"
    <3>1. /\ Len(shown') = Len(shown) + 1 /\ shown'[Len(shown')] = Bubble(n)
          /\ \A i \in DOMAIN shown' : (i \in DOMAIN shown /\ shown'[i] = shown[i]) \/ i = Len(shown')
      BY <1>0, <1>6, <2>3, AddedLast, NewMessages
    <3>2. Ending(n)' /\ m1.ask = n
      BY <1>6, <2>3, <3>1, NewMessages DEF Ending
    <3>3. LastOnly
      <4>1. ASSUME NEW i \in DOMAIN shown', shown'[i].live, i # Len(shown') PROVE Endless(shown[i])'
        BY <1>l, <2>1, <3>1, <4>1
      <4>2. QED
        BY <4>1
    <3>4. OwnEnd
      BY <1>6, <1>a, <2>3, <3>2
    <3>5. QED
      BY <1>6, <3>2, <3>3, <3>4
  <2>4. QED
    BY <1>6, <2>2, <2>3 DEF Appends
<1>8. CASE Replaces
  <2>1. ASSUME NEW i \in DOMAIN shown' PROVE ~shown'[i].live
    BY <1>8, <2>1, LoadedMessages DEF Replaces
  <2>2. QED
    BY <1>n, <2>1
<1>9. CASE UserSends
  BY <1>2, <1>3, <1>4, <1>5, <1>9, SendKinds
<1>10. QED
  BY <1>1, <1>6, <1>8, <1>9, ShownMoves DEF Patching

\* What is known of a page's sends and its cursor.
Cursors == Known /\ Haste /\ Alone /\ MessageKinds /\ CursorAtEnd

LEMMA CursorsInductive ==
  /\ Init => Cursors
  /\ Cursors /\ [Next]_vars => Cursors'
<1>1. ASSUME Init PROVE Cursors
  <2>1. Known
    BY <1>1, KnownInductive
  <2>2. UnderWay = {} /\ Writing = {}
    BY <1>1 DEF Init, UnderWay, Writing
  <2>3. Haste /\ Alone
    BY <1>1, <2>2 DEF Init, NoClues, Haste, Alone
  <2>4. MessageKinds /\ CursorAtEnd
    BY <1>1 DEF Init, MessageKinds, CursorAtEnd, Streaming
  <2>5. QED
    BY <2>1, <2>3, <2>4 DEF Cursors
<1>2. ASSUME Cursors, [Next]_vars PROVE Cursors'
  <2>1. Known' /\ Haste' /\ Alone' /\ MessageKinds' /\ CursorAtEnd'
    BY <1>2, KnownInductive, AloneStep, KindsStep, CursorStep DEF Cursors
  <2>2. QED
    BY <2>1 DEF Cursors
<1>3. QED
  BY <1>1, <1>2

\* On every page, for any number of messages, a thinking cursor is the last message
\* and has an ask for its own question under way that will end it, unless the page was
\* stopped before the stream had started, an answer in the middle was retried or the
\* stream of that question ended without done or error.
THEOREM CursorEnds == Spec => []ThinkingEnds
<1>1. ASSUME Cursors PROVE ThinkingEnds
  <2>1. ASSUME ~clues.hasty, ~clues.buried, NEW i \in DOMAIN shown, shown[i].live,
               asks[shown[i].ask].q \notin clues.lost
        PROVE  /\ i = Len(shown)
               /\ \E n \in Ids : /\ asks[n].pc \in {"persist", "stream", "said"}
                                /\ asks[n].q = asks[shown[i].ask].q
    <3>1. i = Len(shown)
      BY <1>1, <2>1 DEF Cursors, CursorAtEnd, Endless
    <3>2. shown # <<>>
      BY <2>1
    <3>3. Streaming(shown)
      BY <2>1, <3>1, <3>2 DEF Streaming
    <3>4. PICK n \in Ids : Ending(n) /\ asks[n].q = asks[shown[i].ask].q
      BY <1>1, <2>1, <3>1, <3>3 DEF Cursors, CursorAtEnd, Endless
    <3>5. QED
      BY <3>1, <3>4 DEF Ending
  <2>2. QED
    BY <2>1 DEF ThinkingEnds
<1>2. QED
  BY <1>1, CursorsInductive, PTL DEF Spec

\* What a bubble was put together from answers its own question, except that a retry
\* of an answer in the middle writes into one whose stream ended without a last word.
OwnAnswers ==
  ~clues.hasty =>
    \A i \in DOMAIN shown : \A n \in shown[i].from :
      asks[n].q = asks[shown[i].ask].q \/ (clues.buried /\ Endless(shown[i]))

LEMMA QuestionStep ==
  ASSUME Cursors, OwnAnswers, [Next]_vars
  PROVE  OwnAnswers'
<1> USE DEF Known, Cursors
<1>0. /\ shown \in Seq(Messages) /\ DOMAIN shown = 1..Len(shown) /\ Len(shown) \in Nat
      /\ \A n \in Sent : asks'[n].q = asks[n].q
  BY AsksLast DEF Typed, TypeOK, Lasts
<1> SUFFICES ASSUME ~clues'.hasty, NEW i \in DOMAIN shown', NEW n \in shown'[i].from
             PROVE  \/ asks'[n].q = asks'[shown'[i].ask].q
                    \/ clues'.buried /\ asks'[shown'[i].ask].q \in clues'.lost
  BY DEF OwnAnswers, Endless
<1> DEFINE Own == \/ asks'[n].q = asks'[shown'[i].ask].q
                  \/ clues'.buried /\ asks'[shown'[i].ask].q \in clues'.lost
<1>h. ~clues.hasty /\ (clues.buried => clues'.buried) /\ clues.lost \subseteq clues'.lost
  BY CluesGrow
<1>o. ASSUME NEW j \in DOMAIN shown, n \in shown[j].from, shown'[i].ask = shown[j].ask
      PROVE  Own
  <2>1. n \in Sent /\ shown[j].ask \in Sent
    BY <1>o DEF KnownAsks, OfSent
  <2>2. asks[n].q = asks[shown[j].ask].q \/ (clues.buried /\ asks[shown[j].ask].q \in clues.lost)
    BY <1>h, <1>o DEF OwnAnswers, Endless
  <2>3. QED
    BY <1>0, <1>h, <1>o, <2>1, <2>2
<1>e. ASSUME shown'[i].from \subseteq {shown'[i].ask} PROVE Own
  BY <1>e
<1>1. CASE shown' = shown
  BY <1>1, <1>o
<1>2. CASE ChatSending
  <2>1. PICK s \in Seq(Messages) : Base(s) /\ shown' = Append(s, User(Fresh))
    BY <1>2 DEF ChatSending
  <2>2. Fresh \in Ids
    BY <1>2 DEF ChatSending, Sends
  <2>3. (i \in DOMAIN s /\ shown'[i] = s[i]) \/ shown'[i] = User(Fresh)
    BY <2>1, <2>2, AddedLast, NewMessages
  <2>4. (\E l \in DOMAIN shown : shown'[i] = shown[l]) \/ shown'[i] = User(Fresh)
    BY <2>1, <2>3, BaseMessages
  <2>5. QED
    BY <1>o, <1>e, <2>2, <2>4, NewMessages
<1>3. CASE AgentSending
  <2>1. Fresh \in Ids /\ shown' = shown \o <<User(Fresh), Bubble(Fresh)>>
    BY <1>3 DEF AgentSending, Sends
  <2>2. \/ i \in DOMAIN shown /\ shown'[i] = shown[i]
        \/ shown'[i] = User(Fresh)
        \/ shown'[i] = Bubble(Fresh)
    BY <1>0, <2>1, AddedPair, NewMessages
  <2>3. \A m \in {User(Fresh), Bubble(Fresh)} : m.from \subseteq {m.ask}
    BY <2>1, NewMessages
  <2>4. QED
    BY <1>o, <1>e, <2>2, <2>3
<1>4. ASSUME NEW k \in DOMAIN shown, AgentRetrying(k) PROVE Own
  <2>1. /\ DOMAIN shown' = DOMAIN shown
        /\ shown'[k] = [shown[k] EXCEPT !.from = {}, !.bad = FALSE, !.live = TRUE]
        /\ \A l \in DOMAIN shown : l # k => shown'[l] = shown[l]
    BY <1>0, <1>4, RetryShown DEF AgentRetrying
  <2>2. shown[k] \in Messages
    BY <1>0, <1>4
  <2>3. shown'[k].from = {}
    BY <2>1, <2>2 DEF Messages
  <2>4. i # k
    BY <2>3
  <2>5. QED
    BY <1>o, <2>1, <2>4
<1>5. CASE PlainSending
  <2>1. Fresh \in Ids /\ shown' = Append(shown, User(Fresh))
    BY <1>5 DEF PlainSending, Sends
  <2>2. (i \in DOMAIN shown /\ shown'[i] = shown[i]) \/ shown'[i] = User(Fresh)
    BY <1>0, <2>1, AddedLast, NewMessages
  <2>3. QED
    BY <1>o, <1>e, <2>1, <2>2, NewMessages
<1>6. ASSUME NEW m \in Ids, Appends(m) PROVE Own
  <2>1. PICK b \in {Fault(m), Reply(m), Sorry(m), Bubble(m)} : shown' = Append(shown, b)
    BY <1>6 DEF Appends
  <2>2. b \in Messages /\ b.ask = m /\ b.from \subseteq {m}
    BY <1>6, <2>1, NewMessages
  <2>3. (i \in DOMAIN shown /\ shown'[i] = shown[i]) \/ shown'[i] = b
    BY <1>0, <2>1, <2>2, AddedLast
  <2>4. QED
    BY <1>o, <1>e, <2>2, <2>3
<1>7. CASE Patching
  <2>1. /\ i \in DOMAIN shown /\ shown'[i].ask = shown[i].ask
        /\ \/ shown'[i].from \subseteq shown[i].from
           \/ \E m \in Ids : Fills(m) /\ Streaming(shown) /\ i = Len(shown)
                             /\ shown'[i].from \subseteq shown[i].from \cup {m}
    BY <1>7, Patched
  <2>2. ASSUME n \notin shown[i].from PROVE Own
    <3>1. Fills(n) /\ Streaming(shown) /\ i = Len(shown) /\ n \in Ids
      BY <2>1, <2>2
    <3>2. n \in UnderWay /\ n \in Sent /\ page # "voice" /\ Ending(n)
      BY <3>1 DEF Ending, UnderWay, Fills, Sent, StepsOfPage
    <3>3. shown[i].ask \in Sent
      BY <2>1 DEF KnownAsks, OfSent
    <3>4. CASE Endless(shown[i]) /\ clues.buried
      BY <1>0, <1>h, <2>1, <3>3, <3>4 DEF Endless
    <3>5. CASE Endless(shown[i]) /\ ~clues.buried
      <4>1. asks[n].q = asks[shown[i].ask].q
        BY <1>h, <3>1, <3>2, <3>5 DEF CursorAtEnd
      <4>2. QED
        BY <1>0, <2>1, <3>2, <3>3, <4>1
    <3>6. CASE ~Endless(shown[i])
      <4>1. PICK w \in Ids : Ending(w) /\ asks[w].q = asks[shown[i].ask].q
        BY <1>h, <3>1, <3>6 DEF CursorAtEnd
      <4>2. w \in UnderWay
        BY <4>1 DEF Ending, UnderWay
      <4>3. w = n
        BY <1>h, <3>2, <4>2 DEF Alone
      <4>4. QED
        BY <1>0, <2>1, <3>2, <3>3, <4>1, <4>3
    <3>7. QED
      BY <3>4, <3>5, <3>6
  <2>3. QED
    BY <1>o, <2>1, <2>2
<1>8. CASE Replaces
  <2>1. shown'[i].from \subseteq {shown'[i].ask}
    BY <1>8, LoadedMessages DEF Replaces
  <2>2. QED
    BY <1>e, <2>1
<1>9. QED
  BY <1>1, <1>2, <1>3, <1>4, <1>5, <1>6, <1>7, <1>8, ShownMoves, SendKinds DEF Patching

\* On every page, for any number of messages, a bubble holds answers to its own
\* question only, unless the page was stopped before the stream had started, or a retry
\* of an answer in the middle wrote into it after its own stream had ended without done
\* or error.
THEOREM NoAnswerAstray == Spec => []AnswersItsQuestion
<1>1. Init => OwnAnswers
  BY DEF Init, OwnAnswers
<1>2. OwnAnswers => AnswersItsQuestion
  <2>1. ASSUME OwnAnswers, ~clues.hasty, NEW i \in DOMAIN shown
        PROVE  OneQuestion(shown[i]) \/ (clues.buried /\ asks[shown[i].ask].q \in clues.lost)
    BY <2>1 DEF OwnAnswers, OneQuestion, Endless
  <2>2. QED
    BY <2>1 DEF AnswersItsQuestion
<1>3. QED
  BY <1>1, <1>2, CursorsInductive, QuestionStep, PTL DEF Spec

-----------------------------------------------------------------------------
(* Answers below their questions, in what is shown and in what is stored.   *)

\* In the list s, with as the asks and ex the excused questions.
AboveIn(s, as, ex) ==
  \A i \in DOMAIN s :
    s[i].who = "bot" /\ as[s[i].ask].q \notin ex =>
      \E j \in DOMAIN s : j < i /\ s[j].who = "user" /\ as[s[j].ask].q = as[s[i].ask].q

HasIn(s, as, q) == \E j \in DOMAIN s : s[j].who = "user" /\ as[s[j].ask].q = q

LEMMA AboveKept ==
  ASSUME NEW s, NEW t, NEW as, NEW bs, NEW ex, NEW fx, DOMAIN t = DOMAIN s,
         \A i \in DOMAIN s : t[i].who = s[i].who /\ t[i].ask = s[i].ask /\ bs[s[i].ask].q = as[s[i].ask].q,
         ex \subseteq fx, AboveIn(s, as, ex)
  PROVE  AboveIn(t, bs, fx)
<1>1. ASSUME NEW i \in DOMAIN t, t[i].who = "bot", bs[t[i].ask].q \notin fx
      PROVE  \E j \in DOMAIN t : j < i /\ t[j].who = "user" /\ bs[t[j].ask].q = bs[t[i].ask].q
  <2>1. s[i].who = "bot" /\ bs[t[i].ask].q = as[s[i].ask].q /\ as[s[i].ask].q \notin ex
    BY <1>1
  <2>2. PICK j \in DOMAIN s : j < i /\ s[j].who = "user" /\ as[s[j].ask].q = as[s[i].ask].q
    BY <1>1, <2>1 DEF AboveIn
  <2>3. QED
    BY <2>1, <2>2
<1>2. QED
  BY <1>1 DEF AboveIn

LEMMA AboveAppend ==
  ASSUME NEW S, NEW s \in Seq(S), NEW m \in S, NEW as, NEW ex, AboveIn(s, as, ex),
         m.who = "bot" => as[m.ask].q \in ex \/ HasIn(s, as, as[m.ask].q)
  PROVE  AboveIn(Append(s, m), as, ex)
<1> DEFINE t == Append(s, m)
<1>1. /\ DOMAIN s = 1..Len(s) /\ Len(s) \in Nat
      /\ \A j \in DOMAIN t : (j \in DOMAIN s /\ t[j] = s[j]) \/ (j = Len(s) + 1 /\ t[j] = m)
      /\ \A j \in DOMAIN s : j \in DOMAIN t /\ t[j] = s[j] /\ j < Len(s) + 1
  OBVIOUS
<1> HIDE DEF t
<1>2. ASSUME NEW i \in DOMAIN t, t[i].who = "bot", as[t[i].ask].q \notin ex
      PROVE  \E j \in DOMAIN t : j < i /\ t[j].who = "user" /\ as[t[j].ask].q = as[t[i].ask].q
  <2>1. CASE i \in DOMAIN s /\ t[i] = s[i]
    <3>1. PICK j \in DOMAIN s : j < i /\ s[j].who = "user" /\ as[s[j].ask].q = as[s[i].ask].q
      BY <1>2, <2>1 DEF AboveIn
    <3>2. QED
      BY <1>1, <2>1, <3>1
  <2>2. CASE i = Len(s) + 1 /\ t[i] = m
    <3>1. PICK j \in DOMAIN s : s[j].who = "user" /\ as[s[j].ask].q = as[m.ask].q
      BY <1>2, <2>2 DEF HasIn
    <3>2. QED
      BY <1>1, <2>2, <3>1
  <2>3. QED
    BY <1>1, <1>2, <2>1, <2>2
<1>3. AboveIn(t, as, ex)
  BY <1>2 DEF AboveIn
<1>4. QED
  BY <1>3 DEF t

LEMMA AboveWithout ==
  ASSUME NEW s \in Seq(Messages), NEW l \in DOMAIN s, s[l].who # "user",
         NEW as, NEW ex, AboveIn(s, as, ex)
  PROVE  /\ AboveIn(Without(s, l), as, ex)
         /\ \A q : HasIn(s, as, q) => HasIn(Without(s, l), as, q)
<1> DEFINE t == Without(s, l)
<1>1. /\ DOMAIN s = 1..Len(s) /\ Len(s) \in Nat /\ DOMAIN t = 1..(Len(s) - 1) /\ l \in 1..Len(s)
      /\ \A j \in 1..(Len(s) - 1) : t[j] = IF j < l THEN s[j] ELSE s[j + 1]
  BY WithoutOne
<1> HIDE DEF t
<1>2. ASSUME NEW j \in DOMAIN s, j # l
      PROVE  LET i == IF j < l THEN j ELSE j - 1 IN i \in DOMAIN t /\ t[i] = s[j]
  <2>1. CASE j < l
    BY <1>1, <1>2, <2>1
  <2>2. CASE ~(j < l)
    <3>1. j - 1 \in 1..(Len(s) - 1) /\ ~(j - 1 < l) /\ (j - 1) + 1 = j
      BY <1>1, <1>2, <2>2
    <3>2. QED
      BY <1>1, <2>2, <3>1
  <2>3. QED
    BY <2>1, <2>2
<1>3. ASSUME NEW i \in DOMAIN t, t[i].who = "bot", as[t[i].ask].q \notin ex
      PROVE  \E j \in DOMAIN t : j < i /\ t[j].who = "user" /\ as[t[j].ask].q = as[t[i].ask].q
  <2> DEFINE h == IF i < l THEN i ELSE i + 1
  <2>1. h \in DOMAIN s /\ t[i] = s[h] /\ h # l
    BY <1>1, <1>3
  <2>2. PICK g \in DOMAIN s : g < h /\ s[g].who = "user" /\ as[s[g].ask].q = as[s[h].ask].q
    BY <1>3, <2>1 DEF AboveIn
  <2> DEFINE j == IF g < l THEN g ELSE g - 1
  <2>3. g # l
    BY <2>2
  <2>4. j \in DOMAIN t /\ t[j] = s[g]
    BY <1>2, <2>2, <2>3
  <2>5. j < i
    BY <1>1, <1>3, <2>1, <2>2, <2>3
  <2> HIDE DEF j, h
  <2>6. QED
    BY <2>1, <2>2, <2>4, <2>5
<1>4. ASSUME NEW q, HasIn(s, as, q) PROVE HasIn(t, as, q)
  <2>1. PICK j \in DOMAIN s : s[j].who = "user" /\ as[s[j].ask].q = q
    BY <1>4 DEF HasIn
  <2>2. \E i \in DOMAIN t : t[i] = s[j]
    BY <1>2, <2>1
  <2>3. QED
    BY <2>1, <2>2 DEF HasIn
<1>5. AboveIn(t, as, ex)
  BY <1>3 DEF AboveIn
<1>6. QED
  BY <1>4, <1>5 DEF t

LEMMA HasKept ==
  ASSUME NEW s, NEW t, NEW as, NEW bs, NEW q, HasIn(s, as, q),
         \A i \in DOMAIN s : /\ i \in DOMAIN t /\ t[i].who = s[i].who /\ t[i].ask = s[i].ask
                             /\ bs[s[i].ask].q = as[s[i].ask].q
  PROVE  HasIn(t, bs, q)
BY DEF HasIn

-----------------------------------------------------------------------------
Excused == clues.moved \cup clues.unsaved

\* An ask whose question the service was told to store, which ChatPage does if there
\* is a conversation to store it in.
Past(n) ==
  \/ page = "agent" /\ asks[n].pc \notin {"idle", "persist"}
  \/ /\ page = "chat" /\ asks[n].conv # None
     /\ asks[n].pc \in {"stream", "said", "closing", "cut", "run", "keep"}

\* A question is shown while it is under way, and stored once it was told to be.
HasQuestion == \A n \in UnderWay : asks[n].q \notin clues.moved => HasIn(shown, asks, asks[n].q)
HasStored ==
  \A n \in Ids : Past(n) /\ asks[n].q \notin Excused =>
    asks[n].conv \in Convs /\ HasIn(stored[asks[n].conv], asks, asks[n].q)
RowsInOrder ==
  /\ \A c \in Convs : AboveIn(stored[c], asks, Excused)
  /\ \A k \in calls : AboveIn(k.rows, asks, Excused)

\* A question has its own number until it was stored, and only a stream is stopped.
OwnNumber ==
  /\ \A n \in Ids : asks[n].pc \in {"create", "persist"} => asks[n].q = n
  /\ page = "agent" /\ handle # None => Past(handle)

\* AgentExecutePage's bubbles with a cursor or a retry are of the open session, or
\* about to be replaced.
Loading == \E k \in calls : k.op = "load"
PairsOfCurrent ==
  page = "agent" =>
    \A i \in DOMAIN shown : shown[i].live \/ shown[i].bad => asks[shown[i].ask].conv = current \/ Loading

Questions ==
  /\ AboveIn(shown, asks, Excused) /\ HasQuestion /\ HasStored /\ RowsInOrder
  /\ OwnNumber /\ PairsOfCurrent

LEMMA UnderWayMoves ==
  ASSUME Known, [Next]_vars, NEW n \in UnderWay'
  PROVE  n \in UnderWay \/ (UserSends /\ n = Fresh)
<1> USE DEF Known
<1>0. n \in Ids /\ asks'[n].pc \notin {"idle", "cut", "thrown", "done"}
  BY DEF UnderWay
<1>1. CASE asks'[n] = asks[n]
  BY <1>0, <1>1 DEF UnderWay
<1>2. CASE Progress(n)
  BY <1>0, <1>2, ProgressKinds
<1>3. ASSUME NEW m \in Ids \ {n}, Progress(m) PROVE asks'[n] = asks[n]
  BY <1>0, <1>3, ProgressMoves DEF OthersLast
<1>4. CASE Stop
  BY <1>0, <1>1, <1>4, StopMoves DEF OthersLast
<1>5. CASE UserSends /\ n # Fresh
  <2>1. \E pc, kind, q : Sends(pc, kind, q)
    BY <1>5, SendsSomething
  <2>2. asks'[n] = asks[n]
    BY <1>0, <1>5, <2>1, SendsLast DEF OthersLast
  <2>3. QED
    BY <1>1, <2>2
<1>6. QED
  BY <1>0, <1>1, <1>2, <1>3, <1>4, <1>5, AsksStay DEF Next, UserMoves

LEMMA StoredGrows ==
  ASSUME Typed, [Next]_vars, NEW c \in Convs
  PROVE  \A j \in DOMAIN stored[c] : j \in DOMAIN stored'[c] /\ stored'[c][j] = stored[c][j]
<1>1. CASE stored' = stored
  BY <1>1
<1>2. ASSUME NEW n \in Ids, NEW who, Stores(n, who)
      PROVE  \A j \in DOMAIN stored[c] : j \in DOMAIN stored'[c] /\ stored'[c][j] = stored[c][j]
  <2>1. stored[c] \in Seq(Rows)
    BY DEF Typed, TypeOK
  <2>2. \/ stored'[c] = stored[c]
        \/ stored'[c] = Append(stored[c], [who |-> who, ask |-> n])
    BY <1>2 DEF Stores, Typed, TypeOK
  <2>3. QED
    BY <2>1, <2>2
<1>3. QED
  BY <1>1, <1>2, StoredMoves

LEMMA QuestionsStay ==
  ASSUME Known, [Next]_vars
  PROVE  /\ \A n \in Sent : asks'[n].q = asks[n].q
         /\ \A i \in DOMAIN shown : asks'[shown[i].ask].q = asks[shown[i].ask].q
         /\ \A c \in Convs : \A i \in DOMAIN stored[c] :
              asks'[stored[c][i].ask].q = asks[stored[c][i].ask].q
         /\ Excused \subseteq Excused' /\ clues.moved \subseteq clues'.moved
         /\ AboveIn(shown, asks, Excused) => AboveIn(shown, asks', Excused')
         /\ \A q : HasIn(shown, asks, q) => HasIn(shown, asks', q)
<1>1. \A n \in Sent : asks'[n].q = asks[n].q
  BY AsksLast DEF Known, Lasts
<1>2. Excused \subseteq Excused' /\ clues.moved \subseteq clues'.moved
  BY CluesGrow DEF Known, Excused
<1>3. \A i \in DOMAIN shown : asks'[shown[i].ask].q = asks[shown[i].ask].q
  BY <1>1 DEF Known, KnownAsks, OfSent
<1>4. \A c \in Convs : \A i \in DOMAIN stored[c] : asks'[stored[c][i].ask].q = asks[stored[c][i].ask].q
  BY <1>1 DEF Known, KnownAsks, OfSent
<1>5. ASSUME AboveIn(shown, asks, Excused) PROVE AboveIn(shown, asks', Excused')
  BY <1>2, <1>3, <1>5, AboveKept
<1>6. ASSUME NEW q, HasIn(shown, asks, q) PROVE HasIn(shown, asks', q)
  BY <1>3, <1>6, HasKept
<1>7. QED
  BY <1>1, <1>2, <1>3, <1>4, <1>5, <1>6

\* The number of a new ask's question, and that it is shown.
LEMMA NewQuestion ==
  ASSUME Known, MessageKinds, UserSends, [Next]_vars
  PROVE  HasIn(shown', asks', asks'[Fresh].q)
<1> USE DEF Known
<1>0. shown \in Seq(Messages) /\ DOMAIN shown = 1..Len(shown) /\ Len(shown) \in Nat
  BY DEF Typed, TypeOK
<1>1. CASE ChatSending
  <2>1. Fresh \in Ids /\ asks'[Fresh].q = Fresh
    <3>1. \E pc, kind : Sends(pc, kind, Fresh)
      BY <1>1 DEF ChatSending
    <3>2. QED
      BY <3>1, SendsLast
  <2>2. PICK s \in Seq(Messages) : shown' = Append(s, User(Fresh))
    BY <1>1 DEF ChatSending
  <2>3. Len(s) + 1 \in DOMAIN shown' /\ shown'[Len(s) + 1] = User(Fresh)
    BY <2>1, <2>2, AddedLast, NewMessages
  <2>4. QED
    BY <2>1, <2>3, NewMessages DEF HasIn
<1>2. CASE AgentSending
  <2>1. Fresh \in Ids /\ asks'[Fresh].q = Fresh
    BY <1>2, SendsLast DEF AgentSending
  <2>2. shown' = shown \o <<User(Fresh), Bubble(Fresh)>>
    BY <1>2 DEF AgentSending
  <2>3. Len(shown) + 1 \in DOMAIN shown' /\ shown'[Len(shown) + 1] = User(Fresh)
    BY <1>0, <2>1, <2>2, AddedPair, NewMessages
  <2>4. QED
    BY <2>1, <2>3, NewMessages DEF HasIn
<1>3. ASSUME NEW k \in DOMAIN shown, AgentRetrying(k) PROVE HasIn(shown', asks', asks'[Fresh].q)
  <2>1. /\ DOMAIN shown' = DOMAIN shown
        /\ \A l \in DOMAIN shown : l # k => shown'[l] = shown[l]
    BY <1>0, <1>3, RetryShown DEF AgentRetrying
  <2>2. asks'[Fresh].q = asks[shown[Asked(k)].ask].q
    BY <1>3, RetryAsks
  <2>3. k - 1 \in DOMAIN shown /\ Asked(k) = k - 1 /\ shown[k - 1].who = "user" /\ k - 1 # k
    BY <1>0, <1>3, RetriedQuestion
  <2>4. asks'[shown[k - 1].ask].q = asks[shown[k - 1].ask].q
    BY <2>3, QuestionsStay
  <2>5. QED
    BY <2>1, <2>2, <2>3, <2>4 DEF HasIn
<1>4. CASE PlainSending
  <2>1. Fresh \in Ids /\ asks'[Fresh].q = Fresh /\ shown' = Append(shown, User(Fresh))
    BY <1>4, SendsLast DEF PlainSending
  <2>2. Len(shown) + 1 \in DOMAIN shown' /\ shown'[Len(shown) + 1] = User(Fresh)
    BY <1>0, <2>1, AddedLast, NewMessages
  <2>3. QED
    BY <2>1, <2>2, NewMessages DEF HasIn
<1>5. QED
  BY <1>1, <1>2, <1>3, <1>4, SendKinds

\* A question that is shown stays, until something else is shown.
LEMMA ShownQuestions ==
  ASSUME Known, MessageKinds, [Next]_vars, ~Replaces, NEW q, HasIn(shown, asks, q)
  PROVE  HasIn(shown', asks', q)
<1> USE DEF Known
<1>0. /\ shown \in Seq(Messages) /\ DOMAIN shown = 1..Len(shown) /\ Len(shown) \in Nat
      /\ HasIn(shown, asks', q)
  BY QuestionsStay DEF Typed, TypeOK
<1>a. ASSUME NEW s \in Seq(Messages), NEW m \in Messages, HasIn(s, asks', q), shown' = Append(s, m)
      PROVE  HasIn(shown', asks', q)
  <2>1. PICK j \in DOMAIN s : s[j].who = "user" /\ asks'[s[j].ask].q = q
    BY <1>a DEF HasIn
  <2>2. j \in DOMAIN Append(s, m) /\ Append(s, m)[j] = s[j]
    BY <2>1, AddedLast
  <2>3. j \in DOMAIN shown' /\ shown'[j] = s[j]
    BY <1>a, <2>2
  <2>4. QED
    BY <2>1, <2>3 DEF HasIn
<1>1. CASE shown' = shown
  BY <1>0, <1>1
<1>2. CASE ChatSending
  <2>1. PICK s \in Seq(Messages) : Base(s) /\ shown' = Append(s, User(Fresh))
    BY <1>2 DEF ChatSending
  <2>2. Fresh \in Ids
    BY <1>2 DEF ChatSending, Sends
  <2>3. HasIn(s, asks', q)
    <3>1. ASSUME NEW l \in DOMAIN shown, shown[l].bad, s = Without(shown, l) PROVE HasIn(s, asks', q)
      <4>1. shown[l].who # "user"
        BY <3>1 DEF MessageKinds
      <4>2. AboveIn(shown, asks', Ids)
        <5>1. \A i \in DOMAIN shown : asks'[shown[i].ask].q \in Ids
          BY TypedParts, QuestionsStay
        <5>2. QED
          BY <5>1 DEF AboveIn
      <4>3. QED
        BY <1>0, <3>1, <4>1, <4>2, AboveWithout
    <3>2. QED
      BY <1>0, <2>1, <3>1 DEF Base
  <2>4. QED
    BY <1>a, <2>1, <2>2, <2>3, NewMessages
<1>3. CASE AgentSending
  <2>1. Fresh \in Ids /\ shown' = shown \o <<User(Fresh), Bubble(Fresh)>>
    BY <1>3 DEF AgentSending, Sends
  <2>2. \A j \in DOMAIN shown : j \in DOMAIN shown' /\ shown'[j] = shown[j]
    BY <1>0, <2>1, AddedPair, NewMessages
  <2>3. QED
    BY <1>0, <2>2, HasKept
<1>4. ASSUME NEW k \in DOMAIN shown, AgentRetrying(k) PROVE HasIn(shown', asks', q)
  <2>1. /\ DOMAIN shown' = DOMAIN shown
        /\ shown'[k] = [shown[k] EXCEPT !.from = {}, !.bad = FALSE, !.live = TRUE]
        /\ \A l \in DOMAIN shown : l # k => shown'[l] = shown[l]
        /\ shown[k].bad
    BY <1>0, <1>4, RetryShown DEF AgentRetrying
  <2>2. shown[k].who # "user"
    BY <1>4, <2>1 DEF MessageKinds
  <2>3. QED
    BY <1>0, <2>1, <2>2 DEF HasIn
<1>5. CASE PlainSending
  BY <1>a, <1>0, <1>5, NewMessages DEF PlainSending, Sends
<1>6. ASSUME NEW n \in Ids, Appends(n) PROVE HasIn(shown', asks', q)
  BY <1>a, <1>0, <1>6, NewMessages DEF Appends
<1>7. CASE Patching
  <2>1. DOMAIN shown' = DOMAIN shown
        /\ \A i \in DOMAIN shown : shown'[i].who = shown[i].who /\ shown'[i].ask = shown[i].ask
    BY <1>7, Patched
  <2>2. QED
    BY <1>0, <2>1, HasKept
<1>8. QED
  BY <1>1, <1>2, <1>3, <1>4, <1>5, <1>6, <1>7, ShownMoves, SendKinds DEF Patching

LEMMA HasQuestionStep ==
  ASSUME Known, MessageKinds, HasQuestion, [Next]_vars
  PROVE  HasQuestion'
<1> USE DEF Known
<1> SUFFICES ASSUME NEW n \in UnderWay', asks'[n].q \notin clues'.moved
             PROVE  HasIn(shown', asks', asks'[n].q)
  BY DEF HasQuestion
<1>1. CASE UserSends /\ n = Fresh
  BY <1>1, NewQuestion
<1>2. CASE n \in UnderWay
  <2>1. n \in Sent /\ asks'[n].q = asks[n].q
    BY <1>2, QuestionsStay DEF UnderWay, Sent
  <2>2. asks[n].q \notin clues.moved
    BY <2>1, QuestionsStay
  <2>3. HasIn(shown, asks, asks[n].q)
    BY <1>2, <2>2 DEF HasQuestion
  <2>4. CASE Replaces
    <3>1. asks[n].q \in MovedOn.moved
      BY <1>2, MovedOnTyped
    <3>2. QED
      BY <2>1, <2>4, <3>1 DEF Replaces
  <2>5. CASE ~Replaces
    BY <2>1, <2>3, <2>5, ShownQuestions
  <2>6. QED
    BY <2>4, <2>5
<1>3. QED
  BY <1>1, <1>2, UnderWayMoves

LEMMA AboveStep ==
  ASSUME Known, MessageKinds, Questions, [Next]_vars
  PROVE  AboveIn(shown', asks', Excused')
<1> USE DEF Known
<1>0. /\ shown \in Seq(Messages) /\ DOMAIN shown = 1..Len(shown) /\ Len(shown) \in Nat
      /\ AboveIn(shown, asks', Excused')
  BY QuestionsStay DEF Typed, TypeOK, Questions
<1>1. CASE shown' = shown
  BY <1>0, <1>1
<1>2. CASE ChatSending
  <2>1. PICK s \in Seq(Messages) : Base(s) /\ shown' = Append(s, User(Fresh))
    BY <1>2 DEF ChatSending
  <2>2. Fresh \in Ids
    BY <1>2 DEF ChatSending, Sends
  <2>3. AboveIn(s, asks', Excused')
    <3>1. ASSUME NEW l \in DOMAIN shown, shown[l].bad, s = Without(shown, l)
          PROVE AboveIn(s, asks', Excused')
      BY <1>0, <3>1, AboveWithout DEF MessageKinds
    <3>2. QED
      BY <1>0, <2>1, <3>1 DEF Base
  <2>4. User(Fresh) \in Messages /\ User(Fresh).who = "user"
    BY <2>2, NewMessages
  <2>5. QED
    BY <2>1, <2>3, <2>4, AboveAppend
<1>3. CASE AgentSending
  <2>1. Fresh \in Ids /\ shown' = shown \o <<User(Fresh), Bubble(Fresh)>>
    BY <1>3 DEF AgentSending, Sends
  <2>2. /\ shown'[Len(shown) + 1] = User(Fresh) /\ shown'[Len(shown) + 2] = Bubble(Fresh)
        /\ DOMAIN shown' = 1..(Len(shown) + 2)
        /\ \A j \in DOMAIN shown' : \/ j \in DOMAIN shown /\ shown'[j] = shown[j]
                                    \/ j = Len(shown) + 1 /\ shown'[j] = User(Fresh)
                                    \/ j = Len(shown) + 2 /\ shown'[j] = Bubble(Fresh)
        /\ \A j \in DOMAIN shown : j \in DOMAIN shown' /\ shown'[j] = shown[j]
    BY <1>0, <2>1, AddedPair, NewMessages
  <2>3. ASSUME NEW i \in DOMAIN shown', shown'[i].who = "bot", asks'[shown'[i].ask].q \notin Excused'
        PROVE  \E j \in DOMAIN shown' : j < i /\ shown'[j].who = "user"
                                        /\ asks'[shown'[j].ask].q = asks'[shown'[i].ask].q
    <3>1. CASE i \in DOMAIN shown /\ shown'[i] = shown[i]
      BY <1>0, <2>2, <2>3, <3>1 DEF AboveIn
    <3>2. CASE i = Len(shown) + 1 /\ shown'[i] = User(Fresh)
      BY <2>1, <2>3, <3>2, NewMessages
    <3>3. CASE i = Len(shown) + 2 /\ shown'[i] = Bubble(Fresh)
      <4>1. Len(shown) + 1 \in DOMAIN shown' /\ Len(shown) + 1 < i
        BY <1>0, <2>2, <3>3
      <4>2. QED
        BY <2>1, <2>2, <3>3, <4>1, NewMessages
    <3>4. QED
      BY <2>2, <2>3, <3>1, <3>2, <3>3
  <2>4. QED
    BY <2>3 DEF AboveIn
<1>4. ASSUME NEW k \in DOMAIN shown, AgentRetrying(k) PROVE AboveIn(shown', asks', Excused')
  <2>1. /\ DOMAIN shown' = DOMAIN shown
        /\ shown'[k] = [shown[k] EXCEPT !.from = {}, !.bad = FALSE, !.live = TRUE]
        /\ \A l \in DOMAIN shown : l # k => shown'[l] = shown[l]
    BY <1>0, <1>4, RetryShown DEF AgentRetrying
  <2>2. shown[k] \in Messages
    BY <1>0, <1>4
  <2>3. shown'[k].who = shown[k].who /\ shown'[k].ask = shown[k].ask
    BY <2>1, <2>2 DEF Messages
  <2>4. \A i \in DOMAIN shown : shown'[i].who = shown[i].who /\ shown'[i].ask = shown[i].ask
    BY <2>1, <2>3
  <2>5. QED
    BY <1>0, <2>1, <2>4, AboveKept
<1>5. CASE PlainSending
  <2>1. Fresh \in Ids /\ shown' = Append(shown, User(Fresh))
    BY <1>5 DEF PlainSending, Sends
  <2>2. User(Fresh) \in Messages /\ User(Fresh).who = "user"
    BY <2>1, NewMessages
  <2>3. QED
    BY <1>0, <2>1, <2>2, AboveAppend
<1>6. ASSUME NEW n \in Ids, Appends(n) PROVE AboveIn(shown', asks', Excused')
  <2>1. PICK m \in {Fault(n), Reply(n), Sorry(n), Bubble(n)} : shown' = Append(shown, m)
    BY <1>6 DEF Appends
  <2>2. m \in Messages /\ m.ask = n
    BY <1>6, <2>1, NewMessages
  <2>3. n \in Sent /\ n \in UnderWay
    BY <1>6 DEF Appends, UnderWay, Sent
  <2>4. asks'[n].q \in Excused' \/ HasIn(shown, asks', asks'[n].q)
    <3>1. asks'[n].q = asks[n].q
      BY <2>3, QuestionsStay
    <3>2. asks[n].q \in clues.moved \/ HasIn(shown, asks, asks[n].q)
      BY <2>3 DEF Questions, HasQuestion
    <3>3. QED
      BY <3>1, <3>2, QuestionsStay DEF Excused
  <2>5. QED
    BY <1>0, <2>1, <2>2, <2>4, AboveAppend
<1>7. CASE Patching
  <2>1. DOMAIN shown' = DOMAIN shown
        /\ \A i \in DOMAIN shown : shown'[i].who = shown[i].who /\ shown'[i].ask = shown[i].ask
    BY <1>7, Patched
  <2>2. QED
    BY <1>0, <2>1, AboveKept
<1>8. CASE Replaces
  <2>1. CASE shown' = <<>>
    BY <2>1 DEF AboveIn
  <2>2. ASSUME NEW k \in calls, shown' = Loaded(k.rows) PROVE AboveIn(shown', asks', Excused')
    <3>1. /\ DOMAIN shown' = DOMAIN k.rows
          /\ \A i \in DOMAIN k.rows : shown'[i].who = k.rows[i].who /\ shown'[i].ask = k.rows[i].ask
      BY <2>2, LoadedMessages
    <3>2. AboveIn(k.rows, asks, Excused) /\ asks' = asks
      BY <1>8, <2>2 DEF Questions, RowsInOrder, Replaces
    <3>3. QED
      BY <3>1, <3>2, QuestionsStay, AboveKept
  <2>3. QED
    BY <1>8, <2>1, <2>2 DEF Replaces
<1>9. QED
  BY <1>1, <1>2, <1>3, <1>4, <1>5, <1>6, <1>7, <1>8, ShownMoves, SendKinds DEF Patching

LEMMA RowsStep ==
  ASSUME Known, Questions, [Next]_vars
  PROVE  RowsInOrder'
<1> USE DEF Known
<1>0. ASSUME NEW c \in Convs PROVE AboveIn(stored[c], asks', Excused')
  BY <1>0, QuestionsStay, AboveKept DEF Questions, RowsInOrder
<1>1. ASSUME NEW c \in Convs PROVE AboveIn(stored'[c], asks', Excused')
  <2>1. CASE stored' = stored
    BY <1>0, <1>1, <2>1
  <2>2. ASSUME NEW n \in Ids, NEW who, Stores(n, who), who = "user" \/ Past(n)
        PROVE  AboveIn(stored'[c], asks', Excused')
    <3> DEFINE row == [who |-> who, ask |-> n]
    <3>1. row \in Rows /\ row.who = who /\ row.ask = n /\ n \in Sent
      BY <2>2 DEF Stores, Rows
    <3>2. stored'[c] = IF c = asks[n].conv THEN Append(stored[c], row) ELSE stored[c]
      BY <1>1, <2>2 DEF Stores, Typed, TypeOK
    <3> HIDE DEF row
    <3>3. stored[c] \in Seq(Rows)
      BY <1>1 DEF Typed, TypeOK
    <3>4. CASE c # asks[n].conv
      BY <1>0, <1>1, <3>2, <3>4
    <3>5. CASE c = asks[n].conv
      <4>1. asks'[n].q = asks[n].q
        BY <3>1, QuestionsStay
      <4>2. ASSUME who = "bot" PROVE asks'[n].q \in Excused' \/ HasIn(stored[c], asks', asks'[n].q)
        <5>1. asks[n].q \in Excused \/ HasIn(stored[c], asks, asks[n].q)
          BY <2>2, <3>5, <4>2 DEF Questions, HasStored
        <5>2. CASE HasIn(stored[c], asks, asks[n].q)
          <6>1. HasIn(stored[c], asks', asks[n].q)
            BY <1>1, <5>2, QuestionsStay, HasKept
          <6>2. QED
            BY <4>1, <6>1
        <5>3. QED
          BY <4>1, <5>1, <5>2, QuestionsStay
      <4>3. AboveIn(Append(stored[c], row), asks', Excused')
        BY <1>0, <1>1, <3>1, <3>3, <4>2, AboveAppend
      <4>4. QED
        BY <3>2, <3>5, <4>3
    <3>6. QED
      BY <3>4, <3>5
  <2>3. ASSUME NEW n \in Ids, Answered(n) \/ Kept(n), Stores(n, "bot") PROVE Past(n)
    BY <2>3, NoneIsNoConv DEF Answered, Kept, Stores, Past, StepsOfPage
  <2>4. QED
    BY <2>1, <2>2, <2>3, StoredMoves
<1>2. ASSUME NEW k \in calls' PROVE AboveIn(k.rows, asks', Excused')
  <2>1. CASE k \in calls
    <3>1. AboveIn(k.rows, asks, Excused)
      BY <2>1 DEF Questions, RowsInOrder
    <3>2. \A i \in DOMAIN k.rows : asks'[k.rows[i].ask].q = asks[k.rows[i].ask].q
      BY <2>1, QuestionsStay DEF KnownAsks, OfSent
    <3>3. QED
      BY <3>1, <3>2, QuestionsStay, AboveKept
  <2>2. CASE k.rows = <<>>
    BY <2>2 DEF AboveIn
  <2>3. CASE k.conv \in Convs /\ k.rows = stored[k.conv]
    BY <1>0, <2>3
  <2>4. QED
    BY <1>2, <2>1, <2>2, <2>3, CallMoves
<1>3. QED
  BY <1>1, <1>2 DEF RowsInOrder

\* A question is not stored twice by one ask.
LEMMA NeverAgain ==
  ASSUME Known, [Next]_vars, NEW n \in Sent, asks'[n].pc \in {"create", "persist"}
  PROVE  /\ asks[n].pc \in {"create", "persist"}
         /\ asks'[n].pc = "create" => asks[n].pc = "create"
<1> USE DEF Known
<1>0. n \in Ids
  BY DEF Sent
<1>1. CASE asks'[n] = asks[n]
  BY <1>1
<1>2. CASE Progress(n)
  <2>1. CASE \E c \in Convs : Created(n, c)
    BY <2>1 DEF Created
  <2>2. CASE CreateFails(n) \/ Persisted(n) \/ Answered(n) \/ DoneArrives(n) \/ ErrorArrives(n) \/ Closed(n)
           \/ Breaks(n) \/ Ends(n) \/ RunAnswered(n) \/ RunFails(n) \/ Kept(n) \/ Spoken(n)
    <3>1. \E pc \in {"done", "stream", "run", "said", "closing", "cut", "keep", "speak"} : Moves(n, pc)
      BY <2>2 DEF CreateFails, Persisted, Answered, DoneArrives, ErrorArrives, Closed, Breaks, Ends,
                  RunAnswered, RunFails, Kept, Spoken
    <3>2. asks'[n].pc \in {"done", "stream", "run", "said", "closing", "cut", "keep", "speak"}
      BY <1>0, <3>1, MovesLast
    <3>3. QED
      BY <3>2
  <2>3. QED
    BY <1>2, <2>1, <2>2 DEF Progress
<1>3. ASSUME NEW m \in Ids \ {n}, Progress(m) PROVE asks'[n] = asks[n]
  BY <1>0, <1>3, ProgressMoves DEF OthersLast
<1>4. CASE Stop
  <2>1. asks'[n] = asks[n] \/ asks'[n].pc \in {"cut", "done"}
    BY <1>0, <1>4, StopMoves DEF OthersLast
  <2>2. QED
    BY <2>1
<1>5. CASE UserSends
  <2>1. \E pc, kind, q : Sends(pc, kind, q)
    BY <1>5, SendsSomething
  <2>2. asks'[n] = asks[n]
    BY <1>0, <2>1, SendsLast, FreshIsNew DEF OthersLast
  <2>3. QED
    BY <2>2
<1>6. QED
  BY <1>1, <1>2, <1>3, <1>4, <1>5, AsksStay DEF Next, UserMoves

LEMMA HandleMoves ==
  ASSUME Typed, [Next]_vars
  PROVE  \/ handle' = handle \/ handle' = None
         \/ \E n \in Ids : Persisted(n) /\ asks[n].kind = "one" /\ Moves(n, "stream") /\ handle' = n
         \/ \E i \in DOMAIN shown : AgentRetrying(i)
<1>1. CASE UserSends
  BY <1>1, SendKinds DEF ChatSending, AgentSending, PlainSending
<1>2. ASSUME NEW n \in Ids, Progress(n) \/ Delta(n)
      PROVE  \/ handle' = handle \/ handle' = None
             \/ Persisted(n) /\ asks[n].kind = "one" /\ Moves(n, "stream") /\ handle' = n
  BY <1>2 DEF Progress, Created, CreateFails, Persisted, Answered, DoneArrives, ErrorArrives, Closed, Breaks, Ends,
     RunAnswered, RunFails, Kept, Spoken, Delta
<1>3. CASE UserMoves \/ CallEnds \/ UNCHANGED vars
  BY <1>3 DEF UserMoves, Stop, StartNew, Clear, Open, Delete, Calling, CallEnds, Served, Opened,
     Deleted, CallFails, NewOpened, vars
<1>4. QED
  BY <1>1, <1>2, <1>3 DEF Next

LEMMA OwnNumberStep ==
  ASSUME Known, OwnNumber, [Next]_vars
  PROVE  OwnNumber'
<1> USE DEF Known
<1>1. ASSUME NEW n \in Ids, asks'[n].pc \in {"create", "persist"} PROVE asks'[n].q = n
  <2>1. CASE n \in Sent
    <3>1. asks[n].pc \in {"create", "persist"}
      BY <1>1, <2>1, NeverAgain
    <3>2. QED
      BY <1>1, <2>1, <3>1, QuestionsStay DEF OwnNumber
  <2>2. CASE n \notin Sent
    <3>1. asks[n].pc = "idle"
      BY <1>1, <2>2 DEF Sent
    <3>2. n = Fresh /\ UserSends
      BY <1>1, <2>2, <3>1, AsksLast
    <3>3. PICK pc \in {"create", "persist", "stream", "run", "thrown"}, kind \in {"one", "many"}, q \in Ids :
            Sends(pc, kind, q) /\ (q # Fresh => pc = "stream")
      BY <3>2, SendsSomething
    <3>4. asks'[n].pc = pc /\ asks'[n].q = q
      BY <3>2, <3>3, SendsLast
    <3>5. QED
      BY <1>1, <3>2, <3>3, <3>4
  <2>3. QED
    BY <2>1, <2>2
<1>2. ASSUME page' = "agent", handle' # None PROVE Past(handle)'
  <2>0. page = "agent"
    BY <1>2, PageStays
  <2>1. CASE handle' = handle
    <3>1. Past(handle) /\ handle \in Sent /\ handle \in Ids
      BY <1>2, <2>0, <2>1 DEF OwnNumber, StepsOfPage, Sent
    <3>2. asks'[handle].pc # "idle"
      BY <3>1, AsksLast DEF Lasts
    <3>3. asks[handle].pc \notin {"create", "persist"}
      BY <2>0, <3>1 DEF Past, StepsOfPage
    <3>4. asks'[handle].pc # "persist"
      BY <3>1, <3>3, NeverAgain
    <3>5. QED
      BY <1>2, <2>1, <3>2, <3>4 DEF Past
  <2>2. ASSUME NEW n \in Ids, Moves(n, "stream"), handle' = n PROVE Past(handle)'
    BY <1>2, <2>2, MovesLast DEF Past
  <2>3. ASSUME NEW i \in DOMAIN shown, AgentRetrying(i) PROVE Past(handle)'
    <3>1. handle' = Fresh /\ asks'[Fresh].pc = "stream"
      BY <2>3, RetryAsks
    <3>2. QED
      BY <1>2, <3>1 DEF Past
  <2>4. QED
    BY <1>2, <2>1, <2>2, <2>3, HandleMoves
<1>3. QED
  BY <1>1, <1>2 DEF OwnNumber

LEMMA HasStoredStep ==
  ASSUME Known, MessageKinds, Questions, [Next]_vars
  PROVE  HasStored'
<1> USE DEF Known
<1>0. page' = page
  BY PageStays
<1> SUFFICES ASSUME NEW n \in Ids, Past(n)', asks'[n].q \notin Excused'
             PROVE  asks'[n].conv \in Convs /\ HasIn(stored'[asks'[n].conv], asks', asks'[n].q)
  BY DEF HasStored
<1>s. ASSUME NEW c \in Convs, NEW q, HasIn(stored[c], asks, q) PROVE HasIn(stored'[c], asks', q)
  BY <1>s, StoredGrows, QuestionsStay, HasKept
<1>1. CASE Past(n)
  <2>1. n \in Sent /\ asks[n].pc # "create"
    BY <1>1 DEF Past, Sent, StepsOfPage
  <2>2. asks'[n].q = asks[n].q /\ asks'[n].conv = asks[n].conv
    BY <2>1, AsksLast DEF Lasts
  <2>3. asks[n].conv \in Convs /\ HasIn(stored[asks[n].conv], asks, asks[n].q)
    BY <1>1, <2>2, QuestionsStay DEF Questions, HasStored
  <2>4. QED
    BY <1>s, <2>2, <2>3
<1>2. CASE Persisted(n)
  <2> DEFINE row == [who |-> "user", ask |-> n]
             c == asks[n].conv
  <2>1. asks'[n].q = asks[n].q /\ asks'[n].conv = c /\ asks[n].q = n
    <3>1. \E pc \in {"stream", "run"} : Moves(n, pc)
      BY <1>2 DEF Persisted
    <3>2. asks[n].pc = "persist"
      BY <1>2 DEF Persisted
    <3>3. QED
      BY <3>1, <3>2, MovesLast DEF Lasts, Questions, OwnNumber
  <2>2. stored' # stored
    <3>1. stored' = stored => n \in clues'.unsaved
      BY <1>2 DEF Persisted, Typed, TypeOK
    <3>2. QED
      BY <2>1, <3>1 DEF Excused
  <2>3. c \in Convs /\ stored' = [stored EXCEPT ![c] = Append(@, row)]
    BY <1>2, <2>2 DEF Persisted, Added
  <2>5. stored[c] \in Seq(Rows) /\ stored'[c] = Append(stored[c], row)
    BY <2>3 DEF Typed, TypeOK
  <2>6. row.who = "user" /\ row.ask = n
    OBVIOUS
  <2> HIDE DEF row
  <2>7. Len(stored[c]) + 1 \in DOMAIN stored'[c] /\ stored'[c][Len(stored[c]) + 1] = row
    BY <2>5
  <2>8. HasIn(stored'[c], asks', asks'[n].q)
    BY <2>6, <2>7 DEF HasIn
  <2>9. QED
    BY <2>1, <2>3, <2>8
<1>3. CASE Progress(n) /\ ~Past(n)
  <2>1. CASE \E c \in Convs : Created(n, c)
    <3>1. asks'[n].pc = "persist" /\ asks[n].pc = "create"
      BY <2>1 DEF Created, Typed, TypeOK, Asks
    <3>2. QED
      BY <1>0, <3>1 DEF Past, StepsOfPage
  <2>2. CASE CreateFails(n)
    <3>1. asks'[n].pc = "done" /\ asks[n].pc = "create"
      BY <2>2, MovesLast DEF CreateFails
    <3>2. QED
      BY <1>0, <3>1 DEF Past, StepsOfPage
  <2>3. CASE Persisted(n)
    BY <1>2, <2>3
  <2>4. CASE /\ \A c \in Convs : ~Created(n, c)
             /\ Answered(n) \/ DoneArrives(n) \/ ErrorArrives(n) \/ Closed(n) \/ Breaks(n)
                \/ Ends(n) \/ RunAnswered(n) \/ RunFails(n) \/ Kept(n) \/ Spoken(n)
    <3>1. asks[n].pc \in {"stream", "cut", "said", "closing", "run", "keep", "speak"}
      BY <2>4 DEF Answered, DoneArrives, ErrorArrives, Closed, Breaks, Ends, RunAnswered, RunFails, Kept, Spoken
    <3>2. asks'[n].conv = asks[n].conv
      BY <2>4, ProgressMoves DEF Progress
    <3>3. QED
      BY <1>0, <1>3, <3>1, <3>2 DEF Past, StepsOfPage
  <2>5. QED
    BY <1>3, <2>1, <2>2, <2>3, <2>4 DEF Progress
<1>4. CASE asks'[n] = asks[n]
  <2>1. Past(n)
    BY <1>0, <1>4 DEF Past
  <2>2. QED
    BY <1>1, <2>1
<1>5. CASE Stop
  <2>1. CASE handle = n
    <3>1. page = "agent" => Past(n)
      BY <2>1, IdsAreNumbers DEF Questions, OwnNumber
    <3>2. \/ asks' = asks
          \/ /\ asks'[n].pc = IF asks[n].pc = "stream" THEN "cut" ELSE "done"
             /\ asks'[n].conv = asks[n].conv
      BY <1>5, <2>1, StopMoves
    <3>3. Past(n)
      BY <1>0, <3>1, <3>2 DEF Past
    <3>4. QED
      BY <1>1, <3>3
  <2>2. CASE handle # n
    <3>1. asks'[n] = asks[n]
      BY <1>5, <2>2, StopMoves DEF OthersLast
    <3>2. QED
      BY <1>4, <3>1
  <2>3. QED
    BY <2>1, <2>2
<1>6. CASE UserSends /\ n = Fresh
  <2>1. PICK pc \in {"create", "persist", "stream", "run", "thrown"}, kind \in {"one", "many"}, q \in Ids :
          /\ Sends(pc, kind, q)
          /\ pc = "stream" => page = "agent"
          /\ pc = "run" /\ page = "chat" => current = None
          /\ pc = "run" => page \in {"chat", "workspace", "assistant", "voice"}
          /\ pc = "create" => page = "chat"
          /\ pc = "thrown" => page = "workspace"
    BY <1>6, SendsSomething
  <2>2. asks'[n].pc = pc /\ asks'[n].conv = current
    BY <1>6, <2>1, SendsLast
  <2>3. pc = "stream" /\ page = "agent"
    BY <1>0, <2>1, <2>2 DEF Past
  <2>4. CASE AgentSending
    <3>1. asks'[n].pc = "persist"
      BY <1>6, <2>4, SendsLast DEF AgentSending
    <3>2. QED
      BY <2>2, <2>3, <3>1
  <2>5. ASSUME NEW k \in DOMAIN shown, AgentRetrying(k)
        PROVE  asks'[n].conv \in Convs /\ HasIn(stored'[asks'[n].conv], asks', asks'[n].q)
    <3> DEFINE a == shown[k].ask
    <3>1. asks'[n].q = asks[shown[Asked(k)].ask].q /\ asks'[n].conv = current
      BY <1>6, <2>5, RetryAsks
    <3>2. asks'[n].q = asks[a].q
      BY <2>5, <3>1, RetriedQuestion
    <3>3. calls = {} /\ asks[a].q \notin {asks[m].q : m \in UnderWay}
      <4>1. clues'.moved = IF calls = {} /\ asks[shown[Asked(k)].ask].q \notin {asks[m].q : m \in UnderWay}
                           THEN clues.moved ELSE clues.moved \cup {asks[shown[Asked(k)].ask].q}
        BY <2>5 DEF AgentRetrying, Typed, TypeOK
      <4>2. asks[shown[Asked(k)].ask].q \notin clues'.moved
        BY <3>1 DEF Excused
      <4>3. QED
        BY <3>1, <3>2, <4>1, <4>2
    <3>4. a \in Sent /\ a \in Ids /\ a \notin UnderWay
      BY <2>5, <3>3 DEF KnownAsks, OfSent, Sent
    <3>5. Past(a)
      BY <2>3, <3>4 DEF Past, Sent, UnderWay
    <3>6. asks[a].conv = current
      BY <2>3, <2>5, <3>3 DEF Questions, PairsOfCurrent, Loading, AgentRetrying
    <3>7. asks[a].q \notin Excused
      BY <3>2, QuestionsStay
    <3>8. current \in Convs /\ HasIn(stored[current], asks, asks[a].q)
      BY <3>4, <3>5, <3>6, <3>7 DEF Questions, HasStored
    <3>9. QED
      BY <1>s, <3>1, <3>2, <3>8
  <2>6. QED
    BY <1>6, <2>3, <2>4, <2>5, SendKinds DEF ChatSending, PlainSending
<1>7. CASE UserSends /\ n # Fresh
  <2>1. \E pc, kind, q : Sends(pc, kind, q)
    BY <1>7, SendsSomething
  <2>2. asks'[n] = asks[n]
    BY <1>7, <2>1, SendsLast DEF OthersLast
  <2>3. QED
    BY <1>4, <2>2
<1>8. ASSUME NEW m \in Ids \ {n}, Progress(m) PROVE asks'[n] = asks[n]
  BY <1>8, ProgressMoves DEF OthersLast
<1>9. QED
  BY <1>1, <1>3, <1>4, <1>5, <1>6, <1>7, <1>8, AsksStay DEF Next, UserMoves

\* AgentExecutePage opens another session by loading it, or empties the list.
LEMMA SessionMoves ==
  ASSUME Known, page = "agent", [Next]_vars
  PROVE  \/ current' = current /\ (Loading => Loading')
         \/ Loading'
         \/ Replaces
<1>1. CASE UserSends
  <2>1. \E pc, kind, q : Sends(pc, kind, q)
    BY <1>1, SendsSomething DEF Known
  <2>2. QED
    BY <2>1 DEF Sends, Loading
<1>2. ASSUME NEW n \in Ids, Progress(n) \/ Delta(n) PROVE current' = current /\ calls' = calls
  <2>1. ASSUME NEW c \in Convs, Created(n, c) PROVE FALSE
    BY <2>1 DEF Created, Known, StepsOfPage
  <2>2. QED
    BY <1>2, <2>1 DEF Progress, CreateFails, Persisted, Answered, DoneArrives, ErrorArrives, Closed, Breaks, Ends,
     RunAnswered, RunFails, Kept, Spoken, Delta
<1>3. CASE Stop \/ Clear
  BY <1>3 DEF Stop, Clear, Loading
<1>4. CASE StartNew \/ \E c \in Convs : Delete(c)
  BY <1>4 DEF StartNew, Delete, Calling, Loading
<1>5. ASSUME NEW c \in Convs, Open(c) PROVE Loading'
  <2> DEFINE k == [op |-> "load", conv |-> c, at |-> None, read |-> FALSE, rows |-> <<>>]
  <2>1. k \in calls' /\ k.op = "load"
    BY <1>5 DEF Open, Calling
  <2> HIDE DEF k
  <2>2. QED
    BY <2>1 DEF Loading
<1>6. ASSUME NEW k \in calls, Served(k) PROVE Loading'
  <2> DEFINE l == [k EXCEPT !.read = TRUE, !.rows = stored[k.conv]]
  <2>1. l \in calls' /\ k \in Calls /\ k.op = "load"
    BY <1>6 DEF Served, Known, Typed, TypeOK
  <2>2. l.op = "load"
    BY <2>1 DEF Calls
  <2> HIDE DEF l
  <2>3. QED
    BY <2>1, <2>2 DEF Loading
<1>7. ASSUME NEW k \in calls, Opened(k) \/ \E c \in Convs : NewOpened(k, c) PROVE Replaces
  BY <1>7 DEF Opened, NewOpened, Replaces
<1>8. ASSUME NEW k \in calls, Deleted(k) \/ CallFails(k)
      PROVE  Replaces \/ (current' = current /\ (Loading => Loading'))
  BY <1>8 DEF Deleted, CallFails, Replaces, Loading
<1>9. CASE UNCHANGED vars
  BY <1>9 DEF vars, Loading
<1>10. QED
  BY <1>1, <1>2, <1>3, <1>4, <1>5, <1>6, <1>7, <1>8, <1>9 DEF Next, UserMoves, CallEnds, Loading

LEMMA PairsStep ==
  ASSUME Known, MessageKinds, PairsOfCurrent, [Next]_vars
  PROVE  PairsOfCurrent'
<1> USE DEF Known
<1>0. /\ shown \in Seq(Messages) /\ DOMAIN shown = 1..Len(shown) /\ Len(shown) \in Nat /\ page' = page
  BY PageStays DEF Typed, TypeOK
<1> SUFFICES ASSUME page = "agent", ~Loading', NEW i \in DOMAIN shown', shown'[i].live \/ shown'[i].bad
             PROVE  asks'[shown'[i].ask].conv = current'
  BY <1>0 DEF PairsOfCurrent
<1>1. CASE Replaces
  BY <1>1, LoadedMessages DEF Replaces
<1>2. CASE current' = current /\ ~Loading
  <2>1. ASSUME NEW j \in DOMAIN shown, shown[j].live \/ shown[j].bad, shown'[i].ask = shown[j].ask
        PROVE  asks'[shown'[i].ask].conv = current'
    <3>1. shown[j].ask \in Sent /\ shown[j].ask \in Ids
      BY <2>1 DEF KnownAsks, OfSent, Sent
    <3>2. asks'[shown[j].ask].conv = asks[shown[j].ask].conv
      BY <3>1, AsksLast DEF Lasts, StepsOfPage
    <3>3. QED
      BY <1>2, <2>1, <3>2 DEF PairsOfCurrent
  <2>2. CASE shown' = shown
    BY <2>1, <2>2
  <2>3. CASE AgentSending
    <3>1. Fresh \in Ids /\ shown' = shown \o <<User(Fresh), Bubble(Fresh)>> /\ asks'[Fresh].conv = current
      BY <2>3, SendsLast DEF AgentSending, Sends
    <3>2. \/ i \in DOMAIN shown /\ shown'[i] = shown[i]
          \/ shown'[i] = User(Fresh)
          \/ shown'[i] = Bubble(Fresh)
      BY <1>0, <3>1, AddedPair, NewMessages
    <3>3. QED
      BY <1>2, <2>1, <3>1, <3>2, NewMessages
  <2>4. ASSUME NEW k \in DOMAIN shown, AgentRetrying(k) PROVE asks'[shown'[i].ask].conv = current'
    <3>1. /\ DOMAIN shown' = DOMAIN shown
          /\ shown'[k] = [shown[k] EXCEPT !.from = {}, !.bad = FALSE, !.live = TRUE]
          /\ \A l \in DOMAIN shown : l # k => shown'[l] = shown[l]
          /\ shown[k].bad
      BY <1>0, <2>4, RetryShown DEF AgentRetrying
    <3>2. shown[k] \in Messages
      BY <1>0, <2>4
    <3>3. shown'[k].ask = shown[k].ask
      BY <3>1, <3>2 DEF Messages
    <3>4. QED
      BY <2>1, <2>4, <3>1, <3>3
  <2>5. CASE Patching
    BY <2>1, <2>5, Patched
  <2>6. QED
    BY <1>1, <2>2, <2>3, <2>4, <2>5, ShownMoves, SendKinds DEF Patching, ChatSending, PlainSending, Appends
<1>3. QED
  BY <1>1, <1>2, SessionMoves

LEMMA QuestionsInductive ==
  /\ Init => Questions
  /\ Cursors /\ Questions /\ [Next]_vars => Questions'
<1>1. ASSUME Init PROVE Questions
  <2>1. AboveIn(shown, asks, Excused) /\ RowsInOrder
    BY <1>1 DEF Init, AboveIn, RowsInOrder
  <2>2. HasQuestion /\ HasStored
    BY <1>1 DEF Init, HasQuestion, HasStored, UnderWay, Past
  <2>3. OwnNumber /\ PairsOfCurrent
    BY <1>1 DEF Init, OwnNumber, PairsOfCurrent
  <2>4. QED
    BY <2>1, <2>2, <2>3 DEF Questions
<1>2. ASSUME Cursors, Questions, [Next]_vars PROVE Questions'
  <2>1. HasQuestion' /\ HasStored' /\ RowsInOrder' /\ OwnNumber' /\ PairsOfCurrent'
    BY <1>2, HasQuestionStep, HasStoredStep, RowsStep, OwnNumberStep, PairsStep DEF Cursors, Questions
  <2>2. AboveIn(shown', asks', Excused')
    BY <1>2, AboveStep DEF Cursors
  <2>3. QED
    BY <2>1, <2>2 DEF Questions
<1>3. QED
  BY <1>1, <1>2

\* On every page, for any number of messages and conversations, an answer stands
\* below its question, unless the user opened, cleared or retried something while it
\* was under way or the service did not store the question.
THEOREM AnswerBelowQuestion == Spec => []QuestionAboveAnswer
<1>1. ASSUME Cursors, Questions PROVE QuestionAboveAnswer
  <2>1. ASSUME NEW i \in DOMAIN shown, shown[i].who = "bot",
               asks[shown[i].ask].q \notin clues.moved \cup clues.unsaved
        PROVE  \E j \in Question(i) : asks[shown[j].ask].q = asks[shown[i].ask].q
    <3>1. PICK j \in DOMAIN shown : j < i /\ shown[j].who = "user" /\ asks[shown[j].ask].q = asks[shown[i].ask].q
      BY <1>1, <2>1 DEF Questions, AboveIn, Excused
    <3>2. j \in Question(i)
      BY <1>1, <2>1, <3>1, TypedParts DEF Question, Cursors, Known
    <3>3. QED
      BY <3>1, <3>2
  <2>2. QED
    BY <2>1 DEF QuestionAboveAnswer
<1>2. QED
  BY <1>1, CursorsInductive, QuestionsInductive, PTL DEF Spec

-----------------------------------------------------------------------------
(* What is shown belongs to the open conversation.                          *)

LEMMA ShownAsks ==
  ASSUME Known, NEW i \in DOMAIN shown'
  PROVE  UserSends \/ (\E n \in Ids : Progress(n)) \/ Patching \/ shown' = shown =>
           \/ \E j \in DOMAIN shown : shown'[i].ask = shown[j].ask
           \/ shown'[i].ask \in UnderWay
           \/ UserSends /\ shown'[i].ask = Fresh
<1> USE DEF Known
<1>0. shown \in Seq(Messages) /\ DOMAIN shown = 1..Len(shown) /\ Len(shown) \in Nat
  BY DEF Typed, TypeOK
<1>1. CASE shown' = shown
  BY <1>1
<1>2. CASE UserSends /\ ChatSending
  <2>1. PICK s \in Seq(Messages) : Base(s) /\ shown' = Append(s, User(Fresh))
    BY <1>2 DEF ChatSending
  <2>2. Fresh \in Ids
    BY <1>2 DEF ChatSending, Sends
  <2>3. (i \in DOMAIN s /\ shown'[i] = s[i]) \/ shown'[i] = User(Fresh)
    BY <2>1, <2>2, AddedLast, NewMessages
  <2>4. (\E l \in DOMAIN shown : shown'[i] = shown[l]) \/ shown'[i] = User(Fresh)
    BY <2>1, <2>3, BaseMessages
  <2>5. QED
    BY <1>2, <2>2, <2>4, NewMessages
<1>3. CASE UserSends /\ AgentSending
  <2>1. Fresh \in Ids /\ shown' = shown \o <<User(Fresh), Bubble(Fresh)>>
    BY <1>3 DEF AgentSending, Sends
  <2>2. \/ i \in DOMAIN shown /\ shown'[i] = shown[i]
        \/ shown'[i] = User(Fresh)
        \/ shown'[i] = Bubble(Fresh)
    BY <1>0, <2>1, AddedPair, NewMessages
  <2>3. QED
    BY <1>3, <2>1, <2>2, NewMessages
<1>4. ASSUME NEW k \in DOMAIN shown, AgentRetrying(k)
      PROVE \E j \in DOMAIN shown : shown'[i].ask = shown[j].ask
  <2>1. /\ DOMAIN shown' = DOMAIN shown
        /\ shown'[k] = [shown[k] EXCEPT !.from = {}, !.bad = FALSE, !.live = TRUE]
        /\ \A l \in DOMAIN shown : l # k => shown'[l] = shown[l]
    BY <1>0, <1>4, RetryShown DEF AgentRetrying
  <2>2. shown[k] \in Messages
    BY <1>0, <1>4
  <2>3. shown'[k].ask = shown[k].ask
    BY <2>1, <2>2 DEF Messages
  <2>4. QED
    BY <1>4, <2>1, <2>3
<1>5. CASE UserSends /\ PlainSending
  <2>1. Fresh \in Ids /\ shown' = Append(shown, User(Fresh))
    BY <1>5 DEF PlainSending, Sends
  <2>2. (i \in DOMAIN shown /\ shown'[i] = shown[i]) \/ shown'[i] = User(Fresh)
    BY <1>0, <2>1, AddedLast, NewMessages
  <2>3. QED
    BY <1>5, <2>1, <2>2, NewMessages
<1>6. ASSUME NEW n \in Ids, Appends(n)
      PROVE  (\E j \in DOMAIN shown : shown'[i].ask = shown[j].ask) \/ shown'[i].ask \in UnderWay
  <2>1. PICK m \in {Fault(n), Reply(n), Sorry(n), Bubble(n)} : shown' = Append(shown, m)
    BY <1>6 DEF Appends
  <2>2. m \in Messages /\ m.ask = n
    BY <1>6, <2>1, NewMessages
  <2>3. (i \in DOMAIN shown /\ shown'[i] = shown[i]) \/ shown'[i] = m
    BY <1>0, <2>1, <2>2, AddedLast
  <2>4. QED
    BY <1>6, <2>2, <2>3 DEF Appends
<1>7. CASE Patching
  BY <1>7, Patched
<1>8. QED
  BY <1>1, <1>2, <1>3, <1>4, <1>5, <1>6, <1>7, ProgressShows, SendKinds DEF Patching

-----------------------------------------------------------------------------
\* Every row of s was asked, and asked in c.
RowsOf(c, s, as) ==
  \A i \in DOMAIN s : as[s[i].ask].pc \notin {"idle", "create"} /\ as[s[i].ask].conv = c
RowsBelong ==
  /\ \A c \in Convs : RowsOf(c, stored[c], asks)
  /\ \A k \in calls : RowsOf(k.conv, k.rows, asks)

LEMMA RowsBelongStep ==
  ASSUME Known, RowsBelong, [Next]_vars
  PROVE  RowsBelong'
<1> USE DEF Known
<1>0. ASSUME NEW n \in Sent, asks[n].pc # "create"
      PROVE  asks'[n].pc \notin {"idle", "create"} /\ asks'[n].conv = asks[n].conv
  BY <1>0, AsksLast, NeverAgain DEF Lasts
<1>1. ASSUME NEW c \in Convs PROVE RowsOf(c, stored[c], asks')
  BY <1>0, <1>1 DEF RowsBelong, RowsOf, KnownAsks, OfSent
<1>2. ASSUME NEW c \in Convs PROVE RowsOf(c, stored'[c], asks')
  <2>1. CASE stored' = stored
    BY <1>1, <1>2, <2>1
  <2>2. ASSUME NEW n \in Ids, NEW who, Stores(n, who), asks[n].pc # "create"
        PROVE  RowsOf(c, stored'[c], asks')
    <3> DEFINE row == [who |-> who, ask |-> n]
    <3>1. row.ask = n /\ n \in Sent
      BY <2>2 DEF Stores
    <3>2. stored'[c] = IF c = asks[n].conv THEN Append(stored[c], row) ELSE stored[c]
      BY <1>2, <2>2 DEF Stores, Typed, TypeOK
    <3> HIDE DEF row
    <3>3. stored[c] \in Seq(Rows)
      BY <1>2 DEF Typed, TypeOK
    <3>4. CASE c # asks[n].conv
      BY <1>1, <1>2, <3>2, <3>4
    <3>5. CASE c = asks[n].conv
      <4>1. \A i \in DOMAIN stored'[c] : (i \in DOMAIN stored[c] /\ stored'[c][i] = stored[c][i]) \/ stored'[c][i] = row
        BY <3>2, <3>3, <3>5
      <4>2. asks'[n].pc \notin {"idle", "create"} /\ asks'[n].conv = c
        BY <1>0, <2>2, <3>1, <3>5
      <4>3. QED
        BY <1>1, <1>2, <3>1, <4>1, <4>2 DEF RowsOf
    <3>6. QED
      BY <3>4, <3>5
  <2>3. ASSUME NEW n \in Ids, Persisted(n) \/ Answered(n) \/ Kept(n) PROVE asks[n].pc # "create"
    BY <2>3 DEF Persisted, Answered, Kept
  <2>4. QED
    BY <2>1, <2>2, <2>3, StoredMoves
<1>3. ASSUME NEW k \in calls' PROVE RowsOf(k.conv, k.rows, asks')
  <2>1. CASE k \in calls
    BY <1>0, <2>1 DEF RowsBelong, RowsOf, KnownAsks, OfSent
  <2>2. CASE k.rows = <<>>
    BY <2>2 DEF RowsOf
  <2>3. CASE k.conv \in Convs /\ k.rows = stored[k.conv]
    BY <1>1, <2>3
  <2>4. QED
    BY <1>3, <2>1, <2>2, <2>3, CallMoves
<1>4. QED
  BY <1>2, <1>3 DEF RowsBelong

-----------------------------------------------------------------------------
\* The user did nothing that mixes two conversations up.
Calm == clues.moved = {} /\ ~clues.crossed
OneCall == ~clues.crossed => \A k, l \in calls : k = l

\* What a step that is no send and no step of one does.
Quiet == /\ asks' = asks /\ shown' = shown /\ current' = current
         /\ page = "agent" =>
              \A k \in calls : k.op = "load" => \E l \in calls' : l.op = "load" /\ l.conv = k.conv
Turns(k) == /\ Opened(k) \/ shown' = <<>>
            /\ clues' = MovedOn /\ asks' = asks /\ calls' = calls \ {k}
            /\ page = "agent" => current' = current \/ k.op # "load"

LEMMA CallsAndViews ==
  ASSUME Typed, StepsOfPage, ~UserSends, [Next]_vars
  PROVE  \/ \E n \in Ids : Progress(n)
         \/ (Stop \/ \E n \in Ids : Delta(n)) /\ current' = current /\ calls' = calls
         \/ Quiet
         \/ page = "agent" /\ \E c \in Convs : Open(c)
         \/ \E k \in calls : Turns(k)
         \/ Clear
<1>1. CASE Stop \/ \E n \in Ids : Delta(n)
  BY <1>1 DEF Stop, Delta
<1>2. CASE StartNew \/ \E c \in Convs : Delete(c)
  BY <1>2 DEF StartNew, Delete, Calling, Quiet
<1>3. ASSUME NEW c \in Convs, Open(c), page # "agent" PROVE Quiet
  BY <1>3 DEF Open, Calling, Quiet
<1>4. ASSUME NEW k \in calls, Served(k) PROVE Quiet
  <2> DEFINE m == [k EXCEPT !.read = TRUE, !.rows = stored[k.conv]]
  <2>1. m \in calls' /\ calls \ {k} \subseteq calls' /\ k \in Calls
    BY <1>4 DEF Served, Typed, TypeOK
  <2>2. m.op = k.op /\ m.conv = k.conv
    BY <2>1 DEF Calls
  <2> HIDE DEF m
  <2>3. QED
    BY <1>4, <2>1, <2>2 DEF Served, Quiet
<1>5. ASSUME NEW k \in calls, Opened(k) PROVE Turns(k)
  BY <1>5 DEF Opened, OpenAfterLoad, Turns
<1>6. ASSUME NEW k \in calls, NEW c \in Convs, NewOpened(k, c) PROVE Turns(k)
  BY <1>6 DEF NewOpened, Turns
<1>7. ASSUME NEW k \in calls, Deleted(k) PROVE Turns(k) \/ Quiet
  BY <1>7 DEF Deleted, Turns, Quiet
<1>9. ASSUME NEW k \in calls, CallFails(k) PROVE Turns(k) \/ Quiet
  BY <1>9 DEF CallFails, Turns, Quiet
<1>8. CASE UNCHANGED vars
  BY <1>8 DEF vars, Quiet
<1>10. QED
  BY <1>1, <1>2, <1>3, <1>4, <1>5, <1>6, <1>7, <1>8, <1>9 DEF Next, UserMoves, CallEnds

LoadsCurrent == Calm /\ page = "agent" => \A k \in calls : k.op = "load" => k.conv = current

\* What becomes of the one call.
LEMMA CallStep ==
  ASSUME Known, OneCall, ~clues'.crossed, [Next]_vars
  PROVE  \/ calls' = calls /\ (page = "agent" => current' = current)
         \/ calls' = {}
         \/ \E k : calls' = {k} /\ (k.op = "load" /\ page = "agent" => k.conv = current')
         \/ \E k \in calls, m \in calls' :
              calls' = {m} /\ m.op = k.op /\ m.conv = k.conv /\ current' = current
<1> USE DEF Known
<1>0. ~clues.crossed /\ \A k \in calls : calls = {k}
  BY CluesGrow DEF OneCall
<1>c. ASSUME NEW k, Calling(k) PROVE calls' = {k}
  <2>1. calls = {}
    BY <1>c DEF Calling, Typed, TypeOK
  <2>2. QED
    BY <1>c, <2>1 DEF Calling
<1>1. CASE UserSends
  <2>1. \E pc, kind, q : Sends(pc, kind, q)
    BY <1>1, SendsSomething
  <2>2. QED
    BY <2>1 DEF Sends
<1>2. ASSUME NEW n \in Ids, Progress(n) \/ Delta(n)
      PROVE calls' = calls /\ (page = "agent" => current' = current)
  <2>1. ASSUME NEW c \in Convs, Created(n, c) PROVE page # "agent" /\ calls' = calls
    BY <2>1 DEF Created, StepsOfPage
  <2>2. QED
    BY <1>2, <2>1 DEF Progress, CreateFails, Persisted, Answered, DoneArrives, ErrorArrives, Closed, Breaks, Ends,
     RunAnswered, RunFails, Kept, Spoken, Delta
<1>3. CASE Stop \/ Clear \/ UNCHANGED vars
  BY <1>3 DEF Stop, Clear, vars
<1>4. CASE StartNew
  <2> DEFINE k == [op |-> "new", conv |-> None, at |-> None, read |-> FALSE, rows |-> <<>>]
  <2>1. Calling(k) /\ k.op = "new"
    BY <1>4 DEF StartNew
  <2> HIDE DEF k
  <2>2. QED
    BY <1>c, <2>1
<1>5. ASSUME NEW c \in Convs, Delete(c)
      PROVE  \E k : calls' = {k} /\ (k.op = "load" /\ page = "agent" => k.conv = current')
  <2> DEFINE k == [op |-> "delete", conv |-> c, at |-> current, read |-> FALSE, rows |-> <<>>]
  <2>1. Calling(k) /\ k.op = "delete"
    BY <1>5 DEF Delete
  <2> HIDE DEF k
  <2>2. QED
    BY <1>c, <2>1
<1>6. ASSUME NEW c \in Convs, Open(c)
      PROVE  \E k : calls' = {k} /\ (k.op = "load" /\ page = "agent" => k.conv = current')
  <2> DEFINE k == [op |-> "load", conv |-> c, at |-> None, read |-> FALSE, rows |-> <<>>]
  <2>1. Calling(k) /\ k.conv = c /\ (page = "agent" => current' = c)
    BY <1>6 DEF Open
  <2> HIDE DEF k
  <2>2. QED
    BY <1>c, <2>1
<1>7. ASSUME NEW k \in calls, Served(k)
      PROVE  \E m \in calls' : calls' = {m} /\ m.op = k.op /\ m.conv = k.conv /\ current' = current
  <2> DEFINE m == [k EXCEPT !.read = TRUE, !.rows = stored[k.conv]]
  <2>1. calls' = (calls \ {k}) \cup {m} /\ k \in Calls /\ current' = current
    BY <1>7 DEF Served, Typed, TypeOK
  <2>2. m.op = k.op /\ m.conv = k.conv
    BY <2>1 DEF Calls
  <2> HIDE DEF m
  <2>3. calls' = {m}
    BY <1>0, <1>7, <2>1
  <2>4. QED
    BY <2>1, <2>2, <2>3
<1>8. ASSUME NEW k \in calls, Opened(k) \/ Deleted(k) \/ CallFails(k) \/ \E c \in Convs : NewOpened(k, c)
      PROVE  calls' = {}
  <2>1. calls' = calls \ {k}
    BY <1>8 DEF Opened, Deleted, CallFails, NewOpened
  <2>2. calls = {k}
    BY <1>0, <1>8
  <2>3. QED
    BY <2>1, <2>2
<1>9. QED
  BY <1>1, <1>2, <1>3, <1>4, <1>5, <1>6, <1>7, <1>8 DEF Next, UserMoves, CallEnds

LEMMA OneCallStep ==
  ASSUME Known, OneCall, LoadsCurrent, [Next]_vars
  PROVE  OneCall' /\ LoadsCurrent'
<1> USE DEF Known
<1>0. page' = page /\ (Calm' => Calm)
  BY PageStays, CluesGrow DEF Calm
<1>1. ASSUME ~clues'.crossed
      PROVE  /\ \A k, l \in calls' : k = l
             /\ Calm' /\ page = "agent" => \A k \in calls' : k.op = "load" => k.conv = current'
  <2>1. OneCall /\ ~clues.crossed
    BY <1>1, CluesGrow
  <2>2. QED
    BY <1>0, <1>1, <2>1, CallStep DEF OneCall, LoadsCurrent
<1>2. QED
  BY <1>0, <1>1 DEF OneCall, LoadsCurrent, Calm

-----------------------------------------------------------------------------
Reloading == \E k \in calls : page = "agent" /\ k.op = "load" /\ k.conv = current

\* A conversation is only created while none is open.
CreatesFirst == Calm => \A n \in Ids : asks[n].pc = "create" => current = None

Belong ==
  /\ \A i \in DOMAIN shown : asks[shown[i].ask].conv \in {current, None}
  /\ \A n \in UnderWay : asks[n].conv \in {current, None}
Belonging == Calm => Reloading \/ Belong

\* To turn to something else with a send under way is not calm.
LEMMA CalmTurns ==
  ASSUME Typed, Calm', clues' = MovedOn
  PROVE  UnderWay = {}
<1>1. clues'.moved = {}
  BY DEF Calm
<1>2. QED
  BY <1>1, MovedOnTyped

LEMMA CreatesFirstStep ==
  ASSUME Known, Haste, Alone, CreatesFirst, [Next]_vars
  PROVE  CreatesFirst'
<1> USE DEF Known
<1> SUFFICES ASSUME Calm', NEW n \in Ids, asks'[n].pc = "create" PROVE current' = None
  BY DEF CreatesFirst
<1>0. Calm /\ page' = page
  BY PageStays, CluesGrow DEF Calm
<1>1. CASE UserSends /\ n = Fresh
  <2>1. PICK pc \in {"create", "persist", "stream", "run", "thrown"}, kind \in {"one", "many"}, q \in Ids :
          Sends(pc, kind, q) /\ (pc = "create" => current = None)
    BY <1>1, SendsSomething
  <2>2. asks'[n].pc = pc /\ current' = current
    BY <1>1, <2>1, SendsLast DEF Sends
  <2>3. QED
    BY <2>1, <2>2
<1>2. CASE n \in Sent
  <2>1. asks[n].pc = "create" /\ current = None /\ n \in UnderWay /\ page = "chat"
    <3>1. asks[n].pc = "create"
      BY <1>2, NeverAgain
    <3>2. QED
      BY <1>0, <3>1 DEF CreatesFirst, UnderWay, StepsOfPage
  <2>2. CASE UserSends
    <3>1. \E pc, kind, q : Sends(pc, kind, q)
      BY <2>2, SendsSomething
    <3>2. QED
      BY <2>1, <3>1 DEF Sends
  <2>3. ASSUME NEW m \in Ids, Progress(m) PROVE current' = current
    <3>1. ASSUME NEW c \in Convs, Created(m, c) PROVE FALSE
      <4>1. m \in UnderWay
        BY <2>3, <3>1 DEF Created, UnderWay
      <4>2. m = n
        BY <2>1, <4>1 DEF Alone, Haste
      <4>3. asks'[n].pc = "persist"
        BY <3>1, <4>2 DEF Created, Typed, TypeOK, Asks
      <4>4. QED
        BY <4>3
    <3>2. QED
      BY <2>3, <3>1 DEF Progress, CreateFails, Persisted, Answered, DoneArrives, ErrorArrives, Closed, Breaks, Ends,
       RunAnswered, RunFails, Kept, Spoken
  <2>4. ASSUME NEW k \in calls, Turns(k) PROVE FALSE
    BY <2>1, <2>4, CalmTurns DEF Turns
  <2>5. QED
    BY <2>1, <2>2, <2>3, <2>4, CallsAndViews DEF Quiet, Clear
<1>3. CASE n \notin Sent /\ asks'[n] = asks[n]
  BY <1>3 DEF Sent
<1>4. QED
  BY <1>1, <1>2, <1>3, AsksLast

LEMMA BelongingStep ==
  ASSUME Known, Haste, Alone, RowsBelong, OneCall, LoadsCurrent, CreatesFirst, Belonging, [Next]_vars
  PROVE  Belonging'
<1> USE DEF Known
<1> SUFFICES ASSUME Calm' PROVE Reloading' \/ Belong'
  BY DEF Belonging
<1>0. Calm /\ page' = page
  BY PageStays, CluesGrow DEF Calm
<1>b. ASSUME \A i \in DOMAIN shown' : asks'[shown'[i].ask].conv \in {current', None},
             \A n \in UnderWay' : asks'[n].conv \in {current', None}
      PROVE  Belong'
  BY <1>b DEF Belong
<1>s. UnderWay \subseteq Sent /\ \A i \in DOMAIN shown : shown[i].ask \in Sent
  BY DEF UnderWay, Sent, KnownAsks, OfSent
\* The open conversation stays, and so do those of the asks.
<1>k. ASSUME current' = current, calls' = calls, \A m \in Sent : asks'[m].conv = asks[m].conv,
             UserSends \/ (\E n \in Ids : Progress(n)) \/ Patching \/ shown' = shown,
             UserSends => asks'[Fresh].conv = current
      PROVE  Reloading' \/ Belong'
  <2>0. CASE Reloading
    BY <1>0, <1>k, <2>0 DEF Reloading
  <2> SUFFICES ASSUME Belong PROVE Belong'
    BY <1>0, <2>0 DEF Belonging
  <2>1. ASSUME NEW i \in DOMAIN shown' PROVE asks'[shown'[i].ask].conv \in {current', None}
    <3>1. CASE \E j \in DOMAIN shown : shown'[i].ask = shown[j].ask
      BY <1>k, <1>s, <3>1 DEF Belong
    <3>2. CASE shown'[i].ask \in UnderWay
      BY <1>k, <1>s, <3>2 DEF Belong
    <3>3. CASE UserSends /\ shown'[i].ask = Fresh
      BY <1>k, <3>3
    <3>4. QED
      BY <1>k, <2>1, <3>1, <3>2, <3>3, ShownAsks
  <2>2. ASSUME NEW n \in UnderWay' PROVE asks'[n].conv \in {current', None}
    BY <1>k, <1>s, <2>2, UnderWayMoves DEF Belong
  <2>3. QED
    BY <1>b, <2>1, <2>2
<1>t. ASSUME clues' = MovedOn, asks' = asks,
             \A i \in DOMAIN shown' : asks'[shown'[i].ask].conv \in {current', None}
      PROVE  Belong'
  <2>1. UnderWay' = {}
    BY <1>t, CalmTurns DEF UnderWay
  <2>2. QED
    BY <1>b, <1>t, <2>1
<1>1. CASE UserSends
  <2>1. PICK pc, kind, q : Sends(pc, kind, q)
    BY <1>1, SendsSomething
  <2>2. current' = current /\ calls' = calls /\ asks'[Fresh].conv = current
    BY <2>1, SendsLast DEF Sends
  <2>3. \A m \in Sent : asks'[m].conv = asks[m].conv
    BY <2>1, SendsLast, FreshIsNew DEF OthersLast, Sent
  <2>4. QED
    BY <1>1, <1>k, <2>2, <2>3
<1>2. ASSUME ~UserSends, NEW n \in Ids, Progress(n), \A c \in Convs : ~Created(n, c)
      PROVE  Reloading' \/ Belong'
  <2>1. current' = current /\ calls' = calls
    BY <1>2 DEF Progress, CreateFails, Persisted, Answered, DoneArrives, ErrorArrives, Closed, Breaks, Ends,
       RunAnswered, RunFails, Kept, Spoken
  <2>2. \A m \in Sent : asks'[m].conv = asks[m].conv
    BY <1>2, ProgressMoves DEF OthersLast, Sent
  <2>3. QED
    BY <1>2, <1>k, <2>1, <2>2
<1>3. ASSUME NEW n \in Ids, NEW c \in Convs, Created(n, c) PROVE Belong'
  <2>1. /\ asks[n].pc = "create" /\ current' = c /\ shown' = shown /\ page = "chat" /\ n \in UnderWay
        /\ asks'[n].conv = c
    BY <1>3 DEF Created, NewId, StepsOfPage, UnderWay, Typed, TypeOK, Asks
  <2>2. current = None /\ Belong
    BY <1>0, <2>1 DEF CreatesFirst, Belonging, Reloading
  <2>3. OthersLast(n)
    BY <1>3, ProgressMoves DEF Progress
  <2>4. \A m \in Sent : asks'[m].conv = asks[m].conv \/ m = n
    BY <2>3 DEF OthersLast, Sent
  <2>5. \A m \in UnderWay' : m \in UnderWay \/ m = n
    BY <2>3 DEF OthersLast, UnderWay
  <2>6. QED
    BY <1>b, <1>s, <2>1, <2>2, <2>4, <2>5 DEF Belong
<1>4. CASE ~UserSends /\ (Stop \/ \E n \in Ids : Delta(n)) /\ current' = current /\ calls' = calls
  <2>1. Patching
    BY <1>4 DEF Stop, Delta, Patching, Fills
  <2>2. \A m \in Sent : asks'[m].conv = asks[m].conv
    BY <1>4, StopMoves, AsksStay DEF OthersLast, Sent
  <2>3. QED
    BY <1>4, <1>k, <2>1, <2>2
<1>5. CASE Quiet
  <2>1. Reloading => Reloading'
    BY <1>0, <1>5 DEF Quiet, Reloading
  <2>2. Belong => Belong'
    BY <1>5 DEF Quiet, Belong, UnderWay
  <2>3. QED
    BY <1>0, <2>1, <2>2 DEF Belonging
<1>6. ASSUME page = "agent", NEW c \in Convs, Open(c) PROVE Reloading'
  <2> DEFINE k == [op |-> "load", conv |-> c, at |-> None, read |-> FALSE, rows |-> <<>>]
  <2>1. k \in calls' /\ k.op = "load" /\ k.conv = c /\ current' = c
    BY <1>6 DEF Open, Calling
  <2> HIDE DEF k
  <2>2. QED
    BY <1>0, <1>6, <2>1 DEF Reloading
<1>7. ASSUME NEW k \in calls, Turns(k) PROVE Belong'
  <2>1. CASE shown' = <<>>
    BY <1>7, <1>t, <2>1 DEF Turns
  <2>2. CASE Opened(k)
    <3>1. k.conv = current'
      <4>1. CASE page = "chat"
        BY <2>2, <4>1 DEF Opened, OpenAfterLoad
      <4>2. CASE page = "agent"
        BY <1>0, <2>2, <4>2 DEF Opened, OpenAfterLoad, LoadsCurrent
      <4>3. QED
        BY <1>7, <4>1, <4>2 DEF StepsOfPage
    <3>2. /\ DOMAIN shown' = DOMAIN k.rows
          /\ \A i \in DOMAIN shown' : shown'[i].ask = k.rows[i].ask
      BY <1>7, <2>2, LoadedMessages DEF Opened
    <3>3. \A i \in DOMAIN k.rows : asks[k.rows[i].ask].conv = k.conv
      BY <1>7 DEF RowsBelong, RowsOf
    <3>4. asks' = asks /\ clues' = MovedOn
      BY <1>7 DEF Turns
    <3>5. QED
      BY <1>t, <3>1, <3>2, <3>3, <3>4
  <2>3. QED
    BY <1>7, <2>1, <2>2 DEF Turns
<1>8. CASE Clear
  BY <1>8, <1>t DEF Clear
<1>9. QED
  BY <1>1, <1>2, <1>3, <1>4, <1>5, <1>6, <1>7, <1>8, CallsAndViews

\* What is known of the open conversation.
Views == RowsBelong /\ OneCall /\ LoadsCurrent /\ CreatesFirst /\ Belonging

LEMMA ViewsInductive ==
  /\ Init => Views
  /\ Cursors /\ Views /\ [Next]_vars => Views'
<1>1. ASSUME Init PROVE Views
  <2>1. RowsBelong /\ OneCall /\ LoadsCurrent
    BY <1>1 DEF Init, RowsBelong, RowsOf, OneCall, LoadsCurrent
  <2>2. CreatesFirst /\ Belonging
    BY <1>1 DEF Init, CreatesFirst, Belonging, Belong, UnderWay
  <2>3. QED
    BY <2>1, <2>2 DEF Views
<1>2. ASSUME Cursors, Views, [Next]_vars PROVE Views'
  <2>1. RowsBelong' /\ OneCall' /\ LoadsCurrent' /\ CreatesFirst' /\ Belonging'
    BY <1>2, RowsBelongStep, OneCallStep, CreatesFirstStep, BelongingStep DEF Cursors, Views
  <2>2. QED
    BY <2>1 DEF Views
<1>3. QED
  BY <1>1, <1>2

\* On every page, for any number of messages and conversations, what is shown belongs
\* to the open conversation or is about to be replaced by it, unless the user moved on
\* with a send under way or had two loads, creations or deletions in flight at once.
THEOREM NothingOfAnother == Spec => []ShownBelongs
<1>1. Views => ShownBelongs
  BY DEF Views, Belonging, Calm, Reloading, Belong, ShownBelongs
<1>2. QED
  BY <1>1, CursorsInductive, ViewsInductive, PTL DEF Spec

=============================================================================
