------------------------ MODULE WorkflowEditorProofs ------------------------
(* Theorems about WorkflowEditor for every value of its constants: whatever *)
(* the number of nodes, edits, requests and snapshots.                      *)
EXTENDS WorkflowEditor, SequenceTheorems, TLAPS

\* Every edge arrives at a node, and not at the one it starts from.
Sound == {c \in Canvas : \A e \in c.edges : e[2] \in c.nodes /\ e[1] # e[2]}

SoundPut == [n : 0..MaxSends, content : Sound, manual : BOOLEAN, done : BOOLEAN]
Mishaps == {"dropped", "overtaken", "failed", "unnoticed"}

\* Wherever a canvas is kept, or is on its way, it is sound: each of these places
\* can become the canvas or the row again.
CanvasTyped ==
  /\ canvas \in Sound /\ stored \in Sound /\ prev \in Sound
  /\ linking \in Nodes \cup {None}
  /\ histTimer \in Sound \cup {None}
HistoryTyped ==
  /\ past \in Seq(Sound) /\ future \in Seq(Sound)
  /\ Len(past) + Len(future) <= MaxPast
SavingTyped ==
  /\ lastSaved \in Sound \cup {None} /\ saveTimer \in Sound \cup {None}
  /\ saveStatus \in {"idle", "saving", "saved", "error"}
  /\ puts \subseteq SoundPut /\ restore \in SoundPut \cup {None}
  /\ mishaps \subseteq Mishaps
  /\ edits \in 0..MaxEdits /\ sent \in 0..MaxSends
LoadTyped ==
  /\ loaded \in BOOLEAN
  /\ load \in {"idle", "asked", "answered", "failed"}
  /\ answer \in Sound \cup {None}
  /\ load = "answered" => answer \in Sound
ServiceTyped ==
  /\ recent \in BOOLEAN /\ versions \subseteq Sound /\ applied \in 0..MaxSends

Typed == CanvasTyped /\ HistoryTyped /\ SavingTyped /\ LoadTyped /\ ServiceTyped

LEMMA SoundIsCanvas ==
  /\ Sound \subseteq Canvas /\ SoundPut \subseteq Put
  /\ \A s \in Seq(Sound) : s \in Seq(Canvas)
<1>1. Sound \subseteq Canvas
  BY DEF Sound
<1>2. SoundPut \subseteq Put
  BY <1>1, BoundsInNat DEF SoundPut, Put
<1>3. QED
  BY <1>1, <1>2

LEMMA TypedIsTypeOK == Typed => TypeOK
<1>1. ASSUME Typed PROVE past \in Seq(Canvas) /\ future \in Seq(Canvas) /\ Len(past) <= MaxPast
  BY <1>1, SoundIsCanvas, MaxPastPositive DEF Typed, HistoryTyped
<1>2. QED
  BY <1>1, SoundIsCanvas DEF Typed, CanvasTyped, SavingTyped, LoadTyped, ServiceTyped, TypeOK,
     Mishaps

-----------------------------------------------------------------------------
(* Edits                                                                    *)

LEMMA EditsAreSound ==
  ASSUME CanvasTyped
  PROVE  /\ \A n \in Nodes : /\ [canvas EXCEPT !.nodes = @ \cup {n}] \in Sound
                             /\ Without(canvas, n) \in Sound
                             /\ [canvas EXCEPT !.changed = @ \cup {n}] \in Sound
         /\ \A n \in canvas.nodes :
              linking \notin {None, n} => [canvas EXCEPT !.edges = @ \cup {<<linking, n>>}] \in Sound
         /\ \A e \in canvas.edges : [canvas EXCEPT !.edges = @ \ {e}] \in Sound
<1>1. canvas \in Sound /\ canvas \in Canvas
  BY DEF CanvasTyped, Sound
<1>2. ASSUME NEW n \in Nodes
      PROVE  /\ [canvas EXCEPT !.nodes = @ \cup {n}] \in Sound
             /\ [canvas EXCEPT !.changed = @ \cup {n}] \in Sound
  BY <1>1 DEF Sound, Canvas
<1>3. ASSUME NEW n \in Nodes PROVE Without(canvas, n) \in Sound
  BY <1>1 DEF Sound, Canvas, Without
<1>4. ASSUME NEW n \in canvas.nodes, linking \notin {None, n}
      PROVE  [canvas EXCEPT !.edges = @ \cup {<<linking, n>>}] \in Sound
  <2>1. linking \in Nodes /\ n \in Nodes
    BY <1>1, <1>4 DEF CanvasTyped, Canvas
  <2>2. QED
    BY <1>1, <1>4, <2>1 DEF Sound, Canvas
<1>5. ASSUME NEW e \in canvas.edges PROVE [canvas EXCEPT !.edges = @ \ {e}] \in Sound
  BY <1>1 DEF Sound, Canvas
<1>6. QED
  BY <1>2, <1>3, <1>4, <1>5

LEMMA AutosavesTyped ==
  ASSUME SavingTyped, NEW c \in Sound, NEW isLoaded \in BOOLEAN, Autosaves(c, isLoaded),
         UNCHANGED <<saveStatus, puts, restore, sent>>,
         edits' \in 0..MaxEdits
  PROVE  SavingTyped'
BY DEF SavingTyped, Autosaves, Mishaps

LEMMA EditTyped ==
  ASSUME Typed, NEW c \in Sound, Edit(c), UNCHANGED linking
  PROVE  Typed'
<1>1. CanvasTyped'
  BY DEF Typed, CanvasTyped, Edit, Uncommitted, service
<1>2. edits' \in 0..MaxEdits
  BY BoundsInNat DEF Typed, SavingTyped, Edit
<1>3. SavingTyped'
  <2>1. loaded \in BOOLEAN /\ SavingTyped
    BY DEF Typed, LoadTyped
  <2>2. Autosaves(c, loaded) /\ UNCHANGED <<saveStatus, puts, restore, sent>>
    BY DEF Edit
  <2>3. QED
    BY <1>2, <2>1, <2>2, AutosavesTyped
<1>4. HistoryTyped' /\ LoadTyped' /\ ServiceTyped'
  BY DEF Typed, HistoryTyped, LoadTyped, ServiceTyped, Edit, service
<1>5. QED
  BY <1>1, <1>3, <1>4 DEF Typed

LEMMA EditingTyped ==
  ASSUME Typed,
         \/ \E n \in Nodes : AddNode(n) \/ DeleteNode(n) \/ UpdateNode(n) \/ AddEdge(n)
         \/ \E e \in canvas.edges : DeleteEdge(e)
  PROVE  Typed'
<1>1. CanvasTyped
  BY DEF Typed
<1>2. PICK c \in Sound : Edit(c) /\ UNCHANGED linking
  BY <1>1, EditsAreSound DEF AddNode, DeleteNode, UpdateNode, AddEdge, DeleteEdge
<1>3. QED
  BY <1>2, EditTyped

-----------------------------------------------------------------------------
(* History                                                                  *)

\* Appending, dropping the first, putting one in front and dropping the last.
LEMMA SeqFacts ==
  ASSUME NEW S, NEW s \in Seq(S), NEW e \in S
  PROVE  /\ Append(s, e) \in Seq(S) /\ Len(Append(s, e)) = Len(s) + 1 /\ Append(s, e) # <<>>
         /\ <<e>> \o s \in Seq(S) /\ Len(<<e>> \o s) = Len(s) + 1
         /\ (<<e>> \o s)[1] = e /\ \A i \in 1..Len(s) : (<<e>> \o s)[i + 1] = s[i]
         /\ s # <<>> =>
              /\ Len(s) > 0 /\ Tail(s) \in Seq(S) /\ Len(Tail(s)) = Len(s) - 1
              /\ SubSeq(s, 1, Len(s) - 1) \in Seq(S)
              /\ Len(SubSeq(s, 1, Len(s) - 1)) = Len(s) - 1
              /\ \A i \in 1..(Len(s) - 1) : SubSeq(s, 1, Len(s) - 1)[i] = s[i]
              /\ Head(s) \in S /\ Head(s) = s[1] /\ s[Len(s)] \in S
<1>0. Len(s) \in Nat /\ \A i \in 1..Len(s) : s[i] \in S
  BY LenProperties, ElementOfSeq
<1>1. Append(s, e) \in Seq(S) /\ Len(Append(s, e)) = Len(s) + 1 /\ Append(s, e) # <<>>
  BY AppendProperties
<1>2. <<e>> \in Seq(S) /\ Len(<<e>>) = 1 /\ <<e>>[1] = e
  OBVIOUS
<1>3. /\ <<e>> \o s \in Seq(S) /\ Len(<<e>> \o s) = 1 + Len(s)
      /\ \A i \in 1..(1 + Len(s)) : (<<e>> \o s)[i] = IF i <= 1 THEN <<e>>[i] ELSE s[i - 1]
  BY <1>2, ConcatProperties
<1>4. ASSUME s # <<>>
      PROVE  /\ Len(s) > 0 /\ Tail(s) \in Seq(S) /\ Len(Tail(s)) = Len(s) - 1
             /\ SubSeq(s, 1, Len(s) - 1) \in Seq(S)
             /\ Len(SubSeq(s, 1, Len(s) - 1)) = Len(s) - 1
             /\ \A i \in 1..(Len(s) - 1) : SubSeq(s, 1, Len(s) - 1)[i] = s[i]
             /\ Head(s) \in S /\ Head(s) = s[1] /\ s[Len(s)] \in S
  <2>1. Len(s) \in Nat \ {0}
    BY <1>4, EmptySeq
  <2>2. /\ SubSeq(s, 1, Len(s) - 1) \in Seq(S)
        /\ Len(SubSeq(s, 1, Len(s) - 1)) = IF 1 <= Len(s) - 1 THEN Len(s) - 1 - 1 + 1 ELSE 0
        /\ \A i \in 1..(Len(s) - 1 - 1 + 1) : SubSeq(s, 1, Len(s) - 1)[i] = s[1 + i - 1]
    BY <1>0, <2>1, SubSeqProperties
  <2>3. Head(s) \in S /\ Tail(s) \in Seq(S) /\ Len(Tail(s)) = Len(s) - 1 /\ Head(s) = s[1]
    BY <1>4, HeadTailProperties
  <2>4. QED
    BY <1>0, <2>1, <2>2, <2>3
<1>5. (<<e>> \o s)[1] = e /\ \A i \in 1..Len(s) : (<<e>> \o s)[i + 1] = s[i]
  BY <1>0, <1>2, <1>3
<1>6. QED
  BY <1>0, <1>1, <1>3, <1>4, <1>5

LEMMA TravelTyped ==
  ASSUME Typed, NEW c \in Sound, NEW p \in Seq(Sound), NEW f \in Seq(Sound),
         Len(p) + Len(f) <= MaxPast, Travel(c, p, f)
  PROVE  Typed'
<1>1. CanvasTyped'
  BY DEF Typed, CanvasTyped, Travel, service
<1>2. HistoryTyped'
  BY DEF HistoryTyped, Travel
<1>3. SavingTyped'
  <2>1. loaded \in BOOLEAN /\ SavingTyped /\ edits \in 0..MaxEdits
    BY DEF Typed, LoadTyped, SavingTyped
  <2>2. Autosaves(c, loaded) /\ UNCHANGED <<saveStatus, puts, restore, sent, edits>>
    BY DEF Travel
  <2>3. QED
    BY <2>1, <2>2, AutosavesTyped
<1>4. LoadTyped' /\ ServiceTyped'
  BY DEF Typed, LoadTyped, ServiceTyped, Travel, service
<1>5. QED
  BY <1>1, <1>2, <1>3, <1>4 DEF Typed

LEMMA HistorySteps ==
  ASSUME Typed, HistoryTimer \/ Undo \/ Redo \/ IdleShortcut
  PROVE  Typed'
<1>0. /\ prev \in Sound /\ past \in Seq(Sound) /\ future \in Seq(Sound)
      /\ Len(past) + Len(future) <= MaxPast /\ Len(past) \in Nat /\ Len(future) \in Nat
  BY DEF Typed, CanvasTyped, HistoryTyped
<1>1. CASE HistoryTimer
  <2>1. CanvasTyped' /\ SavingTyped' /\ LoadTyped' /\ ServiceTyped'
    BY <1>1 DEF HistoryTimer, Typed, CanvasTyped, SavingTyped, LoadTyped, ServiceTyped,
       saving, service
  <2>2. Append(past, prev) \in Seq(Sound) /\ Len(Append(past, prev)) = Len(past) + 1
    BY <1>0, SeqFacts
  <2>3. Capped(Append(past, prev)) \in Seq(Sound) /\ Len(Capped(Append(past, prev))) <= MaxPast
    <3>1. CASE Len(Append(past, prev)) > MaxPast
      <4>1. Append(past, prev) # <<>>
        BY <1>0, SeqFacts
      <4>2. /\ Tail(Append(past, prev)) \in Seq(Sound)
            /\ Len(Tail(Append(past, prev))) = Len(past)
        BY <1>0, <2>2, <4>1, SeqFacts
      <4>3. QED
        BY <1>0, <3>1, <4>2, MaxPastPositive DEF Capped
    <3>2. CASE Len(Append(past, prev)) <= MaxPast
      BY <2>2, <3>2, <1>0, MaxPastPositive DEF Capped
    <3>3. QED
      BY <1>0, <2>2, <3>1, <3>2, MaxPastPositive
  <2>4. HistoryTyped'
    BY <1>0, <1>1, <2>3, MaxPastPositive DEF HistoryTimer, HistoryTyped, FutureAfterEdit
  <2>5. QED
    BY <2>1, <2>4 DEF Typed
<1>2. CASE Undo
  <2> DEFINE p == SubSeq(past, 1, Len(past) - 1)
             f == <<prev>> \o future
  <2>1. past # <<>> /\ Travel(past[Len(past)], p, f)
    BY <1>2 DEF Undo, Undone
  <2>2. p \in Seq(Sound) /\ Len(p) = Len(past) - 1 /\ past[Len(past)] \in Sound
    BY <1>0, <2>1, SeqFacts
  <2>3. f \in Seq(Sound) /\ Len(f) = Len(future) + 1
    BY <1>0, SeqFacts
  <2> HIDE DEF p, f
  <2>4. Len(p) + Len(f) <= MaxPast
    BY <1>0, <2>2, <2>3, MaxPastPositive
  <2>5. QED
    BY <2>1, <2>2, <2>3, <2>4, TravelTyped
<1>3. CASE Redo
  <2> DEFINE p == Append(past, prev)
             f == Tail(future)
  <2>1. future # <<>> /\ Travel(Head(future), p, f)
    BY <1>3 DEF Redo
  <2>2. p \in Seq(Sound) /\ Len(p) = Len(past) + 1
    BY <1>0, SeqFacts
  <2>3. f \in Seq(Sound) /\ Len(f) = Len(future) - 1 /\ Head(future) \in Sound
    BY <1>0, <2>1, SeqFacts
  <2> HIDE DEF p, f
  <2>4. Len(p) + Len(f) <= MaxPast
    BY <1>0, <2>2, <2>3, MaxPastPositive
  <2>5. QED
    BY <2>1, <2>2, <2>3, <2>4, TravelTyped
<1>4. CASE IdleShortcut
  BY <1>4 DEF IdleShortcut, Typed, CanvasTyped, HistoryTyped, SavingTyped, LoadTyped,
     ServiceTyped, saving, service
<1>5. QED
  BY <1>1, <1>2, <1>3, <1>4

-----------------------------------------------------------------------------
(* Saving, versions, loading                                                *)

LEMMA SendTyped ==
  ASSUME Typed, NEW m \in BOOLEAN, Send(m),
         UNCHANGED saving \/ AutosaveTimer
  PROVE  Typed'
<1>1. CanvasTyped' /\ HistoryTyped' /\ LoadTyped' /\ ServiceTyped'
  BY DEF Typed, CanvasTyped, HistoryTyped, LoadTyped, ServiceTyped, Send, history, service
<1>2. sent + 1 \in 0..MaxSends
  BY BoundsInNat DEF Typed, SavingTyped, Send
<1>3. [n |-> sent + 1, content |-> canvas, manual |-> m, done |-> FALSE] \in SoundPut
  BY <1>2 DEF Typed, CanvasTyped, SoundPut
<1>4. lastSaved' \in Sound \cup {None} /\ saveTimer' \in Sound \cup {None}
  BY DEF Typed, SavingTyped, AutosaveTimer, saving
<1>5. SavingTyped'
  BY <1>2, <1>3, <1>4 DEF Typed, SavingTyped, Send
<1>6. QED
  BY <1>1, <1>5 DEF Typed

LEMMA PutSteps ==
  ASSUME Typed, NEW r \in puts, Update(r) \/ Saved(r) \/ SaveFails(r)
  PROVE  Typed'
<1>0. /\ r \in SoundPut /\ r.content \in Sound /\ r.n \in 0..MaxSends
      /\ [r EXCEPT !.done = TRUE] \in SoundPut
  BY DEF Typed, SavingTyped, SoundPut
<1>1. CASE Update(r)
  <2>1. /\ puts' = (puts \ {r}) \cup {[r EXCEPT !.done = TRUE]}
        /\ UNCHANGED <<canvas, linking, history, saving, saveStatus, loaded, load, answer,
                       restore, edits, sent>>
    BY <1>1 DEF Update
  <2>2. stored' \in Sound /\ ServiceTyped' /\ mishaps' \subseteq Mishaps
    <3>1. applied' \in 0..MaxSends
      BY <1>0, <1>1 DEF Update, Typed, ServiceTyped
    <3>2. stored' \in Sound /\ versions' \subseteq Sound /\ recent' \in BOOLEAN
      BY <1>0, <1>1 DEF Update, Typed, CanvasTyped, ServiceTyped
    <3>3. mishaps' \subseteq Mishaps
      BY <1>1 DEF Update, Typed, SavingTyped, Mishaps
    <3>4. QED
      BY <3>1, <3>2, <3>3 DEF ServiceTyped
  <2>3. SavingTyped'
    BY <1>0, <2>1, <2>2 DEF Typed, SavingTyped, saving
  <2>4. CanvasTyped' /\ HistoryTyped' /\ LoadTyped'
    BY <2>1, <2>2 DEF Typed, CanvasTyped, HistoryTyped, LoadTyped, history
  <2>5. QED
    BY <2>2, <2>3, <2>4 DEF Typed
<1>2. CASE Saved(r) \/ SaveFails(r)
  <2>1. SavingTyped'
    BY <1>2 DEF Saved, SaveFails, Typed, SavingTyped, saving, Mishaps
  <2>2. CanvasTyped' /\ HistoryTyped' /\ LoadTyped' /\ ServiceTyped'
    BY <1>2 DEF Saved, SaveFails, Typed, CanvasTyped, HistoryTyped, LoadTyped, ServiceTyped,
       history, service
  <2>3. QED
    BY <2>1, <2>2 DEF Typed
<1>3. QED
  BY <1>1, <1>2

LEMMA VersionSteps ==
  ASSUME Typed, (\E c \in versions : Restore(c)) \/ RestoreRuns \/ RestoreFails
  PROVE  Typed'
<1>1. ASSUME NEW c \in versions, Restore(c) PROVE Typed'
  <2>1. sent + 1 \in 0..MaxSends
    BY <1>1, BoundsInNat DEF Typed, SavingTyped, Restore
  <2>2. [n |-> sent + 1, content |-> c, manual |-> TRUE, done |-> FALSE] \in SoundPut
    BY <2>1 DEF Typed, ServiceTyped, SoundPut
  <2>3. SavingTyped'
    BY <1>1, <2>1, <2>2 DEF Typed, SavingTyped, Restore, saving
  <2>4. CanvasTyped' /\ HistoryTyped' /\ LoadTyped' /\ ServiceTyped'
    BY <1>1 DEF Restore, Typed, CanvasTyped, HistoryTyped, LoadTyped, ServiceTyped,
       history, service
  <2>5. QED
    BY <2>3, <2>4 DEF Typed
<1>2. CASE RestoreRuns
  <2>1. restore \in SoundPut
    BY <1>2 DEF RestoreRuns, Typed, SavingTyped
  <2>2. /\ restore.content \in Sound /\ restore.n \in 0..MaxSends
        /\ [restore EXCEPT !.done = TRUE] \in SoundPut
    BY <2>1 DEF SoundPut
  <2>3. SavingTyped'
    BY <1>2, <2>2 DEF RestoreRuns, Typed, SavingTyped, saving, Mishaps
  <2>4. CanvasTyped' /\ ServiceTyped'
    BY <1>2, <2>2 DEF RestoreRuns, Typed, CanvasTyped, ServiceTyped, history
  <2>5. HistoryTyped' /\ LoadTyped'
    BY <1>2 DEF RestoreRuns, Typed, HistoryTyped, LoadTyped, history
  <2>6. QED
    BY <2>3, <2>4, <2>5 DEF Typed
<1>3. CASE RestoreFails
  <2>1. SavingTyped'
    BY <1>3 DEF RestoreFails, Typed, SavingTyped, saving, Mishaps
  <2>2. CanvasTyped' /\ HistoryTyped' /\ LoadTyped' /\ ServiceTyped'
    BY <1>3 DEF RestoreFails, Typed, CanvasTyped, HistoryTyped, LoadTyped, ServiceTyped,
       history, service
  <2>3. QED
    BY <2>1, <2>2 DEF Typed
<1>4. QED
  BY <1>1, <1>2, <1>3

LEMMA LoadSteps ==
  ASSUME Typed, Reload \/ Read \/ LoadFails \/ Loaded \/ WindowEnds \/ (\E n \in Nodes : ToggleLink(n))
  PROVE  Typed'
<1>1. CASE Reload \/ Read \/ LoadFails \/ WindowEnds \/ (\E n \in Nodes : ToggleLink(n))
  <2>1. CanvasTyped' /\ HistoryTyped'
    BY <1>1 DEF Reload, Read, LoadFails, WindowEnds, ToggleLink, Typed, CanvasTyped,
       HistoryTyped, history, service
  <2>2. SavingTyped'
    BY <1>1 DEF Reload, Read, LoadFails, WindowEnds, ToggleLink, Typed, SavingTyped, saving
  <2>3. LoadTyped'
    BY <1>1 DEF Reload, Read, LoadFails, WindowEnds, ToggleLink, Typed, CanvasTyped, LoadTyped
  <2>4. ServiceTyped'
    BY <1>1 DEF Reload, Read, LoadFails, WindowEnds, ToggleLink, Typed, ServiceTyped, service
  <2>5. QED
    BY <2>1, <2>2, <2>3, <2>4 DEF Typed
<1>2. CASE Loaded
  <2>1. answer \in Sound
    BY <1>2 DEF Loaded, Typed, LoadTyped
  <2>2. CanvasTyped' /\ LoadTyped' /\ ServiceTyped'
    BY <1>2, <2>1 DEF Loaded, Typed, CanvasTyped, LoadTyped, ServiceTyped, service
  <2>3. HistoryTyped'
    BY <1>2, EmptySeq, MaxPastPositive DEF Loaded, HistoryTyped
  <2>4. SavingTyped'
    <3>1. /\ SavingTyped /\ edits \in 0..MaxEdits /\ Autosaves(answer, TRUE)
          /\ UNCHANGED <<saveStatus, puts, restore, sent, edits>>
      BY <1>2 DEF Loaded, Typed, SavingTyped
    <3>2. QED
      BY <2>1, <3>1, AutosavesTyped
  <2>5. QED
    BY <2>2, <2>3, <2>4 DEF Typed
<1>3. QED
  BY <1>1, <1>2

LEMMA TypedInvariant == Spec => []Typed
<1>1. Init => Typed
  <2> SUFFICES ASSUME Init PROVE Typed
    OBVIOUS
  <2>1. Blank \in Sound
    BY DEF Blank, Sound, Canvas
  <2>2. stored \in Sound
    BY DEF Init, Blank, Sound, Canvas
  <2>3. HistoryTyped
    BY EmptySeq, MaxPastPositive DEF Init, HistoryTyped
  <2>4. CanvasTyped /\ LoadTyped
    BY <2>1, <2>2 DEF Init, CanvasTyped, LoadTyped
  <2>5. SavingTyped
    <3>1. /\ lastSaved = None /\ saveTimer = None /\ saveStatus = "idle" /\ puts = {}
          /\ restore = None /\ mishaps = {} /\ edits = 0 /\ sent = 0
      BY DEF Init
    <3>2. 0 \in 0..MaxEdits /\ 0 \in 0..MaxSends
      BY BoundsInNat
    <3>3. QED
      BY <3>1, <3>2 DEF SavingTyped
  <2>6. ServiceTyped
    <3>1. recent = FALSE /\ versions = {} /\ applied = 0
      BY DEF Init
    <3>2. 0 \in 0..MaxSends
      BY BoundsInNat
    <3>3. QED
      BY <3>1, <3>2 DEF ServiceTyped
  <2>7. QED
    BY <2>3, <2>4, <2>5, <2>6 DEF Typed
<1>2. ASSUME Typed, Next PROVE Typed'
  BY <1>2, EditingTyped, HistorySteps, SendTyped, PutSteps, VersionSteps, LoadSteps
     DEF Next, AutosaveTimer, ManualSave
<1>3. ASSUME Typed, UNCHANGED vars PROVE Typed'
  <2>1. CanvasTyped' /\ HistoryTyped' /\ LoadTyped' /\ ServiceTyped'
    BY <1>3 DEF Typed, CanvasTyped, HistoryTyped, LoadTyped, ServiceTyped, vars, history, service
  <2>2. SavingTyped'
    BY <1>3 DEF Typed, SavingTyped, vars, saving
  <2>3. QED
    BY <2>1, <2>2 DEF Typed
<1>4. QED
  BY <1>1, <1>2, <1>3, PTL DEF Spec

\* The state of the page and of the service has the types of TypeOK: above all, no
\* more than MaxPast snapshots are kept although redo does not look at the limit.
THEOREM TypeCorrect == Spec => []TypeOK
BY TypedInvariant, TypedIsTypeOK, PTL

\* Whatever is deleted, undone, restored or reloaded while connections are drawn, in
\* canvases with any number of nodes every edge arrives at one.
THEOREM EdgesStayWhole == Spec => []EdgesArrive
<1>1. Typed => EdgesArrive
  BY DEF Typed, CanvasTyped, Sound, EdgesArrive
<1>2. QED
  BY <1>1, TypedInvariant, PTL

-----------------------------------------------------------------------------
(* The timeline                                                             *)

\* The parts of the timeline, and what the history timer holds for it.
Moving(p, c, f) ==
  /\ \A i \in 1..(Len(p) - 1) : p[i] # p[i + 1]
  /\ p # <<>> => p[Len(p)] # c
  /\ f # <<>> => f[1] # c
  /\ \A i \in 1..(Len(f) - 1) : f[i] # f[i + 1]

Moves == Moving(past, prev, future) /\ (histTimer = None \/ histTimer # prev)

LEMMA TimelineParts ==
  ASSUME NEW p \in Seq(Sound), NEW f \in Seq(Sound), NEW c \in Sound, Moving(p, c, f)
  PROVE  \A i \in 1..(Len(p \o <<c>> \o f) - 1) :
           (p \o <<c>> \o f)[i] # (p \o <<c>> \o f)[i + 1]
<1> DEFINE t == p \o <<c>> \o f
<1>1. Len(p) \in Nat /\ Len(f) \in Nat
  BY LenProperties
<1>2. <<c>> \in Seq(Sound) /\ Len(<<c>>) = 1 /\ <<c>>[1] = c
  OBVIOUS
<1>3. /\ p \o <<c>> \in Seq(Sound) /\ Len(p \o <<c>>) = Len(p) + 1
      /\ \A i \in 1..(Len(p) + 1) : (p \o <<c>>)[i] = IF i <= Len(p) THEN p[i] ELSE c
  <2>1. /\ p \o <<c>> \in Seq(Sound) /\ Len(p \o <<c>>) = Len(p) + Len(<<c>>)
        /\ \A i \in 1..(Len(p) + Len(<<c>>)) :
              (p \o <<c>>)[i] = IF i <= Len(p) THEN p[i] ELSE <<c>>[i - Len(p)]
    BY <1>2, ConcatProperties
  <2>2. QED
    BY <1>1, <1>2, <2>1
<1>4. /\ Len(t) = Len(p) + 1 + Len(f)
      /\ \A i \in 1..(Len(p) + 1 + Len(f)) :
            t[i] = IF i <= Len(p) + 1 THEN (p \o <<c>>)[i] ELSE f[i - (Len(p) + 1)]
  BY <1>3, ConcatProperties
<1> HIDE DEF t
<1>5. \A i \in 1..Len(t) :
        t[i] = IF i <= Len(p) THEN p[i] ELSE IF i = Len(p) + 1 THEN c ELSE f[i - (Len(p) + 1)]
  BY <1>1, <1>3, <1>4
<1>6. ASSUME NEW i \in 1..(Len(t) - 1) PROVE t[i] # t[i + 1]
  <2>0. i \in Nat /\ i >= 1 /\ i + 1 <= Len(p) + 1 + Len(f)
    BY <1>1, <1>4
  <2>1. /\ t[i] = IF i <= Len(p) THEN p[i] ELSE IF i = Len(p) + 1 THEN c ELSE f[i - (Len(p) + 1)]
        /\ t[i + 1] = IF i + 1 <= Len(p) THEN p[i + 1]
                      ELSE IF i + 1 = Len(p) + 1 THEN c ELSE f[i + 1 - (Len(p) + 1)]
    BY <1>1, <1>4, <1>5, <2>0
  <2>2. CASE i < Len(p)
    BY <1>1, <2>0, <2>1, <2>2 DEF Moving
  <2>3. CASE i = Len(p)
    <3>1. p # <<>>
      BY <2>0, <2>3, EmptySeq
    <3>2. QED
      BY <1>1, <2>0, <2>1, <2>3, <3>1 DEF Moving
  <2>4. CASE i = Len(p) + 1
    <3>1. f # <<>> /\ t[i] = c /\ t[i + 1] = f[1]
      BY <1>1, <2>0, <2>1, <2>4, EmptySeq
    <3>2. QED
      BY <3>1 DEF Moving
  <2>5. CASE i > Len(p) + 1
    <3>1. /\ t[i] = f[i - (Len(p) + 1)] /\ t[i + 1] = f[i - (Len(p) + 1) + 1]
          /\ i - (Len(p) + 1) \in 1..(Len(f) - 1)
      BY <1>1, <2>0, <2>1, <2>5
    <3>2. QED
      BY <3>1 DEF Moving
  <2>6. QED
    BY <1>1, <2>0, <2>2, <2>3, <2>4, <2>5
<1>7. QED
  BY <1>6 DEF t

\* The 400 ms are over: the baseline joins the past, and the canvas differs from it.
LEMMA CommitMoves ==
  ASSUME Typed, Moves, HistoryTimer
  PROVE  Moves'
<1>0. /\ past \in Seq(Sound) /\ prev \in Sound /\ Len(past) \in Nat
      /\ Moving(past, prev, future) /\ histTimer # prev
  BY LenProperties DEF Typed, HistoryTyped, CanvasTyped, Moves, HistoryTimer
<1> DEFINE a == Append(past, prev)
<1>1. /\ a \in Seq(Sound) /\ a # <<>> /\ Len(a) = Len(past) + 1
      /\ \A i \in 1..Len(past) : a[i] = past[i]
      /\ a[Len(past) + 1] = prev
  BY <1>0, AppendProperties
<1>2. /\ past' = (IF Len(a) > MaxPast THEN Tail(a) ELSE a)
      /\ future' = <<>> /\ prev' = histTimer /\ histTimer' = None
  BY DEF HistoryTimer, Capped, FutureAfterEdit
<1>3. /\ Tail(a) \in Seq(Sound) /\ Len(Tail(a)) = Len(a) - 1
      /\ \A i \in 1..Len(Tail(a)) : Tail(a)[i] = a[i + 1]
  BY <1>1, HeadTailProperties
<1> HIDE DEF a
<1>4. \A i \in 1..(Len(a) - 1) : a[i] # a[i + 1]
  <2>1. ASSUME NEW i \in 1..(Len(a) - 1) PROVE a[i] # a[i + 1]
    <3>1. CASE i < Len(past)
      BY SMTT(30), <1>0, <1>1, <3>1 DEF Moving
    <3>2. CASE i = Len(past)
      <4>1. past # <<>> /\ a[i] = past[Len(past)] /\ a[i + 1] = prev
        BY <1>0, <1>1, <3>2, EmptySeq
      <4>2. QED
        BY <1>0, <4>1 DEF Moving
    <3>3. QED
      BY <1>0, <1>1, <3>1, <3>2
  <2>2. QED
    BY <2>1
<1>5. a[Len(a)] = prev /\ Len(a) \in Nat \ {0}
  BY <1>0, <1>1
<1>6. /\ \A i \in 1..(Len(past') - 1) : past'[i] # past'[i + 1]
      /\ past' # <<>> => past'[Len(past')] = prev
  <2>1. CASE past' = a
    BY <1>4, <1>5, <2>1
  <2>2. CASE past' = Tail(a)
    <3>1. \A i \in 1..(Len(Tail(a)) - 1) : Tail(a)[i] # Tail(a)[i + 1]
      BY <1>3, <1>4, <1>5
    <3>2. Tail(a) # <<>> => Len(Tail(a)) \in Nat \ {0}
      BY <1>3, EmptySeq
    <3>3. Tail(a) # <<>> => Tail(a)[Len(Tail(a))] = prev
      BY <1>3, <1>5, <3>2
    <3>4. QED
      BY <2>2, <3>1, <3>3
  <2>3. QED
    BY <1>2, <2>1, <2>2
<1>7. Moving(past', histTimer, <<>>)
  BY <1>0, <1>6 DEF Moving
<1>8. QED
  BY <1>2, <1>7 DEF Moves

LEMMA UndoMoves ==
  ASSUME Typed, Moves, Undo
  PROVE  Moves'
<1>0. /\ past \in Seq(Sound) /\ future \in Seq(Sound) /\ prev \in Sound
      /\ Len(past) \in Nat /\ Len(future) \in Nat
      /\ Moving(past, prev, future) /\ past # <<>>
  BY LenProperties DEF Typed, HistoryTyped, CanvasTyped, Moves, Undo
<1> DEFINE p == SubSeq(past, 1, Len(past) - 1)
           f == <<prev>> \o future
<1>1. /\ past' = p /\ future' = f /\ prev' = past[Len(past)] /\ histTimer' = None
  BY DEF Undo, Undone, Travel
<1>2. /\ Len(past) > 0 /\ Len(p) = Len(past) - 1 /\ p \in Seq(Sound)
      /\ \A i \in 1..(Len(past) - 1) : p[i] = past[i]
  BY <1>0, SeqFacts
<1>3. /\ Len(f) = Len(future) + 1 /\ f[1] = prev /\ f \in Seq(Sound)
      /\ \A i \in 1..Len(future) : f[i + 1] = future[i]
  BY <1>0, SeqFacts
<1> HIDE DEF p, f
<1>4. \A i \in 1..(Len(p) - 1) : p[i] # p[i + 1]
  BY SMTT(30), <1>0, <1>2 DEF Moving
<1>5. p # <<>> => p[Len(p)] # past[Len(past)]
  <2>1. p # <<>> => Len(p) \in Nat \ {0}
    BY <1>2, EmptySeq
  <2>2. QED
    BY <1>0, <1>2, <2>1 DEF Moving
<1>6. f[1] # past[Len(past)]
  BY <1>0, <1>3 DEF Moving
<1>7. ASSUME NEW i \in 1..(Len(f) - 1) PROVE f[i] # f[i + 1]
  <2>1. CASE i = 1
    <3>1. future # <<>>
      BY <1>0, <1>3, <2>1, EmptySeq
    <3>2. f[i + 1] = future[1]
      BY <1>0, <1>3, <2>1
    <3>3. QED
      BY <1>0, <1>3, <2>1, <3>1, <3>2 DEF Moving
  <2>2. CASE i # 1
    <3>1. PICK j \in 1..(Len(future) - 1) : i = j + 1
      <4>1. i - 1 \in 1..(Len(future) - 1) /\ i = (i - 1) + 1
        BY <1>0, <1>3, <2>2
      <4>2. QED
        BY <4>1
    <3>2. j \in 1..Len(future) /\ j + 1 \in 1..Len(future)
      BY <1>0, <3>1
    <3>3. f[i] = future[j] /\ f[i + 1] = future[j + 1]
      BY <1>3, <3>1, <3>2
    <3>4. QED
      BY <1>0, <3>3 DEF Moving
  <2>3. QED
    BY <2>1, <2>2
<1>8. Moving(p, past[Len(past)], f)
  BY <1>4, <1>5, <1>6, <1>7 DEF Moving
<1>9. QED
  BY <1>1, <1>8 DEF Moves

LEMMA RedoMoves ==
  ASSUME Typed, Moves, Redo
  PROVE  Moves'
<1>0. /\ past \in Seq(Sound) /\ future \in Seq(Sound) /\ prev \in Sound
      /\ Len(past) \in Nat /\ Len(future) \in Nat
      /\ Moving(past, prev, future) /\ future # <<>>
  BY LenProperties DEF Typed, HistoryTyped, CanvasTyped, Moves, Redo
<1> DEFINE p == Append(past, prev)
           f == Tail(future)
<1>1. /\ past' = p /\ future' = f /\ prev' = future[1] /\ histTimer' = None
  BY <1>0, SeqFacts DEF Redo, Travel
<1>2. /\ Len(p) = Len(past) + 1 /\ p[Len(past) + 1] = prev
      /\ \A i \in 1..Len(past) : p[i] = past[i]
  BY <1>0, AppendProperties
<1>3. /\ Len(f) = Len(future) - 1 /\ f \in Seq(Sound)
      /\ \A i \in 1..Len(f) : f[i] = future[i + 1]
  BY <1>0, HeadTailProperties
<1> HIDE DEF p, f
<1>4. ASSUME NEW i \in 1..(Len(p) - 1) PROVE p[i] # p[i + 1]
  <2>1. CASE i = Len(past)
    <3>1. past # <<>>
      BY <1>0, <2>1, EmptySeq
    <3>2. QED
      BY <1>0, <1>2, <2>1, <3>1 DEF Moving
  <2>2. CASE i # Len(past)
    BY <1>0, <1>2, <2>2 DEF Moving
  <2>3. QED
    BY <2>1, <2>2
<1>5. p[Len(p)] # future[1]
  BY <1>0, <1>2 DEF Moving
<1>6. f # <<>> => f[1] # future[1]
  <2>1. f # <<>> => Len(f) \in Nat \ {0}
    BY <1>3, EmptySeq
  <2>2. QED
    BY <1>0, <1>3, <2>1 DEF Moving
<1>7. \A i \in 1..(Len(f) - 1) : f[i] # f[i + 1]
  BY SMTT(30), <1>0, <1>3 DEF Moving
<1>8. Moving(p, future[1], f)
  BY <1>4, <1>5, <1>6, <1>7 DEF Moving
<1>9. QED
  BY <1>1, <1>8 DEF Moves

LEMMA MovesInvariant == Spec => []Moves
<1>1. Init => Moves
  BY DEF Init, Moves, Moving
<1>2. ASSUME Typed, Moves, Next PROVE Moves'
  <2>1. ASSUME UNCHANGED <<past, prev, future>>, histTimer' \in {None, histTimer} \/ histTimer' # prev
        PROVE  Moves'
    BY <1>2, <2>1 DEF Moves
  <2>2. CASE (\E n \in Nodes : AddNode(n) \/ DeleteNode(n) \/ UpdateNode(n) \/ AddEdge(n))
             \/ (\E e \in canvas.edges : DeleteEdge(e))
    <3>1. \E c : Edit(c)
      BY <2>2 DEF AddNode, DeleteNode, UpdateNode, AddEdge, DeleteEdge
    <3>2. QED
      BY <2>1, <3>1 DEF Edit, Uncommitted
  <2>3. CASE IdleShortcut
    BY <2>1, <2>3 DEF IdleShortcut
  <2>4. CASE Loaded
    <3>1. Moving(<<>>, answer, <<>>)
      BY DEF Moving
    <3>2. past' = <<>> /\ prev' = answer /\ future' = <<>> /\ histTimer' = None
      BY <2>4 DEF Loaded
    <3>3. QED
      BY <3>1, <3>2 DEF Moves
  <2>5. CASE \/ \E n \in Nodes : ToggleLink(n)
             \/ AutosaveTimer \/ ManualSave
             \/ \E r \in puts : Update(r) \/ Saved(r) \/ SaveFails(r)
             \/ WindowEnds
             \/ \E c \in versions : Restore(c)
             \/ RestoreRuns \/ Reload \/ RestoreFails \/ Read \/ LoadFails
    <3>1. UNCHANGED history
      BY <2>5 DEF ToggleLink, AutosaveTimer, ManualSave, Send, Update, Saved, SaveFails,
         WindowEnds, Restore, RestoreRuns, Reload, RestoreFails, Read, LoadFails
    <3>2. QED
      BY <2>1, <3>1 DEF history
  <2>6. QED
    BY <1>2, <2>2, <2>3, <2>4, <2>5, CommitMoves, UndoMoves, RedoMoves DEF Next
<1>3. ASSUME Moves, UNCHANGED vars PROVE Moves'
  BY <1>3 DEF Moves, vars, history
<1>4. QED
  BY <1>1, <1>2, <1>3, TypedInvariant, PTL DEF Spec

\* Edits, debounces, undo, redo and reloads in any order, with any limit of snapshots:
\* no undo and no redo leads to the canvas that is there already.
THEOREM HistoryMoves == Spec => []TimelineMoves
<1>1. Typed /\ Moves => TimelineMoves
  BY TimelineParts DEF Typed, HistoryTyped, CanvasTyped, Moves, Timeline, TimelineMoves
<1>2. QED
  BY <1>1, TypedInvariant, MovesInvariant, PTL

-----------------------------------------------------------------------------
(* What the service holds                                                   *)

\* Requests are numbered in the order they were sent.
Numbered ==
  /\ applied <= sent
  /\ restore # None => restore.n <= sent
  /\ \A r \in puts : r.n <= sent
  /\ \A q, r \in puts : q.n = r.n => q = r

\* The page at rest on a canvas: a timer will save it, or the service holds it and
\* nothing on its way can undo that unnoticed, or the latest request carries it.
Quiet == mishaps = {} /\ loaded /\ load = "idle" /\ restore = None
Harmless(r) == r.done \/ r.n < applied \/ r.content = canvas
Carries(r) == ~r.done /\ r.n = sent /\ r.content = canvas

Held == stored = canvas /\ \A r \in puts : Harmless(r)

Follows == Quiet => saveTimer # None \/ Held \/ \E r \in puts : Carries(r)

LEMMA NumberedStays ==
  ASSUME Typed, Numbered, Next
  PROVE  Numbered'
<1>0. /\ sent \in Nat /\ applied \in Nat /\ \A r \in puts : r.n \in Nat
      /\ restore # None => restore.n \in Nat
  BY BoundsInNat DEF Typed, SavingTyped, ServiceTyped, SoundPut
<1>1. ASSUME NEW m, Send(m) PROVE Numbered'
  <2>1. PICK d : d.n = sent + 1 /\ puts' = puts \cup {d}
    BY <1>1 DEF Send
  <2>2. sent' = sent + 1 /\ UNCHANGED <<applied, restore>>
    BY <1>1 DEF Send, service
  <2>3. QED
    BY <1>0, <2>1, <2>2 DEF Numbered
<1>2. ASSUME NEW r \in puts, Update(r) PROVE Numbered'
  <2>1. /\ puts' = (puts \ {r}) \cup {[r EXCEPT !.done = TRUE]}
        /\ applied' = (IF r.n > applied THEN r.n ELSE applied)
        /\ UNCHANGED <<sent, restore>>
    BY <1>2 DEF Update
  <2>2. r \in SoundPut
    BY DEF Typed, SavingTyped
  <2>3. [r EXCEPT !.done = TRUE].n = r.n
    BY <2>2 DEF SoundPut
  <2>4. QED
    BY <1>0, <2>1, <2>3 DEF Numbered
<1>3. ASSUME NEW c \in versions, Restore(c) PROVE Numbered'
  BY <1>0, <1>3 DEF Numbered, Restore, service
<1>4. CASE RestoreRuns
  <2>1. restore \in SoundPut
    BY <1>4 DEF RestoreRuns, Typed, SavingTyped
  <2>2. [restore EXCEPT !.done = TRUE].n = restore.n
    BY <2>1 DEF SoundPut
  <2>3. QED
    BY <1>0, <1>4, <2>2 DEF Numbered, RestoreRuns
<1>5. CASE (\E r \in puts : Saved(r) \/ SaveFails(r)) \/ RestoreFails \/ Reload
  BY <1>5 DEF Saved, SaveFails, RestoreFails, Reload, Numbered, service
<1>6. CASE UNCHANGED <<sent, puts, restore, applied>>
  BY <1>6 DEF Numbered
<1>7. CASE \/ \E n \in Nodes : AddNode(n) \/ DeleteNode(n) \/ UpdateNode(n) \/ AddEdge(n)
           \/ \E e \in canvas.edges : DeleteEdge(e)
  <2>1. \E c : Edit(c)
    BY <1>7 DEF AddNode, DeleteNode, UpdateNode, AddEdge, DeleteEdge
  <2>2. QED
    BY <1>6, <2>1 DEF Edit, service
<1>8. CASE \/ \E n \in Nodes : ToggleLink(n)
           \/ HistoryTimer \/ Undo \/ Redo \/ IdleShortcut
           \/ WindowEnds \/ Read \/ LoadFails \/ Loaded
  BY <1>6, <1>8 DEF ToggleLink, HistoryTimer, Undo, Redo, Travel, IdleShortcut, WindowEnds,
     Read, LoadFails, Loaded, service
<1>9. QED
  BY <1>1, <1>2, <1>3, <1>4, <1>5, <1>7, <1>8 DEF Next, AutosaveTimer, ManualSave

\* A new canvas is saved by the timer, or is the one that was autosaved last: then the
\* service holds it and nothing is on its way, or the history says unnoticed.
LEMMA NewCanvasFollows ==
  ASSUME Typed, NEW c \in Sound, NEW isLoaded \in BOOLEAN, Autosaves(c, isLoaded),
         canvas' = c, loaded' = isLoaded, UNCHANGED <<stored, puts>>, None \notin Sound
  PROVE  Follows'
<1>1. CASE isLoaded /\ c # lastSaved
  BY <1>1 DEF Autosaves, NeedsSave, Follows
<1>2. CASE isLoaded /\ c = lastSaved
  <2>1. CASE stored # c \/ puts # {}
    BY <1>2, <2>1 DEF Autosaves, Follows, Quiet
  <2>2. CASE stored = c /\ puts = {}
    BY <2>2 DEF Follows, Held
  <2>3. QED
    BY <2>1, <2>2
<1>3. CASE ~isLoaded
  BY <1>3 DEF Follows, Quiet
<1>4. QED
  BY <1>1, <1>2, <1>3

LEMMA UpdateFollows ==
  ASSUME Typed, Numbered, Follows, NEW r \in puts, Update(r)
  PROVE  Follows'
<1>0. /\ r \in SoundPut /\ sent \in Nat /\ applied \in Nat /\ applied <= sent
      /\ \A q \in puts : q.n \in Nat /\ q.n <= sent /\ (q.n = r.n => q = r)
  BY BoundsInNat DEF Typed, SavingTyped, ServiceTyped, SoundPut, Numbered
<1>1. /\ ~r.done
      /\ puts' = (puts \ {r}) \cup {[r EXCEPT !.done = TRUE]}
      /\ applied' = (IF r.n > applied THEN r.n ELSE applied)
      /\ UNCHANGED <<canvas, saveTimer, loaded, load, restore, sent>>
  BY DEF Update, saving
<1>2. [r EXCEPT !.done = TRUE].done
  BY <1>0 DEF SoundPut
<1>2a. \A q \in puts' : q.done \/ (q \in puts /\ q # r)
  BY <1>1, <1>2
<1>3. ASSUME r.n = sent, stored' = canvas PROVE Held'
  <2>1. ASSUME NEW q \in puts' PROVE q.done \/ q.n < applied'
    BY <1>0, <1>1, <1>2a, <1>3
  <2>2. QED
    BY <1>1, <1>3, <2>1 DEF Held, Harmless
<1>4. ASSUME Held, stored' = canvas PROVE Held'
  <2>1. ASSUME NEW q \in puts' PROVE q.done \/ q.n < applied' \/ q.content = canvas
    <3>1. CASE q \in puts
      BY <1>0, <1>1, <1>4, <3>1 DEF Held, Harmless
    <3>2. QED
      BY <1>2a, <3>1
  <2>2. QED
    BY <1>1, <1>4, <2>1 DEF Held, Harmless
<1>5. CASE r.n = sent /\ r.content = canvas
  <2>1. recent => mishaps' # {} \/ stored' = canvas
    BY <1>5 DEF Update
  <2>2. ~recent => stored' = canvas
    BY <1>5 DEF Update
  <2>3. QED
    BY <1>3, <1>5, <2>1, <2>2 DEF Follows, Quiet
<1>6. CASE ~(r.n = sent /\ r.content = canvas)
  <2>1. mishaps' = {} => mishaps = {}
    BY <1>6 DEF Update
  <2>2. ASSUME Quiet' PROVE saveTimer # None \/ Held \/ \E q \in puts : Carries(q)
    BY <1>1, <2>1, <2>2 DEF Follows, Quiet
  <2>3. ASSUME NEW q \in puts, Carries(q) PROVE q \in puts' /\ Carries(q)'
    BY <1>1, <1>6, <2>3 DEF Carries
  <2>4. ASSUME Held, Quiet' PROVE stored' = canvas
    <3>1. CASE recent
      BY <2>4, <3>1 DEF Update, Held
    <3>2. CASE ~recent
      <4>1. stored' = r.content /\ (r.n < applied => mishaps' # {})
        BY <1>6, <3>2 DEF Update
      <4>2. r.n < applied \/ r.content = canvas
        BY <1>1, <2>4 DEF Held, Harmless
      <4>3. QED
        BY <2>4, <4>1, <4>2 DEF Quiet
    <3>3. QED
      BY <3>1, <3>2
  <2>5. QED
    BY <1>1, <1>4, <2>2, <2>3, <2>4 DEF Follows
<1>7. QED
  BY <1>5, <1>6

LEMMA SendFollows ==
  ASSUME Typed, NEW m \in BOOLEAN, Send(m)
  PROVE  Follows'
<1>1. PICK r \in puts' : ~r.done /\ r.n = sent + 1 /\ r.content = canvas
  <2> DEFINE d == [n |-> sent + 1, content |-> canvas, manual |-> m, done |-> FALSE]
  <2>1. d \in puts'
    BY DEF Send
  <2>2. ~d.done /\ d.n = sent + 1 /\ d.content = canvas
    OBVIOUS
  <2>3. QED
    BY <2>1, <2>2
<1>2. sent' = sent + 1 /\ canvas' = canvas
  BY DEF Send
<1>3. Carries(r)'
  BY <1>1, <1>2 DEF Carries
<1>4. QED
  BY <1>1, <1>3 DEF Follows

LEMMA FollowsStays ==
  ASSUME Typed, Numbered, Follows, Next
  PROVE  Follows'
<1>0. None \notin Sound /\ loaded \in BOOLEAN /\ canvas \in Sound
  BY NoneIsNoCanvas, SoundIsCanvas DEF Typed, LoadTyped, CanvasTyped
<1>1. CASE \/ \E n \in Nodes : AddNode(n) \/ DeleteNode(n) \/ UpdateNode(n) \/ AddEdge(n)
           \/ \E e \in canvas.edges : DeleteEdge(e)
  <2>1. PICK c \in Sound : Edit(c)
    BY <1>1, EditsAreSound DEF Typed, AddNode, DeleteNode, UpdateNode, AddEdge, DeleteEdge
  <2>2. Autosaves(c, loaded) /\ canvas' = c /\ UNCHANGED <<loaded, stored, puts>>
    BY <2>1 DEF Edit, service
  <2>3. QED
    BY <1>0, <2>2, NewCanvasFollows
<1>2. CASE Undo \/ Redo
  <2>1. PICK c, p, f : Travel(c, p, f)
    BY <1>2 DEF Undo, Redo
  <2>2. Typed'
    BY <1>2, HistorySteps
  <2>3. c \in Sound /\ Autosaves(c, loaded) /\ canvas' = c /\ UNCHANGED <<loaded, stored, puts>>
    BY <2>1, <2>2 DEF Travel, Typed, CanvasTyped, service
  <2>4. QED
    BY <1>0, <2>3, NewCanvasFollows
<1>3. CASE Loaded
  <2>1. answer \in Sound
    BY <1>3 DEF Loaded, Typed, LoadTyped
  <2>2. /\ Autosaves(answer, TRUE) /\ canvas' = answer /\ loaded' = TRUE
        /\ UNCHANGED <<stored, puts>>
    BY <1>3 DEF Loaded, service
  <2>3. PICK c \in Sound : c = answer
    BY <2>1
  <2>4. QED
    BY <1>0, <2>2, <2>3, NewCanvasFollows
<1>4. CASE AutosaveTimer \/ ManualSave
  BY <1>4, SendFollows DEF AutosaveTimer, ManualSave
<1>5. ASSUME NEW r \in puts, Update(r) PROVE Follows'
  BY <1>5, UpdateFollows
<1>6. ASSUME NEW r \in puts, Saved(r) PROVE Follows'
  <2>1. /\ r.done /\ puts' = puts \ {r}
        /\ UNCHANGED <<mishaps, loaded, load, restore, canvas, stored, saveTimer, sent, applied>>
    BY <1>6 DEF Saved, saving, service
  <2>2. \A q \in puts : Carries(q) => q \in puts' /\ Carries(q)'
    BY <2>1 DEF Carries
  <2>3. Held => Held'
    BY <2>1 DEF Held, Harmless
  <2>4. QED
    BY <2>1, <2>2, <2>3 DEF Follows, Quiet
<1>7. ASSUME NEW r \in puts, SaveFails(r) PROVE Follows'
  BY <1>7 DEF SaveFails, Follows, Quiet
<1>8. CASE RestoreFails
  BY <1>8 DEF RestoreFails, Follows, Quiet
<1>9. CASE (\E c \in versions : Restore(c)) \/ RestoreRuns
  <2>1. restore' # None
    <3>1. None \notin SoundPut
      BY NoneIsNoCanvas, SoundIsCanvas
    <3>2. ASSUME NEW c \in versions, Restore(c) PROVE restore' \in SoundPut
      BY <3>2, BoundsInNat DEF Restore, Typed, SavingTyped, ServiceTyped, SoundPut
    <3>3. CASE RestoreRuns
      <4>1. restore \in SoundPut /\ restore' = [restore EXCEPT !.done = TRUE]
        BY <3>3 DEF RestoreRuns, Typed, SavingTyped
      <4>2. restore' \in SoundPut
        BY <4>1 DEF SoundPut
      <4>3. QED
        BY <3>1, <4>2
    <3>4. QED
      BY <1>9, <3>1, <3>2, <3>3
  <2>2. QED
    BY <2>1 DEF Follows, Quiet
<1>10. CASE Reload \/ Read \/ LoadFails
  BY <1>10 DEF Reload, Read, LoadFails, Follows, Quiet
<1>11. CASE HistoryTimer \/ IdleShortcut \/ WindowEnds \/ (\E n \in Nodes : ToggleLink(n))
  <2>1. UNCHANGED <<mishaps, loaded, load, restore, canvas, stored, puts, saveTimer, sent, applied>>
    BY <1>11 DEF HistoryTimer, IdleShortcut, WindowEnds, ToggleLink, saving, service
  <2>2. QED
    BY <2>1 DEF Follows, Quiet, Held, Harmless, Carries
<1>12. QED
  BY <1>1, <1>2, <1>3, <1>4, <1>5, <1>6, <1>7, <1>8, <1>9, <1>10, <1>11 DEF Next

LEMMA FollowsInvariant == Spec => [](Numbered /\ Follows)
<1>1. Init => Numbered /\ Follows
  BY DEF Init, Numbered, Follows, Quiet
<1>2. ASSUME Typed, Numbered, Follows, Next PROVE (Numbered /\ Follows)'
  BY <1>2, NumberedStays, FollowsStays
<1>3. ASSUME Numbered, Follows, UNCHANGED vars PROVE (Numbered /\ Follows)'
  BY <1>3 DEF Numbered, Follows, Quiet, Held, Harmless, Carries, vars, saving, service
<1>4. QED
  BY <1>1, <1>2, <1>3, TypedInvariant, PTL DEF Spec

\* With any number of requests on their way: at rest, and without a mishap since the
\* last save that counted, the service holds the canvas.
THEOREM SavedIsShown == Spec => []SettledIsStored
<1>1. Follows => SettledIsStored
  BY DEF Follows, Quiet, Held, Carries, Settled, SettledIsStored
<1>2. QED
  BY <1>1, FollowsInvariant, PTL
=============================================================================
