--------------------------- MODULE DeployCliProofs ---------------------------
(* Theorems about DeployCli for every value of its constants: whatever the   *)
(* number of invocations, interrupts, kills and failing tools.               *)
EXTENDS DeployCli, TLAPS

RunRow == [pc : SetUp \cup {"new", "wait", "ready", "over"}, command : Commands,
           force : BOOLEAN]
BackendRow == [state : {"none", "starting", "up"}, whole : BOOLEAN]
TreeRow == [part : {"none", "some", "main", "whole"}, by : Runs \cup {None}]

\* TypeOK with its sets named.
Typed ==
  /\ layout \in {"repo", "flat", "nested"}
  /\ tarball \in {"none", "whole"} \cup Runs
  /\ tree \in TreeRow
  /\ venv \in {"none", "python", "installed"}
  /\ run \in [Runs -> RunRow]
  /\ backend \in [Runs -> BackendRow]
  /\ cut \subseteq Runs
  /\ overlapped \in BOOLEAN /\ faults \in 0..MaxFaults

LEMMA TypedIsTypeOK == Typed => TypeOK
BY DEF Typed, TypeOK, RunRow, BackendRow, TreeRow

LEMMA Rows ==
  ASSUME Typed, NEW r \in Runs
  PROVE  /\ \A pc \in SetUp \cup {"new", "wait", "ready", "over"} :
              [run EXCEPT ![r].pc = pc] \in [Runs -> RunRow]
         /\ \A b \in BackendRow : [backend EXCEPT ![r] = b] \in [Runs -> BackendRow]
         /\ \A s \in {"none", "starting", "up"} :
              [backend EXCEPT ![r].state = s] \in [Runs -> BackendRow]
BY DEF Typed, RunRow, BackendRow

\* What an action does to the invocation that takes it, whatever it does to the disk.
Steps(r) == \E pc \in SetUp \cup {"new", "wait", "ready", "over"} : Goes(r, pc)
StepsOrStays(r) == Steps(r) \/ UNCHANGED run

LEMMA DiskTypes ==
  ASSUME Typed, NEW r \in Runs,
         Invoke(r) \/ Proceed(r) \/ DownloadFails(r) \/ ComesUp(r) \/ Exits(r)
           \/ InterruptSetUp(r) \/ Interrupt(r) \/ Kill(r)
  PROVE  tarball' \in {"none", "whole"} \cup Runs /\ tree' \in TreeRow
         /\ venv' \in {"none", "python", "installed"}
<1>0. tarball \in {"none", "whole"} \cup Runs /\ tree \in TreeRow
      /\ venv \in {"none", "python", "installed"}
  BY DEF Typed
<1>1. CASE Download(r) \/ Downloaded(r) \/ Wipe(r) \/ UnpackMain(r) \/ Unpacked(r)
  BY <1>0, <1>1 DEF Download, Downloaded, Wipe, Wiped, UnpackMain, Unpacked, TreeRow
<1>2. CASE MakeVenv(r) \/ Install(r) \/ InterruptSetUp(r)
  BY <1>0, <1>2 DEF MakeVenv, Made, Install, InterruptSetUp
<1>3. CASE DownloadFails(r)
  BY <1>0, <1>3 DEF DownloadFails
<1>4. CASE UNCHANGED disk
  BY <1>0, <1>4 DEF disk
<1>5. QED
  BY <1>1, <1>2, <1>3, <1>4 DEF Proceed, Invoke, UseLocal, UnpackFails, Reuse, Prepare,
     SkipInstall, InstallFails, Launch, LaunchFails, Ready, NoPort, TimesOut, Leaves,
     ComesUp, Exits, Interrupt, Kill

LEMMA RunTypes ==
  ASSUME Typed, NEW r \in Runs,
         Invoke(r) \/ Proceed(r) \/ DownloadFails(r) \/ ComesUp(r) \/ Exits(r)
           \/ InterruptSetUp(r) \/ Interrupt(r) \/ Kill(r)
  PROVE  StepsOrStays(r) /\ UNCHANGED layout
<1>1. CASE Proceed(r)
  BY <1>1 DEF Proceed, UseLocal, Download, Downloaded, Wipe, UnpackMain, Unpacked, UnpackFails,
     Reuse, Prepare, MakeVenv, Install, SkipInstall, InstallFails, InstallFailed, Launch,
     LaunchFails, Ready, NoPort, TimesOut, Leaves, Moves, Over, StepsOrStays, Steps, SetUp
<1>2. CASE Invoke(r) \/ DownloadFails(r) \/ ComesUp(r) \/ Exits(r) \/ InterruptSetUp(r)
           \/ Interrupt(r) \/ Kill(r)
  BY <1>2 DEF Invoke, DownloadFails, ComesUp, Exits, InterruptSetUp, Interrupt, Kill, Leaves,
     Over, StepsOrStays, Steps, SetUp
<1>3. QED
  BY <1>1, <1>2

LEMMA OtherTypes ==
  ASSUME Typed, NEW r \in Runs,
         Invoke(r) \/ Proceed(r) \/ DownloadFails(r) \/ ComesUp(r) \/ Exits(r)
           \/ InterruptSetUp(r) \/ Interrupt(r) \/ Kill(r)
  PROVE  /\ backend' \in [Runs -> BackendRow]
         /\ cut' \subseteq Runs
         /\ overlapped' \in BOOLEAN /\ faults' \in 0..MaxFaults
<1>0. backend \in [Runs -> BackendRow] /\ cut \subseteq Runs
      /\ overlapped \in BOOLEAN /\ faults \in 0..MaxFaults
  BY DEF Typed
<1>1. /\ \A b \in BackendRow : [backend EXCEPT ![r] = b] \in [Runs -> BackendRow]
      /\ \A s \in {"none", "starting", "up"} :
              [backend EXCEPT ![r].state = s] \in [Runs -> BackendRow]
  BY Rows
<1>2. Fault => faults' \in 0..MaxFaults
  BY <1>0, FaultsInNat DEF Fault
<1>3. Over(r) => UNCHANGED <<backend, overlapped>> /\ cut' \subseteq Runs
  BY <1>0 DEF Over
<1>4. CASE Launch(r)
  BY <1>0, <1>1, <1>4 DEF Launch, BackendRow, history
<1>5. CASE Ready(r) \/ NoPort(r) \/ TimesOut(r)
  BY <1>0, <1>5 DEF Ready, NoPort, TimesOut, Leaves, history
<1>6. CASE ComesUp(r) \/ Exits(r) \/ Interrupt(r) \/ Kill(r)
  BY <1>0, <1>1, <1>2, <1>6 DEF ComesUp, Exits, Interrupt, Stopped, Kill, Leaves, history
<1>7. CASE Invoke(r)
  BY <1>0, <1>7 DEF Invoke
<1>8. CASE DownloadFails(r) \/ InterruptSetUp(r)
  BY <1>0, <1>2, <1>3, <1>8 DEF DownloadFails, InterruptSetUp
<1>9. CASE UnpackFails(r) \/ InstallFails(r) \/ LaunchFails(r)
  BY <1>0, <1>2, <1>3, <1>9 DEF UnpackFails, InstallFails, InstallFailed, LaunchFails
<1>10. CASE \/ UseLocal(r) \/ Download(r) \/ Downloaded(r) \/ Wipe(r) \/ UnpackMain(r)
            \/ Unpacked(r) \/ Reuse(r) \/ Prepare(r) \/ MakeVenv(r) \/ Install(r) \/ SkipInstall(r)
  <2>1. UNCHANGED <<backend, history, faults>>
    BY <1>10 DEF UseLocal, Download, Downloaded, Wipe, UnpackMain, Unpacked, Reuse, Prepare,
       MakeVenv, Install, SkipInstall, Moves
  <2>2. QED
    BY <1>0, <2>1 DEF history
<1>11. QED
  BY <1>4, <1>5, <1>6, <1>7, <1>8, <1>9, <1>10 DEF Proceed

LEMMA TypedInvariant == Spec => []Typed
<1>1. Init => Typed
  <2>1. ASSUME Init PROVE run \in [Runs -> RunRow] /\ backend \in [Runs -> BackendRow]
    BY <2>1 DEF Init, RunRow, BackendRow
  <2>2. ASSUME Init PROVE tree \in TreeRow /\ faults \in 0..MaxFaults
    BY <2>2, FaultsInNat DEF Init, TreeRow
  <2>3. QED
    BY <2>1, <2>2 DEF Init, Typed
<1>2. ASSUME Typed, Next PROVE Typed'
  <2>1. PICK r \in Runs :
          Invoke(r) \/ Proceed(r) \/ DownloadFails(r) \/ ComesUp(r) \/ Exits(r)
            \/ InterruptSetUp(r) \/ Interrupt(r) \/ Kill(r)
    BY <1>2 DEF Next
  <2>2. run' \in [Runs -> RunRow]
    <3>1. StepsOrStays(r)
      BY <1>2, <2>1, RunTypes
    <3>2. run \in [Runs -> RunRow]
      BY <1>2 DEF Typed
    <3>3. CASE Steps(r)
      <4>1. PICK pc \in SetUp \cup {"new", "wait", "ready", "over"} : run' = [run EXCEPT ![r].pc = pc]
        BY <3>3 DEF Steps, Goes
      <4>2. QED
        BY <1>2, <4>1, Rows
    <3>4. QED
      BY <3>1, <3>2, <3>3 DEF StepsOrStays
  <2>3. QED
    BY <1>2, <2>1, <2>2, DiskTypes, RunTypes, OtherTypes DEF Typed
<1>3. ASSUME Typed, UNCHANGED vars PROVE Typed'
  BY <1>3 DEF Typed, vars
<1>4. QED
  BY <1>1, <1>2, <1>3, PTL DEF Spec

\* Every state of the runs and of the disk they share has the types of TypeOK.
THEOREM TypeCorrect == Spec => []TypeOK
BY TypedInvariant, TypedIsTypeOK, PTL

-----------------------------------------------------------------------------
(* What a run leaves behind for the next one.                                *)

\* Nobody was cut short while installing, and nobody set up beside another.
Clean == cut = {} /\ ~overlapped

\* What the disk holds when nobody is unpacking or installing is nothing or all of it.
Rest ==
  (\A r \in Runs : run[r].pc \notin Installing) =>
    tree.part \in {"none", "whole"} /\ venv \in {"none", "installed"}

\* What the run that sets up has reached.
StageSound(r) ==
  /\ At(r, "unpack") => venv = "none"
  /\ run[r].pc \in {"env", "venv", "pip", "launch"} => tree.part = "whole"
  /\ At(r, "launch") => venv = "installed"

Alone == \A q, r \in Runs : SettingUp(q) /\ SettingUp(r) => q = r
Complete == \A r \in Runs : backend[r].state # "none" => backend[r].whole
Silent == \A r \in Runs : backend[r].state = "none"

\* In the nested layout no run finds main.py, so none launches.
CleanSound ==
  /\ layout = "nested" => Silent
  /\ layout # "nested" => Alone /\ Rest /\ Complete /\ (\A r \in Runs : StageSound(r))

Sound == Clean => CleanSound

LEMMA SetUpPhases == SetUp = {"source", "download", "wipe", "env", "launch"} \cup Installing
BY DEF SetUp, Installing

LEMMA CleanBefore ==
  ASSUME Next, Clean'
  PROVE  Clean
<1>1. PICK r \in Runs :
        Invoke(r) \/ Proceed(r) \/ DownloadFails(r) \/ ComesUp(r) \/ Exits(r)
          \/ InterruptSetUp(r) \/ Interrupt(r) \/ Kill(r)
  BY DEF Next
<1>2. Over(r) => Clean
  BY DEF Over, Clean
<1>3. CASE Proceed(r)
  BY <1>2, <1>3 DEF Proceed, UseLocal, Download, Downloaded, Wipe, UnpackMain, Unpacked,
     UnpackFails, Reuse, Prepare, MakeVenv, Install, SkipInstall, InstallFails, InstallFailed,
     Launch, LaunchFails, Ready, NoPort, TimesOut, Leaves, Moves, history, Clean
<1>4. CASE Invoke(r)
  BY <1>4 DEF Invoke, Clean
<1>5. CASE DownloadFails(r) \/ InterruptSetUp(r)
  BY <1>2, <1>5 DEF DownloadFails, InterruptSetUp
<1>6. CASE ComesUp(r) \/ Exits(r) \/ Interrupt(r) \/ Kill(r)
  BY <1>6 DEF ComesUp, Exits, Interrupt, Kill, Leaves, history, Clean
<1>7. QED
  BY <1>1, <1>3, <1>4, <1>5, <1>6

\* A backend is launched where main.py is found, and never without a launch.
LEMMA NestedStays ==
  ASSUME Typed, Silent, layout = "nested", Next
  PROVE  Silent'
<1>1. PICK r \in Runs :
        Invoke(r) \/ Proceed(r) \/ DownloadFails(r) \/ ComesUp(r) \/ Exits(r)
          \/ InterruptSetUp(r) \/ Interrupt(r) \/ Kill(r)
  BY DEF Next
<1>2. ~Launch(r)
  BY DEF Launch, Startable, Found
<1>3. backend \in [Runs -> BackendRow] /\ backend[r].state = "none"
  BY DEF Typed, Silent
<1>4. UNCHANGED backend \/ backend' = [backend EXCEPT ![r].state = "none"]
  <2>1. CASE Proceed(r)
    BY <1>2, <2>1 DEF Proceed, UseLocal, Download, Downloaded, Wipe, UnpackMain, Unpacked,
     UnpackFails, Reuse, Prepare, MakeVenv, Install, SkipInstall, InstallFails, InstallFailed,
     LaunchFails, Ready, NoPort, TimesOut, Leaves, Moves, Over
  <2>2. CASE Invoke(r) \/ DownloadFails(r) \/ InterruptSetUp(r) \/ Kill(r)
    BY <2>2 DEF Invoke, DownloadFails, InterruptSetUp, Over, Kill, Leaves
  <2>3. CASE ComesUp(r) \/ Exits(r) \/ Interrupt(r)
    BY <1>3, <2>3 DEF ComesUp, Exits, Interrupt, Stopped
  <2>4. QED
    BY <1>1, <2>1, <2>2, <2>3
<1>5. ASSUME NEW q \in Runs PROVE backend'[q].state = "none"
  BY <1>3, <1>4 DEF Silent, BackendRow
<1>6. QED
  BY <1>5 DEF Silent

\* Steps of runs that are not setting up leave the disk and the others alone.
LEMMA LaterSteps ==
  ASSUME Typed, CleanSound, layout # "nested", NEW r \in Runs,
         Ready(r) \/ NoPort(r) \/ TimesOut(r) \/ ComesUp(r) \/ Exits(r)
           \/ Interrupt(r) \/ Kill(r)
  PROVE  CleanSound'
<1>0. run \in [Runs -> RunRow] /\ backend \in [Runs -> BackendRow]
  BY DEF Typed
<1>1. /\ UNCHANGED <<layout, tree, venv>>
      /\ \A q \in Runs : /\ run'[q].pc \in SetUp => run'[q].pc = run[q].pc
                         /\ run[q].pc \in SetUp => run'[q].pc = run[q].pc
      /\ \A q \in Runs : /\ backend'[q].whole = backend[q].whole
                         /\ backend'[q].state # "none" => backend[q].state # "none"
  <2>1. CASE Ready(r) \/ NoPort(r) \/ TimesOut(r) \/ Kill(r)
    BY <1>0, <2>1 DEF Ready, NoPort, TimesOut, WaitOver, Kill, Leaves, Goes, At, disk, SetUp,
       RunRow
  <2>2. CASE ComesUp(r) \/ Exits(r)
    BY <1>0, <2>2 DEF ComesUp, Exits, disk, BackendRow
  <2>3. CASE Interrupt(r)
    BY <1>0, <2>3 DEF Interrupt, Stopped, Goes, At, disk, SetUp, RunRow, BackendRow
  <2>4. QED
    BY <2>1, <2>2, <2>3
<1>2. Alone'
  BY <1>1 DEF CleanSound, Alone, SettingUp
<1>3. Complete'
  BY <1>1 DEF CleanSound, Complete
<1>4. Rest'
  BY <1>1, SetUpPhases DEF CleanSound, Rest
<1>5. \A q \in Runs : StageSound(q)'
  BY <1>1 DEF CleanSound, StageSound, At, SetUp
<1>6. QED
  BY <1>1, <1>2, <1>3, <1>4, <1>5 DEF CleanSound

\* The run that sets up is the only one, so what it finds, it or a finished one left.
LEMMA SetUpSteps ==
  ASSUME Typed, CleanSound, layout # "nested", NEW r \in Runs, SettingUp(r), Clean',
         NEW pc \in SetUp \cup {"wait", "over"}, Goes(r, pc), UNCHANGED layout,
         run[r].pc \in Installing => pc # "over",
         pc \in Installing \/ (tree'.part \in {"none", "whole"} /\ venv' \in {"none", "installed"}),
         pc = "unpack" => venv' = "none",
         pc \in {"env", "venv", "pip", "launch"} => tree'.part = "whole",
         pc = "launch" => venv' = "installed",
         Complete'
  PROVE  CleanSound'
<1>0. run \in [Runs -> RunRow]
  BY DEF Typed
<1>1. /\ run'[r].pc = pc
      /\ \A q \in Runs \ {r} : run'[q].pc = run[q].pc /\ run[q].pc \notin SetUp
  BY <1>0 DEF Goes, RunRow, CleanSound, Alone, SettingUp
<1>2. Alone'
  BY <1>1 DEF Alone, SettingUp
<1>3. Rest'
  BY <1>1 DEF Rest
<1>4. ASSUME NEW q \in Runs PROVE StageSound(q)'
  BY <1>1 DEF StageSound, At, SetUp
<1>5. QED
  BY <1>2, <1>3, <1>4 DEF CleanSound

LEMMA SetUpKeeps ==
  ASSUME Typed, CleanSound, layout # "nested", Clean', NEW r \in Runs, SettingUp(r),
         Proceed(r) \/ DownloadFails(r) \/ InterruptSetUp(r)
  PROVE  CleanSound'
<1>0. run \in [Runs -> RunRow] /\ backend \in [Runs -> BackendRow] /\ tree \in TreeRow
  BY DEF Typed
<1>1. StageSound(r) /\ Complete
  BY DEF CleanSound
<1>2. run[r].pc \notin Installing =>
        tree.part \in {"none", "whole"} /\ venv \in {"none", "installed"}
  BY SetUpPhases DEF CleanSound, Alone, Rest, SettingUp
<1>3. UNCHANGED backend => Complete'
  BY <1>1 DEF Complete
<1>4. Over(r) => /\ run[r].pc \notin Installing /\ Goes(r, "over")
                 /\ UNCHANGED <<layout, backend>>
  BY DEF Over, Clean
<1> USE SetUpSteps, SetUpPhases DEF Moves, At, Installing
<1>5. CASE UseLocal(r)
  BY <1>2, <1>3, <1>5 DEF UseLocal, Found, disk
<1>6. CASE Download(r) \/ Downloaded(r)
  BY <1>2, <1>3, <1>6 DEF Download, Downloaded
<1>7. CASE Wipe(r)
  BY <1>3, <1>7 DEF Wipe, Wiped
<1>8. CASE UnpackMain(r)
  <2>1. UNCHANGED <<layout, run, backend, venv>>
    BY <1>8 DEF UnpackMain
  <2>2. run[r].pc = "unpack"
    BY <1>8 DEF UnpackMain, Unpacking
  <2>3. Alone' /\ Rest' /\ Complete'
    BY <1>1, <2>1, <2>2 DEF CleanSound, Alone, Rest, Complete, SettingUp
  <2>4. ASSUME NEW q \in Runs PROVE StageSound(q)'
    BY <2>1, <2>2, <2>4 DEF CleanSound, Alone, StageSound, SettingUp, SetUp
  <2>5. QED
    BY <2>1, <2>3, <2>4 DEF CleanSound
<1>9. CASE Unpacked(r)
  BY <1>0, <1>1, <1>3, <1>9 DEF Unpacked, Unpacking, StageSound, TreeRow
<1>10. CASE Reuse(r)
  BY <1>1, <1>2, <1>3, <1>10 DEF Reuse, NeedsSetup, StageSound, disk
<1>11. CASE Prepare(r)
  BY <1>1, <1>2, <1>3, <1>11 DEF Prepare, StageSound, disk
<1>12. CASE MakeVenv(r)
  BY <1>1, <1>3, <1>12 DEF MakeVenv, StageSound
<1>13. CASE Install(r)
  BY <1>1, <1>3, <1>13 DEF Install, StageSound
<1>14. CASE SkipInstall(r)
  BY <1>1, <1>14 DEF SkipInstall, NoRequirements, StageSound
<1>15. CASE Launch(r)
  <2>1. tree.part = "whole" /\ venv = "installed"
    BY <1>1, <1>15 DEF Launch, StageSound
  <2>2. Complete'
    BY <1>0, <1>1, <1>15, <2>1 DEF Launch, Complete, BackendRow
  <2>3. QED
    BY <1>15, <2>1, <2>2 DEF Launch, disk
<1>16. CASE UnpackFails(r) \/ InstallFails(r)
  BY <1>4, <1>16 DEF UnpackFails, InstallFails, InstallFailed
<1>17. CASE LaunchFails(r) \/ DownloadFails(r)
  BY <1>2, <1>3, <1>4, <1>17 DEF LaunchFails, DownloadFails, disk
<1>18. CASE InterruptSetUp(r)
  BY <1>2, <1>3, <1>4, <1>18 DEF InterruptSetUp
<1>19. CASE Ready(r) \/ NoPort(r) \/ TimesOut(r)
  BY <1>19, LaterSteps
<1>20. QED
  BY <1>5, <1>6, <1>7, <1>8, <1>9, <1>10, <1>11, <1>12, <1>13, <1>14, <1>15, <1>16, <1>17,
     <1>18, <1>19 DEF Proceed

\* A run that begins to set up beside another marks the overlap.
LEMMA InvokeKeeps ==
  ASSUME Typed, CleanSound, layout # "nested", Clean', NEW r \in Runs, Invoke(r)
  PROVE  CleanSound'
<1>0. run \in [Runs -> RunRow]
  BY DEF Typed
<1>1. \A q \in Runs : run[q].pc \notin SetUp
  BY DEF Invoke, Clean, SettingUp
<1>2. /\ run'[r].pc = "source" /\ UNCHANGED <<layout, tree, venv, backend>>
      /\ \A q \in Runs \ {r} : run'[q].pc = run[q].pc
  BY <1>0 DEF Invoke, Goes, disk, RunRow
<1>3. Alone'
  BY <1>1, <1>2 DEF Alone, SettingUp
<1>4. Rest' /\ Complete'
  BY <1>1, <1>2, SetUpPhases DEF CleanSound, Rest, Complete
<1>5. ASSUME NEW q \in Runs PROVE StageSound(q)'
  BY <1>1, <1>2, <1>5 DEF StageSound, At, SetUp
<1>6. QED
  BY <1>2, <1>3, <1>4, <1>5 DEF CleanSound

LEMMA SoundInvariant == Spec => []Sound
<1>1. Init => Sound
  <2>1. ASSUME Init, NEW r \in Runs PROVE run[r].pc = "new" /\ backend[r].state = "none"
    BY <2>1 DEF Init
  <2>2. ASSUME Init PROVE tree.part \in {"none", "whole"} /\ venv = "none"
    BY <2>2 DEF Init
  <2>3. QED
    BY <2>1, <2>2 DEF Sound, CleanSound, Silent, Alone, Rest, Complete, StageSound,
       At, SettingUp, SetUp
<1>2. ASSUME Typed, Sound, Next PROVE Sound'
  <2> SUFFICES ASSUME Clean' PROVE CleanSound'
    BY DEF Sound
  <2>1. CleanSound
    BY <1>2, CleanBefore DEF Sound
  <2>2. UNCHANGED layout
    BY <1>2, RunTypes DEF Next
  <2>3. CASE layout = "nested"
    BY <1>2, <2>1, <2>2, <2>3, NestedStays DEF CleanSound
  <2>4. CASE layout # "nested"
    <3>1. PICK r \in Runs :
            Invoke(r) \/ Proceed(r) \/ DownloadFails(r) \/ ComesUp(r) \/ Exits(r)
              \/ InterruptSetUp(r) \/ Interrupt(r) \/ Kill(r)
      BY <1>2 DEF Next
    <3>2. CASE SettingUp(r) /\ (Proceed(r) \/ DownloadFails(r) \/ InterruptSetUp(r))
      BY <1>2, <2>1, <2>4, <3>2, SetUpKeeps
    <3>3. CASE Ready(r) \/ NoPort(r) \/ TimesOut(r) \/ ComesUp(r) \/ Exits(r)
               \/ Interrupt(r) \/ Kill(r)
      BY <1>2, <2>1, <2>4, <3>3, LaterSteps
    <3>4. CASE Invoke(r)
      BY <1>2, <2>1, <2>4, <3>4, InvokeKeeps
    <3>5. \/ SettingUp(r) \/ Invoke(r) \/ Ready(r) \/ NoPort(r) \/ TimesOut(r)
          \/ ComesUp(r) \/ Exits(r) \/ Interrupt(r) \/ Kill(r)
      BY <3>1 DEF Proceed, UseLocal, Download, Downloaded, Wipe, UnpackMain, Unpacked,
         UnpackFails, Unpacking, Reuse, Prepare, MakeVenv, Install, SkipInstall, InstallFails,
         InstallFailed, Launch, LaunchFails, DownloadFails, InterruptSetUp, SettingUp, At,
         SetUp
    <3>6. QED
      BY <3>1, <3>2, <3>3, <3>4, <3>5
  <2>5. QED
    BY <2>3, <2>4
<1>3. ASSUME Sound, UNCHANGED vars PROVE Sound'
  BY <1>3 DEF Sound, Clean, CleanSound, Silent, Alone, Rest, Complete, StageSound, At,
     SettingUp, vars
<1>4. QED
  BY <1>1, <1>2, <1>3, TypedInvariant, PTL DEF Spec

\* For any number of invocations: as long as none was cut short while installing and no
\* two set up together, a backend is started from whole sources and all its packages.
THEOREM BackendsAreWhole == Spec => []LaunchedWhole
<1>1. Sound => LaunchedWhole
  BY DEF Sound, Clean, CleanSound, Silent, Complete, LaunchedWhole
<1>2. QED
  BY <1>1, SoundInvariant, PTL

-----------------------------------------------------------------------------
(* What other runs do to the files of a backend that is running.             *)

Intact == tree.part = "whole" /\ venv = "installed"
Kept == \A r \in Runs : backend[r].state # "none" /\ backend[r].whole => Intact

\* The run that fetches sources does so because it found none.
Fetching(r) ==
  /\ run[r].pc \in {"download", "wipe"} => ~Found
  /\ At(r, "unpack") => tree.part # "whole"

FilesSound ==
  /\ layout = "nested" => Silent
  /\ ~overlapped => Alone /\ Kept /\ (\A r \in Runs : Fetching(r))

\* A step of the only run that sets up, in which it gets to pc.
LEMMA AloneStep ==
  ASSUME Typed, Alone, NEW r \in Runs, SettingUp(r),
         NEW pc \in SetUp \cup {"wait", "over"}, Goes(r, pc) \/ (UNCHANGED run /\ At(r, pc)),
         pc \in {"download", "wipe"} => ~Found',
         pc = "unpack" => tree'.part # "whole"
  PROVE  Alone' /\ \A q \in Runs : Fetching(q)'
<1>0. run \in [Runs -> RunRow]
  BY DEF Typed
<1>1. /\ run'[r].pc = pc
      /\ \A q \in Runs \ {r} : run'[q].pc = run[q].pc /\ run[q].pc \notin SetUp
  BY <1>0 DEF Goes, At, RunRow, Alone, SettingUp
<1>2. Alone'
  BY <1>1 DEF Alone, SettingUp
<1>3. ASSUME NEW q \in Runs PROVE Fetching(q)'
  BY <1>1 DEF Fetching, At, SetUp
<1>4. QED
  BY <1>2, <1>3

\* Nothing that a setting-up run does spoils what is intact, and it launches what it found.
LEMMA FilesStep ==
  ASSUME Typed, FilesSound, ~overlapped, NEW r \in Runs, SettingUp(r),
         Proceed(r) \/ DownloadFails(r) \/ InterruptSetUp(r)
  PROVE  Alone' /\ Kept' /\ \A q \in Runs : Fetching(q)'
<1>0. run \in [Runs -> RunRow] /\ backend \in [Runs -> BackendRow] /\ tree \in TreeRow
  BY DEF Typed
<1>1. Alone /\ Kept /\ Fetching(r) /\ (layout = "nested" => Silent)
  BY DEF FilesSound
<1>2. UNCHANGED backend /\ (Intact => Intact') => Kept'
  BY <1>1 DEF Kept
<1>3. UNCHANGED backend /\ (layout = "nested" \/ ~Intact) => Kept'
  BY <1>1 DEF Kept, Silent
<1>4. Over(r) => Goes(r, "over") /\ UNCHANGED <<layout, backend>>
  BY DEF Over
<1> USE AloneStep DEF Moves, At, SetUp
<1>5. CASE UseLocal(r) \/ Reuse(r) \/ Prepare(r) \/ SkipInstall(r)
  BY <1>1, <1>2, <1>5 DEF UseLocal, Reuse, Prepare, SkipInstall, disk, Intact
<1>6. CASE Download(r) \/ Downloaded(r)
  BY <1>1, <1>2, <1>6 DEF Download, Downloaded, Fetching, Found, Intact
<1>7. CASE Wipe(r)
  <2>1. layout = "nested" \/ ~Intact
    BY <1>1, <1>7 DEF Wipe, Fetching, Found, Intact
  <2>2. QED
    BY <1>1, <1>3, <1>7, <2>1 DEF Wipe, Wiped
<1>8. CASE UnpackMain(r)
  BY <1>0, <1>1, <1>3, <1>8 DEF UnpackMain, Unpacking, Intact, TreeRow
<1>9. CASE Unpacked(r)
  BY <1>0, <1>1, <1>3, <1>9 DEF Unpacked, Unpacking, Intact, TreeRow
<1>10. CASE MakeVenv(r) \/ Install(r)
  BY <1>1, <1>2, <1>10 DEF MakeVenv, Made, Install, Intact
<1>11. CASE Launch(r)
  <2>1. Kept'
    BY <1>0, <1>1, <1>11 DEF Launch, Kept, Intact, disk, BackendRow
  <2>2. Goes(r, "wait") /\ UNCHANGED disk
    BY <1>11 DEF Launch
  <2>3. QED
    BY <1>1, <2>1, <2>2
<1>12. CASE UnpackFails(r) \/ InstallFails(r) \/ LaunchFails(r) \/ DownloadFails(r)
  <2>1. Over(r) /\ UNCHANGED <<tree, venv>>
    BY <1>12 DEF UnpackFails, InstallFails, InstallFailed, LaunchFails,
       DownloadFails, disk
  <2>2. QED
    BY <1>1, <1>2, <1>4, <2>1 DEF Intact
<1>13. CASE InterruptSetUp(r)
  BY <1>1, <1>2, <1>4, <1>13 DEF InterruptSetUp, Intact
<1>14. ~(Ready(r) \/ NoPort(r) \/ TimesOut(r))
  BY DEF Ready, NoPort, TimesOut, WaitOver, SettingUp
<1>15. QED
  BY <1>5, <1>6, <1>7, <1>8, <1>9, <1>10, <1>11, <1>12, <1>13, <1>14 DEF Proceed

\* A backend that exits or is stopped needs its files no more; the disk stays as it is.
LEMMA FilesLater ==
  ASSUME Typed, FilesSound, ~overlapped, NEW r \in Runs,
         Ready(r) \/ NoPort(r) \/ TimesOut(r) \/ ComesUp(r) \/ Exits(r)
           \/ Interrupt(r) \/ Kill(r)
  PROVE  Alone' /\ Kept' /\ \A q \in Runs : Fetching(q)'
<1>0. run \in [Runs -> RunRow] /\ backend \in [Runs -> BackendRow]
  BY DEF Typed
<1>1. /\ UNCHANGED <<layout, tree, venv>>
      /\ \A q \in Runs : /\ run'[q].pc \in SetUp => run'[q].pc = run[q].pc
                         /\ run[q].pc \in SetUp => run'[q].pc = run[q].pc
      /\ \A q \in Runs : /\ backend'[q].whole = backend[q].whole
                         /\ backend'[q].state # "none" => backend[q].state # "none"
  <2>1. CASE Ready(r) \/ NoPort(r) \/ TimesOut(r) \/ Kill(r)
    BY <1>0, <2>1 DEF Ready, NoPort, TimesOut, WaitOver, Kill, Leaves, Goes, At, disk, SetUp,
       RunRow
  <2>2. CASE ComesUp(r) \/ Exits(r)
    BY <1>0, <2>2 DEF ComesUp, Exits, disk, BackendRow
  <2>3. CASE Interrupt(r)
    BY <1>0, <2>3 DEF Interrupt, Stopped, Goes, At, disk, SetUp, RunRow, BackendRow
  <2>4. QED
    BY <2>1, <2>2, <2>3
<1>2. Alone'
  BY <1>1 DEF FilesSound, Alone, SettingUp
<1>3. Kept'
  BY <1>1 DEF FilesSound, Kept, Intact
<1>4. \A q \in Runs : Fetching(q)'
  BY <1>1 DEF FilesSound, Fetching, Found, At, SetUp
<1>5. QED
  BY <1>2, <1>3, <1>4

LEMMA FilesInvariant == Spec => []FilesSound
<1>1. Init => FilesSound
  <2>1. ASSUME Init, NEW r \in Runs PROVE run[r].pc = "new" /\ backend[r].state = "none"
    BY <2>1 DEF Init
  <2>2. QED
    BY <2>1 DEF FilesSound, Silent, Alone, Kept, Fetching, At, SettingUp, SetUp
<1>2. ASSUME Typed, FilesSound, Next PROVE FilesSound'
  <2>1. PICK r \in Runs :
          Invoke(r) \/ Proceed(r) \/ DownloadFails(r) \/ ComesUp(r) \/ Exits(r)
            \/ InterruptSetUp(r) \/ Interrupt(r) \/ Kill(r)
    BY <1>2 DEF Next
  <2>2. layout' = "nested" => Silent'
    BY <1>2, <2>1, RunTypes, NestedStays DEF FilesSound
  <2>3. CASE Invoke(r)
    <3>0. run \in [Runs -> RunRow]
      BY <1>2 DEF Typed
    <3>1. SUFFICES ASSUME ~overlapped'
                   PROVE  Alone' /\ Kept' /\ \A q \in Runs : Fetching(q)'
      BY <2>2 DEF FilesSound
    <3>2. ~overlapped /\ \A q \in Runs : run[q].pc \notin SetUp
      BY <2>3, <3>1 DEF Invoke, SettingUp
    <3>3. /\ run'[r].pc = "source" /\ UNCHANGED <<layout, tree, venv, backend>>
          /\ \A q \in Runs \ {r} : run'[q].pc = run[q].pc
      BY <2>3, <3>0 DEF Invoke, Goes, disk, RunRow
    <3>4. Alone'
      BY <3>2, <3>3 DEF Alone, SettingUp
    <3>5. Kept'
      BY <1>2, <3>2, <3>3 DEF FilesSound, Kept, Intact
    <3>6. ASSUME NEW q \in Runs PROVE Fetching(q)'
      BY <3>2, <3>3, <3>6 DEF Fetching, At, SetUp
    <3>7. QED
      BY <3>4, <3>5, <3>6
  <2>4. CASE ~Invoke(r)
    <3>1. UNCHANGED overlapped
      BY <2>1, <2>4 DEF Proceed, UseLocal, Download, Downloaded, Wipe, UnpackMain, Unpacked,
         UnpackFails, Reuse, Prepare, MakeVenv, Install, SkipInstall, InstallFails,
         InstallFailed, Launch, LaunchFails, Ready, NoPort, TimesOut, Leaves, Moves,
         DownloadFails, ComesUp, Exits, InterruptSetUp, Interrupt, Kill, Over, history
    <3>2. \/ SettingUp(r) /\ (Proceed(r) \/ DownloadFails(r) \/ InterruptSetUp(r))
          \/ Ready(r) \/ NoPort(r) \/ TimesOut(r) \/ ComesUp(r) \/ Exits(r)
          \/ Interrupt(r) \/ Kill(r)
      BY <2>1, <2>4 DEF Proceed, UseLocal, Download, Downloaded, Wipe, UnpackMain, Unpacked,
         UnpackFails, Unpacking, Reuse, Prepare, MakeVenv, Install, SkipInstall, InstallFails,
         InstallFailed, Launch, LaunchFails, DownloadFails, InterruptSetUp,
         SettingUp, At, SetUp
    <3>3. QED
      BY <1>2, <2>2, <3>1, <3>2, FilesStep, FilesLater DEF FilesSound
  <2>5. QED
    BY <2>3, <2>4
<1>3. ASSUME FilesSound, UNCHANGED vars PROVE FilesSound'
  BY <1>3 DEF FilesSound, Silent, Alone, Kept, Intact, Fetching, Found, At, SettingUp, vars
<1>4. QED
  BY <1>1, <1>2, <1>3, TypedInvariant, PTL DEF Spec

\* For any number of invocations, interrupted and killed anywhere: as long as no two set
\* up beside each other, none of them takes its sources or packages from a backend that
\* was started from a whole installation and is still running.
THEOREM FilesAreKept == Spec => []BackendKeepsItsFiles
<1>1. FilesSound => BackendKeepsItsFiles
  BY DEF FilesSound, Kept, Intact, BackendKeepsItsFiles
<1>2. QED
  BY <1>1, FilesInvariant, PTL
=============================================================================
