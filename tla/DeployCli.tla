------------------------------ MODULE DeployCli ------------------------------
(***************************************************************************)
(* The command line that installs and starts the platform (deploy-cli).    *)
(* Every member of Runs is one invocation of "web" or "backend"; they share *)
(* the disk (tarball, source tree, .venv) and the backend's port. A run is *)
(* interrupted from the terminal or killed wherever it is, and what it had *)
(* put on the disk is what the next one finds.                             *)
(***************************************************************************)
EXTENDS Naturals, FiniteSets

CONSTANTS
  Runs,      \* invocations
  None,
  MaxFaults  \* bound: interrupts, kills and failing tools

ASSUME NoneIsNoRun == None \notin Runs
ASSUME FaultsInNat == MaxFaults \in Nat

VARIABLES
  layout,    \* where the sources are: this repository, an archive of a backend alone, or
             \* an archive of this repository, with its backend in backend/
  tarball,   \* backend.tar.gz: "none", "whole", or the run that is writing it
  tree,      \* the source tree: how much of it is there and who unpacked it
  venv,      \* .venv: "none", "python" (no packages), "installed"
  run,       \* how far each invocation is, and its command
  backend,   \* the backend process it started
  cut,       \* history: runs that ended while they were setting up
  overlapped,\* history: two runs were setting up at the same time
  faults     \* faults so far

disk == <<tarball, tree, venv>>
history == <<cut, overlapped>>
vars == <<layout, tarball, tree, venv, run, backend, cut, overlapped, faults>>

Installing == {"unpack", "venv", "pip"}
SetUp == {"source", "download", "wipe", "unpack", "env", "venv", "pip", "launch"}
Commands == {"web", "backend"}

TypeOK ==
  /\ layout \in {"repo", "flat", "nested"}
  /\ tarball \in {"none", "whole"} \cup Runs
  /\ tree \in [part : {"none", "some", "main", "whole"}, by : Runs \cup {None}]
  /\ venv \in {"none", "python", "installed"}
  /\ run \in [Runs -> [pc : SetUp \cup {"new", "wait", "ready", "over"},
                       command : Commands, force : BOOLEAN]]
  /\ backend \in [Runs -> [state : {"none", "starting", "up"}, whole : BOOLEAN]]
  /\ cut \subseteq Runs
  /\ overlapped \in BOOLEAN /\ faults \in 0..MaxFaults

Init ==
  /\ layout \in {"repo", "flat", "nested"}
  /\ tarball = "none" /\ venv = "none"
  /\ tree = [part |-> IF layout = "repo" THEN "whole" ELSE "none", by |-> None]
  /\ run \in [Runs -> [pc : {"new"}, command : Commands, force : BOOLEAN]]
  /\ \A r \in Runs : run[r].force => run[r].command = "web"   \* --install-deps
  /\ backend = [r \in Runs |-> [state |-> "none", whole |-> FALSE]]
  /\ cut = {} /\ overlapped = FALSE /\ faults = 0

-----------------------------------------------------------------------------
At(r, pc) == run[r].pc = pc
Others(r) == Runs \ {r}
SettingUp(r) == run[r].pc \in SetUp
Up == {r \in Runs : backend[r].state = "up"}

Goes(r, pc) == run' = [run EXCEPT ![r].pc = pc]
Moves(r, pc) == Goes(r, pc) /\ UNCHANGED <<layout, backend, history, faults>>
\* process.exit, or an exception that nothing catches.
Over(r) ==
  /\ Goes(r, "over") /\ UNCHANGED <<layout, backend, overlapped>>
  /\ cut' = IF run[r].pc \in Installing THEN cut \cup {r} ELSE cut
Fault == faults < MaxFaults /\ faults' = faults + 1

Invoke(r) ==
  /\ At(r, "new") /\ Goes(r, "source")
  /\ overlapped' = (overlapped \/ \E q \in Runs : SettingUp(q))
  /\ UNCHANGED <<layout, disk, backend, cut, faults>>

-----------------------------------------------------------------------------
(* ensureBackend.                                                          *)

\* main.py (or app_creation.py) is where findLocalBackend looks for it.
Found == layout # "nested" /\ tree.part \in {"main", "whole"}

UseLocal(r) == At(r, "source") /\ Found /\ Moves(r, "env") /\ UNCHANGED disk

\* createWriteStream truncates what another run may be writing.
Download(r) ==
  /\ At(r, "source") /\ ~Found /\ Moves(r, "download")
  /\ tarball' = r /\ UNCHANGED <<tree, venv>>

Downloaded(r) ==
  /\ At(r, "download") /\ Moves(r, "wipe")
  /\ tarball' = IF tarball = r THEN "whole" ELSE tarball
  /\ UNCHANGED <<tree, venv>>

DownloadFails(r) ==
  /\ At(r, "download") /\ Fault /\ Over(r)
  /\ tarball' = "none" /\ UNCHANGED <<tree, venv>>

\* rm -rf takes the .venv along, which is kept in the same directory.
Wiped(r) == /\ tree' = [part |-> "some", by |-> r]
            /\ venv' = "none"
Wipe(r) == At(r, "wipe") /\ Wiped(r) /\ Moves(r, "unpack") /\ UNCHANGED tarball

\* tar works on while the tree is the one it was started in.
Unpacking(r) == At(r, "unpack") /\ tarball = "whole" /\ tree.by = r

UnpackMain(r) ==
  /\ Unpacking(r) /\ tree.part = "some" /\ tree' = [tree EXCEPT !.part = "main"]
  /\ UNCHANGED <<layout, tarball, venv, run, backend, history, faults>>

Unpacked(r) ==
  /\ Unpacking(r) /\ tree.part = "main" /\ tree' = [tree EXCEPT !.part = "whole"]
  /\ tarball' = "none" /\ Moves(r, "env") /\ UNCHANGED venv

UnpackFails(r) ==
  /\ At(r, "unpack") /\ ~Unpacking(r) /\ Over(r) /\ UNCHANGED <<disk, faults>>

-----------------------------------------------------------------------------
(* bootstrapPython.                                                        *)

NeedsSetup(r) == run[r].force \/ venv = "none"
Reuse(r) == At(r, "env") /\ ~NeedsSetup(r) /\ Moves(r, "launch") /\ UNCHANGED disk
Prepare(r) == At(r, "env") /\ NeedsSetup(r) /\ Moves(r, "venv") /\ UNCHANGED disk

\* python -m venv leaves the packages of an environment that exists.
MadeAnew == "python"
Made == IF venv = "none" THEN "python" ELSE venv
MakeVenv(r) ==
  /\ At(r, "venv") /\ Moves(r, "pip")
  /\ venv' = Made /\ UNCHANGED <<tarball, tree>>

\* Nothing is installed where no requirements.txt is found. Every layout has one where
\* bootstrap.js looks, once it is unpacked: the repository in backend/ and at its root.
HasRequirements == tree.part \in {"main", "whole"}
NoRequirements == tree.part # "whole"
Install(r) ==
  /\ At(r, "pip") /\ HasRequirements /\ venv # "none" /\ Moves(r, "launch")
  /\ venv' = "installed" /\ UNCHANGED <<tarball, tree>>

SkipInstall(r) == At(r, "pip") /\ NoRequirements /\ Moves(r, "launch") /\ UNCHANGED disk

InstallIgnored(r) == At(r, "pip") /\ Fault /\ Goes(r, "launch") /\ UNCHANGED <<layout, backend, history>>
InstallFailed(r) ==
  /\ At(r, "pip") /\ Over(r)
  /\ Fault \/ (venv = "none" /\ UNCHANGED faults)
InstallFails(r) == InstallFailed(r) /\ UNCHANGED disk

-----------------------------------------------------------------------------
(* startBackend, waitForBackend, startFrontend.                            *)

\* Without its sources the start throws; without the python of the .venv the spawn
\* ends the run by an error event that nobody listens to.
Startable == Found /\ venv # "none"
Launch(r) ==
  /\ At(r, "launch") /\ Startable /\ Goes(r, "wait")
  /\ backend' = [backend EXCEPT ![r] = [state |-> "starting",
                   whole |-> tree.part = "whole" /\ venv = "installed"]]
  /\ UNCHANGED <<layout, disk, history, faults>>

LaunchFails(r) == At(r, "launch") /\ ~Startable /\ Over(r) /\ UNCHANGED <<disk, faults>>

\* app_creation.py is preferred to main.py. The repository's imports a module that is
\* not there, so a backend started in the repository ends at its import.
EntryRuns == layout # "repo"

\* A backend comes up if its packages are there and the port is free; a tree that is
\* not whole may do.
ComesUp(r) ==
  /\ backend[r].state = "starting" /\ EntryRuns /\ venv = "installed" /\ Up = {}
  /\ backend' = [backend EXCEPT ![r].state = "up"]
  /\ UNCHANGED <<layout, disk, run, history, faults>>

\* A backend may exit at any time; its run takes note of that only in its log.
Exits(r) ==
  /\ backend[r].state # "none" /\ backend' = [backend EXCEPT ![r].state = "none"]
  /\ UNCHANGED <<layout, disk, run, history, faults>>

\* Any backend that answers on the port will do. "web" then opens its own port,
\* which another run's web server may hold: an error event nobody listens to.
Healthy == Up # {}
PortTaken(r) == run[r].command = "web" /\ \E q \in Others(r) : At(q, "ready") /\ run[q].command = "web"
Ready(r) ==
  /\ At(r, "wait") /\ Healthy /\ ~PortTaken(r) /\ Goes(r, "ready")
  /\ UNCHANGED <<layout, disk, backend, history, faults>>

\* The run ends; the backend it started does not.
Leaves(r) == Goes(r, "over") /\ UNCHANGED <<layout, disk, backend, history>>

NoPort(r) == At(r, "wait") /\ Healthy /\ PortTaken(r) /\ Leaves(r) /\ UNCHANGED faults

WaitedForGood(r) == FALSE
WaitOver(r) == At(r, "wait")   \* 120 s
TimesOut(r) == WaitOver(r) /\ Leaves(r) /\ UNCHANGED faults

-----------------------------------------------------------------------------
(* Ctrl+C reaches the run and its tools; a kill only the run.              *)

Stopped(r) == [backend EXCEPT ![r].state = "none"]

InterruptSetUp(r) ==
  /\ SettingUp(r) /\ Fault /\ Over(r) /\ UNCHANGED <<tarball, tree>>
  /\ venv' = venv \/ (At(r, "venv") /\ venv = "none" /\ venv' = "python")

\* The handlers stop the backend. A run that waits for its backend goes on waiting.
Interrupt(r) ==
  /\ run[r].pc \in {"wait", "ready"} /\ Fault /\ backend' = Stopped(r)
  /\ Goes(r, IF At(r, "ready") THEN "over" ELSE "wait")
  /\ UNCHANGED <<layout, disk, history>>

\* Nothing ties the backend to the run that started it.
Kill(r) == run[r].pc \in {"wait", "ready"} /\ Fault /\ Leaves(r)

Proceed(r) ==
  \/ UseLocal(r) \/ Download(r) \/ Downloaded(r) \/ Wipe(r)
  \/ UnpackMain(r) \/ Unpacked(r) \/ UnpackFails(r)
  \/ Reuse(r) \/ Prepare(r) \/ MakeVenv(r) \/ Install(r) \/ SkipInstall(r) \/ InstallFails(r)
  \/ Launch(r) \/ LaunchFails(r) \/ Ready(r) \/ NoPort(r) \/ TimesOut(r)

Next == \E r \in Runs :
  \/ Invoke(r) \/ Proceed(r) \/ DownloadFails(r)
  \/ ComesUp(r) \/ Exits(r) \/ InterruptSetUp(r) \/ Interrupt(r) \/ Kill(r)

Spec == Init /\ [][Next]_vars

\* Tools end and the network answers; the wait has a limit of its own.
FairSpec == Spec /\ \A r \in Runs : WF_vars(Proceed(r))

-----------------------------------------------------------------------------
(* Properties.                                                             *)

\* A backend is started from a whole tree with its packages installed, unless an
\* earlier run ended while it was unpacking or installing or two were setting up together: what
\* they leave is taken for an installation ever after (findLocalBackend looks for
\* main.py, bootstrapPython for the python of the .venv).
LaunchedWhole ==
  cut = {} /\ ~overlapped => \A r \in Runs : backend[r].state # "none" => backend[r].whole

\* A backend that was started from a whole installation keeps its sources and packages
\* while it runs, whatever other runs do to the disk they share with it: first runs that
\* remove the directory, forced installations, interrupts. Only runs that set up beside
\* each other can take them away.
BackendKeepsItsFiles ==
  \A r \in Runs : backend[r].state # "none" /\ backend[r].whole =>
    overlapped \/ (tree.part = "whole" /\ venv = "installed")

\* Every run gets ready or ends, also one whose backend died at once: nothing watches
\* that process, only the limit of the wait ends it.
EveryRunAnswers == \A r \in Runs : At(r, "source") ~> run[r].pc \in {"ready", "over"}
=============================================================================
