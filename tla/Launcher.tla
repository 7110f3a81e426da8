------------------------------- MODULE Launcher -------------------------------
(* Starting from a source checkout (main.py, startup.py, runtime.py): the lock   *)
(* of the checkout, an update and its hand-over, the preparation of the Python   *)
(* environment and of the interface, and the server.                             *)
(*                                                                               *)
(* The folders that preparation manages are Nothing, a part of something (an     *)
(* interrupted copy or removal) or whole; what is whole has the version of the   *)
(* sources it was made from.                                                     *)
EXTENDS Naturals

CONSTANTS Launchers, MaxEdits, MaxStarts, MaxKills

VARIABLES
    version,                 \* the sources of the checkout
    venv, packages, python,  \* .venv, what pip installed in it, and its receipt
    modules, npm,            \* web/node_modules and its receipt
    dist, previous, stage,   \* the interface in use, the one before, the next
    prepared,                \* frontend.json: the inputs and the outputs
    run,                     \* the coordinators (and, after --update, their child)
    runlock,                 \* who holds run.lock
    orphaned,                \* a coordinator was killed while its child went on (history)
    built,                   \* there has been an interface (history)
    starts, kills

checkout == version
environment == <<venv, packages, python>>
tools == <<modules, npm>>
folders == <<dist, previous, stage, prepared>>
lvars == <<checkout, environment, tools, folders, run, runlock, orphaned, built, starts, kills>>

Nothing == 0
Part == 1
Whole(v) == v + 2
IsWhole(x) == x >= 2
NoHolder == "free"
Stopped == [pc |-> "stopped", update |-> FALSE, inputs |-> 0]

\* A launcher is none that holds nothing.
ASSUME LauncherConstants == NoHolder \notin Launchers

\* A checkout as cloned, or one that was started before.
LInit ==
    /\ version = 0
    /\ \E first \in BOOLEAN :
          LET made == IF first THEN Nothing ELSE Whole(0) IN
          /\ venv = made /\ packages = made /\ python = made
          /\ modules = made /\ npm = made
          /\ dist = made /\ prepared = [inputs |-> made, outputs |-> made]
          /\ built = ~first
    /\ previous = Nothing /\ stage = Nothing
    /\ run = [p \in Launchers |-> Stopped]
    /\ runlock = NoHolder /\ orphaned = FALSE /\ starts = 0 /\ kills = 0

LauncherAt(p, pc) == run[p].pc = pc /\ UNCHANGED <<starts, kills, orphaned>>
Proceed(p, pc) == run' = [run EXCEPT ![p].pc = pc]
LockWithout(p) == IF runlock = p THEN NoHolder ELSE runlock
Exits(p) == run' = [run EXCEPT ![p] = Stopped] /\ runlock' = LockWithout(p)
Keeps == UNCHANGED <<checkout, runlock>>

----------------------------------------------------------------------------
(* run_source                                                              *)

Start(p, update) ==
    /\ run[p].pc = "stopped" /\ runlock = NoHolder
    /\ starts < MaxStarts /\ starts' = starts + 1
    /\ runlock' = p
    /\ run' = [run EXCEPT ![p] = [Stopped EXCEPT !.pc = IF update THEN "pull" ELSE "python",
                                                 !.update = update]]
    /\ UNCHANGED <<checkout, environment, tools, folders, orphaned, built, kills>>

\* The update is a fast-forward; freshly imported code goes on under the same lock.
Pull(p) ==
    /\ LauncherAt(p, "pull") /\ version < MaxEdits
    /\ version' = version + 1
    /\ Proceed(p, "python")
    /\ UNCHANGED <<environment, tools, folders, runlock, built>>

\* An error, a missing tool, Ctrl+C or a signal: the child is stopped first.
StopStart(p) ==
    /\ run[p].pc # "stopped" /\ UNCHANGED <<starts, kills, orphaned>>
    /\ Exits(p)
    /\ UNCHANGED <<checkout, environment, tools, folders, built>>

\* The machine stops.
Die ==
    /\ \E p \in Launchers : run[p].pc # "stopped"
    /\ run' = [p \in Launchers |-> Stopped] /\ runlock' = NoHolder
    /\ UNCHANGED <<checkout, environment, tools, folders, orphaned, built, starts, kills>>

\* Only the coordinator is killed; the lock was its own, its child is not.
Kill(p) ==
    /\ run[p].pc # "stopped" /\ (run[p].update \/ run[p].pc = "serve") /\ runlock = p
    /\ kills < MaxKills /\ kills' = kills + 1
    /\ runlock' = NoHolder /\ orphaned' = TRUE
    /\ UNCHANGED <<checkout, environment, tools, folders, run, built, starts>>

EditSources ==
    /\ version < MaxEdits /\ version' = version + 1
    /\ UNCHANGED <<environment, tools, folders, run, runlock, orphaned, built, starts, kills>>

----------------------------------------------------------------------------
(* prepare_python                                                          *)

Key == Whole(version)

\* A folder that holds no interpreter is refused until the user moves it aside.
MakeVenv(p) ==
    /\ LauncherAt(p, "python") /\ venv = Nothing
    /\ venv' = Part /\ Proceed(p, "venv")
    /\ UNCHANGED <<packages, python, tools, folders, built>> /\ Keeps

VenvMade(p) ==
    /\ LauncherAt(p, "venv")
    /\ venv' = Whole(0) /\ Proceed(p, "python")
    /\ UNCHANGED <<packages, python, tools, folders, built>> /\ Keeps

MoveAside ==
    /\ venv = Part /\ \A p \in Launchers : run[p].pc = "stopped"
    /\ venv' = Nothing /\ packages' = Nothing
    /\ UNCHANGED <<checkout, python, tools, folders, run, runlock, orphaned, built, starts, kills>>

Healthy == python = Key /\ IsWhole(packages)

CheckPython(p) ==
    /\ LauncherAt(p, "python") /\ IsWhole(venv)
    /\ IF Healthy THEN Proceed(p, "frontend") /\ UNCHANGED packages
       ELSE run' = [run EXCEPT ![p].pc = "install", ![p].inputs = Key] /\ packages' = Part
    /\ UNCHANGED <<venv, python, tools, folders, built>> /\ Keeps

Installed(p) ==
    /\ LauncherAt(p, "install")
    /\ packages' = Key /\ python' = run[p].inputs
    /\ Proceed(p, "frontend")
    /\ UNCHANGED <<venv, tools, folders, built>> /\ Keeps

----------------------------------------------------------------------------
(* prepare_frontend                                                        *)

Inventory(folder) == IF IsWhole(folder) THEN folder ELSE Nothing

\* An interruption between the renames is made good first.
\* Mutant: it is not.
NotRecovered == dist
Recovered == IF previous # Nothing /\ dist = Nothing THEN previous ELSE dist

Frontend(p) ==
    /\ LauncherAt(p, "frontend")
    /\ dist' = Recovered
    /\ previous' = IF dist' # dist THEN Nothing ELSE previous
    /\ run' = [run EXCEPT ![p].pc = "compare", ![p].inputs = Key]
    /\ UNCHANGED <<environment, tools, stage, prepared, built>> /\ Keeps

Compare(p) ==
    /\ LauncherAt(p, "compare")
    /\ Proceed(p, IF Inventory(dist) # Nothing /\ prepared = [inputs |-> run[p].inputs, outputs |-> dist]
               THEN "ready" ELSE "modules")
    /\ UNCHANGED <<environment, tools, folders, built>> /\ Keeps

Modules(p) ==
    /\ LauncherAt(p, "modules")
    /\ IF IsWhole(modules) /\ npm = Key THEN Proceed(p, "clear") /\ UNCHANGED modules
       ELSE Proceed(p, "npm") /\ modules' = Part
    /\ UNCHANGED <<environment, npm, folders, built>> /\ Keeps

NpmDone(p) ==
    /\ LauncherAt(p, "npm")
    /\ modules' = Key /\ npm' = Key
    /\ Proceed(p, "clear")
    /\ UNCHANGED <<environment, folders, built>> /\ Keeps

ClearStage(p) ==
    /\ LauncherAt(p, "clear")
    /\ stage' = Part /\ Proceed(p, "build")
    /\ UNCHANGED <<environment, tools, dist, previous, prepared, built>> /\ Keeps

Build(p) ==
    /\ LauncherAt(p, "build")
    /\ stage' = Key /\ Proceed(p, "verify")
    /\ UNCHANGED <<environment, tools, dist, previous, prepared, built>> /\ Keeps

VerifyStage(p) ==
    /\ LauncherAt(p, "verify") /\ IsWhole(stage) /\ Key = run[p].inputs
    /\ previous' = IF previous = Nothing THEN Nothing ELSE Part
    /\ Proceed(p, "aside")
    /\ UNCHANGED <<environment, tools, dist, stage, prepared, built>> /\ Keeps

\* The old interface is renamed once the one before it is gone.
Aside(p) ==
    /\ LauncherAt(p, "aside")
    /\ previous' = dist /\ dist' = Nothing
    /\ Proceed(p, "publish")
    /\ UNCHANGED <<environment, tools, stage, prepared, built>> /\ Keeps

Publish(p) ==
    /\ LauncherAt(p, "publish") /\ dist = Nothing
    /\ dist' = stage /\ stage' = Nothing /\ built' = TRUE
    /\ Proceed(p, "receipt")
    /\ UNCHANGED <<environment, tools, previous, prepared>> /\ Keeps

PublishFails(p) ==
    /\ LauncherAt(p, "publish")
    /\ IF previous # Nothing /\ dist = Nothing THEN dist' = previous /\ previous' = Nothing
       ELSE UNCHANGED <<dist, previous>>
    /\ Exits(p)
    /\ UNCHANGED <<checkout, environment, tools, stage, prepared, built>>

WriteReceipt(p) ==
    /\ LauncherAt(p, "receipt")
    /\ prepared' = [inputs |-> run[p].inputs, outputs |-> dist]
    /\ previous' = IF previous = Nothing THEN Nothing ELSE Part
    /\ Proceed(p, "discard")
    /\ UNCHANGED <<environment, tools, dist, stage, built>> /\ Keeps

Discard(p) ==
    /\ LauncherAt(p, "discard")
    /\ previous' = Nothing /\ Proceed(p, "ready")
    /\ UNCHANGED <<environment, tools, dist, stage, prepared, built>> /\ Keeps

\* The server binds the port itself; a second one is refused.
Serve(p) ==
    /\ LauncherAt(p, "ready") /\ \A q \in Launchers : run[q].pc # "serve"
    /\ Proceed(p, "serve")
    /\ UNCHANGED <<environment, tools, folders, built>> /\ Keeps

LNext ==
    \/ \E p \in Launchers :
          \/ \E update \in BOOLEAN : Start(p, update)
          \/ Pull(p) \/ StopStart(p) \/ Kill(p)
          \/ MakeVenv(p) \/ VenvMade(p) \/ CheckPython(p) \/ Installed(p)
          \/ Frontend(p) \/ Compare(p) \/ Modules(p) \/ NpmDone(p) \/ ClearStage(p) \/ Build(p)
          \/ VerifyStage(p) \/ Aside(p) \/ Publish(p) \/ PublishFails(p) \/ WriteReceipt(p) \/ Discard(p)
          \/ Serve(p)
    \/ EditSources \/ Die \/ MoveAside

LSpec == LInit /\ [][LNext]_lvars

----------------------------------------------------------------------------
(* Properties                                                              *)

\* Wherever a start is interrupted, killed or refused, a whole interface is left
\* once there was one, in web/dist or beside it, and a server that runs has whole
\* packages and the whole interface that the receipt describes; as long as no
\* coordinator was killed alone, whose child then prepares without the lock.
ABuildSurvives ==
    ~orphaned =>
        /\ built => IsWhole(dist) \/ IsWhole(previous)
        /\ \A p \in Launchers : run[p].pc = "serve" =>
              IsWhole(packages) /\ IsWhole(dist) /\ prepared.outputs = dist
=============================================================================
