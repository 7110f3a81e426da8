------------------------------- MODULE Schema -------------------------------
(***************************************************************************)
(* Opening a case database (server/db.py): connect brings an older or an   *)
(* unfinished file to the current schema while other connections do the    *)
(* same, engines hold the write lock and the process may die.              *)
(*                                                                         *)
(* _upgrade is no transaction: its scripts and ALTERs commit statement by  *)
(* statement, and only what lies between two scripts commits as one, which *)
(* is what an action here is; what it reads before the first write of such *)
(* a transaction is an action of its own.  The corrections it makes are    *)
(* represented by one row each: a finding without an engine, an old hunt   *)
(* run, an object, the source of a hash and a CMS installation.            *)
(***************************************************************************)
EXTENDS Naturals, Sequences

CONSTANTS Connections, MaxDeaths, MaxHolds, MaxVerdicts

Current == 24
Tables == <<"findings", "hunt_tests", "file_scan_results">>   \* the script of db.py, in its order
IocTables == {"ioc_observations", "ioc_assessments"}          \* the script of ioc/model.py
Sentinels == {"hunt_tests", "file_scan_results"} \cup IocTables
Columns == {"engine", "run_id"}

VARIABLES
    disk,       \* what is committed in case.db
    conn,       \* the connections: where connect is and what it has read
    held,       \* an engine holds the write lock for longer than busy_timeout
    said,       \* the assessment the analyst gave last (history)
    withdrawn,  \* when the analyst withdrew the source of the hash last (history)
    deaths, holds, verdicts

svars == <<disk, conn, held, said, withdrawn, deaths, holds, verdicts>>

None == "none"
\* file: what is to be registered; import: whether the software is to be imported.
Closed == [pc |-> "closed", have |-> {}, previous |-> 0, fresh |-> FALSE,
           file |-> None, import |-> FALSE]

\* Files connect may find: none (nothing to correct either), one of schema 7 or
\* 20, and one whose marker is current although its last tables are missing.
Fresh == [version |-> 0, tables |-> {}, columns |-> {}, trigger |-> FALSE, owner |-> "webshell",
          audits |-> 1, identity |-> FALSE, assessment |-> "malicious",
          source |-> TRUE, file |-> "active", imports |-> 1]
Schema7 == [Fresh EXCEPT !.version = 7, !.tables = {"findings"}, !.owner = "", !.audits = 0,
                         !.assessment = "unassessed", !.file = None, !.imports = 0]
Schema20 == [Schema7 EXCEPT !.version = 20,
                            !.tables = {"findings", "hunt_tests", "file_scan_results"} \cup IocTables,
                            !.columns = Columns, !.trigger = TRUE, !.owner = "webshell", !.audits = 1,
                            !.identity = TRUE, !.assessment = "malicious", !.file = "active"]
Marked == [Schema20 EXCEPT !.version = Current, !.tables = {"findings", "hunt_tests"}, !.imports = 1]

SInit ==
    /\ disk \in {Fresh, Schema7, Schema20, Marked}
    /\ conn = [c \in Connections |-> Closed]
    /\ held = FALSE /\ said = None /\ withdrawn = "never"
    /\ deaths = 0 /\ holds = 0 /\ verdicts = 0

----------------------------------------------------------------------------
(* connect                                                                 *)

HasCurrentSchema == disk.version = Current /\ Sentinels \subseteq disk.tables
IsFresh == "findings" \notin disk.tables

ConnAt(c, pc) == conn[c].pc = pc
ConnGoto(c, pc) == conn' = [conn EXCEPT ![c].pc = pc]
Quiet == UNCHANGED <<said, withdrawn, deaths, holds, verdicts>>
Writes(c, pc) == ConnAt(c, pc) /\ ~held /\ UNCHANGED held /\ Quiet

\* The usual way is read-only.
Connect(c) ==
    /\ ConnAt(c, "closed")
    /\ IF HasCurrentSchema THEN ConnGoto(c, "open")
       ELSE conn' = [conn EXCEPT ![c] =
                [Closed EXCEPT !.pc = "script", !.previous = disk.version, !.fresh = IsFresh]]
    /\ UNCHANGED <<disk, held>> /\ Quiet

\* A failing upgrade is left to the next attempt, except on a file without tables.
GivesUp(c) ==
    conn' = [conn EXCEPT ![c] = [Closed EXCEPT !.pc = IF conn[c].fresh THEN "closed" ELSE "open"]]

Busy(c) ==
    /\ held /\ conn[c].pc \notin {"closed", "open"}
    /\ GivesUp(c) /\ UNCHANGED <<disk, held>> /\ Quiet

\* The next table of the script that is missing; a new findings table has its columns.
Missing == {i \in DOMAIN Tables : Tables[i] \notin disk.tables}
CreateTable(c) ==
    /\ Writes(c, "script")
    /\ \E i \in Missing :
          /\ \A j \in Missing : i <= j
          /\ disk' = [disk EXCEPT !.tables = @ \cup {Tables[i]},
                                  !.columns = IF Tables[i] = "findings" THEN Columns ELSE @]
    /\ UNCHANGED conn

ReadColumns(c) ==
    /\ ConnAt(c, "script") /\ Missing = {}
    /\ conn' = [conn EXCEPT ![c].pc = "columns", ![c].have = disk.columns]
    /\ UNCHANGED <<disk, held>> /\ Quiet

\* ALTER of a column that another connection added meanwhile is an error.
AddColumn(c) ==
    /\ Writes(c, "columns")
    /\ \E column \in Columns \ conn[c].have :
          IF column \in disk.columns THEN GivesUp(c) /\ UNCHANGED disk
          ELSE /\ disk' = [disk EXCEPT !.columns = @ \cup {column}]
               /\ conn' = [conn EXCEPT ![c].have = @ \cup {column}]

\* Mutant: every attempt copies the old hunt runs again.
CopiesAgain(c) == IF conn[c].previous < 10 THEN disk.audits + 1 ELSE disk.audits
Audits(c) == IF conn[c].previous < 10 /\ disk.audits = 0 THEN 1 ELSE disk.audits

\* From the re-grading of findings to the script of the indicators: one transaction.
Correct(c) ==
    /\ Writes(c, "columns") /\ conn[c].have = Columns
    /\ disk' = [disk EXCEPT !.owner = "webshell", !.audits = Audits(c), !.identity = TRUE]
    /\ ConnGoto(c, "ioc_script")

IocScript(c) ==
    /\ Writes(c, "ioc_script")
    /\ disk' = [disk EXCEPT !.tables = @ \cup IocTables]
    /\ ConnGoto(c, "default")

\* Defaults change once; an assessment of the analyst is authoritative.
\* Mutant: the default is given to whatever reads unassessed.
DefaultedAll == IF disk.assessment = "unassessed" THEN "malicious" ELSE disk.assessment
Defaulted == IF disk.assessment = "unassessed" /\ said = None THEN "malicious" ELSE disk.assessment

Default(c) ==
    /\ Writes(c, "default")
    /\ disk' = [disk EXCEPT !.assessment = Defaulted]
    /\ ConnGoto(c, "drop")

DropTrigger(c) ==
    /\ Writes(c, "drop")
    /\ disk' = [disk EXCEPT !.trigger = FALSE]
    /\ ConnGoto(c, "create")

CreateTrigger(c) ==
    /\ Writes(c, "create")
    /\ IF disk.trigger THEN GivesUp(c) /\ UNCHANGED disk
       ELSE disk' = [disk EXCEPT !.trigger = TRUE] /\ ConnGoto(c, "source")

\* The source of an old hash is looked up before anything is locked, and so is
\* whether its file is registered already ...
Unregistered == IF disk.file # None THEN None ELSE IF disk.source THEN "active" ELSE "withdrawn"
ReadSource(c) ==
    /\ ConnAt(c, "source")
    /\ conn' = [conn EXCEPT ![c].pc = "register", ![c].file = Unregistered]
    /\ UNCHANGED <<disk, held>> /\ Quiet

\* ... and then the file gets the state its source had.
Register(c) ==
    /\ Writes(c, "register")
    /\ disk' = [disk EXCEPT !.file = IF conn[c].file = None THEN @ ELSE conn[c].file]
    /\ conn' = [conn EXCEPT ![c].pc = "software", ![c].file = None]

\* The software is imported under a key in meta, if the key is not found; a key
\* that another connection has written since ends the request with an error.
ReadImports(c) ==
    /\ ConnAt(c, "software")
    /\ conn' = [conn EXCEPT ![c].pc = "stamp",
                            ![c].import = conn[c].previous < 21 /\ disk.imports = 0]
    /\ UNCHANGED <<disk, held>> /\ Quiet

\* Then the version is stamped.
Stamp(c) ==
    /\ Writes(c, "stamp")
    /\ IF conn[c].import /\ disk.imports # 0
       THEN conn' = [conn EXCEPT ![c] = Closed] /\ UNCHANGED disk
       ELSE /\ disk' = [disk EXCEPT !.imports = IF conn[c].import THEN @ + 1 ELSE @,
                                    !.version = Current]
            /\ conn' = [conn EXCEPT ![c] = [Closed EXCEPT !.pc = "open"]]

Close(c) ==
    /\ ConnAt(c, "open") /\ conn' = [conn EXCEPT ![c] = Closed]
    /\ UNCHANGED <<disk, held>> /\ Quiet

----------------------------------------------------------------------------
(* The others                                                              *)

Decides(c) == ConnAt(c, "open") /\ ~held /\ verdicts < MaxVerdicts /\ verdicts' = verdicts + 1

Assess(c, s) ==
    /\ Decides(c) /\ IocTables \subseteq disk.tables
    /\ disk' = [disk EXCEPT !.assessment = s] /\ said' = s
    /\ UNCHANGED <<conn, held, withdrawn, deaths, holds>>

\* An upgrade is about to register the file with the state its source had.
AboutToRegister == \E c \in Connections : conn[c].file = "active"

Withdraw(c) ==
    /\ Decides(c)
    /\ disk' = [disk EXCEPT !.source = FALSE, !.file = IF @ = None THEN @ ELSE "withdrawn"]
    /\ withdrawn' = IF AboutToRegister THEN "meanwhile" ELSE "alone"
    /\ UNCHANGED <<conn, held, said, deaths, holds>>

EngineHolds ==
    /\ ~held /\ holds < MaxHolds
    /\ held' = TRUE /\ holds' = holds + 1
    /\ UNCHANGED <<disk, conn, said, withdrawn, deaths, verdicts>>

EngineReleases ==
    /\ held /\ held' = FALSE
    /\ UNCHANGED <<disk, conn, said, withdrawn, deaths, holds, verdicts>>

\* The process dies; what was not committed is gone.
SCrash ==
    /\ deaths < MaxDeaths /\ deaths' = deaths + 1
    /\ conn' = [c \in Connections |-> Closed] /\ held' = FALSE
    /\ UNCHANGED <<disk, said, withdrawn, holds, verdicts>>

SNext ==
    \/ \E c \in Connections :
          \/ Connect(c) \/ Busy(c) \/ CreateTable(c) \/ ReadColumns(c) \/ AddColumn(c)
          \/ Correct(c) \/ IocScript(c) \/ Default(c) \/ DropTrigger(c) \/ CreateTrigger(c)
          \/ ReadSource(c) \/ Register(c) \/ ReadImports(c) \/ Stamp(c) \/ Close(c) \/ Withdraw(c)
          \/ \E s \in {"benign", "unassessed"} : Assess(c, s)
    \/ EngineHolds \/ EngineReleases \/ SCrash

SSpec == SInit /\ [][SNext]_svars

----------------------------------------------------------------------------
(* Properties                                                              *)

\* A file that connect takes for current has every correction exactly once,
\* whoever stamped it, however often and by however many connections at a time
\* the upgrade was begun, given up and repeated.
CurrentMeansCorrected ==
    HasCurrentSchema =>
        /\ Columns = disk.columns /\ "findings" \in disk.tables /\ disk.identity
        /\ disk.owner = "webshell"
        /\ disk.audits = 1 /\ disk.imports = 1
        /\ disk.assessment = "unassessed" => said = "unassessed"
        /\ disk.file # None

\* No upgrade takes back what the analyst decided before or during it, with one
\* exception: a withdrawal between the look at the source and its registration.
UpgradesKeepDecisions ==
    /\ said # None => disk.assessment = said
    /\ withdrawn = "alone" => disk.file # "active"
=============================================================================
