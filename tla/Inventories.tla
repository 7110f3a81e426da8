------------------------------ MODULE Inventories ------------------------------
(* What a case derives from its webroots and database exports: the CMS inventory  *)
(* with the analyst's corrections (cmsinventory.py, software.py) and the dumps    *)
(* with their accounts and their one finding (sqldump.py).  Both engines read the *)
(* disk as it is then, while the analyst works from a page read earlier; rows     *)
(* are named by ids that SQLite hands out again.                                  *)
EXTENDS Naturals, FiniteSets, FiniteSetsExt

CONSTANTS
    Installs,  \* CMS installs in the order they are found in (numbers)
    Exts,      \* extensions in the order they are listed in (numbers)
    Dumps,     \* paths of database exports in their order (numbers)
    MaxTurns

VARIABLES
    webroots,     \* [Installs -> SUBSET Exts]: the extensions in each webroot
    exports,      \* [Dumps -> SUBSET Statements], or Unreadable
    items,        \* cms_items with the root of their install: [id, root, ext]
    software,     \* indicators: <<root, extension or 0 for the install, corrected>>
    corrections,  \* keys with a version set by the analyst
    cms,          \* the inventory job: its open transaction, or NoInventory
    page,         \* the items the analyst's page shows
    looked,       \* the key set_item_version found and has not written yet
    dumps,        \* db_dumps: [id, path]
    accounts,     \* db_accounts: [dump, path (history), admin]
    observed,     \* sql_finding_observations: the dumps the finding was seen in
    finding,      \* the finding: the dumps its evidence names, and its run
    doneRun,      \* the last run of sqldump that saw everything
    sql,          \* the dump job, or NoScan
    turns

ivars == <<webroots, exports, items, software, corrections, cms, page, looked,
           dumps, accounts, observed, finding, doneRun, sql, turns>>
cmsVars == <<items, software, corrections, cms, page, looked>>
sqlVars == <<dumps, accounts, observed, finding, doneRun, sql>>

\* An account, the grant that makes it an administrator, a row a rule matches.
Statements == {"account", "grant", "row"}
Unreadable == {"broken"}
NoInventory == [items |-> {}, todo |-> {}, on |-> FALSE]
NoScan == [todo |-> {}, at |-> 0, read |-> {}, run |-> 0, retires |-> FALSE]
NoKey == <<0, 0>>

InInit ==
    /\ webroots = [r \in Installs |-> Exts]
    /\ exports = [d \in Dumps |-> Statements]
    /\ items = {} /\ software = {} /\ corrections = {} /\ cms = NoInventory
    /\ page = {} /\ looked = NoKey
    /\ dumps = {} /\ accounts = {} /\ observed = {} /\ doneRun = 0
    /\ finding = [names |-> {}, run |-> 0] /\ sql = NoScan /\ turns = 0

Turn == turns < MaxTurns /\ turns' = turns + 1
\* What SQLite gives a new row: one more than the largest id in the table.
NextId(rows) == Max({0} \cup {x.id : x \in rows}) + 1
Least(S) == CHOOSE x \in S : \A y \in S : x <= y

----------------------------------------------------------------------------
(* The evidence                                                            *)

\* The copy of a webroot is replaced.
Replace(r) ==
    /\ Turn
    /\ \E tree \in SUBSET Exts : tree # webroots[r] /\ webroots' = [webroots EXCEPT ![r] = tree]
    /\ UNCHANGED <<exports, cmsVars, sqlVars>>

Reexport(d) ==
    /\ Turn
    /\ \E c \in {Unreadable, Statements, {"account"}, {"row"}} :
        c # exports[d] /\ exports' = [exports EXCEPT ![d] = c]
    /\ UNCHANGED <<webroots, cmsVars, sqlVars>>

----------------------------------------------------------------------------
(* The inventory: one transaction from the deletion to the commit          *)

StartInventory ==
    /\ Turn /\ ~cms.on
    /\ \E targets \in SUBSET Installs \ {{}} : \E authoritative \in BOOLEAN :
        /\ authoritative => targets = Installs
        /\ cms' = [items |-> IF authoritative THEN {} ELSE {i \in items : i.root \notin targets},
                   todo |-> targets, on |-> TRUE]
    /\ UNCHANGED <<webroots, exports, items, software, corrections, page, looked, sqlVars>>

\* Extensions in the order they are listed get ids in that order.
Listed(r, known) ==
    {[id |-> NextId(known) + Cardinality({e \in webroots[r] : e < x}), root |-> r, ext |-> x]
        : x \in webroots[r]}

ListInstall ==
    /\ cms.todo # {}
    /\ LET r == Least(cms.todo) IN
       cms' = [cms EXCEPT !.items = @ \cup Listed(r, @), !.todo = @ \ {r}]
    /\ UNCHANGED <<webroots, exports, items, software, corrections, page, looked,
                   sqlVars, turns>>

\* A cancelled job stops before the next target, and then commits what it has.
CancelInventory ==
    /\ cms.todo # {} /\ Turn
    /\ cms' = [cms EXCEPT !.todo = {}]
    /\ UNCHANGED <<webroots, exports, items, software, corrections, page, looked, sqlVars>>

\* One indicator for an install and its version, once.
Synced(installs, keys) == software \cup {<<r, 0, <<r, 0>> \in keys>> : r \in installs}

CommitInventory ==
    /\ cms.on /\ cms.todo = {}
    /\ items' = cms.items
    /\ software' = Synced({i.root : i \in cms.items}, corrections)
    /\ cms' = NoInventory
    /\ UNCHANGED <<webroots, exports, corrections, page, looked, sqlVars, turns>>

----------------------------------------------------------------------------
(* The analyst                                                             *)

View ==
    /\ page # items /\ page' = items
    /\ UNCHANGED <<webroots, exports, items, software, corrections, cms, looked,
                   sqlVars, turns>>

IsShown(shown, row) == shown.id = row.id /\ shown.root = row.root /\ shown.ext = row.ext

\* BEGIN IMMEDIATE waits for the inventory to commit.
Collect ==
    /\ Turn /\ ~cms.on
    /\ \E shown \in page : \E row \in items :
        /\ IsShown(shown, row)
        /\ software' = software \cup {<<row.root, row.ext, <<row.root, row.ext>> \in corrections>>}
    /\ UNCHANGED <<webroots, exports, items, corrections, cms, page, looked, sqlVars>>

\* The row is looked up by its id in a connection of its own.
Look ==
    /\ Turn /\ looked = NoKey
    /\ \E shown \in page : \E row \in items :
        shown.id = row.id /\ \E key \in {<<row.root, row.ext>>, <<row.root, 0>>} : looked' = key
    /\ UNCHANGED <<webroots, exports, items, software, corrections, cms, page, sqlVars>>

\* A version sets the correction, an empty one takes it back.
SetVersion ==
    /\ looked # NoKey /\ ~cms.on
    /\ corrections' \in {corrections \cup {looked}, corrections \ {looked}}
    /\ software' = Synced({i.root : i \in items}, corrections')
    /\ looked' = NoKey
    /\ UNCHANGED <<webroots, exports, items, cms, page, sqlVars, turns>>

----------------------------------------------------------------------------
(* The dumps: a transaction for each                                       *)

StartScan ==
    /\ Turn /\ sql = NoScan
    /\ \E targets \in SUBSET Dumps \ {{}} : \E authoritative \in BOOLEAN :
        /\ authoritative => targets = Dumps
        /\ sql' = [NoScan EXCEPT !.todo = targets, !.retires = authoritative,
                                 !.run = Max({doneRun, finding.run}) + 1]
    /\ UNCHANGED <<webroots, exports, cmsVars, dumps, accounts, observed, finding, doneRun>>

\* One pass over the file.
ReadDump ==
    /\ sql.todo # {} /\ sql.at = 0
    /\ LET d == Least(sql.todo) IN
       sql' = IF exports[d] = Unreadable
              THEN [sql EXCEPT !.todo = @ \ {d}, !.retires = FALSE]
              ELSE [sql EXCEPT !.todo = @ \ {d}, !.at = d, !.read = exports[d]]
    /\ UNCHANGED <<webroots, exports, cmsVars, dumps, accounts, observed, finding, doneRun, turns>>

\* Half a dump is not stored, and half a run retires nothing.
CancelScan ==
    /\ sql # NoScan /\ Turn
    /\ sql' = [sql EXCEPT !.todo = {}, !.at = 0, !.retires = FALSE]
    /\ UNCHANGED <<webroots, exports, cmsVars, dumps, accounts, observed, finding, doneRun>>

\* Mutant: the children of the id just handed out are deleted.
NewestId(path) == {NextId({d \in dumps : d.path # path})}
OldIds(path) == {d.id : d \in {x \in dumps : x.path = path}}

\* Every dump the finding was observed in.
WithSource(path) == observed \cup {path}

StoreDump ==
    /\ sql.at # 0
    /\ LET path == sql.at
           kept == {d \in dumps : d.path # path}
           id == NextId(kept)
           hit == "row" \in sql.read
       IN  /\ dumps' = kept \cup {[id |-> id, path |-> path]}
           /\ accounts' = {a \in accounts : a.dump \notin OldIds(path)} \cup
                  {[dump |-> id, path |-> path, admin |-> "grant" \in sql.read] :
                      s \in sql.read \cap {"account"}}
           /\ observed' = IF hit THEN observed \cup {path} ELSE observed \ {path}
           /\ finding' = IF hit THEN [names |-> WithSource(path), run |-> sql.run] ELSE finding
    /\ sql' = [sql EXCEPT !.at = 0, !.read = {}]
    /\ UNCHANGED <<webroots, exports, cmsVars, doneRun, turns>>

\* Only a run that read every dump retires what it did not see again.
FinishScan ==
    /\ sql # NoScan /\ sql.todo = {} /\ sql.at = 0
    /\ doneRun' = IF sql.retires THEN sql.run ELSE doneRun
    /\ sql' = NoScan
    /\ UNCHANGED <<webroots, exports, cmsVars, dumps, accounts, observed, finding, turns>>

----------------------------------------------------------------------------
InNext ==
    \/ \E r \in Installs : Replace(r)
    \/ \E d \in Dumps : Reexport(d)
    \/ StartInventory \/ ListInstall \/ CancelInventory \/ CommitInventory
    \/ View \/ Collect \/ Look \/ SetVersion
    \/ StartScan \/ ReadDump \/ CancelScan \/ StoreDump \/ FinishScan

InSpec == InInit /\ [][InNext]_ivars

----------------------------------------------------------------------------
(* Properties                                                              *)

\* However often dumps are read, in whatever order: every account row is of the dump
\* that owns it, and a dump has no account twice (the chronology reads the accounts
\* without joining the dumps).
DumpsAreReadOnce ==
    /\ \A a \in accounts : \E d \in dumps : d.id = a.dump /\ d.path = a.path
    /\ \A a, b \in accounts : a.path = b.path => a = b
=============================================================================
