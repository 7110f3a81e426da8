----------------------------- MODULE Workspace -----------------------------
(***************************************************************************)
(* The life of a case on disk (server/workspace.py and its routes in       *)
(* app.py): a case is a folder with case.json and case.db; closing packs   *)
(* it into a verified archive and retires the folder, importing unpacks an *)
(* archive again, deleting removes the folder.  Every step of these is a   *)
(* step of the file system, the process may die after each, and decisions  *)
(* of analysts are committed to the database in between.                   *)
(*                                                                         *)
(* Creating, saving, exporting, closing and importing hold the case lock,  *)
(* so one of them is under way at a time; deleting does not take it.       *)
(***************************************************************************)
EXTENDS Naturals, FiniteSets, Functions

CONSTANTS
    Cases,        \* investigations, whatever their folder is called
    Slots,        \* folder names
    Refs,         \* Case IDs, without the empty one
    Decisions,    \* decisions of analysts
    Fenced,       \* those made behind the case operation fence (shared content)
    MaxOps, MaxCrashes

NoRef == "no_reference"
NoCase == "no_case"
NoFolder == "no_folder"

\* No folder has the name that stands for none.
NamesAreNames == NoFolder \notin Slots

VARIABLES
    dir,        \* [Slots -> folder]: the workspace, without its archive folder
    zips,       \* the published archives
    op,         \* the operation that holds the case lock
    deleting,   \* slots whose folder is being removed by a delete request
    decided,    \* {<<case, decision>>} answered as saved
    removed,    \* cases deleted for good
    undone,     \* decisions that went with the folder of an import that failed
    crashes, ops

wvars == <<dir, zips, op, deleting, decided, removed, undone, crashes, ops>>

\* case.json (ref, or NoFolder when it is not there yet) and case.db: the
\* decisions, the reference an export has bound, and the identity in meta.
NewFolder(c) == [case |-> c, file |-> NoFolder, db |-> FALSE, dec |-> {}, lock |-> NoRef, meta |-> NoRef]
NoFolderRec == NewFolder(NoCase)
NoOp == [kind |-> "none", at |-> "none", slot |-> NoFolder, ref |-> NoRef, zip |-> NoFolderRec]

Taken(s) == dir[s] # NoFolderRec
\* list_cases and resolve_case know a case by its case.json.
Open(s) == Taken(s) /\ dir[s].file # NoFolder
Free == op = NoOp

WInit ==
    /\ dir = [s \in Slots |-> NoFolderRec]
    /\ zips = {} /\ op = NoOp /\ deleting = {}
    /\ decided = {} /\ removed = {} /\ undone = {} /\ crashes = 0 /\ ops = 0

Hold(kind, at, s, r, z) ==
    /\ Free /\ ops < MaxOps /\ ops' = ops + 1
    /\ op' = [kind |-> kind, at |-> at, slot |-> s, ref |-> r, zip |-> z]
At(kind, at) == op.kind = kind /\ op.at = at
Step(at) == op' = [op EXCEPT !.at = at]
End == op' = NoOp
Put(s, f) == dir' = [dir EXCEPT ![s] = f]

----------------------------------------------------------------------------
\* No other open case has this Case ID.
Unused(r, s) == r = NoRef \/ \A t \in Slots \ {s} : dir[t].file # r
NotArchived(r) == r = NoRef \/ \A z \in zips : z.file # r

(* create_case *)
Create(c, s, r) ==
    /\ ~Taken(s) /\ \A t \in Slots : dir[t].case # c
    /\ c \notin removed /\ \A z \in zips : z.case # c
    /\ Unused(r, NoFolder) /\ NotArchived(r)
    /\ Hold("create", "identity", s, r, NoFolderRec)
    /\ Put(s, NewFolder(c))
    /\ UNCHANGED <<zips, deleting, decided, removed, undone, crashes>>

\* update_case checks everything first: a reference bound by an export stays.
\* Mutant: an exported case may be given another reference, only not lose it.
LockedLoosely(s, r) == dir[s].lock = NoRef \/ r # NoRef
Unlocked(s, r) == dir[s].lock \in {NoRef, r}

Update(s, r) ==
    /\ Open(s) /\ Unused(r, s) /\ Unlocked(s, r)
    /\ dir[s].file = r \/ NotArchived(r)
    /\ Hold("update", "identity", s, r, NoFolderRec)
    /\ UNCHANGED <<dir, zips, deleting, decided, removed, undone, crashes>>

\* The file is replaced as a whole; a folder that a delete has taken away meanwhile
\* is an error of the request.
WriteIdentity ==
    /\ op.kind \in {"create", "update"} /\ op.at = "identity"
    /\ IF Taken(op.slot) THEN Put(op.slot, [dir[op.slot] EXCEPT !.file = op.ref]) /\ Step("meta")
       ELSE End /\ UNCHANGED dir
    /\ UNCHANGED <<zips, deleting, decided, removed, undone, crashes, ops>>

\* Then the identity goes to the database, which is created when it is not there.
WriteMeta ==
    /\ op.kind \in {"create", "update"} /\ op.at = "meta"
    /\ End
    /\ IF Taken(op.slot) THEN Put(op.slot, [dir[op.slot] EXCEPT !.db = TRUE, !.meta = op.ref])
       ELSE UNCHANGED dir
    /\ UNCHANGED <<zips, deleting, decided, removed, undone, crashes, ops>>

\* A transfer to OpenCTI binds the reference, under the case lock.
Export(s) ==
    /\ Free /\ Open(s) /\ dir[s].db /\ dir[s].lock # dir[s].file
    /\ Put(s, [dir[s] EXCEPT !.lock = dir[s].file])
    /\ UNCHANGED <<zips, op, deleting, decided, removed, undone, crashes, ops>>

----------------------------------------------------------------------------
(* archive_case *)

Archive(s) ==
    /\ Open(s) /\ Hold("archive", "snapshot", s, NoRef, NoFolderRec)
    /\ UNCHANGED <<dir, zips, deleting, decided, removed, undone, crashes>>

\* The database is copied as committed; a snapshot that fails or does not verify
\* ends the request with the case open. Packing reads case.json.
Snapshot ==
    /\ At("archive", "snapshot")
    /\ \/ /\ Open(op.slot)
          /\ op' = [op EXCEPT !.at = "publish", !.zip = dir[op.slot]]
       \/ End
    /\ UNCHANGED <<dir, zips, deleting, decided, removed, undone, crashes, ops>>

\* Only the verified archive is published, before the working copy is touched.
PublishZip ==
    /\ At("archive", "publish")
    /\ zips' = zips \cup {op.zip}
    /\ Step("retire")
    /\ UNCHANGED <<dir, deleting, decided, removed, undone, crashes, ops>>

\* One rename takes the folder out of the workspace; when it is refused the case
\* stays open beside its archive.
RetireDir ==
    /\ At("archive", "retire")
    /\ \/ Put(op.slot, NoFolderRec)
       \/ UNCHANGED dir
    /\ End
    /\ UNCHANGED <<zips, deleting, decided, removed, undone, crashes, ops>>

----------------------------------------------------------------------------
(* import_archive *)

ImportArchive(z, s) ==
    /\ z \in zips /\ ~Taken(s)
    /\ Unused(z.file, NoFolder)
    /\ Hold("import", "database", s, NoRef, z)
    /\ Put(s, NewFolder(z.case))
    /\ UNCHANGED <<zips, deleting, decided, removed, undone, crashes>>

\* Members are unpacked in the order of the archive: case.db before case.json.
\* A failing member, a damaged database or another organization under the same
\* id remove the new folder again, with what was decided in it since it is listed.
Unpack ==
    /\ op.kind = "import"
    /\ \/ /\ UNCHANGED undone
          /\ op.at = "database" /\ Taken(op.slot)
          /\ Put(op.slot, [op.zip EXCEPT !.file = NoFolder]) /\ Step("identity")
       \/ /\ UNCHANGED undone
          /\ op.at = "identity" /\ Taken(op.slot)
          /\ Put(op.slot, [dir[op.slot] EXCEPT !.file = op.zip.file]) /\ Step("verify")
       \/ /\ op.at = "verify" /\ End /\ UNCHANGED <<dir, undone>>
       \/ /\ Put(op.slot, NoFolderRec) /\ End
          /\ undone' = undone \cup {<<op.zip.case, d>> : d \in dir[op.slot].dec \ op.zip.dec}
    /\ UNCHANGED <<zips, deleting, decided, removed, crashes, ops>>

----------------------------------------------------------------------------
(* Deleting, deciding, dying *)

Delete(s) ==
    /\ Open(s) /\ s \notin deleting /\ ops < MaxOps /\ ops' = ops + 1
    /\ deleting' = deleting \cup {s}
    /\ UNCHANGED <<dir, zips, op, decided, removed, undone, crashes>>

\* The folder goes file by file, case.json or case.db first.
RemoveFiles(s) ==
    /\ s \in deleting
    /\ removed' = removed \cup {dir[s].case}
    /\ \/ /\ dir[s].file # NoFolder /\ Put(s, [dir[s] EXCEPT !.file = NoFolder]) /\ UNCHANGED deleting
       \/ /\ dir[s].db
          /\ Put(s, [dir[s] EXCEPT !.db = FALSE, !.dec = {}, !.lock = NoRef, !.meta = NoRef])
          /\ UNCHANGED deleting
       \/ Put(s, NoFolderRec) /\ deleting' = deleting \ {s}
    /\ UNCHANGED <<zips, op, decided, undone, crashes, ops>>

\* Mutant: decisions about shared content do not ask for the fence.
Unfenced(s) == TRUE
\* The fence of a case is held while it is archived.
FenceFree(s) == ~(op.kind = "archive" /\ op.slot = s)

Decide(s, d) ==
    /\ Open(s) /\ dir[s].db /\ s \notin deleting
    /\ d \in Fenced => FenceFree(s)
    /\ <<dir[s].case, d>> \notin decided
    /\ Put(s, [dir[s] EXCEPT !.dec = @ \cup {d}])
    /\ decided' = decided \cup {<<dir[s].case, d>>}
    /\ UNCHANGED <<zips, op, deleting, removed, undone, crashes, ops>>

\* The folder of a case stays as it is; nothing repairs it at the next start.
Dies ==
    /\ op # NoOp \/ deleting # {}
    /\ crashes < MaxCrashes /\ crashes' = crashes + 1
    /\ op' = NoOp /\ deleting' = {}
    /\ UNCHANGED <<dir, zips, decided, removed, undone, ops>>

WNext ==
    \/ \E s \in Slots, r \in Refs \cup {NoRef} : Update(s, r) \/ \E c \in Cases : Create(c, s, r)
    \/ WriteIdentity \/ WriteMeta
    \/ \E s \in Slots : Export(s) \/ Archive(s) \/ Delete(s) \/ RemoveFiles(s)
    \/ Snapshot \/ PublishZip \/ RetireDir
    \/ \E z \in zips, s \in Slots : ImportArchive(z, s)
    \/ Unpack
    \/ \E s \in Slots, d \in Decisions : Decide(s, d)
    \/ Dies

WSpec == WInit /\ [][WNext]_wvars

----------------------------------------------------------------------------
(* Properties                                                              *)

\* A decision made behind the fence is in the folder of its case or in one of its
\* archives until the case is deleted, whatever closing, importing and a dying
\* process leave behind. (A decision outside the fence can be committed between
\* the snapshot and the rename and goes with the folder.)
DecisionsSurvive ==
    \A x \in decided :
        x[2] \in Fenced /\ x[1] \notin removed /\ x \notin undone =>
            \/ \E s \in Slots : dir[s].case = x[1] /\ x[2] \in dir[s].dec
            \/ \E z \in zips : z.case = x[1] /\ x[2] \in z.dec

\* One Case ID names one open case, and the one an export has bound is the one the
\* case still has: through saves, crashes, closing and importing.
CaseIdsAreKept ==
    /\ \A s, t \in Slots : s # t /\ Open(s) /\ dir[s].file = dir[t].file => dir[s].file = NoRef
    /\ \A s \in Slots : Open(s) /\ dir[s].lock # NoRef => dir[s].file = dir[s].lock
=============================================================================
