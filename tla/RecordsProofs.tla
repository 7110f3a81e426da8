---------------------------- MODULE RecordsProofs ---------------------------
(***************************************************************************)
(* Proofs about the components that keep the records of a workspace and of *)
(* its cases: Workspace, Preferences, Profiles, Schema, Launcher and Iocs, *)
(* for any number of cases, requests, editors, connections, starts and     *)
(* indicators, of operations and of crashes.                               *)
(*                                                                         *)
(* Each component has a part of its own: its invariant, a lemma for each   *)
(* kind of step, and the theorems. They share no state and nothing in one  *)
(* part is used in another.                                                *)
(***************************************************************************)
EXTENDS Workspace, Preferences, Profiles, Schema, Launcher, Iocs,
        FiniteSetTheorems, WellFoundedInduction, TLAPS

(***************************************************************************)
(* Workspace: cases, their folders, archives and imports.                  *)
(*                                                                         *)
(* The argument: an operation that has checked a Case ID holds the case    *)
(* lock until it has written it, so the check still holds then (Naming,    *)
(* Unpacking); what is archived was a case whose Case ID was the one its   *)
(* export had bound (Packed); and from the snapshot to the rename nothing  *)
(* is decided behind the fence (Retiring), so the folder that goes holds   *)
(* no such decision that the archive does not hold.                        *)
(***************************************************************************)

-----------------------------------------------------------------------------
(* The inductive invariant.                                                *)

CaseNames == Cases \cup {NoCase}
CaseIdValues == Refs \cup {NoRef, NoFolder}

Folder == [case : CaseNames, file : CaseIdValues, db : BOOLEAN, dec : SUBSET Decisions,
           lock : CaseIdValues, meta : CaseIdValues]

Operation == [kind : {"none", "create", "update", "archive", "import"},
              at : {"none", "identity", "meta", "snapshot", "publish", "retire",
                    "database", "verify"},
              slot : Slots \cup {NoFolder}, ref : CaseIdValues, zip : Folder]

WTypeOK ==
    /\ dir \in [Slots -> Folder]
    /\ zips \in SUBSET Folder
    /\ op \in Operation
    /\ op.slot = NoFolder => op.kind = "none"
    /\ deleting \in SUBSET Slots
    /\ removed \in SUBSET CaseNames
    /\ decided \in SUBSET (CaseNames \X Decisions)
    /\ undone \in SUBSET (CaseNames \X Decisions)

\* No folder but s holds Case ID r.
Alone(r, s) == r \in {NoRef, NoFolder} \/ \A t \in Slots \ {s} : dir[t].file # r

\* A Case ID about to be written is still the one that was checked.
Naming ==
    op.kind \in {"create", "update"} /\ op.at = "identity" =>
        /\ Alone(op.ref, op.slot)
        /\ dir[op.slot].lock \in {NoRef, op.ref}

BoundAs(z) == z.lock # NoRef => z.file = z.lock
Packed == BoundAs(op.zip) /\ \A z \in zips : BoundAs(z)

\* What the folder of an import holds while the archive is unpacked into it.
Unpacking ==
    op.kind = "import" =>
        /\ op.zip \in zips
        /\ Taken(op.slot) => dir[op.slot].case = op.zip.case
        /\ op.at \in {"database", "identity"} =>
              dir[op.slot].file = NoFolder /\ Alone(op.zip.file, op.slot)
        /\ op.at = "database" => dir[op.slot].dec = {} /\ dir[op.slot].lock = NoRef
        /\ op.at = "identity" => dir[op.slot].lock \in {NoRef, op.zip.lock}

\* What the folder of a case holds after the snapshot of its archive.
Retiring ==
    op.kind = "archive" /\ op.at # "snapshot" =>
        /\ Fenced \cap dir[op.slot].dec \subseteq op.zip.dec
        /\ Taken(op.slot) => dir[op.slot].case = op.zip.case
        /\ op.at = "retire" => op.zip \in zips

WInv == /\ WTypeOK /\ Naming /\ Packed /\ Unpacking /\ Retiring
        /\ CaseIdsAreKept /\ DecisionsSurvive

-----------------------------------------------------------------------------
(* Each operation.                                                         *)

LEMMA Records ==
    /\ NoOp \in Operation /\ NoOp.kind = "none" /\ NoOp.slot = NoFolder /\ BoundAs(NoOp.zip)
    /\ NoFolderRec \in Folder
    /\ \A c \in CaseNames : NewFolder(c) \in Folder
BY DEF NoOp, NoFolderRec, NewFolder, Folder, Operation, CaseIdValues, CaseNames, BoundAs

LEMMA InitW == NamesAreNames /\ WInit => WInv
BY Records DEF WInit, WInv, WTypeOK, Folder, Operation, CaseIdValues, CaseNames, Naming, Alone,
   Packed, BoundAs, Unpacking, Retiring, CaseIdsAreKept, DecisionsSurvive, Taken,
   NoFolderRec, NewFolder, NoOp, Open

LEMMA CreateStep ==
    ASSUME NamesAreNames, WInv,
           NEW c \in Cases, NEW s \in Slots, NEW r \in Refs \cup {NoRef}, Create(c, s, r)
    PROVE  WInv'
<1>1. WTypeOK'
  BY Records DEF Create, Hold, Put, WInv, NamesAreNames, WTypeOK, Operation, CaseIdValues,
     CaseNames
<1>2. Naming'
  BY DEF Create, Hold, Put, Unused, NamesAreNames, Naming, Alone, Taken, NoFolderRec,
     NewFolder
<1>3. Packed'
  BY DEF Create, Hold, Free, WInv, Packed, NoOp
<1>4. Unpacking'
  BY DEF Create, Hold, Unpacking
<1>5. Retiring'
  BY DEF Create, Hold, Retiring
<1>6. CaseIdsAreKept'
  BY DEF Create, Put, WInv, CaseIdsAreKept, Taken, NewFolder, Open
<1>7. DecisionsSurvive'
  BY DEF Create, Put, WInv, DecisionsSurvive, Taken, NoFolderRec, NewFolder
<1> QED BY <1>1, <1>2, <1>3, <1>4, <1>5, <1>6, <1>7 DEF WInv

LEMMA UpdateStep ==
    ASSUME NamesAreNames, WInv, NEW s \in Slots, NEW r \in Refs \cup {NoRef}, Update(s, r)
    PROVE  WInv'
<1>1. WTypeOK'
  BY Records DEF Update, Hold, WInv, NamesAreNames, WTypeOK, Operation, CaseIdValues
<1>2. Naming'
  BY DEF Update, Hold, Unused, Unlocked, Naming, Alone
<1>3. Packed'
  BY DEF Update, Hold, Free, WInv, Packed, NoOp
<1>4. Unpacking'
  BY DEF Update, Hold, Unpacking
<1>5. Retiring'
  BY DEF Update, Hold, Retiring
<1>6. CaseIdsAreKept'
  BY DEF Update, WInv, CaseIdsAreKept, Taken, Open
<1>7. DecisionsSurvive'
  BY DEF Update, WInv, DecisionsSurvive
<1> QED BY <1>1, <1>2, <1>3, <1>4, <1>5, <1>6, <1>7 DEF WInv

LEMMA WriteIdentityStep ==
    ASSUME NamesAreNames, WInv, WriteIdentity
    PROVE  WInv'
<1> DEFINE f == [dir[op.slot] EXCEPT !.file = op.ref]
<1>1. /\ op.slot \in Slots /\ f \in Folder /\ f.file = op.ref
      /\ f.case = dir[op.slot].case /\ f.dec = dir[op.slot].dec /\ f.lock = dir[op.slot].lock
  BY DEF WriteIdentity, WInv, WTypeOK, Folder, Operation
<1>2. \/ dir' = [dir EXCEPT ![op.slot] = f] /\ op' = [op EXCEPT !.at = "meta"]
      \/ dir' = dir /\ op' = NoOp
  BY DEF WriteIdentity, Put, Step, End
<1>3. WTypeOK'
  BY <1>1, <1>2, Records DEF WriteIdentity, WInv, WTypeOK, Operation
<1>4. Naming'
  BY Records DEF WriteIdentity, Step, End, WInv, WTypeOK, Operation, Naming
<1>5. Packed'
  BY Records DEF WriteIdentity, Step, End, WInv, WTypeOK, Operation, Packed
<1>6. Unpacking'
  BY Records DEF WriteIdentity, Step, End, WInv, WTypeOK, Operation, Unpacking
<1>7. Retiring'
  BY Records DEF WriteIdentity, Step, End, WInv, WTypeOK, Operation, Retiring
<1>8. CaseIdsAreKept'
  <2>1. CASE dir' = dir
    BY <2>1 DEF WInv, CaseIdsAreKept, Taken, Open
  <2>2. CASE dir' = [dir EXCEPT ![op.slot] = f]
    <3>1. f.lock \in {NoRef, op.ref} /\ Alone(op.ref, op.slot)
      BY <1>1 DEF WriteIdentity, WInv, Naming
    <3>2. \A s \in Slots : dir'[s] = IF s = op.slot THEN f ELSE dir[s]
      BY <2>2 DEF WInv, WTypeOK
    <3> HIDE DEF f
    <3> QED BY <1>1, <3>1, <3>2 DEF WInv, CaseIdsAreKept, Alone, Taken, Open
  <2> QED BY <1>2, <2>1, <2>2
<1>9. DecisionsSurvive'
  BY DEF WriteIdentity, Put, WInv, WTypeOK, Folder, Operation, DecisionsSurvive
<1> QED BY <1>3, <1>4, <1>5, <1>6, <1>7, <1>8, <1>9 DEF WInv

LEMMA WriteMetaStep ==
    ASSUME NamesAreNames, WInv, WriteMeta
    PROVE  WInv'
<1> DEFINE f == [dir[op.slot] EXCEPT !.db = TRUE, !.meta = op.ref]
<1>1. /\ op.slot \in Slots /\ f \in Folder /\ f.file = dir[op.slot].file
      /\ f.case = dir[op.slot].case /\ f.dec = dir[op.slot].dec /\ f.lock = dir[op.slot].lock
  BY DEF WriteMeta, WInv, WTypeOK, Folder, Operation
<1>2. op' = NoOp /\ (dir' = [dir EXCEPT ![op.slot] = f] \/ dir' = dir)
  BY DEF WriteMeta, Put, End
<1>3. \A t \in Slots : /\ dir'[t].file = dir[t].file /\ dir'[t].lock = dir[t].lock
                      /\ dir'[t].case = dir[t].case /\ dir'[t].dec = dir[t].dec
  BY <1>1, <1>2 DEF WInv, WTypeOK
<1> HIDE DEF f
<1>4. WTypeOK'
  BY <1>1, <1>2, Records DEF WriteMeta, WInv, WTypeOK
<1>5. Naming'
  BY <1>2, Records DEF Naming
<1>6. Packed'
  BY <1>2, Records DEF WriteMeta, WInv, Packed
<1>7. Unpacking'
  BY <1>2, Records DEF Unpacking
<1>8. Retiring'
  BY <1>2, Records DEF Retiring
<1>9. CaseIdsAreKept'
  BY <1>3 DEF WInv, CaseIdsAreKept, Taken, NoFolderRec, NewFolder, Open
<1>10. DecisionsSurvive'
  BY <1>3 DEF WriteMeta, WInv, DecisionsSurvive
<1> QED BY <1>4, <1>5, <1>6, <1>7, <1>8, <1>9, <1>10 DEF WInv

LEMMA ExportStep ==
    ASSUME NamesAreNames, WInv, NEW s \in Slots, Export(s)
    PROVE  WInv'
<1>1. WTypeOK'
  <2>1. dir[s] \in Folder
    BY DEF WInv, WTypeOK
  <2>2. [dir[s] EXCEPT !.lock = dir[s].file] \in Folder
    BY <2>1 DEF Folder
  <2> QED BY <2>2 DEF Export, Put, WInv, WTypeOK
<1>2. Naming'
  BY Records DEF Export, Free, Naming
<1>3. Packed'
  BY DEF Export, WInv, Packed
<1>4. Unpacking'
  BY Records DEF Export, Free, Unpacking
<1>5. Retiring'
  BY Records DEF Export, Free, Retiring
<1>6. CaseIdsAreKept'
  BY DEF Export, Put, WInv, CaseIdsAreKept, Taken, Open
<1>7. DecisionsSurvive'
  BY DEF Export, Put, WInv, DecisionsSurvive
<1> QED BY <1>1, <1>2, <1>3, <1>4, <1>5, <1>6, <1>7 DEF WInv

LEMMA ArchiveStep ==
    ASSUME NamesAreNames, WInv, NEW s \in Slots, Archive(s)
    PROVE  WInv'
<1>1. WTypeOK'
  BY Records DEF Archive, Hold, WInv, NamesAreNames, WTypeOK, Operation, CaseIdValues
<1>2. Naming'
  BY DEF Archive, Hold, Naming
<1>3. Packed'
  BY DEF Archive, Hold, Free, WInv, Packed, NoOp
<1>4. Unpacking'
  BY DEF Archive, Hold, Unpacking
<1>5. Retiring'
  BY DEF Archive, Hold, Retiring
<1>6. CaseIdsAreKept'
  BY DEF Archive, WInv, CaseIdsAreKept, Taken, Open
<1>7. DecisionsSurvive'
  BY DEF Archive, WInv, DecisionsSurvive
<1> QED BY <1>1, <1>2, <1>3, <1>4, <1>5, <1>6, <1>7 DEF WInv

LEMMA SnapshotStep ==
    ASSUME NamesAreNames, WInv, Snapshot
    PROVE  WInv'
<1>1. \/ op' = NoOp
      \/ /\ op.slot \in Slots /\ Open(op.slot) /\ op' \in Operation
         /\ op'.kind = "archive" /\ op'.at = "publish" /\ op'.slot = op.slot
         /\ op'.zip = dir[op.slot]
  <2>1. CASE Open(op.slot) /\ op' = [op EXCEPT !.at = "publish", !.zip = dir[op.slot]]
    <3>1. op \in Operation /\ op.kind = "archive" /\ op.slot \in Slots /\ dir[op.slot] \in Folder
      BY DEF Snapshot, At, WInv, WTypeOK, Operation
    <3> QED BY <2>1, <3>1 DEF Operation
  <2> QED BY <2>1 DEF Snapshot, End
<1>2. WTypeOK'
  BY <1>1, Records DEF Snapshot, WInv, NamesAreNames, WTypeOK
<1>3. Naming'
  BY <1>1, Records DEF Naming
<1>4. Packed'
  BY <1>1, Records DEF Snapshot, WInv, Packed, BoundAs, CaseIdsAreKept
<1>5. Unpacking'
  BY <1>1, Records DEF Unpacking
<1>6. Retiring'
  BY <1>1, Records DEF Snapshot, Retiring
<1>7. CaseIdsAreKept'
  BY DEF Snapshot, WInv, CaseIdsAreKept, Taken, Open
<1>8. DecisionsSurvive'
  BY DEF Snapshot, WInv, DecisionsSurvive
<1> QED BY <1>2, <1>3, <1>4, <1>5, <1>6, <1>7, <1>8 DEF WInv

LEMMA PublishZipStep ==
    ASSUME NamesAreNames, WInv, PublishZip
    PROVE  WInv'
<1>1. WTypeOK'
  BY DEF PublishZip, Step, WInv, WTypeOK, Operation
<1>2. Naming'
  BY DEF PublishZip, Step, Naming
<1>3. Packed'
  BY DEF PublishZip, Step, WInv, Packed
<1>4. Unpacking'
  BY DEF PublishZip, At, Step, Unpacking
<1>5. Retiring'
  BY DEF PublishZip, At, Step, WInv, Retiring, Taken
<1>6. CaseIdsAreKept'
  BY DEF PublishZip, WInv, CaseIdsAreKept, Taken, Open
<1>7. DecisionsSurvive'
  BY DEF PublishZip, WInv, DecisionsSurvive
<1> QED BY <1>1, <1>2, <1>3, <1>4, <1>5, <1>6, <1>7 DEF WInv

LEMMA RetireDirStep ==
    ASSUME NamesAreNames, WInv, RetireDir
    PROVE  WInv'
<1>1. WTypeOK'
  BY Records DEF RetireDir, Put, End, WInv, WTypeOK
<1>2. Naming'
  BY Records DEF RetireDir, End, Naming
<1>3. Packed'
  BY Records DEF RetireDir, End, WInv, Packed
<1>4. Unpacking'
  BY Records DEF RetireDir, End, Unpacking
<1>5. Retiring'
  BY Records DEF RetireDir, End, Retiring
<1>6. CaseIdsAreKept'
  BY DEF RetireDir, Put, WInv, WTypeOK, CaseIdsAreKept, Taken, NoFolderRec, NewFolder,
     Open
<1>7. DecisionsSurvive'
  BY DEF RetireDir, At, Put, WInv, WTypeOK, Retiring, DecisionsSurvive, Taken
<1> QED BY <1>1, <1>2, <1>3, <1>4, <1>5, <1>6, <1>7 DEF WInv

LEMMA ImportStep ==
    ASSUME NamesAreNames, WInv, NEW z \in zips, NEW s \in Slots, ImportArchive(z, s)
    PROVE  WInv'
<1>1. WTypeOK'
  BY Records DEF ImportArchive, Hold, Put, WInv, NamesAreNames, WTypeOK, Folder, Operation,
     CaseIdValues
<1>2. Naming'
  BY DEF ImportArchive, Hold, Naming
<1>3. Packed'
  BY DEF ImportArchive, Hold, WInv, Packed
<1>4. Unpacking'
  BY DEF ImportArchive, Hold, Put, Unused, NamesAreNames, Alone, Unpacking, Taken,
     NoFolderRec, NewFolder
<1>5. Retiring'
  BY DEF ImportArchive, Hold, Retiring
<1>6. CaseIdsAreKept'
  BY DEF ImportArchive, Put, WInv, CaseIdsAreKept, Taken, NewFolder, Open
<1>7. DecisionsSurvive'
  BY DEF ImportArchive, Put, WInv, DecisionsSurvive, Taken, NoFolderRec, NewFolder
<1> QED BY <1>1, <1>2, <1>3, <1>4, <1>5, <1>6, <1>7 DEF WInv

LEMMA UnpackStep ==
    ASSUME NamesAreNames, WInv, Unpack
    PROVE  WInv'
<1>1. WTypeOK'
  <2>1. op \in Operation /\ op.zip \in Folder /\ op.slot \in Slots /\ dir[op.slot] \in Folder
    BY DEF Unpack, WInv, WTypeOK, Operation
  <2>2. /\ [op.zip EXCEPT !.file = NoFolder] \in Folder
        /\ [dir[op.slot] EXCEPT !.file = op.zip.file] \in Folder
        /\ \A a \in {"identity", "verify"} :
              [op EXCEPT !.at = a] \in Operation /\ [op EXCEPT !.at = a].slot = op.slot
    BY <2>1 DEF Folder, CaseIdValues, Operation
  <2>3. dir' \in [Slots -> Folder]
    BY <2>2, Records DEF Unpack, Put, WInv, WTypeOK
  <2>4. op' \in Operation /\ (op'.slot = NoFolder => op'.kind = "none")
    BY <2>1, <2>2, Records DEF Unpack, Step, End, NamesAreNames
  <2>5. undone' \in SUBSET (CaseNames \X Decisions)
    BY <2>1 DEF Unpack, WInv, WTypeOK, Folder
  <2> QED BY <2>3, <2>4, <2>5 DEF Unpack, WInv, WTypeOK
<1>2. Naming'
  BY Records DEF Unpack, Step, End, WInv, WTypeOK, Operation, Naming
<1>3. Packed'
  BY Records DEF Unpack, Step, End, WInv, WTypeOK, Operation, Packed
<1>4. Unpacking'
  BY Records DEF Unpack, Put, Step, End, WInv, NamesAreNames, WTypeOK, Folder,
     Operation, Alone, Unpacking
<1>5. Retiring'
  BY Records DEF Unpack, Step, End, WInv, WTypeOK, Operation, Retiring
<1>6. CaseIdsAreKept'
  BY DEF Unpack, Put, WInv, WTypeOK, Folder, Operation, Packed, BoundAs, Unpacking, Alone,
     CaseIdsAreKept, Taken, Open, NoFolderRec, NewFolder
<1>7. DecisionsSurvive'
  BY DEF Unpack, Put, WInv, WTypeOK, Folder, Operation, Unpacking, DecisionsSurvive,
     Taken
<1> QED BY <1>1, <1>2, <1>3, <1>4, <1>5, <1>6, <1>7 DEF WInv

LEMMA DeleteStep ==
    ASSUME NamesAreNames, WInv, NEW s \in Slots, Delete(s)
    PROVE  WInv'
<1>1. WTypeOK'
  BY DEF Delete, WInv, WTypeOK
<1>2. Naming'
  BY DEF Delete, WInv, Naming, Alone
<1>3. Packed'
  BY DEF Delete, WInv, Packed
<1>4. Unpacking'
  BY DEF Delete, WInv, Alone, Unpacking, Taken
<1>5. Retiring'
  BY DEF Delete, WInv, Retiring, Taken
<1>6. CaseIdsAreKept'
  BY DEF Delete, WInv, CaseIdsAreKept, Taken, Open
<1>7. DecisionsSurvive'
  BY DEF Delete, WInv, DecisionsSurvive
<1> QED BY <1>1, <1>2, <1>3, <1>4, <1>5, <1>6, <1>7 DEF WInv

LEMMA RemoveFilesStep ==
    ASSUME NamesAreNames, WInv, NEW s \in Slots, RemoveFiles(s)
    PROVE  WInv'
<1>1. PICK f \in Folder :
         /\ dir' = [dir EXCEPT ![s] = f]
         /\ f.dec = dir[s].dec \/ f.dec = {}
         /\ f # NoFolderRec => Taken(s) /\ f.case = dir[s].case
         /\ f.file \in {dir[s].file, NoFolder}
         /\ f.lock = dir[s].lock \/ f.lock = NoRef
  <2> DEFINE f1 == [dir[s] EXCEPT !.file = NoFolder]
             f2 == [dir[s] EXCEPT !.db = FALSE, !.dec = {}, !.lock = NoRef, !.meta = NoRef]
  <2>0. dir[s] \in Folder
    BY DEF WInv, WTypeOK
  <2>1. CASE dir[s].file # NoFolder /\ Put(s, f1)
    <3>1. /\ f1 \in Folder /\ f1.dec = dir[s].dec /\ f1.case = dir[s].case
          /\ f1.file = NoFolder /\ f1.lock = dir[s].lock
      BY <2>0 DEF Folder, CaseIdValues
    <3>2. Taken(s)
      BY <2>1 DEF Taken, NoFolderRec, NewFolder
    <3> HIDE DEF f1
    <3> QED BY <3>2, <2>1, <3>1 DEF Put
  <2>2. CASE dir[s].db /\ Put(s, f2)
    <3>1. /\ f2 \in Folder /\ f2.dec = {} /\ f2.case = dir[s].case
          /\ f2.file = dir[s].file /\ f2.lock = NoRef
      BY <2>0 DEF Folder, CaseIdValues
    <3>2. Taken(s)
      BY <2>2 DEF Taken, NoFolderRec, NewFolder
    <3> HIDE DEF f2
    <3> QED BY <3>2, <2>2, <3>1 DEF Put
  <2>3. CASE Put(s, NoFolderRec)
    <3>1. NoFolderRec.dec = {} /\ NoFolderRec.file = NoFolder /\ NoFolderRec.lock = NoRef
      BY DEF NoFolderRec, NewFolder
    <3>2. NoFolderRec \in Folder
      BY Records
    <3> QED BY <2>3, <3>1, <3>2 DEF Put
  <2> QED BY <2>1, <2>2, <2>3 DEF RemoveFiles
<1>2. WTypeOK'
  <2>1. s \in Slots /\ dir[s].case \in CaseNames
    BY DEF WInv, WTypeOK, Folder
  <2> QED BY <1>1, <2>1 DEF RemoveFiles, WInv, WTypeOK
<1>3. Naming'
  BY <1>1 DEF RemoveFiles, WInv, Naming, Alone
<1>4. Packed'
  BY DEF RemoveFiles, WInv, Packed
<1>5. Unpacking'
  BY <1>1 DEF RemoveFiles, WInv, Alone, Unpacking, Taken
<1>6. Retiring'
  BY <1>1 DEF RemoveFiles, WInv, Retiring, Taken
<1>7. CaseIdsAreKept'
  BY <1>1 DEF WInv, CaseIdsAreKept, Taken, Open
<1>8. DecisionsSurvive'
  BY <1>1 DEF RemoveFiles, WInv, DecisionsSurvive
<1> QED BY <1>2, <1>3, <1>4, <1>5, <1>6, <1>7, <1>8 DEF WInv

LEMMA DecideStep ==
    ASSUME NamesAreNames, WInv, NEW s \in Slots, NEW d \in Decisions, Decide(s, d)
    PROVE  WInv'
<1> DEFINE f == [dir[s] EXCEPT !.dec = @ \cup {d}]
<1>0. dir[s] \in Folder
  BY DEF WInv, WTypeOK
<1>1. /\ f \in Folder /\ f.dec = dir[s].dec \cup {d}
      /\ f.case = dir[s].case /\ f.file = dir[s].file /\ f.lock = dir[s].lock
  BY <1>0 DEF Folder
<1>2. /\ dir' = [dir EXCEPT ![s] = f] /\ f # NoFolderRec
      /\ dir' \in [Slots -> Folder]
  BY <1>1 DEF Decide, Put, WInv, WTypeOK, NoFolderRec, NewFolder
<1> HIDE DEF f
<1>4. WTypeOK'
  <2>1. dir[s].case \in CaseNames
    BY <1>0 DEF Folder
  <2> QED BY <1>2, <2>1 DEF Decide, WInv, WTypeOK
<1>5. Naming'
  BY <1>1, <1>2 DEF Decide, WInv, Naming, Alone
<1>6. Packed'
  BY DEF Decide, WInv, Packed
<1>7. Unpacking'
  BY <1>1, <1>2 DEF Decide, WInv, Alone, Unpacking, Taken, Open
<1>8. Retiring'
  BY <1>1, <1>2 DEF Decide, FenceFree, WInv, Retiring, Taken, Open
<1>9. CaseIdsAreKept'
  BY <1>1, <1>2 DEF Decide, WInv, CaseIdsAreKept, Taken, Open
<1>10. DecisionsSurvive'
  BY <1>1, <1>2 DEF Decide, WInv, DecisionsSurvive
<1> QED BY <1>4, <1>5, <1>6, <1>7, <1>8, <1>9, <1>10 DEF WInv

LEMMA CrashStep ==
    ASSUME NamesAreNames, WInv, Dies
    PROVE  WInv'
<1>1. WTypeOK'
  BY Records DEF Dies, WInv, WTypeOK
<1>2. Naming'
  BY Records DEF Dies, Naming
<1>3. Packed'
  BY Records DEF Dies, WInv, Packed
<1>4. Unpacking'
  BY Records DEF Dies, Unpacking
<1>5. Retiring'
  BY Records DEF Dies, Retiring
<1>6. CaseIdsAreKept'
  BY DEF Dies, WInv, CaseIdsAreKept, Taken, Open
<1>7. DecisionsSurvive'
  BY DEF Dies, WInv, DecisionsSurvive
<1> QED BY <1>1, <1>2, <1>3, <1>4, <1>5, <1>6, <1>7 DEF WInv

-----------------------------------------------------------------------------
(* The theorems.                                                           *)

LEMMA StepW == NamesAreNames /\ WInv /\ [WNext]_wvars => WInv'
<1> SUFFICES ASSUME NamesAreNames, WInv, [WNext]_wvars PROVE WInv'
  OBVIOUS
<1>1. CASE UNCHANGED wvars
  BY <1>1 DEF wvars, WInv, WTypeOK, Naming, Alone, Packed, Unpacking, Retiring,
     CaseIdsAreKept, DecisionsSurvive, Taken, Open
<1>2. CASE WNext
  BY <1>2, CreateStep, UpdateStep, WriteIdentityStep, WriteMetaStep, ExportStep,
     ArchiveStep, SnapshotStep, PublishZipStep, RetireDirStep, ImportStep, UnpackStep,
     DeleteStep, RemoveFilesStep, DecideStep, CrashStep DEF WNext
<1> QED BY <1>1, <1>2

\* The invariant of the argument above holds in every state of every behaviour:
\* what an operation has checked is still so when it writes (create_case,
\* update_case, import_archive), an archive is never a case half renamed, and a
\* folder is never retired with a fenced decision its archive does not hold.
THEOREM WInvariant == ASSUME NamesAreNames PROVE WSpec => []WInv
BY InitW, StepW, PTL DEF WSpec

\* The types: whatever is on disk is a folder or the rest of one.
THEOREM WTyping == ASSUME NamesAreNames PROVE WSpec => []WTypeOK
<1>1. WInv => WTypeOK
  BY DEF WInv
<1> QED BY <1>1, WInvariant, PTL

\* For any number of cases and folders: one Case ID names one open case, and
\* the one an export has bound stays, through saves, closing, importing,
\* deleting and crashes.
THEOREM CaseIdsKept == ASSUME NamesAreNames PROVE WSpec => []CaseIdsAreKept
<1>1. WInv => CaseIdsAreKept
  BY DEF WInv
<1> QED BY <1>1, WInvariant, PTL

\* For any number of cases, folders and decisions: what was decided behind the
\* case operation fence is in the folder of its case or in one of its archives
\* until the case is deleted.
THEOREM DecisionsKept == ASSUME NamesAreNames PROVE WSpec => []DecisionsSurvive
<1>1. WInv => DecisionsSurvive
  BY DEF WInv
<1> QED BY <1>1, WInvariant, PTL

(***************************************************************************)
(* Preferences: the settings of a workspace.                               *)
(*                                                                         *)
(* The argument: what is stored is what the answered saves left            *)
(* (StoredAsAnswered), because whoever saves holds the lock from loading   *)
(* the file to storing it, and has in hand what is stored                  *)
(* (HoldsWhatItLoaded).                                                    *)
(***************************************************************************)

Steps == {"idle", "save", "loaded", "list", "compile", "scan", "ask", "answer"}
SettingsSet ==
    [flag : [Flags -> BOOLEAN], yara : SUBSET Files,
     host : Hosts \cup {NoHost}, token : Hosts \cup {NoHost, NoToken}]
Changes ==
    {c \in [kind : {"none", "flag", "yara", "opencti"},
            name : Flags \cup Files \cup Hosts \cup {NoHost, "none"},
            on : BOOLEAN, off : SUBSET Files] :
        /\ c.kind = "flag" => c.name \in Flags
        /\ c.kind = "yara" => c.name \in Files
        /\ c.kind = "opencti" => c.name \in Hosts \cup {NoHost}}

\* A token belongs to the host it is stored with.
TokenFits(s) == s.token \in {NoToken, s.host}

\* What is stored is what the answered saves left, or no JSON.
StoredAsAnswered ==
    /\ answered \in SettingsSet /\ TokenFits(answered)
    /\ stored = answered \/ (stored = Broken /\ answered = Defaults)

WillSave(r) == RequestAt(r, "save") \/ RequestAt(r, "loaded")

\* Between loading and saving a request holds the lock, and what it loaded still is
\* what the answered saves left.
HoldsWhatItLoaded ==
    /\ request \in [Requests -> [pc : Steps, change : Changes, copy : SettingsSet]]
    /\ \A r \in Requests :
          RequestAt(r, "loaded") => settingslock = r /\ request[r].copy = answered
    /\ \A r \in Requests :
          /\ RequestAt(r, "list") => request[r].change.kind = "yara"
          /\ WillSave(r) => request[r].change.kind # "none"

PInv == StoredAsAnswered /\ HoldsWhatItLoaded

----------------------------------------------------------------------------

LEMMA ChangeKeeps ==
    ASSUME NEW s \in SettingsSet, NEW c \in Changes, c.kind # "none", TokenFits(s)
    PROVE  Changed(s, c) \in SettingsSet /\ TokenFits(Changed(s, c))
<1>1. CASE c.kind = "flag"
  <2>1. Changed(s, c) = [s EXCEPT !.flag[c.name] = c.on]
    BY <1>1 DEF Changed
  <2>2. [s EXCEPT !.flag[c.name] = c.on] \in SettingsSet
    BY <1>1 DEF SettingsSet, Changes
  <2> QED  BY <2>1, <2>2 DEF TokenFits, SettingsSet
<1>2. CASE c.kind = "yara"
  BY <1>2 DEF Changed, SettingsSet, Changes, TokenFits
<1>3. CASE c.kind = "opencti"
  BY <1>3 DEF Changed, SettingsSet, Changes, TokenFits, Token, NoHost, NoToken
<1> QED  BY <1>1, <1>2, <1>3 DEF Changes

\* What a save puts is JSON.
LEMMA ChangeIsJSON ==
    ASSUME NEW s \in SettingsSet, NEW c \in Changes, c.kind # "none"
    PROVE  Changed(s, c) # Broken
<1>1. Changed(s, c).host \in Hosts \cup {NoHost}
  BY DEF Changed, SettingsSet, Changes
<1>2. Broken.host \notin Hosts \cup {NoHost}
  BY PreferenceConstants DEF Broken, Defaults, NoHost
<1> QED  BY <1>1, <1>2

LEMMA LoadedIsAnswered == StoredAsAnswered => Loaded = answered
<1> SUFFICES ASSUME StoredAsAnswered PROVE Loaded = answered
  OBVIOUS
<1>1. answered # Broken
  BY PreferenceConstants DEF StoredAsAnswered, SettingsSet, Broken, Defaults, NoHost
<1> QED  BY <1>1 DEF StoredAsAnswered, Loaded

LEMMA DefaultsAreSettings == Defaults \in SettingsSet /\ TokenFits(Defaults)
BY DEF Defaults, SettingsSet, TokenFits, NoHost, NoToken

LEMMA NoChangeIsChange == NoChange \in Changes
BY DEF NoChange, Changes

LEMMA PInitInv == PInit => PInv
<1> SUFFICES ASSUME PInit PROVE PInv
  OBVIOUS
<1>1. StoredAsAnswered
  BY DefaultsAreSettings DEF PInit, StoredAsAnswered
<1>2. HoldsWhatItLoaded
  BY DefaultsAreSettings, NoChangeIsChange DEF PInit, HoldsWhatItLoaded, NoRequest, Steps, RequestAt, WillSave
<1> QED  BY <1>1, <1>2 DEF PInv

\* A request begins, or goes on without having anything loaded.
LEMMA StepsOutside ==
    ASSUME PInv, NEW r \in Requests, NEW q \in [pc : Steps, change : Changes, copy : SettingsSet],
           request' = [request EXCEPT ![r] = q], ~RequestAt(r, "loaded"),
           q.pc # "loaded", q.pc = "list" => q.change.kind = "yara", q.pc = "save" => q.change.kind # "none",
           UNCHANGED <<stored, settingslock, answered>>
    PROVE  PInv'
<1>1. StoredAsAnswered'
  BY DEF PInv, StoredAsAnswered, TokenFits
<1>2. HoldsWhatItLoaded'
  BY DEF PInv, HoldsWhatItLoaded, RequestAt, WillSave
<1> QED  BY <1>1, <1>2 DEF PInv

LEMMA AskInv ==
    ASSUME PInv, NEW r \in Requests, NEW pc \in {"save", "list", "compile", "ask"}, NEW c \in Changes,
           Asks(r, pc, c), pc = "list" => c.kind = "yara", pc = "save" => c.kind # "none",
           UNCHANGED <<stored, settingslock, answered>>
    PROVE  PInv'
<1> DEFINE q == [pc |-> pc, change |-> c, copy |-> Defaults]
<1>1. q \in [pc : Steps, change : Changes, copy : SettingsSet]
  BY DefaultsAreSettings DEF Steps
<1>2. request' = [request EXCEPT ![r] = q] /\ ~RequestAt(r, "loaded")
  BY DEF Asks, RequestAt
<1>3. q.pc # "loaded" /\ (q.pc = "list" => q.change.kind = "yara")
      /\ (q.pc = "save" => q.change.kind # "none")
  OBVIOUS
<1> HIDE DEF q
<1> QED  BY <1>1, <1>2, <1>3, StepsOutside

LEMMA LoadInv == ASSUME PInv, NEW r \in Requests, Load(r) PROVE PInv'
<1>1. Loaded \in SettingsSet /\ Loaded = answered
  BY LoadedIsAnswered DEF PInv, StoredAsAnswered
<1>2. StoredAsAnswered'
  BY DEF PInv, StoredAsAnswered, TokenFits, Load
<1>3. \A q \in Requests : ~RequestAt(q, "loaded")
  BY PreferenceConstants DEF PInv, HoldsWhatItLoaded, Load, Locked
<1>4. HoldsWhatItLoaded'
  BY <1>1, <1>3 DEF PInv, HoldsWhatItLoaded, Load, RequestAt, WillSave, Steps
<1> QED  BY <1>2, <1>4 DEF PInv

LEMMA SaveInv == ASSUME PInv, NEW r \in Requests, SaveSettings(r) PROVE PInv'
<1> DEFINE c == request[r].change
<1>1. c \in Changes /\ c.kind # "none" /\ request[r].copy = answered /\ settingslock = r
  BY DEF PInv, HoldsWhatItLoaded, SaveSettings, WillSave
<1>2. answered \in SettingsSet /\ TokenFits(answered)
  BY DEF PInv, StoredAsAnswered
<1>3. stored' = Changed(answered, c) /\ answered' = Changed(answered, c)
  BY <1>1 DEF SaveSettings
<1>4. StoredAsAnswered'
  <2>1. Changed(answered, c) \in SettingsSet /\ TokenFits(Changed(answered, c))
    BY <1>1, <1>2, ChangeKeeps
  <2> HIDE DEF c
  <2> QED  BY <1>3, <2>1 DEF StoredAsAnswered, TokenFits
<1>5. \A q \in Requests \ {r} : ~RequestAt(q, "loaded")
  BY <1>1 DEF PInv, HoldsWhatItLoaded
<1>6. HoldsWhatItLoaded'
  BY <1>5, DefaultsAreSettings, NoChangeIsChange
     DEF PInv, HoldsWhatItLoaded, SaveSettings, Ends, NoRequest, Steps, RequestAt, WillSave
<1> QED  BY <1>4, <1>6 DEF PInv

LEMMA RefuseInv == ASSUME PInv, NEW r \in Requests, RefuseSave(r) PROVE PInv'
<1>1. StoredAsAnswered'
  BY DEF PInv, StoredAsAnswered, TokenFits, RefuseSave
<1>2. \A q \in Requests \ {r} : ~RequestAt(q, "loaded")
  BY DEF PInv, HoldsWhatItLoaded, RefuseSave
<1>3. HoldsWhatItLoaded'
  BY <1>2, DefaultsAreSettings, NoChangeIsChange
     DEF PInv, HoldsWhatItLoaded, RefuseSave, Ends, NoRequest, Steps, RequestAt, WillSave
<1> QED  BY <1>1, <1>3 DEF PInv

\* The list of YARA files is computed without the lock, and put like any other setting.
LEMMA ReadListInv == ASSUME PInv, NEW r \in Requests, ReadList(r) PROVE PInv'
<1> DEFINE c == request[r].change
           off == IF c.on THEN Loaded.yara \ {c.name} ELSE Loaded.yara \cup {c.name}
           q == [request[r] EXCEPT !.pc = "save", !.change.off = off]
<1>1. request[r] \in [pc : Steps, change : Changes, copy : SettingsSet]
      /\ RequestAt(r, "list") /\ c.kind = "yara"
  BY DEF PInv, HoldsWhatItLoaded, ReadList
<1>2. Loaded.yara \subseteq Files
  BY LoadedIsAnswered DEF PInv, StoredAsAnswered, SettingsSet
<1>3. off \in SUBSET Files
  BY <1>1, <1>2 DEF Changes
<1>4. [c EXCEPT !.off = off] \in Changes /\ [c EXCEPT !.off = off].kind = "yara"
  BY <1>1, <1>3 DEF Changes
<1>5. q \in [pc : Steps, change : Changes, copy : SettingsSet]
      /\ q.pc = "save" /\ q.change.kind = "yara"
  BY <1>1, <1>4 DEF Steps
<1>6. request' = [request EXCEPT ![r] = q]
  BY DEF ReadList
<1>7. ~RequestAt(r, "loaded") /\ UNCHANGED <<stored, settingslock, answered>>
  BY <1>1 DEF ReadList, RequestAt
<1> HIDE DEF q
<1> QED  BY <1>5, <1>6, <1>7, StepsOutside

LEMMA CompileInv == ASSUME PInv, NEW r \in Requests, Compile(r) PROVE PInv'
<1> DEFINE c == request[r].change
           off == {n \in c.off : rules[n] = Compiles}
           q == [request[r] EXCEPT !.pc = "scan", !.change.off = off]
<1>1. request[r] \in [pc : Steps, change : Changes, copy : SettingsSet]
  BY DEF PInv, HoldsWhatItLoaded
<1>2. off \in SUBSET Files
  BY <1>1 DEF Changes
<1>3. [c EXCEPT !.off = off] \in Changes
  BY <1>1, <1>2 DEF Changes
<1>4. q \in [pc : Steps, change : Changes, copy : SettingsSet] /\ q.pc = "scan"
  BY <1>1, <1>3 DEF Steps
<1>5. request' = [request EXCEPT ![r] = q]
  BY DEF Compile
<1>6. ~RequestAt(r, "loaded") /\ UNCHANGED <<stored, settingslock, answered>>
  BY DEF Compile, RequestAt
<1> HIDE DEF q
<1> QED  BY <1>4, <1>5, <1>6, StepsOutside

\* A scan that ends, and a lookup that asks and is answered.
LEMMA RestInv ==
    ASSUME PInv, NEW r \in Requests, Scanned(r) \/ Ask(r) \/ Answer(r)
    PROVE  PInv'
<1>1. request[r] \in [pc : Steps, change : Changes, copy : SettingsSet]
  BY DEF PInv, HoldsWhatItLoaded
<1>2. CASE Ask(r)
  <2> DEFINE q == [request[r] EXCEPT !.pc = "answer"]
  <2>1. q \in [pc : Steps, change : Changes, copy : SettingsSet] /\ q.pc = "answer"
    BY <1>1 DEF Steps
  <2>2. request' = [request EXCEPT ![r] = q]
    BY <1>2 DEF Ask, RequestTo
  <2>3. ~RequestAt(r, "loaded") /\ UNCHANGED <<stored, settingslock, answered>>
    BY <1>2 DEF Ask, RequestAt
  <2> HIDE DEF q
  <2> QED  BY <2>1, <2>2, <2>3, StepsOutside
<1>3. CASE Scanned(r) \/ Answer(r)
  <2>1. NoRequest \in [pc : Steps, change : Changes, copy : SettingsSet] /\ NoRequest.pc = "idle"
    BY DefaultsAreSettings, NoChangeIsChange DEF NoRequest, Steps
  <2>2. request' = [request EXCEPT ![r] = NoRequest]
    BY <1>3 DEF Scanned, Answer, Ends
  <2>3. ~RequestAt(r, "loaded") /\ UNCHANGED <<stored, settingslock, answered>>
    BY <1>3 DEF Scanned, Answer, RequestAt
  <2> QED  BY <2>1, <2>2, <2>3, StepsOutside
<1> QED  BY <1>2, <1>3

\* Whoever edits the file by hand finds no save under way.
LEMMA EditByHandInv == ASSUME PInv, EditByHand PROVE PInv'
<1>1. StoredAsAnswered'
  BY DefaultsAreSettings DEF StoredAsAnswered, EditByHand, TokenFits
<1>2. \A q \in Requests : ~RequestAt(q, "loaded")
  BY PreferenceConstants DEF PInv, HoldsWhatItLoaded, EditByHand
<1>3. HoldsWhatItLoaded'
  BY <1>2 DEF PInv, HoldsWhatItLoaded, EditByHand, RequestAt, WillSave
<1> QED  BY <1>1, <1>3 DEF PInv

LEMMA PCrashInv == ASSUME PInv, PCrash PROVE PInv'
<1>1. StoredAsAnswered'
  BY DEF PInv, StoredAsAnswered, TokenFits, PCrash
<1>2. HoldsWhatItLoaded'
  BY DefaultsAreSettings, NoChangeIsChange
     DEF HoldsWhatItLoaded, PCrash, NoRequest, Steps, RequestAt, WillSave
<1> QED  BY <1>1, <1>2 DEF PInv

\* The rule files alone, or nothing of the settings.
LEMMA AsideInv == ASSUME PInv, UNCHANGED <<stored, settingslock, request, answered>> PROVE PInv'
BY DEF PInv, StoredAsAnswered, TokenFits, HoldsWhatItLoaded, RequestAt, WillSave

LEMMA RequestsBegin ==
    ASSUME PInv, NEW r \in Requests,
           \/ \E f \in Flags, on \in BOOLEAN : SetFlag(r, f, on)
           \/ \E host \in Hosts \cup {NoHost}, given \in BOOLEAN : SetOpencti(r, host, given)
           \/ \E n \in Files : DeleteRule(r, n)
           \/ \E n \in Files, on \in BOOLEAN : SetRuleEnabled(r, n, on)
           \/ StartScan(r)
           \/ \E refresh \in BOOLEAN : LookupValue(r, refresh)
    PROVE  PInv'
<1>1. CASE \E f \in Flags, on \in BOOLEAN : SetFlag(r, f, on)
  <2>1. PICK f \in Flags, on \in BOOLEAN : SetFlag(r, f, on)
    BY <1>1
  <2> DEFINE c == [NoChange EXCEPT !.kind = "flag", !.name = f, !.on = on]
  <2>2. c \in Changes /\ c.kind # "none"
    BY DEF NoChange, Changes
  <2>3. Asks(r, "save", c) /\ UNCHANGED <<stored, settingslock, answered>>
    BY <2>1 DEF SetFlag
  <2> HIDE DEF c
  <2> QED  BY <2>2, <2>3, AskInv
<1>2. CASE \E host \in Hosts \cup {NoHost}, given \in BOOLEAN : SetOpencti(r, host, given)
  <2>1. PICK host \in Hosts \cup {NoHost}, given \in BOOLEAN : SetOpencti(r, host, given)
    BY <1>2
  <2> DEFINE c == [NoChange EXCEPT !.kind = "opencti", !.name = host, !.on = given]
  <2>2. c \in Changes /\ c.kind # "none"
    BY DEF NoChange, Changes
  <2>3. Asks(r, "save", c) /\ UNCHANGED <<stored, settingslock, answered>>
    BY <2>1 DEF SetOpencti
  <2> HIDE DEF c
  <2> QED  BY <2>2, <2>3, AskInv
<1>3. CASE (\E n \in Files : DeleteRule(r, n)) \/ (\E n \in Files, on \in BOOLEAN : SetRuleEnabled(r, n, on))
  <2>1. PICK n \in Files, on \in BOOLEAN :
            /\ Asks(r, "list", [NoChange EXCEPT !.kind = "yara", !.name = n, !.on = on])
            /\ UNCHANGED <<stored, settingslock, answered>>
    BY <1>3 DEF DeleteRule, SetRuleEnabled
  <2> DEFINE c == [NoChange EXCEPT !.kind = "yara", !.name = n, !.on = on]
  <2>2. c \in Changes /\ c.kind = "yara"
    BY DEF NoChange, Changes
  <2>3. Asks(r, "list", c)
    BY <2>1
  <2> HIDE DEF c
  <2> QED  BY <2>1, <2>2, <2>3, AskInv
<1>4. CASE StartScan(r)
  <2> DEFINE c == [NoChange EXCEPT !.off = {n \in Files : rules[n] # NoRule} \ Loaded.yara]
  <2>1. c \in Changes
    BY DEF NoChange, Changes
  <2>2. Asks(r, "compile", c) /\ UNCHANGED <<stored, settingslock, answered>>
    BY <1>4 DEF StartScan
  <2> HIDE DEF c
  <2> QED  BY <2>1, <2>2, AskInv
<1>5. CASE \E refresh \in BOOLEAN : LookupValue(r, refresh)
  <2>1. Asks(r, "ask", NoChange) /\ UNCHANGED <<stored, settingslock, answered>>
    BY <1>5 DEF LookupValue
  <2> QED  BY <2>1, NoChangeIsChange, AskInv
<1> QED  BY <1>1, <1>2, <1>3, <1>4, <1>5

LEMMA PNextInv == PInv /\ [PNext]_pvars => PInv'
<1> SUFFICES ASSUME PInv, [PNext]_pvars PROVE PInv'
  OBVIOUS
<1>1. CASE UNCHANGED pvars
  BY <1>1, AsideInv DEF pvars
<1>2. CASE \E r \in Requests : \E n \in Files : WriteRule(r, n)
  BY <1>2, AsideInv DEF WriteRule
<1>3. CASE \E n \in Files : DropIn(n)
  BY <1>3, AsideInv DEF DropIn
<1>4. ASSUME NEW r \in Requests,
             \/ Load(r) \/ SaveSettings(r) \/ RefuseSave(r)
             \/ ReadList(r) \/ Compile(r) \/ Scanned(r) \/ Ask(r) \/ Answer(r)
      PROVE  PInv'
  BY <1>4, LoadInv, SaveInv, RefuseInv, ReadListInv, CompileInv, RestInv
<1> QED
  BY <1>1, <1>2, <1>3, <1>4, RequestsBegin, EditByHandInv, PCrashInv DEF PNext

----------------------------------------------------------------------------

\* No request puts back what another has changed, and a token stays with its host:
\* for any requests, hosts and rule files, over files edited by hand and crashes.
THEOREM SettingsStand == PSpec => []SettingsAreKept
<1>1. PInv => SettingsAreKept
  BY LoadedIsAnswered DEF PInv, StoredAsAnswered, TokenFits, SettingsAreKept
<1> QED  BY <1>1, PInitInv, PNextInv, PTL DEF PSpec

(***************************************************************************)
(* Profiles: the identity of a case, its editors and the organizations.    *)
(*                                                                         *)
(* The argument: who is past the check of a request holds the case lock    *)
(* (OneAtWork), so what was loaded is still there when it is replaced      *)
(* (LoadedIsThere), and what is about to be written names an organization  *)
(* that is registered, or the one the case already has                     *)
(* (FormsAreRegistered); hence every case does (CasesAreRegistered), but   *)
(* for an import that a crash cut off before its organization was          *)
(* registered.                                                             *)
(***************************************************************************)

EditorSteps == {"idle", "editing", "organization", "write", "meta", "unpack", "restore"}
AtWork == {"organization", "write", "meta", "unpack", "restore"}
Identities == [text : Texts \cup {"none"}, org : Nat, orgname : Names \cup {"none"},
               notes : Texts \cup {"none"}]
EditorRequests ==
    [pc : EditorSteps, kind : {"none", "create", "save", "notes", "import"},
     case : CaseFolders \cup {"none"}, base : Identities, form : Identities]
Organizations == [id : Nat, name : Names \cup {"none"}]

ProfileTypes ==
    /\ file \in [CaseFolders -> Identities] /\ ids \in Nat
    /\ registry \in Seq(Organizations)
    /\ editing \in [Editors -> EditorRequests]
    /\ \A e \in Editors : ~EditorAt(e, "idle") => editing[e].case \in CaseFolders

Registered(i) == \E k \in DOMAIN registry : registry[k] = [id |-> i.org, name |-> i.orgname]

\* Who has passed the check of a request holds the case lock until its end.
OneAtWork == \A e \in Editors : editing[e].pc \in AtWork => caselock = e

\* What a save will replace is what its editor had loaded.
LoadedIsThere ==
    /\ unseen = FALSE
    /\ \A e \in Editors :
          editing[e].kind = "save" /\ editing[e].pc \in {"organization", "write"} =>
              Revision(file[editing[e].case]) = Revision(editing[e].base)

\* What is about to be written names an organization that is registered, or the one
\* the case has; an import agrees with what is registered.
FormsAreRegistered ==
    \A e \in Editors :
        /\ EditorAt(e, "write") => \/ editing[e].form.org = NoOrg \/ Registered(editing[e].form)
                                   \/ /\ editing[e].form.org = file[editing[e].case].org
                                      /\ editing[e].form.orgname = file[editing[e].case].orgname
        /\ editing[e].pc \in {"unpack", "restore"} => Agrees(editing[e].form)
        /\ EditorAt(e, "restore") => file[editing[e].case] = editing[e].form

BeingRestored(c) == \E e \in Editors : editing[e].case = c /\ EditorAt(e, "restore")
CasesAreRegistered ==
    \A c \in CaseFolders \ partial :
        file[c].org # NoOrg /\ ~BeingRestored(c) => Registered(file[c])

PrInv == ProfileTypes /\ OneAtWork /\ LoadedIsThere /\ FormsAreRegistered /\ CasesAreRegistered

----------------------------------------------------------------------------

LEMMA NotEditingIsRequest == NotEditing \in EditorRequests /\ NoIdentity \in Identities
BY DEF NotEditing, EditorRequests, EditorSteps, NoIdentity, Identities, NoOrg

LEMMA PrInitInv == PrInit => PrInv
<1> SUFFICES ASSUME PrInit PROVE PrInv
  OBVIOUS
<1>1. ProfileTypes
  BY NotEditingIsRequest DEF PrInit, ProfileTypes, EditorAt, NotEditing
<1>2. OneAtWork /\ LoadedIsThere /\ FormsAreRegistered
  BY DEF PrInit, OneAtWork, LoadedIsThere, FormsAreRegistered, NotEditing, AtWork, EditorAt
<1>3. CasesAreRegistered
  BY DEF PrInit, CasesAreRegistered, NoIdentity, NoOrg
<1> QED  BY <1>1, <1>2, <1>3 DEF PrInv

\* The one who holds the lock is the only one at work.
LEMMA OthersRest ==
    ASSUME OneAtWork, NEW e \in Editors, editing[e].pc \in AtWork, NEW x \in Editors \ {e}
    PROVE  editing[x].pc \notin AtWork
BY DEF OneAtWork

LEMMA AllRest ==
    ASSUME OneAtWork, Serialized, NEW x \in Editors
    PROVE  editing[x].pc \notin AtWork
BY ProfileConstants DEF OneAtWork, Serialized

\* What has been registered stays.
LEMMA RegisteredStays ==
    ASSUME NEW o \in Organizations, registry \in Seq(Organizations),
           registry' = Append(registry, o) \/ registry' = registry, NEW i, Registered(i)
    PROVE  Registered(i)'
<1>1. PICK k \in DOMAIN registry : registry[k] = [id |-> i.org, name |-> i.orgname]
  BY DEF Registered
<1>2. k \in DOMAIN registry' /\ registry'[k] = registry[k]
  BY <1>1
<1> QED  BY <1>1, <1>2 DEF Registered

\* A request begins, is submitted, or is refused before anything is written.
LEMMA TurnInv ==
    ASSUME PrInv, NEW e \in Editors, NEW q \in EditorRequests,
           editing' = [editing EXCEPT ![e] = q], editing[e].pc \notin AtWork,
           UNCHANGED <<file, registry, unseen, partial>>, ids' \in Nat,
           q.pc # "idle" => q.case \in CaseFolders, q.pc # "restore",
           q.pc \in AtWork => Serialized /\ caselock' = e,
           q.pc \notin AtWork => caselock' = caselock,
           q.kind = "save" /\ q.pc \in {"organization", "write"} =>
               Revision(file[q.case]) = Revision(q.base),
           q.pc = "write" => /\ q.form.org = file[q.case].org
                             /\ q.form.orgname = file[q.case].orgname,
           q.pc = "unpack" => Agrees(q.form)
    PROVE  PrInv'
<1>1. ProfileTypes'
  BY DEF PrInv, ProfileTypes, EditorAt
<1>2. OneAtWork'
  <2>1. CASE q.pc \in AtWork
    BY <2>1, AllRest DEF PrInv, ProfileTypes, OneAtWork
  <2>2. CASE q.pc \notin AtWork
    BY <2>2 DEF PrInv, ProfileTypes, OneAtWork
  <2> QED  BY <2>1, <2>2
<1>3. LoadedIsThere'
  BY DEF PrInv, ProfileTypes, LoadedIsThere, Revision
<1>4. FormsAreRegistered'
  BY DEF PrInv, ProfileTypes, FormsAreRegistered, EditorAt, Registered, Agrees
<1>5. CasesAreRegistered'
  <2> SUFFICES ASSUME NEW c \in CaseFolders \ partial, file[c].org # NoOrg, ~BeingRestored(c)'
               PROVE  Registered(file[c])
    BY DEF CasesAreRegistered, Registered
  <2>1. ~BeingRestored(c)
    BY DEF PrInv, ProfileTypes, BeingRestored, EditorAt, AtWork
  <2> QED  BY <2>1 DEF PrInv, CasesAreRegistered
<1> QED  BY <1>1, <1>2, <1>3, <1>4, <1>5 DEF PrInv

LEMMA CreateInv ==
    ASSUME PrInv, NEW e \in Editors, NEW c \in CaseFolders, NEW t \in Texts,
           NEW n \in Names \cup {"none"}, CreateCase(e, c, t, n)
    PROVE  PrInv'
<1> DEFINE q == [NotEditing EXCEPT !.pc = "organization", !.kind = "create", !.case = c,
                     !.form = [NoIdentity EXCEPT !.text = t, !.notes = t, !.orgname = n]]
<1>1. q \in EditorRequests /\ q.pc = "organization" /\ q.kind = "create" /\ q.case = c
  BY DEF NotEditing, EditorRequests, EditorSteps, NoIdentity, Identities, NoOrg
<1>2. editing' = [editing EXCEPT ![e] = q] /\ editing[e].pc \notin AtWork
  BY DEF CreateCase, Enters, EditorAt, AtWork
<1>3. UNCHANGED <<file, registry, unseen, partial>> /\ ids' \in Nat /\ Serialized /\ caselock' = e
  BY DEF CreateCase, PrInv, ProfileTypes
<1> HIDE DEF q
<1> QED  BY <1>1, <1>2, <1>3, TurnInv DEF AtWork

LEMMA OpenInv ==
    ASSUME PrInv, NEW e \in Editors, NEW c \in CaseFolders, OpenEditor(e, c)
    PROVE  PrInv'
<1> DEFINE q == [NotEditing EXCEPT !.pc = "editing", !.kind = "save", !.case = c,
                     !.base = file[c], !.form = file[c]]
<1>1. q \in EditorRequests /\ q.pc = "editing" /\ q.case = c
  BY DEF NotEditing, EditorRequests, EditorSteps, PrInv, ProfileTypes
<1>2. editing' = [editing EXCEPT ![e] = q] /\ editing[e].pc \notin AtWork
  BY DEF OpenEditor, Enters, EditorAt, AtWork
<1>3. UNCHANGED <<file, registry, unseen, partial, caselock>> /\ ids' \in Nat
  BY DEF OpenEditor, PrInv, ProfileTypes
<1> HIDE DEF q
<1> QED  BY <1>1, <1>2, <1>3, TurnInv DEF AtWork

LEMMA SaveNotesInv ==
    ASSUME PrInv, NEW e \in Editors, NEW c \in CaseFolders, NEW t \in Texts, SaveNotes(e, c, t)
    PROVE  PrInv'
<1> DEFINE q == [NotEditing EXCEPT !.pc = "write", !.kind = "notes", !.case = c,
                     !.base = file[c], !.form = [file[c] EXCEPT !.notes = t]]
<1>1. file[c] \in Identities
  BY DEF PrInv, ProfileTypes
<1>2. q \in EditorRequests /\ q.pc = "write" /\ q.kind = "notes" /\ q.case = c
      /\ q.form.org = file[c].org /\ q.form.orgname = file[c].orgname
  BY <1>1 DEF NotEditing, EditorRequests, EditorSteps, Identities
<1>3. editing' = [editing EXCEPT ![e] = q] /\ editing[e].pc \notin AtWork
  BY DEF SaveNotes, Enters, EditorAt, AtWork
<1>4. UNCHANGED <<file, registry, unseen, partial>> /\ ids' \in Nat /\ Serialized /\ caselock' = e
  BY DEF SaveNotes, PrInv, ProfileTypes
<1> HIDE DEF q
<1> QED  BY <1>2, <1>3, <1>4, TurnInv DEF AtWork

LEMMA SubmitInv ==
    ASSUME PrInv, NEW e \in Editors, NEW t \in Texts, NEW n \in Names \cup {"none"}, Submit(e, t, n)
    PROVE  PrInv'
<1> DEFINE c == editing[e].case
<1>1. editing[e] \in EditorRequests /\ c \in CaseFolders /\ editing[e].pc = "editing"
      /\ file[c] \in Identities
  BY DEF PrInv, ProfileTypes, Submit, EditorAt
<1>2. editing[e].pc \notin AtWork /\ UNCHANGED <<file, registry, unseen, partial>> /\ ids' \in Nat
      /\ Serialized
  BY <1>1 DEF Submit, AtWork, PrInv, ProfileTypes
<1>3. CASE Exists(c) /\ Revision(file[c]) = Revision(editing[e].base)
  <2> DEFINE f == Filled(editing[e].form, t, n, file[c].notes)
             q == [editing[e] EXCEPT !.pc = "organization", !.form = f]
  <2>1. f \in Identities
    BY <1>1 DEF EditorRequests, Identities, NoOrg, Filled
  <2>2. q \in EditorRequests /\ q.pc = "organization" /\ q.case = c /\ q.base = editing[e].base
    BY <1>1, <2>1 DEF EditorRequests, EditorSteps
  <2>3. editing' = [editing EXCEPT ![e] = q] /\ caselock' = e
    BY <1>1, <1>3 DEF Submit
  <2> HIDE DEF q
  <2> QED  BY <1>1, <1>2, <1>3, <2>2, <2>3, TurnInv DEF AtWork
<1>4. CASE ~(Exists(c) /\ Revision(file[c]) = Revision(editing[e].base))
  <2>1. editing' = [editing EXCEPT ![e] = NotEditing] /\ UNCHANGED caselock
    BY <1>4 DEF Submit
  <2>2. NotEditing.pc = "idle"
    BY DEF NotEditing
  <2> QED  BY <1>2, <2>1, <2>2, NotEditingIsRequest, TurnInv DEF AtWork
<1> QED  BY <1>3, <1>4

LEMMA ImportInv ==
    ASSUME PrInv, NEW e \in Editors, NEW c \in CaseFolders, NEW i \in Identity, ImportCase(e, c, i)
    PROVE  PrInv'
<1> DEFINE q == [NotEditing EXCEPT !.pc = "unpack", !.kind = "import", !.case = c, !.form = i]
<1>1. i \in Identities
  BY ProfileConstants DEF Identity, Identities
<1>2. q \in EditorRequests /\ q.pc = "unpack" /\ q.kind = "import" /\ q.case = c /\ q.form = i
  BY <1>1 DEF NotEditing, EditorRequests, EditorSteps, NoIdentity, Identities, NoOrg
<1>3. editing' = [editing EXCEPT ![e] = q] /\ editing[e].pc \notin AtWork
  BY DEF ImportCase, Enters, EditorAt, AtWork
<1>4. UNCHANGED <<file, registry, unseen, partial>> /\ Serialized /\ caselock' = e /\ Agrees(i)
  BY DEF ImportCase
<1>5. ids' \in Nat
  BY <1>1 DEF ImportCase, PrInv, ProfileTypes, Identities
<1> HIDE DEF q
<1> QED  BY <1>2, <1>3, <1>4, <1>5, TurnInv DEF AtWork

\* The holder leaves: nobody is at work then.
LEMMA LeaveInv ==
    ASSUME ProfileTypes, OneAtWork, NEW e \in Editors, editing[e].pc \in AtWork, Leaves(e),
           file' \in [CaseFolders -> Identities], ids' \in Nat, registry' \in Seq(Organizations)
    PROVE  /\ ProfileTypes' /\ OneAtWork' /\ FormsAreRegistered'
           /\ (unseen' = FALSE => LoadedIsThere')
           /\ \A c : ~BeingRestored(c)'
<1>1. \A x \in Editors : editing'[x].pc \notin AtWork
  BY OthersRest DEF Leaves, NotEditing, ProfileTypes, AtWork
<1>2. ProfileTypes'
  BY NotEditingIsRequest DEF ProfileTypes, Leaves, EditorAt, NotEditing
<1> QED
  BY <1>1, <1>2 DEF OneAtWork, FormsAreRegistered, EditorAt, LoadedIsThere, BeingRestored, AtWork

LEMMA RejectInv ==
    ASSUME PrInv, NEW e \in Editors, Reject(e)
    PROVE  PrInv'
<1>1. editing[e].pc \in AtWork /\ editing[e].pc # "restore"
  BY DEF Reject, EditorAt, AtWork
<1>2. UNCHANGED <<file, registry, ids, unseen, partial>> /\ Leaves(e)
  BY DEF Reject
<1>3. ProfileTypes' /\ OneAtWork' /\ FormsAreRegistered' /\ LoadedIsThere'
  BY <1>1, <1>2, LeaveInv DEF PrInv, ProfileTypes, LoadedIsThere
<1>4. \A c : ~BeingRestored(c)
  BY <1>1, OthersRest DEF PrInv, BeingRestored, EditorAt, AtWork
<1>5. CasesAreRegistered'
  BY <1>2, <1>4 DEF PrInv, CasesAreRegistered, Registered
<1> QED  BY <1>3, <1>5 DEF PrInv

LEMMA WriteCopyInv ==
    ASSUME PrInv, NEW e \in Editors, WriteCopy(e)
    PROVE  PrInv'
<1>1. editing[e].pc \in AtWork /\ editing[e].pc # "restore"
  BY DEF WriteCopy, EditorAt, AtWork
<1>2. UNCHANGED <<file, registry, ids, unseen, partial>> /\ Leaves(e)
  BY DEF WriteCopy
<1>3. ProfileTypes' /\ OneAtWork' /\ FormsAreRegistered' /\ LoadedIsThere'
  BY <1>1, <1>2, LeaveInv DEF PrInv, ProfileTypes, LoadedIsThere
<1>4. \A c : ~BeingRestored(c)
  BY <1>1, OthersRest DEF PrInv, BeingRestored, EditorAt, AtWork
<1>5. CasesAreRegistered'
  BY <1>2, <1>4 DEF PrInv, CasesAreRegistered, Registered
<1> QED  BY <1>3, <1>5 DEF PrInv

\* The chosen organization is registered when the form names it.
LEMMA OrganizationInv ==
    ASSUME PrInv, NEW e \in Editors, Organization(e)
    PROVE  PrInv'
<1> DEFINE n == editing[e].form.orgname
<1>1. editing[e] \in EditorRequests /\ editing[e].pc = "organization" /\ editing[e].case \in CaseFolders
      /\ registry \in Seq(Organizations) /\ ids \in Nat /\ n \in Names \cup {"none"}
  BY DEF PrInv, ProfileTypes, Organization, EditorAt, EditorRequests, Identities
<1>2. PICK org \in Chosen(n) :
          /\ registry' = IF org = ids + 1 THEN Append(registry, [id |-> org, name |-> n]) ELSE registry
          /\ ids' = IF org = ids + 1 THEN org ELSE ids
          /\ editing' = [editing EXCEPT ![e].pc = "write", ![e].form.org = org]
  BY DEF Organization
<1>3. UNCHANGED <<file, caselock, unseen, partial>>
  BY DEF Organization
<1>4. org \in Nat /\ (org = NoOrg \/ org = ids + 1 \/ \E k \in DOMAIN registry :
                                                          registry[k].id = org /\ registry[k].name = n)
  <2>1. CASE n = "none"
    BY <2>1, <1>2 DEF Chosen, NoOrg
  <2>2. CASE n # "none" /\ Named(n) = {}
    BY <2>2, <1>1, <1>2 DEF Chosen
  <2>3. CASE n # "none" /\ Named(n) # {}
    <3>1. PICK k \in Named(n) : org = registry[k].id
      BY <2>3, <1>2 DEF Chosen
    <3>2. k \in DOMAIN registry /\ registry[k].name = n /\ registry[k] \in Organizations
      BY <3>1, <1>1 DEF Named
    <3> QED  BY <3>1, <3>2 DEF Organizations
  <2> QED  BY <2>1, <2>2, <2>3
<1> DEFINE f == [editing[e].form EXCEPT !.org = org]
           q == [editing[e] EXCEPT !.pc = "write", !.form = f]
           o == [id |-> org, name |-> n]
<1>5. f \in Identities /\ f.org = org /\ f.orgname = n
  BY <1>1, <1>4 DEF EditorRequests, Identities
<1>6. q \in EditorRequests /\ q.pc = "write" /\ q.case = editing[e].case /\ q.kind = editing[e].kind
      /\ q.base = editing[e].base /\ q.form.org = org /\ q.form.orgname = n
  BY <1>1, <1>5 DEF EditorRequests, EditorSteps
<1>7. editing' = [editing EXCEPT ![e] = q]
  BY <1>1, <1>2 DEF EditorRequests, Identities
<1>8. o \in Organizations /\ (registry' = Append(registry, o) \/ registry' = registry)
  BY <1>1, <1>2, <1>4 DEF Organizations
<1>9. registry' \in Seq(Organizations) /\ ids' \in Nat
  BY <1>1, <1>2, <1>4, <1>8
<1>10. org = NoOrg \/ \E k \in DOMAIN registry' : registry'[k] = o
  <2>1. CASE org = ids + 1
    <3>1. registry' = Append(registry, o)
      BY <2>1, <1>2
    <3>2. Len(registry) + 1 \in DOMAIN registry' /\ registry'[Len(registry) + 1] = o
      BY <3>1, <1>1, <1>8
    <3> QED  BY <3>2
  <2>2. CASE org # ids + 1 /\ org # NoOrg
    <3>1. PICK k \in DOMAIN registry : registry[k].id = org /\ registry[k].name = n
      BY <2>2, <1>4
    <3>2. registry[k] \in Organizations /\ registry' = registry
      BY <1>1, <3>1, <2>2, <1>2
    <3>3. registry[k] = [id |-> org, name |-> n]
      BY <3>1, <3>2 DEF Organizations
    <3> QED  BY <3>2, <3>3, <3>1
  <2> QED  BY <2>1, <2>2
<1> HIDE DEF q
<1>11. \A x \in Editors \ {e} : editing[x].pc \notin AtWork
  BY <1>1, OthersRest DEF PrInv, AtWork
<1>12. ProfileTypes' /\ OneAtWork' /\ LoadedIsThere'
  <2>1. ProfileTypes'
    BY <1>1, <1>3, <1>6, <1>7, <1>9 DEF PrInv, ProfileTypes, EditorAt
  <2>2. OneAtWork'
    BY <1>1, <1>3, <1>6, <1>7 DEF PrInv, ProfileTypes, OneAtWork, AtWork
  <2>3. LoadedIsThere'
    BY <1>1, <1>3, <1>6, <1>7 DEF PrInv, ProfileTypes, LoadedIsThere, Revision
  <2> QED  BY <2>1, <2>2, <2>3
<1>13. FormsAreRegistered'
  <2> SUFFICES ASSUME NEW x \in Editors
               PROVE  /\ editing'[x].pc = "write" => x = e /\ (org = NoOrg \/ Registered(editing[x].form)')
                      /\ editing'[x].pc \notin {"unpack", "restore"}
    BY <1>6, <1>7, <1>1 DEF FormsAreRegistered, EditorAt, PrInv, ProfileTypes
  <2>1. CASE x # e
    BY <2>1, <1>7, <1>11 DEF PrInv, ProfileTypes, AtWork
  <2>2. CASE x = e
    <3>1. editing'[x] = q
      BY <2>2, <1>7 DEF PrInv, ProfileTypes
    <3> QED  BY <2>2, <3>1, <1>6, <1>10 DEF Registered
  <2> QED  BY <2>1, <2>2
<1>14. CasesAreRegistered'
  <2> SUFFICES ASSUME NEW c \in CaseFolders \ partial, file[c].org # NoOrg, ~BeingRestored(c)'
               PROVE  Registered(file[c])'
    BY <1>3 DEF CasesAreRegistered, Registered
  <2>1. ~BeingRestored(c)
    BY <1>1, <1>11 DEF BeingRestored, EditorAt, AtWork
  <2>2. Registered(file[c])
    BY <2>1 DEF PrInv, CasesAreRegistered
  <2>3. PICK k \in DOMAIN registry : registry[k] = [id |-> file[c].org, name |-> file[c].orgname]
    BY <2>2 DEF Registered
  <2>4. k \in DOMAIN registry' /\ registry'[k] = registry[k]
    BY <2>3, <1>1, <1>8
  <2> QED  BY <2>3, <2>4, <1>3 DEF Registered
<1> QED  BY <1>12, <1>13, <1>14 DEF PrInv

LEMMA WriteInv ==
    ASSUME PrInv, NEW e \in Editors, Write(e)
    PROVE  PrInv'
<1> DEFINE c == editing[e].case
           q == [editing[e] EXCEPT !.pc = "meta"]
<1>1. editing[e] \in EditorRequests /\ editing[e].pc = "write" /\ c \in CaseFolders
      /\ editing[e].form \in Identities
  BY DEF PrInv, ProfileTypes, Write, EditorAt, EditorRequests
<1>2. file' = [file EXCEPT ![c] = editing[e].form] /\ editing' = [editing EXCEPT ![e] = q]
      /\ UNCHANGED <<registry, caselock, partial, ids>>
      /\ unseen' = (unseen \/ (editing[e].kind = "save" /\ Revision(file[c]) # Revision(editing[e].base)))
  BY DEF Write, EditorTo
<1>3. q \in EditorRequests /\ q.pc = "meta" /\ q.case = c
  BY <1>1 DEF EditorRequests, EditorSteps
<1> HIDE DEF q
<1>4. \A x \in Editors \ {e} : editing[x].pc \notin AtWork
  BY <1>1, OthersRest DEF PrInv, AtWork
<1>5. unseen' = FALSE
  BY <1>1, <1>2 DEF PrInv, LoadedIsThere
<1>6. ProfileTypes'
  BY <1>1, <1>2, <1>3 DEF PrInv, ProfileTypes, EditorAt
<1>7. OneAtWork'
  BY <1>1, <1>2, <1>3 DEF PrInv, ProfileTypes, OneAtWork, AtWork
<1>8. LoadedIsThere' /\ FormsAreRegistered'
  BY <1>1, <1>2, <1>3, <1>4, <1>5 DEF PrInv, ProfileTypes, LoadedIsThere, FormsAreRegistered, EditorAt, AtWork
<1>9. CasesAreRegistered'
  <2> SUFFICES ASSUME NEW d \in CaseFolders \ partial, file'[d].org # NoOrg
               PROVE  Registered(file'[d])
    BY <1>2 DEF CasesAreRegistered, Registered
  <2>1. ~BeingRestored(d)
    BY <1>1, <1>4 DEF BeingRestored, EditorAt, AtWork
  <2>2. file'[d] = IF d = c THEN editing[e].form ELSE file[d]
    BY <1>2, <1>1 DEF PrInv, ProfileTypes
  <2>3. file[d].org # NoOrg => Registered(file[d])
    BY <2>1 DEF PrInv, CasesAreRegistered
  <2>4. CASE d = c
    <3>1. file'[d] = editing[e].form
      BY <2>2, <2>4
    <3>2. \/ Registered(editing[e].form)
          \/ editing[e].form.org = file[c].org /\ editing[e].form.orgname = file[c].orgname
      BY <1>1, <3>1 DEF PrInv, FormsAreRegistered, EditorAt
    <3> QED  BY <3>1, <3>2, <2>3, <2>4 DEF Registered
  <2> QED  BY <2>2, <2>3, <2>4
<1> QED  BY <1>6, <1>7, <1>8, <1>9 DEF PrInv

\* A leaving editor was the last at work: whatever case it does not touch was not
\* being restored.
LEMMA LeavingKeeps ==
    ASSUME PrInv, NEW e \in Editors, editing[e].pc \in AtWork, Leaves(e),
           NEW f \in Identities, f.org = NoOrg \/ Registered(f)',
           file' = file \/ file' = [file EXCEPT ![editing[e].case] = f],
           editing[e].pc = "restore" /\ file' = file => f = file[editing[e].case],
           NEW o \in Organizations, registry' = Append(registry, o) \/ registry' = registry,
           UNCHANGED <<ids, unseen, partial>>
    PROVE  PrInv'
<1> DEFINE c == editing[e].case
<1>1. c \in CaseFolders /\ file \in [CaseFolders -> Identities] /\ registry \in Seq(Organizations)
  BY DEF PrInv, ProfileTypes, EditorAt, AtWork
<1>2. file' \in [CaseFolders -> Identities] /\ registry' \in Seq(Organizations) /\ ids' \in Nat
  BY <1>1 DEF PrInv, ProfileTypes
<1>3. ProfileTypes' /\ OneAtWork' /\ FormsAreRegistered' /\ LoadedIsThere'
  BY <1>2, LeaveInv DEF PrInv, LoadedIsThere
<1>4. CasesAreRegistered'
  <2> SUFFICES ASSUME NEW d \in CaseFolders \ partial, file'[d].org # NoOrg
               PROVE  Registered(file[d])'
    BY DEF CasesAreRegistered, Registered
  <2>1. CASE d = c /\ (editing[e].pc = "restore" \/ file' # file)
    <3>1. file'[d] = f
      BY <2>1, <1>1
    <3> QED  BY <3>1 DEF Registered
  <2>2. CASE d # c \/ (editing[e].pc # "restore" /\ file' = file)
    <3>1. file'[d] = file[d]
      BY <2>2, <1>1
    <3>2. ~BeingRestored(d)
      BY <2>2, OthersRest DEF PrInv, BeingRestored, EditorAt, AtWork
    <3>3. Registered(file[d])
      BY <3>1, <3>2 DEF PrInv, CasesAreRegistered
    <3>4. PICK k \in DOMAIN registry : registry[k] = [id |-> file[d].org, name |-> file[d].orgname]
      BY <3>3 DEF Registered
    <3>5. CASE registry' = registry
      BY <3>1, <3>4, <3>5 DEF Registered
    <3>6. CASE registry' = Append(registry, o)
      <4>1. k \in DOMAIN registry' /\ registry'[k] = registry[k]
        BY <3>4, <3>6, <1>1
      <4> QED  BY <3>1, <3>4, <4>1 DEF Registered
    <3> QED  BY <3>5, <3>6
  <2> QED  BY <2>1, <2>2
<1> QED  BY <1>3, <1>4 DEF PrInv

LEMMA UnpackInv ==
    ASSUME PrInv, NEW e \in Editors, UnpackCase(e)
    PROVE  PrInv'
<1> DEFINE c == editing[e].case
           q == [editing[e] EXCEPT !.pc = "restore"]
<1>1. editing[e] \in EditorRequests /\ editing[e].pc = "unpack" /\ c \in CaseFolders
      /\ editing[e].form \in Identities
  BY DEF PrInv, ProfileTypes, UnpackCase, EditorAt, EditorRequests
<1>2. UNCHANGED <<registry, unseen, partial, ids>>
  BY DEF UnpackCase
<1>3. \A x \in Editors \ {e} : editing[x].pc \notin AtWork
  BY <1>1, OthersRest DEF PrInv, AtWork
<1>4. CASE file' = [file EXCEPT ![c] = editing[e].form] /\ EditorTo(e, "restore") /\ UNCHANGED caselock
  <2>1. editing' = [editing EXCEPT ![e] = q] /\ q \in EditorRequests /\ q.pc = "restore" /\ q.case = c
        /\ q.form = editing[e].form
    BY <1>1, <1>4 DEF EditorTo, EditorRequests, EditorSteps
  <2> HIDE DEF q
  <2>2. ProfileTypes'
    BY <1>1, <1>2, <1>4, <2>1 DEF PrInv, ProfileTypes, EditorAt
  <2>3. OneAtWork'
    BY <1>1, <1>4, <2>1 DEF PrInv, ProfileTypes, OneAtWork, AtWork
  <2>4. LoadedIsThere'
    BY <1>1, <1>2, <1>3, <1>4, <2>1 DEF PrInv, ProfileTypes, LoadedIsThere, AtWork
  <2>5. FormsAreRegistered'
    BY <1>1, <1>2, <1>3, <1>4, <2>1 DEF PrInv, ProfileTypes, FormsAreRegistered, EditorAt, AtWork, Agrees
  <2>6. CasesAreRegistered'
    <3> SUFFICES ASSUME NEW d \in CaseFolders \ partial, file'[d].org # NoOrg, ~BeingRestored(d)'
                 PROVE  Registered(file'[d])
      BY <1>2 DEF CasesAreRegistered, Registered
    <3>1. d # c
      BY <2>1 DEF BeingRestored, EditorAt, PrInv, ProfileTypes
    <3>2. file'[d] = file[d] /\ ~BeingRestored(d)
      BY <3>1, <1>3, <1>1, <1>4 DEF BeingRestored, EditorAt, AtWork, PrInv, ProfileTypes
    <3> QED  BY <3>2 DEF PrInv, CasesAreRegistered
  <2> QED  BY <2>2, <2>3, <2>4, <2>5, <2>6 DEF PrInv
<1>5. CASE Leaves(e) /\ UNCHANGED <<file, meta>>
  <2>1. ProfileTypes' /\ OneAtWork' /\ FormsAreRegistered' /\ LoadedIsThere'
    BY <1>1, <1>2, <1>5, LeaveInv DEF PrInv, ProfileTypes, LoadedIsThere, AtWork
  <2>2. \A d : ~BeingRestored(d)
    BY <1>1, <1>3 DEF BeingRestored, EditorAt, AtWork
  <2>3. CasesAreRegistered'
    BY <1>2, <1>5, <2>2 DEF PrInv, CasesAreRegistered, Registered
  <2> QED  BY <2>1, <2>3 DEF PrInv
<1> QED  BY <1>4, <1>5 DEF UnpackCase

\* What the import brought is registered under its identifier and its name, or its
\* folder goes again.
LEMMA RestoreInv ==
    ASSUME PrInv, NEW e \in Editors, Restore(e)
    PROVE  PrInv'
<1> DEFINE i == editing[e].form
           o == [id |-> i.org, name |-> i.orgname]
<1>1. editing[e].pc = "restore" /\ editing[e].case \in CaseFolders /\ i \in Identities
      /\ o \in Organizations /\ registry \in Seq(Organizations) /\ Leaves(e)
      /\ UNCHANGED <<ids, unseen, partial>>
  BY DEF PrInv, ProfileTypes, Restore, EditorAt, EditorRequests, Identities, Organizations
<1>2. file[editing[e].case] = i /\ Agrees(i)
  BY <1>1 DEF PrInv, FormsAreRegistered, EditorAt
<1>3. CASE /\ registry' = IF i.org = NoOrg \/ Known(i.org) THEN registry
                          ELSE Append(registry, o)
           /\ UNCHANGED file
  <2>1. i.org = NoOrg \/ \E k \in DOMAIN registry' : registry'[k] = o
    <3>1. CASE Known(i.org)
      <4>1. PICK k \in DOMAIN registry : registry[k].id = i.org
        BY <3>1 DEF Known
      <4>2. registry[k] \in Organizations /\ registry[k].name = i.orgname
        BY <4>1, <1>1, <1>2 DEF Agrees
      <4>3. registry[k] = o
        BY <4>1, <4>2 DEF Organizations
      <4> QED  BY <4>1, <4>3, <3>1, <1>3
    <3>2. CASE ~Known(i.org) /\ i.org # NoOrg
      <4>1. registry' = Append(registry, o)
        BY <3>2, <1>3
      <4>2. Len(registry) + 1 \in DOMAIN registry' /\ registry'[Len(registry) + 1] = o
        BY <4>1, <1>1
      <4> QED  BY <4>2
    <3> QED  BY <3>1, <3>2
  <2>2. PICK f : f = i
    OBVIOUS
  <2>3. f.org = NoOrg \/ Registered(f)'
    BY <2>1, <2>2 DEF Registered
  <2>4. registry' = Append(registry, o) \/ registry' = registry
    BY <1>3
  <2> QED  BY <1>1, <1>2, <1>3, <2>2, <2>3, <2>4, LeavingKeeps DEF AtWork
<1>4. CASE file' = [file EXCEPT ![editing[e].case] = NoIdentity] /\ UNCHANGED registry
  <2>1. file' = file => NoIdentity = file[editing[e].case]
    BY <1>4, <1>1 DEF PrInv, ProfileTypes
  <2>2. NoIdentity \in Identities /\ NoIdentity.org = NoOrg
    BY DEF NoIdentity, Identities, NoOrg
  <2> QED  BY <1>1, <1>4, <2>1, <2>2, LeavingKeeps DEF AtWork
<1> QED  BY <1>3, <1>4 DEF Restore

\* A crash: what was being restored is a cut off import.
LEMMA PrCrashInv ==
    ASSUME PrInv, PrCrash
    PROVE  PrInv'
<1>1. UNCHANGED <<file, registry, unseen, ids>> /\ editing' = [e \in Editors |-> NotEditing]
      /\ partial' = partial \cup {editing[e].case : e \in {e \in Editors : EditorAt(e, "restore")}}
  BY DEF PrCrash
<1>2. ProfileTypes'
  BY <1>1, NotEditingIsRequest DEF PrInv, ProfileTypes, EditorAt, NotEditing
<1>3. OneAtWork' /\ LoadedIsThere' /\ FormsAreRegistered'
  BY <1>1 DEF PrInv, OneAtWork, LoadedIsThere, FormsAreRegistered, NotEditing, AtWork, EditorAt
<1>4. CasesAreRegistered'
  <2> SUFFICES ASSUME NEW c \in CaseFolders \ partial', file[c].org # NoOrg
               PROVE  Registered(file[c])
    BY <1>1 DEF CasesAreRegistered, Registered
  <2>1. ~BeingRestored(c)
    BY <1>1 DEF BeingRestored
  <2> QED  BY <2>1, <1>1 DEF PrInv, CasesAreRegistered
<1> QED  BY <1>2, <1>3, <1>4 DEF PrInv

LEMMA PrStutterInv == PrInv /\ UNCHANGED prvars => PrInv'
BY DEF PrInv, prvars, ProfileTypes, OneAtWork, LoadedIsThere, FormsAreRegistered, CasesAreRegistered,
       BeingRestored, Registered, EditorAt, Agrees, Revision

LEMMA PrNextInv == PrInv /\ [PrNext]_prvars => PrInv'
<1> SUFFICES ASSUME PrInv, [PrNext]_prvars PROVE PrInv'
  OBVIOUS
<1>1. CASE UNCHANGED prvars
  BY <1>1, PrStutterInv
<1>2. CASE PrCrash
  BY <1>2, PrCrashInv
<1>3. ASSUME NEW e \in Editors,
             \/ \E c \in CaseFolders, t \in Texts, n \in Names \cup {"none"} : CreateCase(e, c, t, n)
             \/ \E c \in CaseFolders : OpenEditor(e, c) \/ \E t \in Texts : SaveNotes(e, c, t)
             \/ \E t \in Texts, n \in Names \cup {"none"} : Submit(e, t, n)
             \/ Reject(e) \/ Organization(e) \/ Write(e) \/ WriteCopy(e)
             \/ \E c \in CaseFolders, i \in Identity : ImportCase(e, c, i)
             \/ UnpackCase(e) \/ Restore(e)
      PROVE  PrInv'
  BY <1>3, CreateInv, OpenInv, SaveNotesInv, SubmitInv, RejectInv, OrganizationInv, WriteInv,
     WriteCopyInv, ImportInv, UnpackInv, RestoreInv
<1> QED  BY <1>1, <1>2, <1>3 DEF PrNext

\* Editors keep each other's work: what a save replaces is what its editor had
\* loaded, and what a case names as its organization is registered under that
\* identifier and name, but for imports a crash cut off.
THEOREM EditorsStand == PrSpec => []EditorsKeepEachOther
<1>1. PrInv => EditorsKeepEachOther
  BY DEF PrInv, EditorsKeepEachOther, LoadedIsThere, CasesAreRegistered, BeingRestored, Registered
<1> QED  BY <1>1, PrInitInv, PrNextInv, PTL DEF PrSpec

(***************************************************************************)
(* Schema: opening and upgrading a case database.                          *)
(*                                                                         *)
(* The argument: the steps of an upgrade only add to the database (Grows), *)
(* so what a connection has reached (Reached: the tables it saw, the       *)
(* corrections it made, what the version it read implies) stays reached    *)
(* whatever other connections, engines, verdicts and crashes do; whoever   *)
(* stamps the version has every correction behind it (Stamped).            *)
(***************************************************************************)

ScriptTables == {"findings", "hunt_tests", "file_scan_results"}
Upgrading == {"script", "columns", "ioc_script", "default", "drop", "create", "source",
              "register", "software", "stamp"}
AfterScript == Upgrading \ {"script"}
AfterCorrect == AfterScript \ {"columns"}
AfterDefault == {"drop", "create", "source", "register", "software", "stamp"}

CaseFiles ==
    [version : Nat, tables : SUBSET (ScriptTables \cup IocTables), columns : SUBSET Columns,
     trigger : BOOLEAN, owner : {"", "webshell"}, audits : {0, 1}, identity : BOOLEAN,
     assessment : {"malicious", "unassessed", "benign"}, source : BOOLEAN,
     file : {None, "active", "withdrawn"}, imports : {0, 1}]
ConnStates ==
    [pc : {"closed", "open"} \cup Upgrading, have : SUBSET Columns, previous : Nat, fresh : BOOLEAN,
     file : {None, "active", "withdrawn"}, import : BOOLEAN]
Sayings == {None, "benign", "unassessed"}
Withdrawals == {"never", "alone", "meanwhile"}

SchemaTypes ==
    /\ disk \in CaseFiles /\ conn \in [Connections -> ConnStates]
    /\ held \in BOOLEAN /\ said \in Sayings /\ withdrawn \in Withdrawals

\* What a database of a version has, and what a connection that read it may rely on.
VersionHas(d, v) ==
    /\ v >= 10 => d.audits = 1
    /\ v >= 21 => d.imports = 1
Regraded(d) == d.columns = Columns /\ d.owner = "webshell" /\ d.identity /\ d.audits = 1
DefaultGiven(d, s) == d.assessment = "unassessed" => s = "unassessed"
Stamped(d, s) ==
    d.version = Current => /\ "findings" \in d.tables /\ Regraded(d) /\ DefaultGiven(d, s)
                           /\ d.file # None /\ d.imports = 1

\* How far the upgrade has come when a connection is at this step.
Reached(d, s, q) ==
    /\ q.pc \in Upgrading => VersionHas(d, q.previous)
    /\ q.pc \in AfterScript => ScriptTables \subseteq d.tables /\ q.have \subseteq d.columns
    /\ q.pc \in AfterCorrect => Regraded(d)
    /\ q.pc \in AfterDefault => DefaultGiven(d, s)
    /\ q.pc = "register" /\ q.file = None => d.file # None
    /\ q.pc \in {"software", "stamp"} => d.file # None
    /\ q.pc = "stamp" /\ ~q.import => d.imports = 1

\* No decision is taken back, and nobody is about to take back a withdrawal that
\* came before the look at the source.
DecisionsStand ==
    /\ said # None => disk.assessment = said
    /\ withdrawn = "alone" => disk.source = FALSE /\ disk.file # "active"
NobodyRegisters == withdrawn = "alone" => ~AboutToRegister

SchemaInv ==
    /\ SchemaTypes /\ DecisionsStand /\ NobodyRegisters
    /\ VersionHas(disk, disk.version) /\ Stamped(disk, said)
    /\ \A c \in Connections : Reached(disk, said, conn[c])

\* A step of a connection only adds to the database.
Grows(d, s, e, t) ==
    /\ d.tables \subseteq e.tables /\ d.columns \subseteq e.columns
    /\ d.owner = "webshell" => e.owner = "webshell"
    /\ d.identity => e.identity
    /\ d.audits = 1 => e.audits = 1
    /\ d.imports = 1 => e.imports = 1
    /\ DefaultGiven(d, s) => DefaultGiven(e, t)
    /\ d.file # None => e.file # None

----------------------------------------------------------------------------

LEMMA ConnStepsFollow ==
    /\ AfterScript \subseteq Upgrading /\ AfterCorrect \subseteq AfterScript
    /\ AfterDefault \subseteq AfterCorrect /\ "stamp" \in AfterDefault
    /\ "closed" \notin Upgrading /\ "open" \notin Upgrading
BY DEF AfterScript, AfterCorrect, AfterDefault, Upgrading

LEMMA SchemaInitInv == SInit => SchemaInv
<1> SUFFICES ASSUME SInit PROVE SchemaInv
  OBVIOUS
<1>1. Fresh \in CaseFiles /\ Schema7 \in CaseFiles /\ Schema20 \in CaseFiles /\ Marked \in CaseFiles
  BY DEF Fresh, Schema7, Schema20, Marked, CaseFiles, Columns, IocTables, ScriptTables, None, Current
<1>2. Closed \in ConnStates /\ Closed.pc = "closed"
  BY DEF Closed, ConnStates, None
<1>3. SchemaTypes
  BY <1>1, <1>2 DEF SInit, SchemaTypes, Sayings, Withdrawals
<1>4. DecisionsStand /\ NobodyRegisters
  BY DEF SInit, DecisionsStand, NobodyRegisters
<1>5. VersionHas(disk, disk.version) /\ Stamped(disk, said)
  <2>1. VersionHas(Fresh, Fresh.version) /\ Stamped(Fresh, said)
    BY DEF VersionHas, Stamped, Fresh, Current
  <2>2. VersionHas(Schema7, Schema7.version) /\ Stamped(Schema7, said)
    BY DEF VersionHas, Stamped, Fresh, Schema7, Current
  <2>3. VersionHas(Schema20, Schema20.version) /\ Stamped(Schema20, said)
    BY DEF VersionHas, Stamped, Fresh, Schema7, Schema20, Current
  <2>4. VersionHas(Marked, Marked.version) /\ Stamped(Marked, said)
    BY DEF VersionHas, Stamped, Fresh, Schema7, Schema20, Marked, Current, Regraded, DefaultGiven, None
  <2> QED  BY <2>1, <2>2, <2>3, <2>4 DEF SInit
<1>6. \A c \in Connections : Reached(disk, said, conn[c])
  BY <1>2, ConnStepsFollow DEF SInit, Reached
<1> QED  BY <1>3, <1>4, <1>5, <1>6 DEF SchemaInv

\* What a connection has reached stays reached while the database grows.
LEMMA ReachedStays ==
    ASSUME NEW d \in CaseFiles, NEW e \in CaseFiles, NEW s, NEW t, NEW q \in ConnStates,
           Grows(d, s, e, t), Reached(d, s, q)
    PROVE  Reached(e, t, q)
<1>1. VersionHas(d, q.previous) => VersionHas(e, q.previous)
  BY DEF VersionHas, Grows
<1>2. Regraded(d) => Regraded(e)
  BY DEF Regraded, Grows, CaseFiles
<1> QED  BY <1>1, <1>2 DEF Reached, Grows

\* One connection steps.
LEMMA ConnStep ==
    ASSUME SchemaInv, NEW c \in Connections, NEW q \in ConnStates, conn' = [conn EXCEPT ![c] = q],
           disk' \in CaseFiles, said' \in Sayings, held' \in BOOLEAN, withdrawn' \in Withdrawals,
           Grows(disk, said, disk', said'),
           Reached(disk', said', q), DecisionsStand',
           disk'.version = disk.version \/ (disk'.version = Current /\ disk'.audits = 1 /\ disk'.imports = 1),
           disk'.version = disk.version \/ Stamped(disk', said'),
           q.file \in {None, conn[c].file} \/ withdrawn' # "alone",
           withdrawn' = "alone" => withdrawn = "alone" \/ ~AboutToRegister
    PROVE  SchemaInv'
<1>1. SchemaTypes'
  BY DEF SchemaInv, SchemaTypes
<1>2. VersionHas(disk', disk'.version)
  BY DEF SchemaInv, VersionHas, Grows
<1>3. Stamped(disk', said')
  BY DEF SchemaInv, SchemaTypes, Stamped, Regraded, Grows, CaseFiles
<1>4. ASSUME NEW x \in Connections PROVE Reached(disk', said', conn'[x])
  <2>1. CASE x = c
    BY <2>1 DEF SchemaInv, SchemaTypes
  <2>2. CASE x # c
    <3>1. conn'[x] = conn[x] /\ conn[x] \in ConnStates /\ disk \in CaseFiles /\ Reached(disk, said, conn[x])
      BY <2>2 DEF SchemaInv, SchemaTypes
    <3>2. PICK y \in ConnStates : y = conn[x]
      BY <3>1
    <3>3. PICK d \in CaseFiles, e \in CaseFiles, s \in Sayings, t \in Sayings :
              d = disk /\ e = disk' /\ s = said /\ t = said'
      BY DEF SchemaInv, SchemaTypes
    <3>4. Reached(d, s, y) /\ Grows(d, s, e, t)
      BY <3>1, <3>2, <3>3
    <3>5. Reached(e, t, y)
      BY <3>4, ReachedStays
    <3> QED  BY <3>1, <3>2, <3>3, <3>5
  <2> QED  BY <2>1, <2>2
<1>5. NobodyRegisters'
  <2> SUFFICES ASSUME withdrawn' = "alone", NEW x \in Connections PROVE conn'[x].file # "active"
    BY DEF NobodyRegisters, AboutToRegister
  <2>1. conn[x].file # "active" /\ conn[c].file # "active"
    BY DEF SchemaInv, NobodyRegisters, AboutToRegister
  <2>2. conn'[x] = IF x = c THEN q ELSE conn[x]
    BY DEF SchemaInv, SchemaTypes
  <2> QED  BY <2>1, <2>2 DEF None
<1> QED  BY <1>1, <1>2, <1>3, <1>4, <1>5 DEF SchemaInv

LEMMA ReachedByAll ==
    ASSUME SchemaInv, NEW c \in Connections, disk' \in CaseFiles, said' \in Sayings,
           Grows(disk, said, disk', said')
    PROVE  Reached(disk', said', conn[c])
<1>1. conn[c] \in ConnStates /\ disk \in CaseFiles /\ said \in Sayings /\ Reached(disk, said, conn[c])
  BY DEF SchemaInv, SchemaTypes
<1>2. PICK q \in ConnStates, d \in CaseFiles, e \in CaseFiles, s \in Sayings, t \in Sayings :
          q = conn[c] /\ d = disk /\ e = disk' /\ s = said /\ t = said'
  BY <1>1
<1>3. Reached(d, s, q) /\ Grows(d, s, e, t)
  BY <1>1, <1>2
<1>4. Reached(e, t, q)
  BY <1>3, ReachedStays
<1> QED  BY <1>2, <1>4

\* The database changes while the connections stay where they are.
LEMMA DiskStep ==
    ASSUME SchemaInv, NEW c \in Connections, UNCHANGED <<conn, held>>,
           disk' \in CaseFiles, said' \in Sayings, withdrawn' \in Withdrawals,
           Grows(disk, said, disk', said'), DecisionsStand', disk'.version = disk.version,
           withdrawn' = "alone" => withdrawn = "alone" \/ ~AboutToRegister
    PROVE  SchemaInv'
<1>1. conn[c] \in ConnStates /\ conn' = [conn EXCEPT ![c] = conn[c]]
  BY DEF SchemaInv, SchemaTypes
<1>2. Reached(disk', said', conn[c])
  BY ReachedByAll
<1>3. held' \in BOOLEAN
  BY DEF SchemaInv, SchemaTypes
<1> QED  BY <1>1, <1>2, <1>3, ConnStep

\* A connection goes on, or gives up, and the database is as it was.
LEMMA MoveStep ==
    ASSUME SchemaInv, NEW c \in Connections, NEW q \in ConnStates, conn' = [conn EXCEPT ![c] = q],
           UNCHANGED <<disk, held, said, withdrawn>>, Reached(disk, said, q),
           q.file \in {None, conn[c].file} \/ withdrawn # "alone"
    PROVE  SchemaInv'
<1>1. disk' \in CaseFiles /\ said' \in Sayings /\ held' \in BOOLEAN /\ withdrawn' \in Withdrawals
      /\ disk'.version = disk.version
  BY DEF SchemaInv, SchemaTypes
<1>2. Grows(disk, said, disk', said')
  BY DEF Grows
<1>3. DecisionsStand'
  BY DEF SchemaInv, DecisionsStand
<1>4. Reached(disk', said', q)
  OBVIOUS
<1> QED  BY <1>1, <1>2, <1>3, <1>4, ConnStep

LEMMA GivesUpInv ==
    ASSUME SchemaInv, NEW c \in Connections, GivesUp(c), UNCHANGED <<disk, held, said, withdrawn>>
    PROVE  SchemaInv'
<1> DEFINE q == [Closed EXCEPT !.pc = IF conn[c].fresh THEN "closed" ELSE "open"]
<1>2. q \in ConnStates /\ q.pc \in {"closed", "open"} /\ q.file = None
  BY DEF ConnStates, Closed, None
<1>3. conn' = [conn EXCEPT ![c] = q]
  BY DEF GivesUp
<1> HIDE DEF q
<1>4. Reached(disk, said, q)
  BY <1>2 DEF Reached, Upgrading, AfterScript, AfterCorrect, AfterDefault
<1> QED  BY <1>2, <1>3, <1>4, MoveStep

LEMMA ConnectInv ==
    ASSUME SchemaInv, NEW c \in Connections, Connect(c) \/ Busy(c) \/ Close(c) \/ ReadColumns(c)
    PROVE  SchemaInv'
<1>1. conn[c] \in ConnStates /\ disk \in CaseFiles
  BY DEF SchemaInv, SchemaTypes
<1>2. UNCHANGED <<disk, held, said, withdrawn>>
  BY DEF Connect, Busy, Close, ReadColumns, Quiet
<1>3. ASSUME Connect(c), HasCurrentSchema PROVE SchemaInv'
  <2> DEFINE q == [conn[c] EXCEPT !.pc = "open"]
  <2>1. q \in ConnStates /\ q.pc = "open" /\ conn' = [conn EXCEPT ![c] = q]
        /\ q.file = conn[c].file
    BY <1>1, <1>3 DEF ConnStates, Connect, ConnGoto
  <2> HIDE DEF q
  <2>2. Reached(disk, said, q)
    BY <2>1 DEF Reached, Upgrading, AfterScript, AfterCorrect, AfterDefault
  <2> QED  BY <1>2, <2>1, <2>2, MoveStep
<1>4. ASSUME Connect(c), ~HasCurrentSchema PROVE SchemaInv'
  <2> DEFINE q == [Closed EXCEPT !.pc = "script", !.previous = disk.version, !.fresh = IsFresh]
  <2>1. q \in ConnStates /\ q.pc = "script" /\ q.previous = disk.version /\ q.file = None
        /\ conn' = [conn EXCEPT ![c] = q]
    BY <1>1, <1>4 DEF ConnStates, Connect, Closed, Upgrading, CaseFiles, IsFresh, None
  <2> HIDE DEF q
  <2>2. Reached(disk, said, q)
    BY <2>1 DEF SchemaInv, Reached, AfterScript, AfterCorrect, AfterDefault
  <2> QED  BY <1>2, <2>1, <2>2, MoveStep
<1>5. ASSUME Busy(c) PROVE SchemaInv'
  BY <1>2, <1>5, GivesUpInv DEF Busy
<1>6. ASSUME Close(c) PROVE SchemaInv'
  <2>1. Closed \in ConnStates /\ Closed.pc = "closed" /\ Closed.file = None
    BY DEF Closed, ConnStates, None
  <2>2. Reached(disk, said, Closed)
    BY <2>1 DEF Reached, Upgrading, AfterScript, AfterCorrect, AfterDefault
  <2> QED  BY <1>2, <1>6, <2>1, <2>2, MoveStep DEF Close
<1>7. ASSUME ReadColumns(c) PROVE SchemaInv'
  <2> DEFINE q == [conn[c] EXCEPT !.pc = "columns", !.have = disk.columns]
  <2>1. q \in ConnStates /\ q.pc = "columns" /\ q.have = disk.columns /\ q.previous = conn[c].previous
        /\ q.file = conn[c].file
    BY <1>1 DEF ConnStates, CaseFiles, Upgrading
  <2>2. conn' = [conn EXCEPT ![c] = q] /\ conn[c].pc = "script" /\ Missing = {}
    BY <1>1, <1>7 DEF ReadColumns, ConnAt
  <2> HIDE DEF q
  <2>3. ScriptTables \subseteq disk.tables
    BY <2>2 DEF Missing, Tables, ScriptTables
  <2>4. Reached(disk, said, q)
    BY <2>1, <2>2, <2>3 DEF SchemaInv, Reached, Upgrading, AfterCorrect, AfterScript, AfterDefault
  <2> QED  BY <1>2, <2>1, <2>2, <2>4, MoveStep
<1> QED  BY <1>3, <1>4, <1>5, <1>6, <1>7

LEMMA CreateTableInv ==
    ASSUME SchemaInv, NEW c \in Connections, CreateTable(c)
    PROVE  SchemaInv'
<1>1. PICK i \in Missing : disk' = [disk EXCEPT !.tables = @ \cup {Tables[i]},
                                                !.columns = IF Tables[i] = "findings" THEN Columns ELSE @]
  BY DEF CreateTable
<1>2. Tables[i] \in ScriptTables /\ disk \in CaseFiles
  BY DEF Missing, Tables, ScriptTables, SchemaInv, SchemaTypes
<1>3. disk' \in CaseFiles /\ disk'.version = disk.version
  BY <1>1, <1>2 DEF CaseFiles
<1>4. UNCHANGED <<conn, held, said, withdrawn>>
  BY DEF CreateTable, Writes, Quiet
<1>5. Grows(disk, said, disk', said')
  BY <1>1, <1>2, <1>4 DEF Grows, CaseFiles, DefaultGiven
<1>6. DecisionsStand'
  BY <1>1, <1>2, <1>4 DEF SchemaInv, DecisionsStand, CaseFiles
<1>7. said' \in Sayings /\ withdrawn' \in Withdrawals
  BY <1>4 DEF SchemaInv, SchemaTypes
<1> QED  BY <1>3, <1>4, <1>5, <1>6, <1>7, DiskStep

LEMMA AddColumnInv ==
    ASSUME SchemaInv, NEW c \in Connections, AddColumn(c)
    PROVE  SchemaInv'
<1>1. conn[c] \in ConnStates /\ disk \in CaseFiles /\ conn[c].pc = "columns"
      /\ UNCHANGED <<held, said, withdrawn>> /\ Reached(disk, said, conn[c])
  BY DEF SchemaInv, SchemaTypes, AddColumn, Writes, Quiet, ConnAt
<1>2. PICK column \in Columns \ conn[c].have :
          IF column \in disk.columns THEN GivesUp(c) /\ UNCHANGED disk
          ELSE /\ disk' = [disk EXCEPT !.columns = @ \cup {column}]
               /\ conn' = [conn EXCEPT ![c].have = @ \cup {column}]
  BY DEF AddColumn
<1>3. CASE column \in disk.columns
  BY <1>1, <1>2, <1>3, GivesUpInv
<1>4. CASE column \notin disk.columns
  <2> DEFINE q == [conn[c] EXCEPT !.have = @ \cup {column}]
  <2>1. q \in ConnStates /\ q.pc = "columns" /\ q.previous = conn[c].previous
        /\ q.have = conn[c].have \cup {column} /\ q.file = conn[c].file
    BY <1>1 DEF ConnStates
  <2>2. conn' = [conn EXCEPT ![c] = q] /\ disk' = [disk EXCEPT !.columns = @ \cup {column}]
    BY <1>2, <1>4
  <2> HIDE DEF q
  <2>3. disk' \in CaseFiles /\ disk'.version = disk.version
    BY <1>1, <2>2 DEF CaseFiles
  <2>4. Grows(disk, said, disk', said')
    BY <1>1, <2>2 DEF Grows, CaseFiles, DefaultGiven
  <2>5. DecisionsStand' /\ said' \in Sayings /\ held' \in BOOLEAN /\ withdrawn' \in Withdrawals
    BY <1>1, <2>2 DEF SchemaInv, SchemaTypes, DecisionsStand, CaseFiles
  <2>6. Reached(disk', said', q)
    BY <1>1, <2>1, <2>2 DEF Reached, VersionHas, CaseFiles, AfterScript, AfterCorrect, AfterDefault, Upgrading
  <2> QED  BY <1>1, <2>1, <2>2, <2>3, <2>4, <2>5, <2>6, ConnStep
<1> QED  BY <1>3, <1>4

LEMMA CorrectInv ==
    ASSUME SchemaInv, NEW c \in Connections, Correct(c)
    PROVE  SchemaInv'
<1> DEFINE q == [conn[c] EXCEPT !.pc = "ioc_script"]
<1>1. conn[c] \in ConnStates /\ disk \in CaseFiles /\ conn[c].pc = "columns" /\ conn[c].have = Columns
      /\ UNCHANGED <<held, said, withdrawn>> /\ Reached(disk, said, conn[c])
  BY DEF SchemaInv, SchemaTypes, Correct, Writes, Quiet, ConnAt
<1>2. q \in ConnStates /\ q.pc = "ioc_script" /\ q.previous = conn[c].previous /\ q.have = Columns
      /\ q.file = conn[c].file
  BY <1>1 DEF ConnStates, Upgrading
<1>3. conn' = [conn EXCEPT ![c] = q]
      /\ disk' = [disk EXCEPT !.owner = "webshell", !.audits = Audits(c), !.identity = TRUE]
  BY DEF Correct, ConnGoto
<1>4. Audits(c) = 1
  <2>1. VersionHas(disk, conn[c].previous)
    BY <1>1 DEF Reached, Upgrading
  <2>2. conn[c].previous \in Nat /\ disk.audits \in {0, 1}
    BY <1>1 DEF ConnStates, CaseFiles
  <2> QED  BY <2>1, <2>2 DEF Audits, VersionHas
<1> HIDE DEF q
<1>5. disk' \in CaseFiles /\ disk'.version = disk.version
  BY <1>1, <1>3, <1>4 DEF CaseFiles
<1>6. Grows(disk, said, disk', said')
  BY <1>1, <1>3, <1>4 DEF Grows, CaseFiles, DefaultGiven
<1>7. DecisionsStand' /\ said' \in Sayings /\ held' \in BOOLEAN /\ withdrawn' \in Withdrawals
  BY <1>1, <1>3 DEF SchemaInv, SchemaTypes, DecisionsStand, CaseFiles
<1>8. Reached(disk', said', q)
  <2>1. Reached(disk', said', conn[c])
    BY <1>5, <1>6, <1>7, ReachedByAll
  <2>2. disk.columns = Columns
    BY <1>1 DEF Reached, AfterScript, Upgrading, CaseFiles
  <2>3. Regraded(disk')
    BY <1>1, <1>3, <1>4, <2>2 DEF Regraded, CaseFiles
  <2> QED  BY <1>1, <1>2, <2>1, <2>3 DEF Reached, AfterScript, AfterCorrect, AfterDefault, Upgrading
<1> QED  BY <1>1, <1>2, <1>3, <1>5, <1>6, <1>7, <1>8, ConnStep

LEMMA ScriptsInv ==
    ASSUME SchemaInv, NEW c \in Connections, IocScript(c) \/ DropTrigger(c)
    PROVE  SchemaInv'
<1> DEFINE q == [conn[c] EXCEPT !.pc = IF IocScript(c) THEN "default" ELSE "create"]
<1>0. ~(IocScript(c) /\ DropTrigger(c))
  BY DEF IocScript, DropTrigger, Writes, ConnAt
<1>1. conn[c] \in ConnStates /\ disk \in CaseFiles /\ Reached(disk, said, conn[c])
      /\ UNCHANGED <<held, said, withdrawn>>
  BY DEF SchemaInv, SchemaTypes, IocScript, DropTrigger, Writes, Quiet
<1>2. q \in ConnStates /\ q.previous = conn[c].previous /\ q.have = conn[c].have
      /\ q.file = conn[c].file
      /\ (IocScript(c) => conn[c].pc = "ioc_script" /\ q.pc = "default")
      /\ (DropTrigger(c) => conn[c].pc = "drop" /\ q.pc = "create")
  BY <1>0, <1>1 DEF ConnStates, Upgrading, IocScript, DropTrigger, Writes, ConnAt
<1>3. conn' = [conn EXCEPT ![c] = q]
  BY <1>0 DEF IocScript, DropTrigger, ConnGoto
<1>4. \/ disk' = [disk EXCEPT !.tables = @ \cup IocTables]
      \/ disk' = [disk EXCEPT !.trigger = FALSE]
  BY DEF IocScript, DropTrigger
<1> HIDE DEF q
<1>5. disk' \in CaseFiles /\ disk'.version = disk.version
  BY <1>1, <1>4 DEF CaseFiles
<1>6. Grows(disk, said, disk', said')
  BY <1>1, <1>4 DEF Grows, CaseFiles, DefaultGiven
<1>7. DecisionsStand' /\ said' \in Sayings /\ held' \in BOOLEAN /\ withdrawn' \in Withdrawals
  BY <1>1, <1>4 DEF SchemaInv, SchemaTypes, DecisionsStand, CaseFiles
<1>8. Reached(disk', said', conn[c])
  BY <1>5, <1>6, <1>7, ReachedByAll
<1>9. Reached(disk', said', q)
  BY <1>2, <1>8 DEF Reached, AfterScript, AfterCorrect, AfterDefault, Upgrading
<1> QED  BY <1>1, <1>2, <1>3, <1>5, <1>6, <1>7, <1>9, ConnStep

LEMMA DefaultInv ==
    ASSUME SchemaInv, NEW c \in Connections, Default(c)
    PROVE  SchemaInv'
<1> DEFINE q == [conn[c] EXCEPT !.pc = "drop"]
<1>1. conn[c] \in ConnStates /\ disk \in CaseFiles /\ conn[c].pc = "default"
      /\ UNCHANGED <<held, said, withdrawn>>
  BY DEF SchemaInv, SchemaTypes, Default, Writes, Quiet, ConnAt
<1>2. q \in ConnStates /\ q.pc = "drop" /\ q.previous = conn[c].previous /\ q.have = conn[c].have
      /\ q.file = conn[c].file
  BY <1>1 DEF ConnStates, Upgrading
<1>3. conn' = [conn EXCEPT ![c] = q] /\ disk' = [disk EXCEPT !.assessment = Defaulted]
  BY DEF Default, ConnGoto
<1> HIDE DEF q
<1>4. Defaulted \in {"malicious", "unassessed", "benign"}
  BY <1>1 DEF Defaulted, CaseFiles
<1>5. disk' \in CaseFiles /\ disk'.version = disk.version
  BY <1>1, <1>3, <1>4 DEF CaseFiles
<1>6. DefaultGiven(disk', said')
  BY <1>1, <1>3 DEF DefaultGiven, Defaulted, CaseFiles, SchemaInv, DecisionsStand, None
<1>7. Grows(disk, said, disk', said')
  BY <1>1, <1>3, <1>6 DEF Grows, CaseFiles
<1>8. DecisionsStand' /\ said' \in Sayings /\ held' \in BOOLEAN /\ withdrawn' \in Withdrawals
  BY <1>1, <1>3 DEF SchemaInv, SchemaTypes, DecisionsStand, CaseFiles, Defaulted
<1>9. Reached(disk', said', conn[c])
  BY <1>5, <1>7, <1>8, ReachedByAll
<1>10. Reached(disk', said', q)
  BY <1>1, <1>2, <1>6, <1>9 DEF Reached, AfterScript, AfterCorrect, AfterDefault, Upgrading
<1> QED  BY <1>1, <1>2, <1>3, <1>5, <1>7, <1>8, <1>10, ConnStep

LEMMA CreateTriggerInv ==
    ASSUME SchemaInv, NEW c \in Connections, CreateTrigger(c)
    PROVE  SchemaInv'
<1> DEFINE q == [conn[c] EXCEPT !.pc = "source"]
<1>1. conn[c] \in ConnStates /\ disk \in CaseFiles /\ conn[c].pc = "create"
      /\ UNCHANGED <<held, said, withdrawn>>
  BY DEF SchemaInv, SchemaTypes, CreateTrigger, Writes, Quiet, ConnAt
<1>2. CASE disk.trigger
  BY <1>1, <1>2, GivesUpInv DEF CreateTrigger
<1>3. CASE ~disk.trigger
  <2>1. q \in ConnStates /\ q.pc = "source" /\ q.previous = conn[c].previous /\ q.have = conn[c].have
      /\ q.file = conn[c].file
    BY <1>1 DEF ConnStates, Upgrading
  <2>2. conn' = [conn EXCEPT ![c] = q] /\ disk' = [disk EXCEPT !.trigger = TRUE]
    BY <1>3 DEF CreateTrigger, ConnGoto
  <2> HIDE DEF q
  <2>3. disk' \in CaseFiles /\ disk'.version = disk.version
    BY <1>1, <2>2 DEF CaseFiles
  <2>4. Grows(disk, said, disk', said')
    BY <1>1, <2>2 DEF Grows, CaseFiles, DefaultGiven
  <2>5. DecisionsStand' /\ said' \in Sayings /\ held' \in BOOLEAN /\ withdrawn' \in Withdrawals
    BY <1>1, <2>2 DEF SchemaInv, SchemaTypes, DecisionsStand, CaseFiles
  <2>6. Reached(disk', said', conn[c])
    BY <2>3, <2>4, <2>5, ReachedByAll
  <2>7. Reached(disk', said', q)
    BY <1>1, <2>1, <2>6 DEF Reached, AfterScript, AfterCorrect, AfterDefault, Upgrading
  <2> QED  BY <1>1, <2>1, <2>2, <2>3, <2>4, <2>5, <2>7, ConnStep
<1> QED  BY <1>2, <1>3

\* What is read before the lock is taken: a withdrawn source is not read as active.
LEMMA ReadsInv ==
    ASSUME SchemaInv, NEW c \in Connections, ReadSource(c) \/ ReadImports(c)
    PROVE  SchemaInv'
<1>1. conn[c] \in ConnStates /\ disk \in CaseFiles /\ Reached(disk, said, conn[c])
      /\ UNCHANGED <<disk, held, said, withdrawn>>
  BY DEF SchemaInv, SchemaTypes, ReadSource, ReadImports, Quiet
<1>2. CASE ReadSource(c)
  <2> DEFINE q == [conn[c] EXCEPT !.pc = "register", !.file = Unregistered]
  <2>1. conn' = [conn EXCEPT ![c] = q] /\ conn[c].pc = "source"
    BY <1>2 DEF ReadSource, ConnAt
  <2>2. Unregistered \in {None, "active", "withdrawn"} /\ (Unregistered = None => disk.file # None)
    BY DEF Unregistered, None
  <2>3. /\ q \in ConnStates /\ q.pc = "register" /\ q.previous = conn[c].previous
        /\ q.have = conn[c].have /\ q.file = Unregistered
    BY <1>1, <2>2 DEF ConnStates, Upgrading
  <2>4. withdrawn = "alone" => Unregistered # "active"
    BY DEF SchemaInv, DecisionsStand, Unregistered, None
  <2> HIDE DEF q
  <2>5. Reached(disk, said, q)
    BY <1>1, <2>1, <2>2, <2>3 DEF Reached, AfterScript, AfterCorrect, AfterDefault, Upgrading
  <2>6. CASE withdrawn # "alone"
    BY <1>1, <2>1, <2>3, <2>5, <2>6, MoveStep
  <2>7. CASE withdrawn = "alone"
    <3>1. conn[c].file # "active" /\ Unregistered # "active"
      BY <2>4, <2>7 DEF SchemaInv, NobodyRegisters, AboutToRegister
    <3>2. SchemaTypes' /\ DecisionsStand' /\ VersionHas(disk', disk'.version) /\ Stamped(disk', said')
      BY <1>1, <2>1, <2>3 DEF SchemaInv, SchemaTypes, DecisionsStand
    <3>3. ASSUME NEW x \in Connections
          PROVE  Reached(disk', said', conn'[x]) /\ conn'[x].file # "active"
      <4>1. conn'[x] = IF x = c THEN q ELSE conn[x]
        BY <2>1 DEF SchemaInv, SchemaTypes
      <4> QED  BY <1>1, <2>3, <2>5, <2>7, <3>1, <4>1 DEF SchemaInv, NobodyRegisters, AboutToRegister
    <3> QED  BY <3>2, <3>3 DEF SchemaInv, NobodyRegisters, AboutToRegister
  <2> QED  BY <2>6, <2>7
<1>3. CASE ReadImports(c)
  <2> DEFINE i == conn[c].previous < 21 /\ disk.imports = 0
  <2> DEFINE q == [conn[c] EXCEPT !.pc = "stamp", !.import = i]
  <2>1. conn' = [conn EXCEPT ![c] = q] /\ conn[c].pc = "software"
    BY <1>3 DEF ReadImports, ConnAt
  <2>2. /\ q \in ConnStates /\ q.pc = "stamp" /\ q.previous = conn[c].previous
        /\ q.have = conn[c].have /\ q.file = conn[c].file /\ q.import = i
    BY <1>1 DEF ConnStates, Upgrading
  <2>3. ~i => disk.imports = 1
    <3>1. VersionHas(disk, conn[c].previous)
      BY <1>1, <2>1 DEF Reached, Upgrading
    <3>2. conn[c].previous \in Nat /\ disk.imports \in {0, 1}
      BY <1>1 DEF ConnStates, CaseFiles
    <3> QED  BY <3>1, <3>2 DEF VersionHas
  <2> HIDE DEF q, i
  <2>4. Reached(disk, said, q)
    BY <1>1, <2>1, <2>2, <2>3 DEF Reached, AfterScript, AfterCorrect, AfterDefault, Upgrading
  <2> QED  BY <1>1, <2>1, <2>2, <2>4, MoveStep
<1> QED  BY <1>2, <1>3

LEMMA RegisterInv ==
    ASSUME SchemaInv, NEW c \in Connections, Register(c)
    PROVE  SchemaInv'
<1> DEFINE q == [conn[c] EXCEPT !.pc = "software", !.file = None]
<1>1. conn[c] \in ConnStates /\ disk \in CaseFiles /\ conn[c].pc = "register"
      /\ UNCHANGED <<held, said, withdrawn>> /\ Reached(disk, said, conn[c])
  BY DEF SchemaInv, SchemaTypes, Register, Writes, Quiet, ConnAt
<1>2. /\ q \in ConnStates /\ q.pc = "software" /\ q.previous = conn[c].previous
      /\ q.have = conn[c].have /\ q.file = None
  BY <1>1 DEF ConnStates, Upgrading
<1>3. conn' = [conn EXCEPT ![c] = q]
      /\ disk' = [disk EXCEPT !.file = IF conn[c].file = None THEN @ ELSE conn[c].file]
  BY DEF Register
<1>a. conn[c].file \in {None, "active", "withdrawn"} /\ (conn[c].file = None => disk.file # None)
  BY <1>1 DEF ConnStates, Reached
<1>b. withdrawn = "alone" => conn[c].file # "active"
  BY DEF SchemaInv, NobodyRegisters, AboutToRegister
<1> HIDE DEF q
<1>4. /\ disk' \in CaseFiles /\ disk'.version = disk.version /\ disk'.file # None
      /\ withdrawn = "alone" => disk'.file # "active" /\ disk'.source = FALSE
  BY <1>1, <1>3, <1>a, <1>b DEF CaseFiles, None, SchemaInv, DecisionsStand
<1>5. Grows(disk, said, disk', said')
  BY <1>1, <1>3, <1>4 DEF Grows, CaseFiles, DefaultGiven
<1>6. DecisionsStand' /\ said' \in Sayings /\ held' \in BOOLEAN /\ withdrawn' \in Withdrawals
  BY <1>1, <1>3, <1>4 DEF SchemaInv, SchemaTypes, DecisionsStand, CaseFiles
<1>7. Reached(disk', said', conn[c])
  BY <1>4, <1>5, <1>6, ReachedByAll
<1>8. Reached(disk', said', q)
  BY <1>1, <1>2, <1>4, <1>7 DEF Reached, AfterScript, AfterCorrect, AfterDefault, Upgrading
<1> QED  BY <1>1, <1>2, <1>3, <1>4, <1>5, <1>6, <1>8, ConnStep

\* Whoever stamps the version has every correction behind it.
LEMMA StampInv ==
    ASSUME SchemaInv, NEW c \in Connections, Stamp(c)
    PROVE  SchemaInv'
<1> DEFINE q == [Closed EXCEPT !.pc = "open"]
<1>1. conn[c] \in ConnStates /\ disk \in CaseFiles /\ conn[c].pc = "stamp"
      /\ UNCHANGED <<held, said, withdrawn>> /\ Reached(disk, said, conn[c])
  BY DEF SchemaInv, SchemaTypes, Stamp, Writes, Quiet, ConnAt
<1>a. CASE conn[c].import /\ disk.imports # 0
  <2>1. conn' = [conn EXCEPT ![c] = Closed] /\ disk' = disk
    BY <1>a DEF Stamp
  <2>2. Closed \in ConnStates /\ Closed.pc = "closed" /\ Closed.file = None
    BY DEF Closed, ConnStates, None
  <2>3. Reached(disk, said, Closed)
    BY <2>2 DEF Reached, Upgrading, AfterScript, AfterCorrect, AfterDefault
  <2> QED  BY <1>1, <2>1, <2>2, <2>3, MoveStep
<1>b. CASE ~(conn[c].import /\ disk.imports # 0)
  <2>2. q \in ConnStates /\ q.pc = "open" /\ q.file = None
    BY DEF ConnStates, Closed, None
  <2>3. conn' = [conn EXCEPT ![c] = q]
        /\ disk' = [disk EXCEPT !.imports = IF conn[c].import THEN @ + 1 ELSE @, !.version = Current]
    BY <1>b DEF Stamp
  <2>4. (IF conn[c].import THEN disk.imports + 1 ELSE disk.imports) = 1
    <3>1. disk.imports \in {0, 1} /\ conn[c].import \in BOOLEAN
      BY <1>1 DEF ConnStates, CaseFiles
    <3>2. ~conn[c].import => disk.imports = 1
      BY <1>1, <3>1 DEF Reached
    <3> QED  BY <1>b, <3>1, <3>2
  <2> HIDE DEF q
  <2>5. disk' \in CaseFiles /\ disk'.version = Current /\ disk'.imports = 1
    BY <1>1, <2>3, <2>4 DEF CaseFiles, Current
  <2>6. Grows(disk, said, disk', said')
    BY <1>1, <2>3, <2>4 DEF Grows, CaseFiles, DefaultGiven
  <2>7. DecisionsStand' /\ said' \in Sayings /\ held' \in BOOLEAN /\ withdrawn' \in Withdrawals
    BY <1>1, <2>3 DEF SchemaInv, SchemaTypes, DecisionsStand, CaseFiles
  <2>8. Reached(disk', said', conn[c])
    BY <2>5, <2>6, <2>7, ReachedByAll
  <2>9. Stamped(disk', said') /\ disk'.audits = 1
    BY <1>1, <2>5, <2>8
    DEF Reached, Stamped, AfterScript, AfterCorrect, AfterDefault, Upgrading, ScriptTables, Regraded
  <2>10. Reached(disk', said', q)
    BY <2>2 DEF Reached, AfterScript, AfterCorrect, AfterDefault, Upgrading
  <2> QED  BY <1>1, <2>2, <2>3, <2>5, <2>6, <2>7, <2>9, <2>10, ConnStep
<1> QED  BY <1>a, <1>b

LEMMA DecisionsInv ==
    ASSUME SchemaInv, NEW c \in Connections,
           Withdraw(c) \/ \E s \in {"benign", "unassessed"} : Assess(c, s)
    PROVE  SchemaInv'
<1>1. disk \in CaseFiles /\ UNCHANGED <<conn, held>>
  BY DEF SchemaInv, SchemaTypes, Withdraw, Assess
<1>2. CASE Withdraw(c)
  <2>1. disk' = [disk EXCEPT !.source = FALSE, !.file = IF @ = None THEN @ ELSE "withdrawn"]
        /\ withdrawn' = (IF AboutToRegister THEN "meanwhile" ELSE "alone") /\ said' = said
    BY <1>2 DEF Withdraw
  <2>2. disk' \in CaseFiles /\ disk'.version = disk.version /\ disk'.file # "active" /\ disk'.source = FALSE
        /\ disk'.assessment = disk.assessment
    BY <1>1, <2>1 DEF CaseFiles, None
  <2>3. Grows(disk, said, disk', said')
    BY <1>1, <2>1 DEF Grows, CaseFiles, DefaultGiven, None
  <2>4. DecisionsStand' /\ said' \in Sayings /\ withdrawn' \in Withdrawals
    BY <2>1, <2>2 DEF SchemaInv, SchemaTypes, DecisionsStand, Withdrawals
  <2> QED  BY <1>1, <2>1, <2>2, <2>3, <2>4, DiskStep
<1>3. ASSUME NEW s \in {"benign", "unassessed"}, Assess(c, s) PROVE SchemaInv'
  <2>1. disk' = [disk EXCEPT !.assessment = s] /\ said' = s /\ withdrawn' = withdrawn
    BY <1>3 DEF Assess
  <2>2. disk' \in CaseFiles /\ disk'.version = disk.version /\ disk'.assessment = s
    BY <1>1, <2>1 DEF CaseFiles
  <2>3. Grows(disk, said, disk', said')
    BY <1>1, <2>1 DEF Grows, CaseFiles, DefaultGiven
  <2>4. DecisionsStand' /\ said' \in Sayings /\ withdrawn' \in Withdrawals
    BY <1>1, <2>1 DEF SchemaInv, SchemaTypes, DecisionsStand, CaseFiles, Sayings
  <2> QED  BY <1>1, <2>1, <2>2, <2>3, <2>4, DiskStep
<1> QED  BY <1>2, <1>3

\* An engine takes or gives back the lock, the process dies, or nothing happens.
LEMMA OtherStepsInv ==
    ASSUME SchemaInv, EngineHolds \/ EngineReleases \/ SCrash \/ UNCHANGED svars
    PROVE  SchemaInv'
<1>1. UNCHANGED <<disk, said, withdrawn>> /\ held' \in BOOLEAN
      /\ (conn' = conn \/ conn' = [c \in Connections |-> Closed])
  BY DEF EngineHolds, EngineReleases, SCrash, svars, SchemaInv, SchemaTypes
<1>2. Closed \in ConnStates /\ Closed.pc = "closed" /\ Closed.file = None
  BY DEF Closed, ConnStates, Upgrading, None
<1>3. SchemaTypes'
  BY <1>1, <1>2 DEF SchemaInv, SchemaTypes
<1>4. ASSUME NEW c \in Connections PROVE Reached(disk', said', conn'[c])
  <2>1. CASE conn' = conn
    BY <1>1, <2>1 DEF SchemaInv
  <2>2. CASE conn' = [x \in Connections |-> Closed]
    <3>1. conn'[c] = Closed
      BY <2>2
    <3> QED  BY <3>1, <1>2 DEF Reached, Upgrading, AfterScript, AfterCorrect, AfterDefault
  <2> QED  BY <1>1, <2>1, <2>2
<1>5. DecisionsStand' /\ VersionHas(disk', disk'.version) /\ Stamped(disk', said')
  BY <1>1 DEF SchemaInv, DecisionsStand
<1>6. NobodyRegisters'
  <2> SUFFICES ASSUME withdrawn' = "alone", NEW x \in Connections PROVE conn'[x].file # "active"
    BY DEF NobodyRegisters, AboutToRegister
  <2>1. conn[x].file # "active"
    BY <1>1 DEF SchemaInv, NobodyRegisters, AboutToRegister
  <2> QED  BY <1>1, <1>2, <2>1 DEF None
<1> QED  BY <1>3, <1>4, <1>5, <1>6 DEF SchemaInv

LEMMA SchemaNextInv == SchemaInv /\ [SNext]_svars => SchemaInv'
<1> SUFFICES ASSUME SchemaInv, [SNext]_svars PROVE SchemaInv'
  OBVIOUS
<1>1. CASE UNCHANGED svars \/ EngineHolds \/ EngineReleases \/ SCrash
  BY <1>1, OtherStepsInv
<1>2. ASSUME NEW c \in Connections,
             \/ Connect(c) \/ Busy(c) \/ CreateTable(c) \/ ReadColumns(c) \/ AddColumn(c)
             \/ Correct(c) \/ IocScript(c) \/ Default(c) \/ DropTrigger(c) \/ CreateTrigger(c)
             \/ ReadSource(c) \/ Register(c) \/ ReadImports(c) \/ Stamp(c) \/ Close(c) \/ Withdraw(c)
             \/ \E s \in {"benign", "unassessed"} : Assess(c, s)
      PROVE  SchemaInv'
  BY <1>2, ConnectInv, CreateTableInv, AddColumnInv, CorrectInv, ScriptsInv, DefaultInv,
     CreateTriggerInv, ReadsInv, RegisterInv, StampInv, DecisionsInv
<1> QED  BY <1>1, <1>2 DEF SNext

THEOREM SchemaInvariant == SSpec => []SchemaInv
BY SchemaInitInv, SchemaNextInv, PTL DEF SSpec

\* Whatever connect takes for a current database has every correction exactly once.
THEOREM CurrentIsCorrected == SSpec => []CurrentMeansCorrected
<1>1. SchemaInv => CurrentMeansCorrected
  BY DEF SchemaInv, SchemaTypes, CaseFiles, HasCurrentSchema, Stamped, Regraded, DefaultGiven,
         CurrentMeansCorrected
<1> QED  BY <1>1, SchemaInvariant, PTL

\* What the analyst decided before or during an upgrade stays decided, but for a
\* withdrawal between its look at the source and its registration of the file.
THEOREM DecisionsSurviveUpgrades == SSpec => []UpgradesKeepDecisions
<1>1. SchemaInv => UpgradesKeepDecisions
  BY DEF SchemaInv, DecisionsStand, UpgradesKeepDecisions
<1> QED  BY <1>1, SchemaInvariant, PTL

(***************************************************************************)
(* Launcher: starting from a source checkout.                              *)
(*                                                                         *)
(* The argument: as long as no coordinator was killed alone, whoever works *)
(* holds run.lock, so there is one start at a time (WorkersHold), and at   *)
(* each of its steps some things have been made (Made). What is partly     *)
(* removed beside the interface is never needed (Interfaces): the old one  *)
(* is put aside only when the next one is whole.                           *)
(***************************************************************************)

Preparing == {"compare", "modules", "npm", "clear", "build", "verify"}
Publishing == {"aside", "publish", "receipt"}
Finished == {"discard", "ready", "serve"}
WithPackages == {"frontend"} \cup Preparing \cup Publishing \cup Finished
StartSteps == {"stopped", "pull", "python", "venv", "install"} \cup WithPackages
Starts == [pc : StartSteps, update : BOOLEAN, inputs : Nat]

LauncherTypes ==
    /\ version \in Nat /\ venv \in Nat /\ packages \in Nat /\ python \in Nat
    /\ modules \in Nat /\ npm \in Nat /\ dist \in Nat /\ previous \in Nat /\ stage \in Nat
    /\ prepared \in [inputs : Nat, outputs : Nat]
    /\ run \in [Launchers -> Starts] /\ orphaned \in BOOLEAN /\ built \in BOOLEAN

\* While no coordinator was killed alone, whoever works holds the lock.
WorkersHold == \A p \in Launchers : run[p].pc # "stopped" => runlock = p

\* The interface in use is whole or away, and what is partly removed beside it was
\* not needed; once there was a whole one, there is one.
Interfaces(used, before, was) ==
    /\ used = Nothing \/ IsWhole(used)
    /\ before = Part => IsWhole(used)
    /\ was => IsWhole(used) \/ IsWhole(before)

\* What has been made when a start is at this step.
Made(q, used, before, next, pips, receipt) ==
    /\ q.pc \in WithPackages => IsWhole(pips)
    /\ q.pc \in Preparing => (before # Nothing => used # Nothing)
    /\ q.pc = "aside" => before \in {Nothing, Part}
    /\ q.pc \in {"aside", "publish"} => IsWhole(next)
    /\ q.pc = "receipt" => IsWhole(used)
    /\ q.pc \in Finished => IsWhole(used) /\ receipt.outputs = used

Unorphaned ==
    /\ WorkersHold /\ Interfaces(dist, previous, built)
    /\ \A p \in Launchers : Made(run[p], dist, previous, stage, packages, prepared)

LauncherInv == LauncherTypes /\ (~orphaned => Unorphaned)

----------------------------------------------------------------------------

LEMMA LauncherInitInv == LInit => LauncherInv
<1> SUFFICES ASSUME LInit PROVE LauncherInv
  OBVIOUS
<1>1. PICK first \in BOOLEAN :
          LET made == IF first THEN Nothing ELSE Whole(0) IN
          /\ venv = made /\ packages = made /\ python = made
          /\ modules = made /\ npm = made
          /\ dist = made /\ prepared = [inputs |-> made, outputs |-> made]
          /\ built = ~first
  BY DEF LInit
<1>2. Stopped \in Starts /\ Stopped.pc = "stopped"
  BY DEF Stopped, Starts, StartSteps
<1>6. \/ dist = 0 /\ built = FALSE /\ venv = 0 /\ packages = 0 /\ python = 0 /\ modules = 0 /\ npm = 0
         /\ prepared = [inputs |-> 0, outputs |-> 0]
      \/ dist = 2 /\ built = TRUE /\ venv = 2 /\ packages = 2 /\ python = 2 /\ modules = 2 /\ npm = 2
         /\ prepared = [inputs |-> 2, outputs |-> 2]
  <2>1. CASE first = TRUE
    BY <1>1, <2>1 DEF Nothing
  <2>2. CASE first = FALSE
    BY <1>1, <2>2, Whole(0) = 2 DEF Whole
  <2> QED  BY <2>1, <2>2
<1>3. LauncherTypes
  <2>1. run \in [Launchers -> Starts] /\ orphaned \in BOOLEAN
    BY <1>2 DEF LInit
  <2>2. built \in BOOLEAN /\ version \in Nat /\ previous \in Nat /\ stage \in Nat
    BY <1>6 DEF LInit, Nothing
  <2> QED  BY <1>6, <2>1, <2>2 DEF LauncherTypes
<1>4. WorkersHold /\ Interfaces(dist, previous, built)
  <2>1. WorkersHold /\ previous = 0
    BY <1>2 DEF LInit, WorkersHold, Nothing
  <2>2. CASE dist = 0 /\ built = FALSE
    BY <2>1, <2>2 DEF Interfaces, Nothing, Part
  <2>3. CASE dist = 2
    BY <2>1, <2>3 DEF Interfaces, IsWhole
  <2> QED  BY <2>1, <2>2, <2>3, <1>6
<1>5. \A p \in Launchers : Made(run[p], dist, previous, stage, packages, prepared)
  BY <1>2 DEF LInit, Made, WithPackages, Preparing, Publishing, Finished
<1> QED  BY <1>3, <1>4, <1>5 DEF LauncherInv, Unorphaned

\* A start goes on to another step.
LEMMA WorkerStep ==
    ASSUME LauncherInv, NEW p \in Launchers, NEW q \in Starts, run' = [run EXCEPT ![p] = q],
           run[p].pc # "stopped", UNCHANGED orphaned,
           version' \in Nat, venv' \in Nat, packages' \in Nat, python' \in Nat, modules' \in Nat,
           npm' \in Nat, dist' \in Nat, previous' \in Nat, stage' \in Nat, built' \in BOOLEAN,
           prepared' \in [inputs : Nat, outputs : Nat],
           q.pc # "stopped" => runlock' = runlock,
           ~orphaned => /\ Interfaces(dist', previous', built')
                        /\ Made(q, dist', previous', stage', packages', prepared')
    PROVE  LauncherInv'
<1>1. LauncherTypes'
  BY DEF LauncherInv, LauncherTypes
<1>2. ASSUME ~orphaned PROVE Unorphaned'
  <2>1. runlock = p /\ \A x \in Launchers \ {p} : run[x].pc = "stopped"
    BY <1>2 DEF LauncherInv, Unorphaned, WorkersHold
  <2>2. ASSUME NEW x \in Launchers
        PROVE  /\ run'[x].pc # "stopped" => runlock' = x
               /\ Made(run'[x], dist', previous', stage', packages', prepared')
    <3>1. CASE x = p
      BY <3>1, <1>2, <2>1 DEF LauncherInv, LauncherTypes
    <3>2. CASE x # p
      <4>1. run'[x].pc = "stopped"
        BY <3>2, <2>1 DEF LauncherInv, LauncherTypes
      <4> QED  BY <4>1 DEF Made, WithPackages, Preparing, Publishing, Finished
    <3> QED  BY <3>1, <3>2
  <2> QED  BY <1>2, <2>2 DEF Unorphaned, WorkersHold
<1> QED  BY <1>1, <1>2 DEF LauncherInv

\* What a working start may rely on.
LEMMA WorkerKnows ==
    ASSUME LauncherInv, NEW p \in Launchers
    PROVE  /\ version \in Nat /\ venv \in Nat /\ packages \in Nat /\ python \in Nat
           /\ modules \in Nat /\ npm \in Nat /\ dist \in Nat /\ previous \in Nat /\ stage \in Nat
           /\ prepared \in [inputs : Nat, outputs : Nat] /\ built \in BOOLEAN
           /\ run[p] \in Starts
           /\ ~orphaned => /\ Interfaces(dist, previous, built)
                           /\ Made(run[p], dist, previous, stage, packages, prepared)
BY DEF LauncherInv, LauncherTypes, Unorphaned

LEMMA Proceeding ==
    ASSUME LauncherInv, NEW p \in Launchers, NEW pc \in StartSteps, Proceed(p, pc)
    PROVE  \E q \in Starts : q.pc = pc /\ run' = [run EXCEPT ![p] = q]
<1>1. run[p] \in Starts
  BY WorkerKnows
<1> DEFINE q == [run[p] EXCEPT !.pc = pc]
<1>2. q \in Starts /\ q.pc = pc
  BY <1>1 DEF Starts
<1>3. run' = [run EXCEPT ![p] = q]
  BY DEF Proceed
<1> QED  BY <1>2, <1>3

\* The Python environment: nothing of the interface is touched.
LEMMA PythonInv ==
    ASSUME LauncherInv, NEW p \in Launchers, Pull(p) \/ MakeVenv(p) \/ VenvMade(p)
    PROVE  LauncherInv'
<1>1. PICK pc \in {"python", "venv"} : Proceed(p, pc)
  BY DEF Pull, MakeVenv, VenvMade
<1>2. PICK q \in Starts : q.pc = pc /\ run' = [run EXCEPT ![p] = q]
  BY <1>1, Proceeding DEF StartSteps
<1>3. run[p].pc # "stopped" /\ UNCHANGED <<orphaned, runlock, packages, python, tools, folders, built>>
  BY DEF Pull, MakeVenv, VenvMade, LauncherAt, Keeps, environment
<1>4. version' \in Nat /\ venv' \in Nat
  BY WorkerKnows DEF Pull, MakeVenv, VenvMade, LauncherAt, Keeps, environment, checkout, Part, Whole
<1>5. Made(q, dist', previous', stage', packages', prepared')
  BY <1>1, <1>2 DEF Made, WithPackages, Preparing, Publishing, Finished
<1> QED  BY <1>2, <1>3, <1>4, <1>5, WorkerKnows, WorkerStep DEF tools, folders

LEMMA CheckPythonInv ==
    ASSUME LauncherInv, NEW p \in Launchers, CheckPython(p)
    PROVE  LauncherInv'
<1>1. run[p].pc # "stopped" /\ UNCHANGED <<orphaned, runlock, version, venv, python, tools, folders, built>>
  BY DEF CheckPython, LauncherAt, Keeps, checkout
<1>2. CASE Healthy
  <2>1. PICK q \in Starts : q.pc = "frontend" /\ run' = [run EXCEPT ![p] = q]
    BY <1>2, Proceeding DEF CheckPython, StartSteps, WithPackages
  <2>2. packages' = packages /\ IsWhole(packages)
    BY <1>2 DEF CheckPython, Healthy
  <2>3. Made(q, dist', previous', stage', packages', prepared')
    BY <2>1, <2>2 DEF Made, Preparing, Finished
  <2> QED  BY <1>1, <2>1, <2>2, <2>3, WorkerKnows, WorkerStep DEF tools, folders
<1>3. CASE ~Healthy
  <2> DEFINE q == [run[p] EXCEPT !.pc = "install", !.inputs = Key]
  <2>1. q \in Starts /\ q.pc = "install"
    <3>1. run[p] \in Starts /\ Key \in Nat
      BY WorkerKnows DEF Key, Whole
    <3> QED  BY <3>1 DEF Starts, StartSteps
  <2>2. run' = [run EXCEPT ![p] = q] /\ packages' = Part
    BY <1>3 DEF CheckPython
  <2> HIDE DEF q
  <2>3. Made(q, dist', previous', stage', packages', prepared')
    BY <2>1 DEF Made, WithPackages, Preparing, Publishing, Finished
  <2>4. packages' \in Nat
    BY <2>2 DEF Part
  <2> QED  BY <1>1, <2>1, <2>2, <2>3, <2>4, WorkerKnows, WorkerStep DEF tools, folders
<1> QED  BY <1>2, <1>3

LEMMA InstalledInv ==
    ASSUME LauncherInv, NEW p \in Launchers, Installed(p)
    PROVE  LauncherInv'
<1>1. run[p].pc # "stopped" /\ UNCHANGED <<orphaned, runlock, version, venv, tools, folders, built>>
      /\ packages' = Key /\ python' = run[p].inputs
  BY DEF Installed, LauncherAt, Keeps, checkout
<1>2. PICK q \in Starts : q.pc = "frontend" /\ run' = [run EXCEPT ![p] = q]
  BY Proceeding DEF Installed, StartSteps, WithPackages
<1>3. packages' \in Nat /\ IsWhole(packages') /\ python' \in Nat
  BY <1>1, WorkerKnows DEF Key, Whole, IsWhole, Starts
<1>4. Made(q, dist', previous', stage', packages', prepared')
  BY <1>2, <1>3 DEF Made, Preparing, Finished
<1> QED  BY <1>1, <1>2, <1>3, <1>4, WorkerKnows, WorkerStep DEF tools, folders

\* A step of the interface that only goes on, with what it relies on made.
LEMMA FrontendInv ==
    ASSUME LauncherInv, NEW p \in Launchers, Frontend(p)
    PROVE  LauncherInv'
<1> DEFINE q == [run[p] EXCEPT !.pc = "compare", !.inputs = Key]
<1>1. run[p].pc = "frontend" /\ UNCHANGED <<orphaned, runlock, version, environment, tools, stage, prepared, built>>
      /\ dist' = Recovered /\ previous' = (IF dist' # dist THEN Nothing ELSE previous)
      /\ run' = [run EXCEPT ![p] = q]
  BY DEF Frontend, LauncherAt, Keeps, checkout
<1>2. q \in Starts /\ q.pc = "compare"
  <2>1. run[p] \in Starts /\ Key \in Nat
    BY WorkerKnows DEF Key, Whole
  <2> QED  BY <2>1 DEF Starts, StartSteps, WithPackages, Preparing
<1> HIDE DEF q
<1>3. \/ previous # Nothing /\ dist = Nothing /\ dist' = previous /\ previous' = Nothing
      \/ (previous # Nothing => dist # Nothing) /\ dist' = dist /\ previous' = previous
  BY <1>1 DEF Recovered
<1>4. ASSUME ~orphaned
      PROVE  Interfaces(dist', previous', built') /\ Made(q, dist', previous', stage', packages', prepared')
  <2>1. Interfaces(dist, previous, built) /\ IsWhole(packages)
    BY <1>1, <1>4, WorkerKnows DEF Made, WithPackages
  <2>2. Interfaces(dist', previous', built')
    BY <1>1, <1>3, <2>1, WorkerKnows DEF Interfaces, IsWhole, Nothing, Part
  <2>3. Made(q, dist', previous', stage', packages', prepared')
    BY <1>1, <1>2, <1>3, <2>1 DEF Made, Preparing, Publishing, Finished, environment
  <2> QED  BY <2>2, <2>3
<1> QED  BY <1>1, <1>2, <1>3, <1>4, WorkerKnows, WorkerStep DEF tools, environment, Nothing

\* Steps that change neither the interface in use nor the one beside it.
LEMMA PreparingInv ==
    ASSUME LauncherInv, NEW p \in Launchers,
           Compare(p) \/ Modules(p) \/ NpmDone(p) \/ ClearStage(p) \/ Build(p)
    PROVE  LauncherInv'
<1>1. run[p].pc \in Preparing /\ UNCHANGED <<orphaned, runlock, version, environment, dist, previous, prepared, built>>
  BY DEF Compare, Modules, NpmDone, ClearStage, Build, LauncherAt, Keeps, checkout, tools, folders, Preparing
<1>2. modules' \in Nat /\ npm' \in Nat /\ stage' \in Nat
  BY WorkerKnows DEF Compare, Modules, NpmDone, ClearStage, Build, tools, folders, Part, Key, Whole
<1>3. PICK pc \in Preparing \cup {"ready"} :
          /\ Proceed(p, pc)
          /\ pc = "ready" => /\ Inventory(dist) # Nothing
                             /\ prepared = [inputs |-> run[p].inputs, outputs |-> dist]
  BY DEF Compare, Modules, NpmDone, ClearStage, Build, Preparing
<1>4. PICK q \in Starts : q.pc = pc /\ run' = [run EXCEPT ![p] = q]
  BY <1>3, Proceeding DEF StartSteps, WithPackages, Finished
<1>5. ASSUME ~orphaned
      PROVE  Interfaces(dist', previous', built') /\ Made(q, dist', previous', stage', packages', prepared')
  <2>1. Interfaces(dist, previous, built) /\ IsWhole(packages) /\ (previous # Nothing => dist # Nothing)
    BY <1>1, <1>5, WorkerKnows DEF Made, WithPackages
  <2>2. pc = "ready" => IsWhole(dist) /\ prepared.outputs = dist
    BY <1>3 DEF Inventory
  <2>3. Made(q, dist', previous', stage', packages', prepared')
    BY <1>1, <1>4, <2>1, <2>2 DEF Made, Preparing, Finished, environment
  <2> QED  BY <1>1, <2>1, <2>3
<1> QED  BY <1>1, <1>2, <1>4, <1>5, WorkerKnows, WorkerStep DEF Preparing, environment

LEMMA VerifyInv ==
    ASSUME LauncherInv, NEW p \in Launchers, VerifyStage(p)
    PROVE  LauncherInv'
<1>1. run[p].pc = "verify" /\ UNCHANGED <<orphaned, runlock, version, environment, tools, dist, stage, prepared, built>>
      /\ IsWhole(stage) /\ previous' = (IF previous = Nothing THEN Nothing ELSE Part)
  BY DEF VerifyStage, LauncherAt, Keeps, checkout
<1>2. PICK q \in Starts : q.pc = "aside" /\ run' = [run EXCEPT ![p] = q]
  BY Proceeding DEF VerifyStage, StartSteps, WithPackages, Publishing
<1>3. ASSUME ~orphaned
      PROVE  Interfaces(dist', previous', built') /\ Made(q, dist', previous', stage', packages', prepared')
  <2>1. Interfaces(dist, previous, built) /\ IsWhole(packages) /\ (previous # Nothing => dist # Nothing)
    BY <1>1, <1>3, WorkerKnows DEF Made, WithPackages, Preparing
  <2>2. Interfaces(dist', previous', built')
    BY <1>1, <2>1, WorkerKnows DEF Interfaces, IsWhole, Nothing, Part
  <2>3. Made(q, dist', previous', stage', packages', prepared')
    BY <1>1, <1>2, <2>1 DEF Made, Preparing, Finished, environment, Nothing
  <2> QED  BY <2>2, <2>3
<1>4. previous' \in Nat
  BY <1>1 DEF Nothing, Part
<1> QED  BY <1>1, <1>2, <1>3, <1>4, WorkerKnows, WorkerStep DEF tools, environment

LEMMA SetAsideInv ==
    ASSUME LauncherInv, NEW p \in Launchers, Aside(p)
    PROVE  LauncherInv'
<1>1. run[p].pc = "aside" /\ UNCHANGED <<orphaned, runlock, version, environment, tools, stage, prepared, built>>
      /\ previous' = dist /\ dist' = Nothing
  BY DEF Aside, LauncherAt, Keeps, checkout
<1>2. PICK q \in Starts : q.pc = "publish" /\ run' = [run EXCEPT ![p] = q]
  BY Proceeding DEF Aside, StartSteps, WithPackages, Publishing
<1>3. ASSUME ~orphaned
      PROVE  Interfaces(dist', previous', built') /\ Made(q, dist', previous', stage', packages', prepared')
  <2>1. Interfaces(dist, previous, built) /\ IsWhole(packages) /\ IsWhole(stage)
        /\ previous \in {Nothing, Part}
    BY <1>1, <1>3, WorkerKnows DEF Made, WithPackages, Publishing
  <2>2. Interfaces(dist', previous', built')
    BY <1>1, <2>1, WorkerKnows DEF Interfaces, IsWhole, Nothing, Part
  <2>3. Made(q, dist', previous', stage', packages', prepared')
    BY <1>1, <1>2, <2>1 DEF Made, Preparing, Finished, environment
  <2> QED  BY <2>2, <2>3
<1> QED  BY <1>1, <1>2, <1>3, WorkerKnows, WorkerStep DEF tools, environment, Nothing

LEMMA PublishInv ==
    ASSUME LauncherInv, NEW p \in Launchers, Publish(p)
    PROVE  LauncherInv'
<1>1. run[p].pc = "publish" /\ UNCHANGED <<orphaned, runlock, version, environment, tools, previous, prepared>>
      /\ dist = Nothing /\ dist' = stage /\ stage' = Nothing /\ built' = TRUE
  BY DEF Publish, LauncherAt, Keeps, checkout
<1>2. PICK q \in Starts : q.pc = "receipt" /\ run' = [run EXCEPT ![p] = q]
  BY Proceeding DEF Publish, StartSteps, WithPackages, Publishing
<1>3. ASSUME ~orphaned
      PROVE  Interfaces(dist', previous', built') /\ Made(q, dist', previous', stage', packages', prepared')
  <2>1. Interfaces(dist, previous, built) /\ IsWhole(packages) /\ IsWhole(stage)
    BY <1>1, <1>3, WorkerKnows DEF Made, WithPackages, Publishing
  <2>2. Interfaces(dist', previous', built')
    BY <1>1, <2>1 DEF Interfaces
  <2>3. Made(q, dist', previous', stage', packages', prepared')
    BY <1>1, <1>2, <2>1 DEF Made, Preparing, Finished, environment
  <2> QED  BY <2>2, <2>3
<1> QED  BY <1>1, <1>2, <1>3, WorkerKnows, WorkerStep DEF tools, environment, Nothing

LEMMA WriteReceiptInv ==
    ASSUME LauncherInv, NEW p \in Launchers, WriteReceipt(p)
    PROVE  LauncherInv'
<1>1. run[p].pc = "receipt" /\ UNCHANGED <<orphaned, runlock, version, environment, tools, dist, stage, built>>
      /\ prepared' = [inputs |-> run[p].inputs, outputs |-> dist]
      /\ previous' = (IF previous = Nothing THEN Nothing ELSE Part)
  BY DEF WriteReceipt, LauncherAt, Keeps, checkout
<1>2. PICK q \in Starts : q.pc = "discard" /\ run' = [run EXCEPT ![p] = q]
  BY Proceeding DEF WriteReceipt, StartSteps, WithPackages, Finished
<1>3. ASSUME ~orphaned
      PROVE  Interfaces(dist', previous', built') /\ Made(q, dist', previous', stage', packages', prepared')
  <2>1. Interfaces(dist, previous, built) /\ IsWhole(packages) /\ IsWhole(dist)
    BY <1>1, <1>3, WorkerKnows DEF Made, WithPackages, Publishing
  <2>2. Interfaces(dist', previous', built')
    BY <1>1, <2>1 DEF Interfaces
  <2>3. Made(q, dist', previous', stage', packages', prepared')
    BY <1>1, <1>2, <2>1 DEF Made, Preparing, Finished, environment
  <2> QED  BY <2>2, <2>3
<1>4. prepared' \in [inputs : Nat, outputs : Nat] /\ previous' \in Nat
  BY <1>1, WorkerKnows DEF Starts, Nothing, Part
<1> QED  BY <1>1, <1>2, <1>3, <1>4, WorkerKnows, WorkerStep DEF tools, environment

LEMMA FinishedInv ==
    ASSUME LauncherInv, NEW p \in Launchers, Discard(p) \/ Serve(p)
    PROVE  LauncherInv'
<1>1. run[p].pc \in {"discard", "ready"}
      /\ UNCHANGED <<orphaned, runlock, version, environment, tools, dist, stage, prepared, built>>
      /\ previous' \in {Nothing, previous}
  BY DEF Discard, Serve, LauncherAt, Keeps, checkout, folders
<1>2. PICK pc \in {"ready", "serve"} : Proceed(p, pc)
  BY DEF Discard, Serve
<1>3. PICK q \in Starts : q.pc = pc /\ run' = [run EXCEPT ![p] = q]
  BY <1>2, Proceeding DEF StartSteps, WithPackages, Finished
<1>4. ASSUME ~orphaned
      PROVE  Interfaces(dist', previous', built') /\ Made(q, dist', previous', stage', packages', prepared')
  <2>1. Interfaces(dist, previous, built) /\ IsWhole(packages) /\ IsWhole(dist) /\ prepared.outputs = dist
    BY <1>1, <1>4, WorkerKnows DEF Made, WithPackages, Finished
  <2>2. Interfaces(dist', previous', built')
    BY <1>1, <2>1 DEF Interfaces
  <2>3. Made(q, dist', previous', stage', packages', prepared')
    BY <1>1, <1>2, <1>3, <2>1 DEF Made, Preparing, Finished, environment
  <2> QED  BY <2>2, <2>3
<1>5. previous' \in Nat
  BY <1>1, WorkerKnows DEF Nothing
<1> QED  BY <1>1, <1>3, <1>4, <1>5, WorkerKnows, WorkerStep DEF tools, environment

\* A start ends, also while it publishes: what was set aside comes back.
LEMMA ExitsInv ==
    ASSUME LauncherInv, NEW p \in Launchers, StopStart(p) \/ PublishFails(p)
    PROVE  LauncherInv'
<1>1. run[p].pc # "stopped" /\ UNCHANGED <<orphaned, version, environment, tools, stage, prepared, built>>
      /\ run' = [run EXCEPT ![p] = Stopped]
  BY DEF StopStart, PublishFails, LauncherAt, Exits, checkout, folders
<1>2. Stopped \in Starts /\ Stopped.pc = "stopped"
  BY DEF Stopped, Starts, StartSteps
<1>3. \/ previous # Nothing /\ dist = Nothing /\ dist' = previous /\ previous' = Nothing
      \/ dist' = dist /\ previous' = previous
  BY DEF StopStart, PublishFails, folders
<1>4. ASSUME ~orphaned
      PROVE  Interfaces(dist', previous', built') /\ Made(Stopped, dist', previous', stage', packages', prepared')
  <2>1. Interfaces(dist, previous, built)
    BY <1>4, WorkerKnows
  <2>2. Interfaces(dist', previous', built')
    BY <1>1, <1>3, <2>1, WorkerKnows DEF Interfaces, IsWhole, Nothing, Part
  <2>3. Made(Stopped, dist', previous', stage', packages', prepared')
    BY <1>2 DEF Made, WithPackages, Preparing, Publishing, Finished
  <2> QED  BY <2>2, <2>3
<1> QED  BY <1>1, <1>2, <1>3, <1>4, WorkerKnows, WorkerStep DEF tools, environment, Nothing

LEMMA StartInv ==
    ASSUME LauncherInv, NEW p \in Launchers, NEW update \in BOOLEAN, Start(p, update)
    PROVE  LauncherInv'
<1> DEFINE q == [Stopped EXCEPT !.pc = IF update THEN "pull" ELSE "python", !.update = update]
<1>1. q \in Starts /\ q.pc \in {"pull", "python"}
  BY DEF Stopped, Starts, StartSteps
<1>2. run' = [run EXCEPT ![p] = q] /\ runlock = NoHolder /\ runlock' = p
      /\ UNCHANGED <<checkout, environment, tools, folders, orphaned, built>>
  BY DEF Start
<1> HIDE DEF q
<1>3. LauncherTypes'
  BY <1>1, <1>2 DEF LauncherInv, LauncherTypes, checkout, environment, tools, folders
<1>4. ASSUME ~orphaned PROVE Unorphaned'
  <2>1. \A x \in Launchers : run[x].pc = "stopped"
    BY <1>2, <1>4, LauncherConstants DEF LauncherInv, Unorphaned, WorkersHold
  <2>2. WorkersHold'
    BY <1>1, <1>2, <2>1 DEF WorkersHold, LauncherInv, LauncherTypes
  <2>3. ASSUME NEW x \in Launchers PROVE Made(run'[x], dist', previous', stage', packages', prepared')
    <3>1. run'[x].pc \in {"stopped", "pull", "python"}
      BY <1>1, <1>2, <2>1 DEF LauncherInv, LauncherTypes
    <3> QED  BY <3>1 DEF Made, WithPackages, Preparing, Publishing, Finished
  <2>4. Interfaces(dist', previous', built')
    BY <1>2, <1>4 DEF LauncherInv, Unorphaned, folders
  <2> QED  BY <2>2, <2>3, <2>4 DEF Unorphaned
<1> QED  BY <1>2, <1>3, <1>4 DEF LauncherInv

LEMMA OutsideInv ==
    ASSUME LauncherInv,
           EditSources \/ Die \/ MoveAside \/ (\E p \in Launchers : Kill(p)) \/ UNCHANGED lvars
    PROVE  LauncherInv'
<1>1. UNCHANGED <<tools, folders, built>>
  BY DEF EditSources, Die, MoveAside, Kill, lvars
<1>2. Stopped \in Starts /\ Stopped.pc = "stopped"
  BY DEF Stopped, Starts, StartSteps
<1>3. CASE \E p \in Launchers : Kill(p)
  <2>1. orphaned' = TRUE /\ UNCHANGED <<checkout, environment, run>>
    BY <1>3 DEF Kill
  <2> QED  BY <1>1, <2>1 DEF LauncherInv, LauncherTypes, checkout, environment, tools, folders
<1>4. CASE EditSources \/ UNCHANGED lvars
  <2>1. UNCHANGED <<environment, run, runlock, orphaned>> /\ version' \in Nat
    BY <1>4 DEF EditSources, lvars, LauncherInv, LauncherTypes, checkout
  <2>2. LauncherTypes'
    BY <1>1, <2>1 DEF LauncherInv, LauncherTypes, environment, tools, folders
  <2>3. ~orphaned => Unorphaned'
    BY <1>1, <2>1 DEF LauncherInv, Unorphaned, WorkersHold, environment, folders
  <2> QED  BY <2>1, <2>2, <2>3 DEF LauncherInv
<1>5. CASE Die
  <2>1. UNCHANGED <<checkout, environment, orphaned>> /\ run' = [p \in Launchers |-> Stopped]
    BY <1>5 DEF Die
  <2>2. LauncherTypes'
    BY <1>1, <1>2, <2>1 DEF LauncherInv, LauncherTypes, checkout, environment, tools, folders
  <2>3. ~orphaned => Unorphaned'
    BY <1>1, <1>2, <2>1 DEF LauncherInv, Unorphaned, WorkersHold, folders, Made, WithPackages, Preparing,
       Publishing, Finished
  <2> QED  BY <2>1, <2>2, <2>3 DEF LauncherInv
<1>6. CASE MoveAside
  <2>1. UNCHANGED <<checkout, python, run, runlock, orphaned>> /\ venv' = Nothing /\ packages' = Nothing
        /\ \A p \in Launchers : run[p].pc = "stopped"
    BY <1>6 DEF MoveAside
  <2>2. LauncherTypes'
    BY <1>1, <2>1 DEF LauncherInv, LauncherTypes, checkout, tools, folders, Nothing
  <2>3. ~orphaned => Unorphaned'
    BY <1>1, <2>1 DEF LauncherInv, Unorphaned, WorkersHold, folders, Made, WithPackages, Preparing,
       Publishing, Finished
  <2> QED  BY <2>1, <2>2, <2>3 DEF LauncherInv
<1> QED  BY <1>3, <1>4, <1>5, <1>6

LEMMA LauncherNextInv == LauncherInv /\ [LNext]_lvars => LauncherInv'
<1> SUFFICES ASSUME LauncherInv, [LNext]_lvars PROVE LauncherInv'
  OBVIOUS
<1>1. CASE UNCHANGED lvars \/ EditSources \/ Die \/ MoveAside
  BY <1>1, OutsideInv
<1>2. ASSUME NEW p \in Launchers,
             \/ \E update \in BOOLEAN : Start(p, update)
             \/ Pull(p) \/ StopStart(p) \/ Kill(p)
             \/ MakeVenv(p) \/ VenvMade(p) \/ CheckPython(p) \/ Installed(p)
             \/ Frontend(p) \/ Compare(p) \/ Modules(p) \/ NpmDone(p) \/ ClearStage(p) \/ Build(p)
             \/ VerifyStage(p) \/ Aside(p) \/ Publish(p) \/ PublishFails(p) \/ WriteReceipt(p) \/ Discard(p)
             \/ Serve(p)
      PROVE  LauncherInv'
  BY <1>2, StartInv, PythonInv, ExitsInv, OutsideInv, CheckPythonInv, InstalledInv, FrontendInv,
     PreparingInv, VerifyInv, SetAsideInv, PublishInv, WriteReceiptInv, FinishedInv
<1> QED  BY <1>1, <1>2 DEF LNext

\* Once there was an interface a whole one is left wherever a start is interrupted,
\* and what serves has whole packages and the interface its receipt describes, as
\* long as no coordinator was killed alone.
THEOREM BuildsSurvive == LSpec => []ABuildSurvives
<1>1. LauncherInv => ABuildSurvives
  BY DEF LauncherInv, Unorphaned, ABuildSurvives, Interfaces, Made, Finished, WithPackages
<1>2. LSpec => []LauncherInv
  BY LauncherInitInv, LauncherNextInv, PTL DEF LSpec
<1> QED  BY <1>1, <1>2, PTL

(***************************************************************************)
(* Iocs: the indicators of a case.                                         *)
(*                                                                         *)
(* The argument: every request keeps whatever refers to an object together *)
(* with the object (Owned) and no link an analyst withdrew is active       *)
(* (Out); collecting adds objects, observations and support but changes no *)
(* link that is there (Follows). The identifiers are numbers below a       *)
(* bound, so the next one is new and Find gives the identifier of an       *)
(* object that is there (MaxOfSet, NextIdNumbers, FindFinds).              *)
(***************************************************************************)

\* What is recorded for an object has an object; identifiers are numbers.
Numbers(S) == S \subseteq Nat \ {Nobody} /\ \E n \in Nat : S \subseteq 0 .. n
Owned(x) ==
    /\ DOMAIN x = {"o", "l", "n", "s", "m"}
    /\ Numbers(DOMAIN x.o)
    /\ \A l \in DOMAIN x.l : DOMAIN x.l[l] = {"active", "support"} /\ l[1] \in DOMAIN x.o /\ l[2] \in DOMAIN x.o
    /\ \A n \in x.n : n.ioc \in DOMAIN x.o
    /\ \A k \in DOMAIN x.s : k[1] \in DOMAIN x.o
    /\ \A m \in x.m : m[1] \in DOMAIN x.o /\ m[2] \in DOMAIN x.o

\* A link an analyst withdrew is there, and inactive.
Out(x, l) == l \in DOMAIN x.l /\ x.l[l].active = FALSE

\* No object is gone, and no link that was out is back.
Follows(x, y) == DOMAIN x.o \subseteq DOMAIN y.o /\ \A l : Out(x, l) => Out(y, l)

IocsInv ==
    /\ Owned(Store)
    /\ \A j \in judgements : j[1] \in Ids
    /\ \A l \in withdrawnLinks : Out(Store, l)

----------------------------------------------------------------------------
(* Identifiers                                                             *)

LEMMA LessThan == \A x, y \in Nat : y < x => <<y, x>> \in OpToRel(<, Nat)
BY Zenon DEF OpToRel

\* A set of numbers below a bound has a greatest element, and Max is it.
LEMMA MaxOfSet ==
    ASSUME NEW n \in Nat, NEW T \in SUBSET (0 .. n), T # {}
    PROVE  Max(T) \in T /\ \A y \in T : Max(T) >= y
<1> DEFINE U == {n - y : y \in T}
<1>1. PICK t : t \in T
  OBVIOUS
<1>2. U \subseteq Nat /\ n - t \in U
  BY <1>1
<1>3. PICK x \in U : \A y \in U : ~(<<y, x>> \in OpToRel(<, Nat))
  <2> HIDE DEF U
  <2> QED BY <1>2, WFMin, NatLessThanWellFounded
<1>4. x \in Nat /\ \A y \in U : y \in Nat /\ ~(y < x)
  <2> HIDE DEF U
  <2> QED BY <1>2, <1>3, LessThan, Zenon
<1>5. PICK m \in T : n - m = x
  BY <1>3
<1>6. \A y \in T : m >= y
  BY <1>4, <1>5
<1> QED BY <1>5, <1>6 DEF Max

\* An object with this identity is found.
Identified(x, v) == \E i \in DOMAIN x.o : x.o[i].key = IdentityKey(v, Kinds[v])

LEMMA FindFinds ==
    ASSUME NEW x, Numbers(DOMAIN x.o), NEW v, Identified(x, v)
    PROVE  Find(x, v) \in DOMAIN x.o
<1> DEFINE same == {i \in DOMAIN x.o : x.o[i].key = IdentityKey(v, Kinds[v])}
<1>1. PICK n \in Nat : DOMAIN x.o \subseteq 0 .. n
  BY DEF Numbers
<1>2. same # {} /\ same \in SUBSET (0 .. n)
  BY <1>1 DEF Identified
<1>3. Max(same) \in same
  <2> HIDE DEF same
  <2> QED  BY <1>2, MaxOfSet
<1> QED  BY <1>2, <1>3 DEF Find

LEMMA FindMeans ==
    ASSUME NEW x, Numbers(DOMAIN x.o), NEW v, Find(x, v) # Nobody
    PROVE  Identified(x, v)
BY DEF Find, Identified

LEMMA NextIdNumbers ==
    ASSUME NEW x, Numbers(DOMAIN x.o)
    PROVE  Numbers(DOMAIN x.o \cup {NextId(x)}) /\ NextId(x) \notin DOMAIN x.o
<1>1. PICK n \in Nat : DOMAIN x.o \subseteq 0 .. n
  BY DEF Numbers
<1>2. CASE DOMAIN x.o = {}
  <2>1. NextId(x) = 1 /\ DOMAIN x.o \cup {1} \subseteq 0 .. 1 /\ 1 # Nobody
    BY <1>2 DEF NextId, Nobody
  <2> QED  BY <2>1, <1>2 DEF Numbers
<1>3. CASE DOMAIN x.o # {}
  <2>1. Max(DOMAIN x.o) \in DOMAIN x.o /\ \A i \in DOMAIN x.o : Max(DOMAIN x.o) >= i
    BY <1>1, <1>3, MaxOfSet
  <2>2. NextId(x) = Max(DOMAIN x.o) + 1
    BY <1>3 DEF NextId
  <2>3. NextId(x) \in 1 .. (n + 1) /\ NextId(x) \notin DOMAIN x.o
    BY <1>1, <2>1, <2>2
  <2> QED  BY <1>1, <2>3 DEF Numbers, Nobody
<1> QED  BY <1>2, <1>3

----------------------------------------------------------------------------
(* Collecting                                                              *)

\* An entry is added with its identity, and what else was found is still found.
LEMMA AddOwned ==
    ASSUME NEW x, Owned(x), NEW v
    PROVE  /\ Owned(Add(x, v)) /\ Identified(Add(x, v), v)
           /\ \A w : Identified(x, w) => Identified(Add(x, v), w)
           /\ Follows(x, Add(x, v))
<1> DEFINE y == Add(x, v)
<1>1. CASE Find(x, v) # Nobody
  <2>1. y = x
    BY <1>1 DEF Add
  <2> QED  BY <1>1, <2>1, FindMeans DEF Owned, Follows
<1>2. CASE Find(x, v) = Nobody
  <2> DEFINE new == [value |-> v, kind |-> Kinds[v], key |-> IdentityKey(v, Kinds[v]),
                     assessment |-> "malicious"]
             o == [i \in DOMAIN x.o \cup {NextId(x)} |-> IF i \in DOMAIN x.o THEN x.o[i] ELSE new]
  <2>1. y = [x EXCEPT !.o = o]
    BY <1>2 DEF Add
  <2>2. DOMAIN y = {"o", "l", "n", "s", "m"} /\ y.o = o /\ y.l = x.l /\ y.n = x.n /\ y.s = x.s /\ y.m = x.m
    BY <2>1 DEF Owned
  <2>3. DOMAIN y.o = DOMAIN x.o \cup {NextId(x)} /\ Numbers(DOMAIN y.o)
    BY <2>2, NextIdNumbers DEF Owned
  <2>4. \A i \in DOMAIN x.o : y.o[i] = x.o[i]
    BY <2>2
  <2>5. ~Identified(x, v)
    BY <1>2, FindFinds DEF Owned, Numbers
  <2> HIDE DEF y
  <2>6. y.o[NextId(x)].key = IdentityKey(v, Kinds[v])
    BY <2>2, NextIdNumbers DEF Owned
  <2>7. Owned(y)
    BY <2>2, <2>3 DEF Owned
  <2>8. Identified(y, v) /\ \A w : Identified(x, w) => Identified(y, w)
    BY <2>3, <2>4, <2>6 DEF Identified
  <2>9. Follows(x, y)
    BY <2>2, <2>3 DEF Out, Follows
  <2> QED  BY <2>7, <2>8, <2>9 DEF y
<1> QED  BY <1>1, <1>2

\* A link between two objects; one that was there keeps its state.
LEMMA LinkOwned ==
    ASSUME NEW x, Owned(x), NEW a \in DOMAIN x.o, NEW b \in DOMAIN x.o, NEW k, NEW s
    PROVE  /\ Owned(Link(x, a, b, k, s)) /\ Link(x, a, b, k, s).o = x.o
           /\ Follows(x, Link(x, a, b, k, s))
<1> DEFINE y == Link(x, a, b, k, s)
           t == <<a, b, k>>
           row == [Row(x, t) EXCEPT !.support = @ \cup s]
           ls == [m \in DOMAIN x.l \cup {t} |-> IF m = t THEN row ELSE x.l[m]]
<1>1. CASE a = b
  <2>1. y = x
    BY <1>1 DEF Link
  <2> QED  BY <2>1 DEF Follows
<1>2. CASE a # b
  <2>1. y = [x EXCEPT !.l = ls]
    BY <1>2 DEF Link, With
  <2>2. DOMAIN y = {"o", "l", "n", "s", "m"} /\ y.o = x.o /\ y.l = ls /\ y.n = x.n /\ y.s = x.s /\ y.m = x.m
    BY <2>1 DEF Owned
  <2>3. DOMAIN row = {"active", "support"} /\ (t \in DOMAIN x.l => row.active = x.l[t].active)
    BY DEF Owned, Row, StaysAs
  <2>4. t[1] = a /\ t[2] = b
    OBVIOUS
  <2> HIDE DEF y, row, t
  <2>5. DOMAIN y.l = DOMAIN x.l \cup {t} /\ \A m \in DOMAIN y.l : y.l[m] = IF m = t THEN row ELSE x.l[m]
    BY <2>2
  <2>6. Owned(y)
    BY <2>2, <2>3, <2>4, <2>5 DEF Owned
  <2>7. Follows(x, y)
    BY <2>2, <2>3, <2>5 DEF Out, Follows
  <2> QED  BY <2>2, <2>6, <2>7 DEF y
<1> QED  BY <1>1, <1>2

LEMMA ObserveOwned ==
    ASSUME NEW x, Owned(x), NEW i \in DOMAIN x.o, NEW a, NEW f
    PROVE  /\ Owned(Observe(x, i, a, f)) /\ Observe(x, i, a, f).o = x.o
           /\ Follows(x, Observe(x, i, a, f))
<1> DEFINE y == Observe(x, i, a, f)
           new == [ioc |-> i, artifact |-> a, finding |-> f]
           ss == [k \in DOMAIN x.s \cup {<<i, a>>} |-> IF k = <<i, a>> THEN TRUE ELSE x.s[k]]
<1>1. DOMAIN y = {"o", "l", "n", "s", "m"} /\ y.o = x.o /\ y.l = x.l /\ y.n = x.n \cup {new} /\ y.s = ss /\ y.m = x.m
  BY DEF Owned, Observe
<1>2. new.ioc = i /\ DOMAIN y.s = DOMAIN x.s \cup {<<i, a>>} /\ <<i, a>>[1] = i
  BY <1>1
<1> HIDE DEF y, new, ss
<1>3. Owned(y)
  BY <1>1, <1>2 DEF Owned
<1>4. Follows(x, y)
  BY <1>1 DEF Out, Follows
<1> QED  BY <1>1, <1>3, <1>4 DEF y

LEMMA WithFileOwned ==
    ASSUME NEW x, Owned(x), NEW a
    PROVE  /\ Owned(WithFile(x, a)) /\ Identified(WithFile(x, a), Place[a].file)
           /\ Follows(x, WithFile(x, a))
<1> DEFINE p == Place[a]
           x1 == Add(x, p.hash)
           x2 == Add(x1, p.path)
           y == Add(x2, p.file)
           h == Find(y, p.hash)
           q == Find(y, p.path)
           f == Find(y, p.file)
           z1 == Observe(y, f, a, "location")
           z2 == Link(z1, h, q, "hash-of", {Automatic})
           z == Link(z2, f, q, "located-at", {Automatic})
           w == [z EXCEPT !.m = @ \cup {<<h, f>>}]
<1>1. WithFile(x, a) = w
  BY DEF WithFile
<1>2. Owned(x1) /\ Identified(x1, p.hash) /\ Follows(x, x1)
  BY AddOwned
<1>3. Owned(x2) /\ Identified(x2, p.hash) /\ Identified(x2, p.path) /\ Follows(x1, x2)
  <2> HIDE DEF x1
  <2> QED  BY <1>2, AddOwned
<1>4. Owned(y) /\ Identified(y, p.hash) /\ Identified(y, p.path) /\ Identified(y, p.file)
      /\ Follows(x2, y)
  <2> HIDE DEF x2
  <2> QED  BY <1>3, AddOwned
<1>5. h \in DOMAIN y.o /\ q \in DOMAIN y.o /\ f \in DOMAIN y.o
  <2> HIDE DEF y
  <2> QED  BY <1>4, FindFinds DEF Owned
<1> HIDE DEF y, h, q, f
<1>6. Owned(z1) /\ z1.o = y.o /\ Follows(y, z1)
  BY <1>4, <1>5, ObserveOwned
<1> HIDE DEF z1
<1>7. Owned(z2) /\ z2.o = y.o /\ Follows(z1, z2)
  BY <1>5, <1>6, LinkOwned
<1> HIDE DEF z2
<1>8. Owned(z) /\ z.o = y.o /\ Follows(z2, z)
  BY <1>5, <1>7, LinkOwned
<1> HIDE DEF z
<1>9. DOMAIN w = {"o", "l", "n", "s", "m"} /\ w.o = y.o /\ w.l = z.l /\ w.n = z.n /\ w.s = z.s
      /\ w.m = z.m \cup {<<h, f>>}
  BY <1>8 DEF Owned
<1>10. Owned(w)
  BY <1>5, <1>8, <1>9 DEF Owned
<1>11. Follows(x, w)
  BY <1>2, <1>3, <1>4, <1>6, <1>7, <1>8, <1>9 DEF Out, Follows
<1>12. Identified(w, p.file)
  BY <1>4, <1>9 DEF Identified
<1> QED  BY <1>1, <1>10, <1>11, <1>12

LEMMA WithCveOwned ==
    ASSUME NEW x, Owned(x), NEW a, Identified(x, Place[a].file)
    PROVE  Owned(WithCve(x, a)) /\ Follows(x, WithCve(x, a))
<1> DEFINE y == Add(x, CveValue)
           f == Find(y, Place[a].file)
           c == Find(y, CveValue)
           z == Observe(y, f, a, "finding")
           w == Link(z, f, c, "cve-context",
                     {Automatic, [ioc |-> f, artifact |-> a, finding |-> "finding"]})
<1>1. WithCve(x, a) = w
  BY DEF WithCve
<1>2. Owned(y) /\ Identified(y, CveValue) /\ Identified(y, Place[a].file) /\ Follows(x, y)
  BY AddOwned
<1>3. f \in DOMAIN y.o /\ c \in DOMAIN y.o
  <2> HIDE DEF y
  <2> QED  BY <1>2, FindFinds DEF Owned
<1> HIDE DEF y, f, c
<1>4. Owned(z) /\ z.o = y.o /\ Follows(y, z)
  BY <1>2, <1>3, ObserveOwned
<1> HIDE DEF z
<1>5. Owned(w) /\ Follows(z, w)
  BY <1>3, <1>4, LinkOwned
<1> QED  BY <1>1, <1>2, <1>4, <1>5 DEF Follows

----------------------------------------------------------------------------
(* The requests                                                            *)

LEMMA StoreIs ==
    /\ DOMAIN Store = {"o", "l", "n", "s", "m"}
    /\ Store.o = objects /\ Store.l = links /\ Store.n = observed /\ Store.s = sources /\ Store.m = members
BY DEF Store

LEMMA SetOwned ==
    ASSUME NEW x, Owned(x), Set(x)
    PROVE  /\ Owned(Store)' /\ Ids' = DOMAIN x.o
           /\ \A l : Out(x, l) => Out(Store, l)'
BY DEF Owned, Set, Store, Ids, Out

LEMMA IocsInitInv == IInit => IocsInv
<1> SUFFICES ASSUME IInit PROVE IocsInv
  OBVIOUS
<1>1. DOMAIN objects = {} /\ DOMAIN links = {} /\ DOMAIN sources = {}
  BY DEF IInit
<1>2. Numbers({})
  BY DEF Numbers
<1>3. Owned(Store)
  BY <1>1, <1>2, StoreIs DEF Owned, IInit
<1> QED  BY <1>3 DEF IInit, IocsInv

LEMMA CollectInv ==
    ASSUME IocsInv, NEW a, Collect(a)
    PROVE  IocsInv'
<1> DEFINE x == WithFile(Store, a)
           y == IF a \in Cves THEN WithCve(x, a) ELSE x
<1>1. Set(y) /\ UNCHANGED <<judgements, withdrawnLinks>>
  BY DEF Collect
<1>2. Owned(x) /\ Identified(x, Place[a].file) /\ Follows(Store, x)
  BY WithFileOwned DEF IocsInv
<1> HIDE DEF x
<1>3. Owned(y) /\ Follows(x, y)
  BY <1>2, WithCveOwned DEF Follows
<1> HIDE DEF y
<1>4. Owned(Store)' /\ Ids' = DOMAIN y.o /\ \A l : Out(y, l) => Out(Store, l)'
  BY <1>1, <1>3, SetOwned
<1>5. Ids \subseteq DOMAIN y.o /\ \A l : Out(Store, l) => Out(y, l)
  BY <1>2, <1>3, StoreIs DEF Follows, Ids
<1> QED  BY <1>1, <1>4, <1>5 DEF IocsInv

LEMMA AddManualInv ==
    ASSUME IocsInv, NEW v, AddManual(v)
    PROVE  IocsInv'
<1> DEFINE y == Add(Store, v)
<1>1. Set(y) /\ UNCHANGED <<judgements, withdrawnLinks>>
  BY DEF AddManual
<1>2. Owned(y) /\ Follows(Store, y)
  BY AddOwned DEF IocsInv
<1> HIDE DEF y
<1>3. Owned(Store)' /\ Ids' = DOMAIN y.o /\ \A l : Out(y, l) => Out(Store, l)'
  BY <1>1, <1>2, SetOwned
<1>4. Ids \subseteq DOMAIN y.o /\ \A l : Out(Store, l) => Out(y, l)
  BY <1>2, StoreIs DEF Follows, Ids
<1> QED  BY <1>1, <1>3, <1>4 DEF IocsInv

\* An asserted link is active again and no longer withdrawn.
LEMMA RelateInv ==
    ASSUME IocsInv, NEW a \in Ids, NEW b \in Ids, NEW k, NEW s, Relate(a, b, k, s)
    PROVE  IocsInv'
<1> DEFINE t == <<a, b, k>>
           row == [active |-> TRUE, support |-> Row(Store, t).support \cup {s}]
           y == With(Store, t, row)
<1>1. Set(y) /\ UNCHANGED judgements /\ withdrawnLinks' = withdrawnLinks \ {t}
  BY DEF Relate
<1>2. DOMAIN row = {"active", "support"} /\ t[1] = a /\ t[2] = b
  OBVIOUS
<1> HIDE DEF row, t
<1>3. DOMAIN y = {"o", "l", "n", "s", "m"} /\ y.o = objects /\ y.n = observed /\ y.s = sources /\ y.m = members
      /\ y.l = [m \in DOMAIN links \cup {t} |-> IF m = t THEN row ELSE links[m]]
  BY StoreIs DEF With
<1>4. DOMAIN y.l = DOMAIN links \cup {t} /\ \A m \in DOMAIN y.l : y.l[m] = IF m = t THEN row ELSE links[m]
  BY <1>3
<1>5. Owned(y)
  BY <1>2, <1>3, <1>4, StoreIs DEF IocsInv, Owned, Ids
<1>6. \A l \in withdrawnLinks \ {t} : Out(y, l)
  BY <1>4, StoreIs DEF IocsInv, Out
<1> HIDE DEF y
<1>7. Owned(Store)' /\ Ids' = DOMAIN y.o /\ \A l : Out(y, l) => Out(Store, l)'
  BY <1>1, <1>5, SetOwned
<1> QED  BY <1>1, <1>3, <1>6, <1>7 DEF IocsInv, Ids

LEMMA WithdrawInv ==
    ASSUME IocsInv, NEW l \in DOMAIN links, WithdrawLink(l)
    PROVE  IocsInv'
<1>1. links' = [links EXCEPT ![l].active = FALSE] /\ withdrawnLinks' = withdrawnLinks \cup {l}
      /\ UNCHANGED <<objects, observed, sources, members, judgements>>
  BY DEF WithdrawLink
<1>2. DOMAIN links' = DOMAIN links /\ \A m \in DOMAIN links : DOMAIN links'[m] = DOMAIN links[m]
      /\ links'[m].active = IF m = l THEN FALSE ELSE links[m].active
  BY <1>1, StoreIs DEF IocsInv, Owned
<1>3. Owned(Store)'
  BY <1>1, <1>2, StoreIs DEF IocsInv, Owned, Store
<1>4. \A m \in withdrawnLinks' : Out(Store, m)'
  BY <1>1, <1>2, StoreIs DEF IocsInv, Out, Store
<1> QED  BY <1>1, <1>3, <1>4 DEF IocsInv, Ids

\* Edits and assessments keep the objects that are there.
LEMMA EditsInv ==
    ASSUME IocsInv, DOMAIN objects' = DOMAIN objects, DOMAIN sources' = DOMAIN sources,
           UNCHANGED <<links, observed, members, withdrawnLinks>>,
           \A j \in judgements' : j[1] \in Ids
    PROVE  IocsInv'
<1>1. Owned(Store)'
  BY StoreIs DEF IocsInv, Owned, Store
<1>2. \A l \in withdrawnLinks' : Out(Store, l)'
  BY StoreIs DEF IocsInv, Out, Store
<1> QED  BY <1>1, <1>2 DEF IocsInv, Ids

\* What was recorded for an object goes with it.
LEMMA DeleteInv ==
    ASSUME IocsInv, NEW S, DeleteObjects(S)
    PROVE  IocsInv'
<1>1. PICK gone : /\ Set(Without(Store, gone))
                  /\ judgements' = {j \in judgements : j[1] \notin gone}
                  /\ withdrawnLinks' = {l \in withdrawnLinks : {l[1], l[2]} \cap gone = {}}
  BY DEF DeleteObjects
<1> DEFINE y == Without(Store, gone)
<1>2. /\ DOMAIN y = {"o", "l", "n", "s", "m"}
      /\ y.o = Restrict(objects, Ids \ gone)
      /\ y.l = Restrict(links, {l \in DOMAIN links : l[1] \notin gone /\ l[2] \notin gone})
      /\ y.n = {n \in observed : n.ioc \notin gone}
      /\ y.s = Restrict(sources, {k \in DOMAIN sources : k[1] \notin gone})
      /\ y.m = {m \in members : m[1] \notin gone /\ m[2] \notin gone}
  BY StoreIs DEF Without, Kept, Ids
<1> HIDE DEF y
<1>3. /\ DOMAIN y.o = Ids \ gone
      /\ DOMAIN y.l = {l \in DOMAIN links : l[1] \notin gone /\ l[2] \notin gone}
      /\ \A l \in DOMAIN y.l : y.l[l] = links[l]
      /\ DOMAIN y.s = {k \in DOMAIN sources : k[1] \notin gone}
  BY <1>2 DEF Restrict
<1>4. Numbers(DOMAIN y.o)
  BY <1>3, StoreIs DEF IocsInv, Owned, Numbers, Ids
<1>5. Owned(y)
  BY <1>2, <1>3, <1>4, StoreIs DEF IocsInv, Owned, Ids
<1>6. \A l \in withdrawnLinks' : Out(y, l)
  BY <1>1, <1>3, StoreIs DEF IocsInv, Out
<1>7. Owned(Store)' /\ Ids' = DOMAIN y.o /\ \A l : Out(y, l) => Out(Store, l)'
  BY <1>1, <1>5, SetOwned DEF y
<1> QED  BY <1>1, <1>3, <1>6, <1>7 DEF IocsInv

LEMMA IocsNextInv == IocsInv /\ [INext]_ivars => IocsInv'
<1> SUFFICES ASSUME IocsInv, [INext]_ivars PROVE IocsInv'
  OBVIOUS
<1>1. CASE UNCHANGED ivars
  BY <1>1, EditsInv DEF ivars, IocsInv
<1>2. ASSUME NEW a \in Artifacts, Collect(a) \/ Retire(a) \/ Reopen(a) PROVE IocsInv'
  BY <1>2, CollectInv, EditsInv DEF Retire, Reopen, IocsInv
<1>3. ASSUME NEW v \in Values, AddManual(v) \/ \E i \in Ids : EditObject(i, v) PROVE IocsInv'
  BY <1>3, AddManualInv, EditsInv DEF EditObject, IocsInv
<1>4. ASSUME NEW a \in Ids, NEW b \in Ids, NEW k, NEW s, Relate(a, b, k, s) PROVE IocsInv'
  BY <1>4, RelateInv
<1>5. ASSUME NEW l \in DOMAIN links, WithdrawLink(l) PROVE IocsInv'
  BY <1>5, WithdrawInv
<1>6. ASSUME NEW i \in Ids, NEW s, AssessObject(i, s) PROVE IocsInv'
  <2>1. PICK n : judgements' = judgements \cup {<<i, n>>}
    BY <1>6 DEF AssessObject
  <2>2. <<i, n>>[1] = i
    OBVIOUS
  <2>3. \A j \in judgements' : j[1] \in Ids
    BY <2>1, <2>2 DEF IocsInv
  <2> QED  BY <1>6, <2>3, EditsInv DEF AssessObject
<1>7. ASSUME NEW i \in Ids, PatchChecks(i, "user") PROVE IocsInv'
  BY <1>7, EditsInv DEF PatchChecks, IocsInv
<1>8. ASSUME PatchWrites PROVE IocsInv'
  <2>1. DOMAIN objects' = DOMAIN objects
    BY <1>8 DEF PatchWrites
  <2> QED  BY <1>8, <2>1, EditsInv DEF PatchWrites, IocsInv
<1>9. ASSUME NEW i \in Ids, DeleteObjects({i}) PROVE IocsInv'
  BY <1>9, DeleteInv
<1> QED  BY <1>1, <1>2, <1>3, <1>4, <1>5, <1>6, <1>7, <1>8, <1>9 DEF INext

THEOREM IocsInvariant == ISpec => []IocsInv
BY IocsInitInv, IocsNextInv, PTL DEF ISpec

\* A withdrawn link stays out until an analyst asserts it again.
THEOREM WithdrawnStays == ISpec => []WithdrawnStaysOut
<1>1. IocsInv => WithdrawnStaysOut
  BY StoreIs DEF IocsInv, Out, WithdrawnStaysOut, ShownLinks
<1> QED  BY <1>1, IocsInvariant, PTL

\* Whatever is recorded for an object goes with it; the next one to get its row id
\* inherits nothing.
THEOREM NothingOutlives == ISpec => []NothingOutlivesItsObject
<1>1. IocsInv => NothingOutlivesItsObject
  BY StoreIs DEF IocsInv, Owned, Ids, NothingOutlivesItsObject
<1> QED  BY <1>1, IocsInvariant, PTL
=============================================================================
