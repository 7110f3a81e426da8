------------------------------ MODULE Backups ------------------------------
(***************************************************************************)
(* Comparing preserved copies of a website (server/backups.py and          *)
(* server/backup_routes.py): the analyst registers folders of a webroot as *)
(* backups, a job walks and hashes them into a generation each, analysis   *)
(* runs leave receipts for the content they examined, and the comparison   *)
(* answers from the published generations: a file is not present, nothing  *)
(* was detected in it, these are the lines that differ.                    *)
(*                                                                         *)
(* The files change on disk at any time: between listing and hashing,      *)
(* between the scan and the answer, between two reads of one file.         *)
(***************************************************************************)
EXTENDS Naturals, Sequences, FiniteSets

CONSTANTS
    Sites,    \* website folders of the registered webroot; none holds another
    Paths,    \* relative paths
    FileContents,
    First,    \* what is on disk at first: [Sites -> partial function Paths -> FileContents]
    Detects,  \* {<<engine, content>>}: what the scanners report
    Engines,  \* the required content scans of a run, a subset of those two
    MaxSnaps, MaxTouches,
    MaxActs   \* preparations, runs, retries and line comparisons together

Absent == [c |-> "absent", v |-> 0]
Unhashed == "unavailable"               \* a row without a digest
NoGen == 0                              \* generation ''
NoBuild == [todo |-> {}, gen |-> NoGen, left |-> {}, rows |-> <<>>, errors |-> FALSE]
NoReceipt == [file |-> Absent, run |-> 0, hit |-> FALSE]
NoDiff == [at |-> "none", sides |-> <<>>, path |-> "none", shown |-> <<>>]

VARIABLES
    preserved,     \* [Sites -> [Paths -> file]]; v stands for the identity marker
    folder,        \* [Sites -> {"open", "closed", "gone"}]: listable, not listable, not there
    attached,      \* the webroot is a piece of evidence of the case
    snaps,         \* backup_snapshots: <<[root, gen, state]>>
    generations,   \* backup_generations and their backup_files: <<[state, files]>>
    comparing,     \* the comparison job: "idle" | "running"
    walk,          \* what build() holds
    analysisRuns,  \* analysis runs so far
    attempt,       \* last_attempt of the webroot: [run, engines], run 0 before the first
    receipts,      \* file_scan_receipts: [Engines -> [Sites \X Paths -> receipt]]
    skips,         \* unresolved job_skips: {<<engine, file, run>>}
    diff,          \* the file comparison being answered
    touches, acts,
    saw,           \* of each generation, the paths that were there all through its walk
    examined       \* {<<engine, file, content, run>>}: scans that reported nothing

backup == <<snaps, generations, comparing, walk, saw>>
scan == <<analysisRuns, attempt, receipts, skips, examined>>
world == <<preserved, folder, attached, touches>>
bvars == <<backup, scan, world, diff, acts>>

There(f) == folder[f[1]] # "gone" /\ preserved[f[1]][f[2]] # Absent
OnDisk(f) == IF There(f) THEN preserved[f[1]][f[2]] ELSE Absent
Present(r) == {p \in Paths : There(<<r, p>>)}
BackupFiles == Sites \X Paths

\* settings: a backup is available while its folder and its webroot are.
Available(s) == attached /\ folder[snaps[s].root] # "gone"
Shown(s) == IF Available(s) THEN snaps[s].state ELSE "unavailable"
Published(s) == Shown(s) \in {"ready", "partial"}
FilesOf(s) == IF snaps[s].gen = NoGen THEN <<>> ELSE generations[snaps[s].gen].files

\* build() takes the snapshots in the order of their ids.
Building == comparing = "running" /\ walk.todo # {}
Current == CHOOSE s \in walk.todo : \A t \in walk.todo : s <= t
Root == snaps[Current].root

BInit ==
    /\ preserved = [r \in Sites |-> [p \in Paths |->
                  IF p \in DOMAIN First[r] THEN [c |-> First[r][p], v |-> 0] ELSE Absent]]
    /\ folder = [r \in Sites |-> "open"]
    /\ attached = TRUE
    /\ snaps = <<>> /\ generations = <<>> /\ comparing = "idle" /\ walk = NoBuild
    /\ analysisRuns = 0 /\ attempt = [run |-> 0, engines |-> <<>>]
    /\ receipts = [e \in Engines |-> [f \in BackupFiles |-> NoReceipt]]
    /\ skips = {} /\ diff = NoDiff
    /\ touches = 0 /\ acts = 0
    /\ saw = <<>> /\ examined = {}

----------------------------------------------------------------------------
(* The evidence on disk                                                    *)

\* A file appears, changes or goes; what the walk can still find there all
\* along shrinks with it.
EditFile(r, p) ==
    /\ touches < MaxTouches /\ touches' = touches + 1
    /\ \E c \in FileContents \cup {"absent"} :
          preserved' = [preserved EXCEPT ![r][p] = IF c = "absent" THEN Absent
                                         ELSE [c |-> c, v |-> touches + 1]]
    /\ UNCHANGED <<folder, attached>>

\* A folder loses or regains its permissions, or is taken away or restored.
Folder(r) ==
    /\ touches < MaxTouches /\ touches' = touches + 1
    /\ \E s \in {"open", "closed", "gone"} \ {folder[r]} : folder' = [folder EXCEPT ![r] = s]
    /\ UNCHANGED <<preserved, attached>>

World ==
    /\ \/ \E r \in Sites, p \in Paths : EditFile(r, p)
       \/ \E r \in Sites : Folder(r)
    /\ UNCHANGED <<snaps, generations, comparing, walk, scan, diff, acts>>
    /\ saw' = [g \in DOMAIN saw |->
                  IF walk.gen = g THEN saw[g] \cap Present(Root)' ELSE saw[g]]

----------------------------------------------------------------------------
(* Registering backups, behind the case operation fence                    *)

Running(e) == e \in DOMAIN attempt.engines /\ attempt.engines[e] = "running"
Idle == comparing = "idle" /\ ~\E e \in Engines : Running(e)
Another == acts < MaxActs /\ acts' = acts + 1
NoOther(r, s) == \A t \in DOMAIN snaps \ {s} : snaps[t].root # r

AddSnapshot(r) ==
    /\ Idle /\ attached /\ folder[r] # "gone" /\ NoOther(r, 0)
    /\ Len(snaps) < MaxSnaps
    /\ snaps' = Append(snaps, [root |-> r, gen |-> NoGen, state |-> "new"])
    /\ UNCHANGED <<world, generations, comparing, walk, scan, diff, acts, saw>>

\* Another folder has no generation yet.
Moved(s, r) ==
    [root |-> r, gen |-> IF s.root = r THEN s.gen ELSE NoGen,
     state |-> IF s.root = r THEN s.state ELSE "new"]

MoveSnapshot(s, r) ==
    /\ Idle /\ attached /\ folder[r] # "gone" /\ NoOther(r, s)
    /\ snaps[s].root # r
    /\ snaps' = [snaps EXCEPT ![s] = Moved(@, r)]
    /\ UNCHANGED <<world, generations, comparing, walk, scan, diff, acts, saw>>

\* remove_evidence and add_evidence of the webroot keep the backups; the row id,
\* the highest, is used again, and its stats begin anew.
Reregister ==
    /\ Idle /\ touches < MaxTouches /\ touches' = touches + 1
    /\ attached' = ~attached
    /\ attempt' = [run |-> 0, engines |-> <<>>]
    /\ UNCHANGED <<preserved, folder, backup, analysisRuns, receipts, skips, examined, diff, acts>>

----------------------------------------------------------------------------
(* The comparison job                                                      *)

\* A backup whose folder or webroot is gone is counted as failed and left as it is.
PrepareSnapshots(ids) ==
    /\ Idle /\ ids # {} /\ Another
    /\ comparing' = "running"
    /\ walk' = [NoBuild EXCEPT !.todo = {s \in ids : Available(s)}]
    /\ UNCHANGED <<world, snaps, generations, scan, diff, saw>>

Done == [NoBuild EXCEPT !.todo = walk.todo \ {Current}]

OpenGeneration ==
    /\ Building /\ walk.gen = NoGen
    /\ generations' = Append(generations, [state |-> "building", files |-> <<>>])
    /\ snaps' = [snaps EXCEPT ![Current].state = "indexing"]
    /\ walk' = [walk EXCEPT !.gen = Len(generations'), !.left = Paths]
    /\ saw' = Append(saw, Present(Root))
    /\ UNCHANGED <<world, comparing, scan, diff, acts>>

\* _walk takes the entries as it comes to them. A folder that cannot be listed is
\* an error of the discovery, in which the rest of its entries are lost; so is a
\* link that leaves the root or closes a cycle.
ListFails ==
    /\ Building /\ walk.left # {} /\ folder[Root] # "open"
    /\ walk' = [walk EXCEPT !.left = {}, !.errors = TRUE]
    /\ UNCHANGED <<world, snaps, generations, comparing, scan, diff, acts, saw>>

\* hash_file hands out a digest only when the file stayed the same while it
\* was read; the row of any other file has none.
IndexFile(p) ==
    /\ Building /\ p \in walk.left /\ folder[Root] = "open"
    /\ \E row \in {OnDisk(<<Root, p>>), [c |-> Unhashed, v |-> 0]} :
          walk' = [walk EXCEPT !.left = @ \ {p},
                         !.rows = IF There(<<Root, p>>)
                                  THEN [q \in DOMAIN @ \cup {p} |-> IF q = p THEN row ELSE @[q]]
                                  ELSE @]
    /\ UNCHANGED <<world, snaps, generations, comparing, scan, diff, acts, saw>>

\* Mutant: what could be listed is published although some folders could not be read.
PublishesAnyway == walk.left = {}
Complete == walk.left = {} /\ ~walk.errors

PublishGeneration ==
    /\ Building /\ walk.gen # NoGen /\ Complete
    /\ LET s == IF \E p \in DOMAIN walk.rows : walk.rows[p].c = Unhashed THEN "partial" ELSE "ready"
       IN  /\ generations' = [generations EXCEPT ![walk.gen] = [state |-> s, files |-> walk.rows]]
           /\ snaps' = [snaps EXCEPT ![Current] = [@ EXCEPT !.gen = walk.gen, !.state = s]]
    /\ walk' = Done
    /\ UNCHANGED <<world, comparing, scan, diff, acts, saw>>

Failed == [snaps EXCEPT ![Current].state = "stale"]

\* The previous generation stays, marked stale; after a cancellation the job ends.
GiveUp ==
    /\ Building /\ walk.gen # NoGen
    /\ snaps' = Failed
    /\ generations' = [generations EXCEPT ![walk.gen].state = "failed"]
    /\ \/ walk.left = {} /\ walk.errors /\ walk' = Done /\ UNCHANGED comparing
       \/ walk' = NoBuild /\ comparing' = "idle"                        \* cancelled
    /\ UNCHANGED <<world, scan, diff, acts, saw>>

JobEnds ==
    /\ comparing = "running" /\ walk.todo = {}
    /\ comparing' = "idle" /\ walk' = NoBuild
    /\ UNCHANGED <<world, snaps, generations, scan, diff, acts, saw>>

\* The process dies; what it had built is found again by recover_interrupted,
\* before any further operation of the case.
CrashAndRecover ==
    /\ comparing = "running"
    /\ comparing' = "idle" /\ walk' = NoBuild
    /\ snaps' = [s \in DOMAIN snaps |->
                    IF snaps[s].state = "indexing"
                    THEN [snaps[s] EXCEPT !.state = "stale"] ELSE snaps[s]]
    /\ generations' = [g \in DOMAIN generations |->
                    IF generations[g].state = "building"
                    THEN [generations[g] EXCEPT !.state = "failed"] ELSE generations[g]]
    /\ UNCHANGED <<world, scan, diff, acts, saw>>

----------------------------------------------------------------------------
(* Analysis runs and their receipts                                        *)

Run ==
    /\ Idle /\ attached /\ Another
    /\ analysisRuns' = analysisRuns + 1
    /\ attempt' = [run |-> analysisRuns', engines |-> [e \in Engines |-> "running"]]
    /\ UNCHANGED <<world, backup, receipts, skips, examined, diff>>

Unseen(e, f) == receipts[e][f].run # attempt.run /\ <<e, f, attempt.run>> \notin skips

\* A scanner's verdict on the content it read and found unchanged: findings and
\* receipt are committed together, and a later clean look replaces the receipt.
ScanVerdict(e, f) ==
    /\ receipts' = [receipts EXCEPT ![e][f] =
          [file |-> OnDisk(f), run |-> attempt.run, hit |-> <<e, OnDisk(f).c>> \in Detects]]
    /\ examined' = IF <<e, OnDisk(f).c>> \in Detects
                   THEN {x \in examined : x[1] # e \/ x[2] # f}
                   ELSE examined \cup {<<e, f, OnDisk(f), attempt.run>>}

\* One file of the running scan: read, or skipped, which voids its receipt.
ScanFile(e, f) ==
    /\ Running(e) /\ There(f) /\ Unseen(e, f)
    /\ \/ /\ ScanVerdict(e, f)
          /\ UNCHANGED skips
       \/ /\ receipts' = [receipts EXCEPT ![e][f] = NoReceipt]
          /\ skips' = skips \cup {<<e, f, attempt.run>>}
          /\ UNCHANGED examined
    /\ UNCHANGED <<world, backup, analysisRuns, attempt, diff, acts>>

EndScan(e) ==
    /\ Running(e)
    /\ \E o \in {"complete", "partial"} \cup (IF e = "yara" THEN {"no_rules"} ELSE {}) :
          attempt' = [attempt EXCEPT !.engines[e] = o]
    /\ UNCHANGED <<world, backup, analysisRuns, receipts, skips, examined, diff, acts>>

\* A targeted retry of a skip: its receipt belongs to the run of its parent.
Retry(e, f) ==
    /\ Another /\ Idle /\ There(f) /\ <<e, f, attempt.run>> \in skips
    /\ ScanVerdict(e, f)
    /\ skips' = skips \ {<<e, f, attempt.run>>}
    /\ UNCHANGED <<world, backup, analysisRuns, attempt, diff>>

----------------------------------------------------------------------------
(* What the comparison says                                                *)

Status(s, p) ==
    IF p \in DOMAIN FilesOf(s) THEN "file"
    ELSE IF snaps[s].gen # NoGen /\ Published(s) THEN "not_present" ELSE "unknown"

Stale(s, p) ==
    \/ ~Published(s)
    \/ OnDisk(<<snaps[s].root, p>>) # FilesOf(s)[p]

\* Enabled rules decide whether there is a content scan to require.
Required ==
    LET asked == {e \in DOMAIN attempt.engines : attempt.engines[e] # "no_rules"}
    IN  IF asked = {} THEN {"webshell"} \cap Engines ELSE asked

\* Mutant: any receipt of the engine for the file counts, whatever was read.
BoundLoosely(e, f, file) == receipts[e][f].run = attempt.run
\* A receipt speaks for this very content and for the last attempt.
Bound(e, f, file) ==
    /\ receipts[e][f].file = file
    /\ attempt.run = 0 \/ receipts[e][f].run = attempt.run

ScanState(s, p) ==
    LET f == <<snaps[s].root, p>>
        valid == {e \in Required : Bound(e, f, FilesOf(s)[p])}
        settled(e) == e \notin DOMAIN attempt.engines \/ attempt.engines[e] = "complete"
    IN  CASE ~Stale(s, p) /\ (\E e \in valid : receipts[e][f].hit) -> "detections"
          [] /\ ~Stale(s, p) /\ Required # {}
             /\ \A e \in Required : e \in valid /\ settled(e) /\ ~receipts[e][f].hit
             /\ ~\E x \in skips : x[2] = f /\ attempt.run \in {0, x[3]} -> "no_detections"
          [] OTHER -> "not_analyzed"

\* The line-by-line view hashes a side and then reads it again for its lines.
OpenDiff(l, r, p) ==
    /\ diff.at = "none" /\ diff.shown = <<>> /\ Another
    /\ l # r /\ p \in DOMAIN FilesOf(l) \cap DOMAIN FilesOf(r)
    /\ Published(l) /\ Published(r)
    /\ diff' = [diff EXCEPT !.at = "hash", !.path = p,
                   !.sides = <<[root |-> snaps[l].root, sha |-> FilesOf(l)[p].c],
                               [root |-> snaps[r].root, sha |-> FilesOf(r)[p].c]>>]
    /\ UNCHANGED <<world, backup, scan>>

Side == diff.sides[1]
Abandon == diff' = [NoDiff EXCEPT !.shown = diff.shown]

DiffHash ==
    /\ diff.at = "hash"
    /\ IF Side.sha = OnDisk(<<Side.root, diff.path>>).c
       THEN diff' = [diff EXCEPT !.at = "lines"] ELSE Abandon
    /\ UNCHANGED <<world, backup, scan, acts>>

Verified(data) == data = Side.sha

DiffLines ==
    /\ diff.at = "lines"
    /\ LET data == OnDisk(<<Side.root, diff.path>>).c
       IN  IF ~Verified(data) THEN Abandon
           ELSE diff' = [diff EXCEPT
                   !.at = IF Len(diff.sides) = 1 THEN "none" ELSE "hash",
                   !.sides = Tail(@),
                   !.shown = Append(@, data)]
    /\ UNCHANGED <<world, backup, scan, acts>>

----------------------------------------------------------------------------
BNext ==
    \/ World
    \/ \E r \in Sites : AddSnapshot(r) \/ \E s \in DOMAIN snaps : MoveSnapshot(s, r)
    \/ Reregister
    \/ \E ids \in SUBSET DOMAIN snaps : PrepareSnapshots(ids)
    \/ OpenGeneration \/ ListFails \/ PublishGeneration \/ GiveUp \/ JobEnds
    \/ \E p \in Paths : IndexFile(p)
    \/ CrashAndRecover
    \/ Run
    \/ \E e \in Engines : EndScan(e) \/ \E f \in BackupFiles : ScanFile(e, f) \/ Retry(e, f)
    \/ \E l, r \in DOMAIN snaps, p \in Paths : OpenDiff(l, r, p)
    \/ DiffHash \/ DiffLines

BSpec == BInit /\ [][BNext]_bvars

----------------------------------------------------------------------------
(* Properties                                                              *)

\* A backup that is said not to contain a file had lost it at some moment of
\* the walk its answer comes from: neither an unreadable folder, a cancelled or
\* crashed preparation nor a moved root can make an existing file "not present".
AbsenceIsHonest ==
    \A s \in DOMAIN snaps, p \in Paths :
        Status(s, p) = "not_present" => p \notin saw[snaps[s].gen]

\* "No detections" is said only of content that is on disk now and that every
\* content scan of the last attempt has looked at without a detection.
CleanMeansExamined ==
    \A s \in DOMAIN snaps : \A p \in DOMAIN FilesOf(s) :
        ScanState(s, p) = "no_detections" =>
            LET f == <<snaps[s].root, p>>
            IN  \A e \in Required : \E n \in 0 .. analysisRuns :
                   /\ <<e, f, OnDisk(f), n>> \in examined
                   /\ attempt.run \in {0, n}

=============================================================================
