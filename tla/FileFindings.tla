---------------------------- MODULE FileFindings ----------------------------
(***************************************************************************)
(* How a file engine (webshell.scan, yarascan.scan) writes findings and    *)
(* how findings retire (server/db.py).  A scan draws a run number, stamps  *)
(* it on each finding it reproduces, and commits in batches.  A finding    *)
(* is live while its stamp is not older than the last run that covered     *)
(* its file: the engine's last completed run, or the entry of the file in  *)
(* file_completion.  Readers see the committed database at any time.       *)
(* Nothing but the database survives a crash; one scan of an engine runs   *)
(* at a time (JobManager.case_operation).                                  *)
(***************************************************************************)
EXTENDS Integers, FiniteSets

CONSTANTS
    Files,   \* paths below the registered evidence
    Rules,   \* rules that can match; a finding is a file and a rule
    MaxRun,  \* bound: run numbers drawn (begin_run)
    Gone     \* a path with no file

ASSUME GoneAssumption == \A found \in SUBSET Rules : Gone # found
ASSUME MaxRunAssumption == MaxRun \in Nat

Modes == {"full", "new", "retry"}

VARIABLES
    disk,     \* the rules that match the bytes of a file now, or Gone
    base,     \* the committed database
    work,     \* the database as the scan's open transaction sees it
    seq,      \* meta.scan_seq, the last run number drawn
    scan,     \* the scan in progress
    retryable \* files a targeted retry of the last scan may name

vars == <<disk, base, work, seq, scan, retryable>>

Runs == 0..MaxRun

\* keep[f] = 0 stands for no file_completion row, seen = 0 for no finding,
\* done = 0 for no engine_done mark (run numbers start at 1).
Database == [seen : [Files -> [Rules -> Runs]], done : Runs,
             covered : [Files -> Runs], keep : [Files -> Runs],
             receipt : [Files -> {Gone} \cup SUBSET Rules]]
ScanState == [pc : {"idle", "files", "save", "retire"}, mode : Modes, run : Runs,
              todo : SUBSET Files, looked : SUBSET Files, skipped : SUBSET Files,
              report : [Files -> SUBSET Rules], partial : BOOLEAN, broken : BOOLEAN]

NoReport == [f \in Files |-> {}]
NoScan == [pc |-> "idle", mode |-> "full", run |-> 0, todo |-> {}, looked |-> {},
           skipped |-> {}, report |-> NoReport, partial |-> FALSE, broken |-> FALSE]

Empty == [seen |-> [f \in Files |-> [r \in Rules |-> 0]], done |-> 0,
          covered |-> [f \in Files |-> 0], keep |-> [f \in Files |-> 0],
          receipt |-> [f \in Files |-> Gone]]

\* RETIRE_JOIN and LIVE_PREDICATE.
CoveredBy(d, f) == IF d.keep[f] # 0 THEN d.covered[f] ELSE d.done
Live(d, f) == {r \in Rules : d.seen[f][r] # 0 /\ d.seen[f][r] >= CoveredBy(d, f)}

Init ==
    /\ disk \in [Files -> SUBSET Rules]
    /\ base = Empty /\ work = Empty
    /\ seq = 0 /\ scan = NoScan /\ retryable = {}

-----------------------------------------------------------------------------
(* The helpers of server/db.py and file_scan_receipts.py.                  *)

ProtectFile(d, f, run) ==
    [d EXCEPT !.keep[f] = run,
              !.covered[f] = IF d.keep[f] = 0 THEN d.done ELSE @,
              !.receipt[f] = Gone]

\* Mutant: a finding that is already stored is left alone (INSERT OR IGNORE).
InsertFindings(d, f, found, run) ==
    [d EXCEPT !.seen[f] = [r \in Rules |-> IF r \in found /\ d.seen[f][r] = 0
                                          THEN run ELSE d.seen[f][r]],
              !.receipt[f] = found]

UpsertFindings(d, f, found, run) ==
    [d EXCEPT !.seen[f] = [r \in Rules |-> IF r \in found THEN run ELSE d.seen[f][r]],
              !.receipt[f] = found]

CompleteFile(d, f, run) == [d EXCEPT !.keep[f] = run, !.covered[f] = run]

\* Mutant: the completed run covers every file, the unread ones included.
CompleteAllFiles(d, run) == [d EXCEPT !.keep = [f \in Files |-> 0], !.done = run]

\* Overrides survive only for the files this very run could not read.
CompleteFileScan(d, run) ==
    [d EXCEPT !.keep = [f \in Files |-> IF d.keep[f] = run THEN run ELSE 0],
              !.done = run]

-----------------------------------------------------------------------------
(* A scan.                                                                 *)

\* Discovery and begin_run.  A discovery error makes the scan partial, and so
\* does a YARA rule file that does not compile.  (Other engines draw from the
\* same counter; only the order of the numbers matters.)
Start(mode, targets, partial, broken) ==
    /\ scan.pc = "idle" /\ seq < MaxRun
    /\ seq' = seq + 1
    /\ scan' = [NoScan EXCEPT !.pc = "files", !.mode = mode, !.run = seq',
                              !.todo = targets, !.partial = partial, !.broken = broken]
    /\ UNCHANGED <<disk, base, work>>

Present == {f \in Files : disk[f] # Gone}

StartFull ==
    /\ retryable' = {}
    /\ \/ \E broken \in BOOLEAN : Start("full", Present, broken, broken)
       \/ \E targets \in SUBSET Present : Start("full", targets, TRUE, FALSE)

\* Only the evidence registered since the last run.
StartNew ==
    \E targets \in SUBSET Present :
        /\ retryable' = retryable \ targets
        /\ Start("new", targets, FALSE, FALSE)

\* The skips of the current run; with a broken rule a retry looks at nothing.
StartRetry ==
    /\ UNCHANGED retryable
    /\ \E targets \in SUBSET retryable \ {{}} : Start("retry", targets, FALSE, FALSE)

Advance(f) == [scan EXCEPT !.todo = @ \ {f}]

Store(d, f, found) ==
    IF scan.mode = "retry"
    THEN CompleteFile(UpsertFindings(d, f, found, scan.run), f, scan.run)
    ELSE UpsertFindings(d, f, found, scan.run)

\* The file was read unchanged and matched.
ScanFile(f) ==
    LET found == disk[f] IN
    /\ scan.pc = "files" /\ f \in scan.todo /\ found # Gone /\ ~scan.broken
    /\ work' = Store(work, f, found)
    /\ base' = IF scan.mode = "retry" THEN work' ELSE base
    /\ scan' = [Advance(f) EXCEPT !.looked = @ \cup {f}, !.report[f] = found]
    /\ UNCHANGED <<disk, seq, retryable>>

\* Only the rules that compile were tried: what they find counts, but the
\* file has no receipt.
ScanFileBroken(f) ==
    /\ scan.pc = "files" /\ f \in scan.todo /\ disk[f] # Gone /\ scan.broken
    /\ \E found \in SUBSET disk[f] :
        /\ work' = [UpsertFindings(work, f, found, scan.run) EXCEPT !.receipt[f] = Gone]
        /\ scan' = [Advance(f) EXCEPT !.looked = @ \cup {f}, !.report[f] = found]
    /\ UNCHANGED <<disk, base, seq, retryable>>

\* Too large, unreadable, removed meanwhile or changed while it was read.  What
\* webshell says of its name, its place or its size, or had found before it
\* changed, is stored all the same, beside what the file had; yarascan, whose
\* rules alone can be broken, stores nothing then.
StoreSkipped(d, f, found) ==
    [UpsertFindings(ProtectFile(d, f, scan.run), f, found, scan.run) EXCEPT !.receipt[f] = Gone]

SkipFile(f) ==
    /\ scan.pc = "files" /\ f \in scan.todo
    /\ \E found \in SUBSET Rules :
        /\ scan.broken => found = {}
        /\ work' = StoreSkipped(work, f, found)
        /\ scan' = [Advance(f) EXCEPT !.skipped = @ \cup {f}, !.report[f] = found]
    /\ base' = IF scan.mode = "retry" THEN work' ELSE base
    /\ UNCHANGED <<disk, seq, retryable>>

\* The commit after every 500th file.
CommitBatch ==
    /\ scan.pc = "files" /\ scan.mode # "retry"
    /\ base' = work
    /\ UNCHANGED <<disk, work, seq, scan, retryable>>

\* The loop ends, or the job is cancelled between two files.
EndLoop ==
    /\ scan.pc = "files"
    /\ \E cancelled \in BOOLEAN :
        /\ cancelled \/ scan.todo = {}
        /\ scan' = [scan EXCEPT !.pc = "save", !.partial = @ \/ cancelled]
    /\ UNCHANGED <<disk, base, work, seq, retryable>>

\* The last commit of the results; only then may the run retire anything.
\* A scan that ran to its end leaves its skips to be retried, a retry strikes
\* out those it resolved (with the terminal state of its job).
Save ==
    /\ scan.pc = "save"
    /\ base' = work
    /\ IF scan.mode = "full" /\ ~scan.partial
       THEN scan' = [scan EXCEPT !.pc = "retire"] /\ UNCHANGED retryable
       ELSE /\ scan' = NoScan
            /\ retryable' = IF scan.mode = "retry" THEN retryable \ scan.looked
                            ELSE IF scan.partial THEN retryable
                            ELSE retryable \cup scan.skipped
    /\ UNCHANGED <<disk, work, seq>>

Retire ==
    /\ scan.pc = "retire"
    /\ work' = CompleteFileScan(work, scan.run) /\ base' = work'
    /\ scan' = NoScan /\ retryable' = scan.skipped
    /\ UNCHANGED <<disk, seq>>

\* The engine raises or the process dies: the open transaction is rolled back.
Abort ==
    /\ scan.pc # "idle"
    /\ work' = base /\ scan' = NoScan
    /\ UNCHANGED <<disk, base, seq, retryable>>

\* Somebody edits or removes a file; a file put back later is a new file.
Edit(f) ==
    /\ disk[f] # Gone
    /\ \E content \in {Gone} \cup SUBSET Rules : disk' = [disk EXCEPT ![f] = content]
    /\ UNCHANGED <<base, work, seq, scan, retryable>>

Next ==
    \/ StartFull \/ StartNew \/ StartRetry
    \/ \E f \in Files : ScanFile(f) \/ ScanFileBroken(f) \/ SkipFile(f) \/ Edit(f)
    \/ CommitBatch \/ EndLoop \/ Save \/ Retire \/ Abort

Spec == Init /\ [][Next]_vars

-----------------------------------------------------------------------------
(* Properties.                                                             *)

TypeOK ==
    /\ disk \in [Files -> {Gone} \cup SUBSET Rules]
    /\ base \in Database /\ work \in Database
    /\ seq \in Runs /\ scan \in ScanState
    /\ retryable \subseteq Files

\* The run numbers and the two tables keep the promise of CurrentFindings.
Promise == INSTANCE CurrentFindings WITH
    current <- [f \in Files |-> Live(base, f)],
    report <- scan.report, looked <- scan.looked, skipped <- scan.skipped
KeepsPromise == Promise!Spec

\* A receipt vouches for the bytes of a file and for what was found in them:
\* as long as the file is there, every finding of the receipt is live, so no
\* finding was retired or lost behind the back of its receipt.
ReceiptCovers ==
    \A f \in Files : base.receipt[f] # Gone /\ disk[f] # Gone =>
        base.receipt[f] \subseteq Live(base, f)

=============================================================================
