------------------------- MODULE FileFindingsProofs -------------------------
(***************************************************************************)
(* Proofs about FileFindings for every set of files and rules and every    *)
(* number of runs: receipts never vouch for retired findings, and the run  *)
(* numbers implement CurrentFindings.                                      *)
(*                                                                         *)
(* The argument: a run draws a number larger than every number stored      *)
(* (RunsOrdered), so "stamped with this run" means "reported by this run", *)
(* "kept by this run" means "skipped by this run", and a commit only adds  *)
(* what was reported (Reported).                                           *)
(***************************************************************************)
EXTENDS FileFindings, TLAPS

-----------------------------------------------------------------------------
(* The helpers.                                                            *)

\* Stamps of a database that a run not older than `run` may still override.
Bounded(d, n) ==
    /\ d.done <= n
    /\ \A f \in Files : d.covered[f] <= n /\ d.keep[f] <= n
    /\ \A f \in Files, r \in Rules : d.seen[f][r] <= n

\* The facts about one file of two databases agree.
SameFile(d, e, f) ==
    /\ e.seen[f] = d.seen[f] /\ e.covered[f] = d.covered[f]
    /\ e.keep[f] = d.keep[f] /\ e.receipt[f] = d.receipt[f]

\* What protecting a file leaves: its live findings, not its receipt.
Protected(d, e, f, run) ==
    /\ e \in Database /\ Bounded(e, run)
    /\ e.done = d.done /\ e.seen = d.seen
    /\ e.keep[f] = run /\ e.receipt[f] = Gone
    /\ Live(e, f) = Live(d, f)
    /\ \A g \in Files \ {f} : SameFile(d, e, g) /\ Live(e, g) = Live(d, g)

\* The database stays one when a file is protected: the file keeps its live
\* findings and loses its receipt, and no other file changes.
LEMMA ProtectKeeps ==
    ASSUME NEW d \in Database, NEW f \in Files, NEW run \in Runs, run # 0, Bounded(d, run),
           NEW e, e = ProtectFile(d, f, run)
    PROVE  Protected(d, e, f, run)
<1>1. /\ e.done = d.done /\ e.seen = d.seen
      /\ e.keep = [d.keep EXCEPT ![f] = run]
      /\ e.covered = [d.covered EXCEPT ![f] = IF d.keep[f] = 0 THEN d.done ELSE @]
      /\ e.receipt = [d.receipt EXCEPT ![f] = Gone]
  BY DEF ProtectFile, Database
<1>2. e \in Database
  BY <1>1 DEF ProtectFile, Database
<1>3. Bounded(e, run)
  BY <1>1, MaxRunAssumption DEF Bounded, Database, Runs
<1>4. e.keep[f] = run /\ e.receipt[f] = Gone
  BY <1>1 DEF Database
<1>5. CoveredBy(e, f) = CoveredBy(d, f)
  BY <1>1 DEF CoveredBy, Database
<1>6. \A g \in Files \ {f} : SameFile(d, e, g) /\ Live(e, g) = Live(d, g)
  BY <1>1 DEF SameFile, CoveredBy, Live, Database
<1>7. Live(e, f) = Live(d, f)
  BY <1>1, <1>5 DEF Live
<1> QED BY <1>1, <1>2, <1>3, <1>4, <1>6, <1>7 DEF Protected

\* What storing findings with the newest run number leaves.
Upserted(d, e, f, found, run) ==
    /\ e \in Database /\ Bounded(e, run)
    /\ e.done = d.done /\ e.keep = d.keep /\ e.covered = d.covered
    /\ e.receipt[f] = found
    /\ \A r \in Rules : e.seen[f][r] = IF r \in found THEN run ELSE d.seen[f][r]
    /\ Live(e, f) = Live(d, f) \cup found
    /\ \A g \in Files \ {f} : SameFile(d, e, g) /\ Live(e, g) = Live(d, g)

\* Findings stored with the newest run number become live beside those that
\* were; nothing else about the file changes but its receipt.
LEMMA UpsertAdds ==
    ASSUME NEW d \in Database, NEW f \in Files, NEW found \in SUBSET Rules,
           NEW run \in Runs, run # 0, Bounded(d, run),
           NEW e, e = UpsertFindings(d, f, found, run)
    PROVE  Upserted(d, e, f, found, run)
<1> DEFINE stamps == [r \in Rules |-> IF r \in found THEN run ELSE d.seen[f][r]]
<1>1. /\ e.done = d.done /\ e.keep = d.keep /\ e.covered = d.covered
      /\ e.seen = [d.seen EXCEPT ![f] = stamps]
      /\ e.receipt = [d.receipt EXCEPT ![f] = found]
  BY DEF UpsertFindings, Database
<1>2. stamps \in [Rules -> Runs]
  BY DEF Database
<1>3. e \in Database
  BY <1>1, <1>2 DEF UpsertFindings, Database
<1>4. e.seen[f] = stamps /\ \A g \in Files \ {f} : e.seen[g] = d.seen[g]
  BY <1>1 DEF Database
<1>5. \A r \in Rules : e.seen[f][r] = IF r \in found THEN run ELSE d.seen[f][r]
  BY <1>4
<1>6. Bounded(e, run)
  <2>1. \A g \in Files, r \in Rules : e.seen[g][r] <= run
    BY <1>4, <1>5, MaxRunAssumption DEF Bounded, Runs, Database
  <2> QED BY <2>1, <1>1 DEF Bounded
<1>7. e.receipt[f] = found
  BY <1>1 DEF Database
<1>8. \A g \in Files : CoveredBy(e, g) = CoveredBy(d, g)
  BY <1>1 DEF CoveredBy
<1>9. CoveredBy(d, f) <= run /\ CoveredBy(d, f) \in Runs
  BY DEF CoveredBy, Bounded, Database
<1>10. Live(e, f) = Live(d, f) \cup found
  BY <1>5, <1>8, <1>9, MaxRunAssumption DEF Live, Runs, Database
<1>11. \A g \in Files \ {f} : SameFile(d, e, g) /\ Live(e, g) = Live(d, g)
  BY <1>1, <1>4, <1>8 DEF SameFile, Live, Database
<1> QED BY <1>1, <1>3, <1>5, <1>6, <1>7, <1>10, <1>11 DEF Upserted

\* Under the newest run number a stamp counts exactly if it is that number.
LEMMA StampsBounded ==
    ASSUME NEW d \in Database, NEW f \in Files, NEW run \in Runs, run # 0, Bounded(d, run)
    PROVE  \A r \in Rules : (d.seen[f][r] # 0 /\ d.seen[f][r] >= run) <=> d.seen[f][r] = run
<1>1. \A r \in Rules : d.seen[f][r] \in Runs /\ d.seen[f][r] <= run
  BY DEF Bounded, Database
<1> QED BY <1>1, MaxRunAssumption DEF Runs

\* What completing one file leaves.
FileCompleted(d, e, f, run) ==
    /\ e \in Database /\ Bounded(e, run)
    /\ e.done = d.done /\ e.seen = d.seen /\ e.receipt = d.receipt
    /\ e.keep[f] = run
    /\ Live(e, f) = {r \in Rules : d.seen[f][r] = run}
    /\ \A g \in Files \ {f} : SameFile(d, e, g) /\ Live(e, g) = Live(d, g)

\* A retried file is covered by the retry alone.
LEMMA CompleteFileCovers ==
    ASSUME NEW d \in Database, NEW f \in Files, NEW run \in Runs, run # 0, Bounded(d, run),
           NEW e, e = CompleteFile(d, f, run)
    PROVE  FileCompleted(d, e, f, run)
<1>1. /\ e.done = d.done /\ e.seen = d.seen /\ e.receipt = d.receipt
      /\ e.keep = [d.keep EXCEPT ![f] = run]
      /\ e.covered = [d.covered EXCEPT ![f] = run]
  BY DEF CompleteFile, Database
<1>2. e \in Database
  BY <1>1 DEF CompleteFile, Database
<1>3. Bounded(e, run)
  BY <1>1, MaxRunAssumption DEF Bounded, Database, Runs
<1>4. e.keep[f] = run /\ CoveredBy(e, f) = run
  BY <1>1 DEF Database, CoveredBy
<1>5. Live(e, f) = {r \in Rules : d.seen[f][r] = run}
  BY <1>1, <1>4, StampsBounded DEF Live
<1>6. \A g \in Files \ {f} : SameFile(d, e, g) /\ Live(e, g) = Live(d, g)
  BY <1>1 DEF SameFile, CoveredBy, Live, Database
<1> QED BY <1>1, <1>2, <1>3, <1>4, <1>5, <1>6 DEF FileCompleted

\* What completing a traversal leaves.
ScanCompleted(d, e, run) ==
    /\ e \in Database /\ Bounded(e, run) /\ e.receipt = d.receipt
    /\ \A f \in Files : Live(e, f) = IF d.keep[f] = run THEN Live(d, f)
                         ELSE {r \in Rules : d.seen[f][r] = run}

\* A completed run retires what it did not stamp, except in the files it kept.
LEMMA CompleteScanRetires ==
    ASSUME NEW d \in Database, NEW run \in Runs, run # 0, Bounded(d, run),
           NEW e, e = CompleteFileScan(d, run)
    PROVE  ScanCompleted(d, e, run)
<1>1. /\ e.done = run /\ e.seen = d.seen /\ e.covered = d.covered /\ e.receipt = d.receipt
      /\ e.keep = [f \in Files |-> IF d.keep[f] = run THEN run ELSE 0]
  BY DEF CompleteFileScan, Database
<1>2. e \in Database
  <2>1. e.keep \in [Files -> Runs]
    BY <1>1, MaxRunAssumption DEF Runs
  <2> QED BY <1>1, <2>1 DEF CompleteFileScan, Database
<1>3. Bounded(e, run)
  BY <1>1, MaxRunAssumption DEF Bounded, Database, Runs
<1>4. ASSUME NEW f \in Files
      PROVE  Live(e, f) = IF d.keep[f] = run THEN Live(d, f)
                          ELSE {r \in Rules : d.seen[f][r] = run}
  <2>1. CASE d.keep[f] = run
    BY <1>1, <2>1 DEF Live, CoveredBy
  <2>2. CASE d.keep[f] # run
    <3>1. CoveredBy(e, f) = run
      BY <1>1, <2>2 DEF CoveredBy
    <3> QED BY <1>1, <2>2, <3>1, StampsBounded DEF Live
  <2> QED BY <2>1, <2>2
<1> QED BY <1>1, <1>2, <1>3, <1>4 DEF ScanCompleted

-----------------------------------------------------------------------------
(* The inductive invariant.                                                *)

Scanning == scan.pc # "idle"

\* No stored number is newer than the last one drawn, and the scan in progress
\* has drawn that one.
RunsOrdered ==
    /\ Bounded(base, seq) /\ Bounded(work, seq)
    /\ Scanning => scan.run = seq /\ seq # 0
    /\ ~Scanning => scan = NoScan /\ work = base

\* A file is on the list, read or skipped, and only a file that is off the list
\* has a report; only a scan that ran to its end comes to retire anything.
ScanConsistent ==
    /\ scan.looked \cap scan.skipped = {}
    /\ scan.todo \cap (scan.looked \cup scan.skipped) = {}
    /\ \A f \in Files \ (scan.looked \cup scan.skipped) : scan.report[f] = {}
    /\ scan.pc = "save" /\ ~scan.partial => scan.todo = {}
    /\ scan.pc = "retire" => /\ scan.mode = "full" /\ ~scan.partial
                             /\ scan.todo = {} /\ work = base
    /\ scan.broken => scan.mode = "full" /\ scan.partial
    /\ scan.mode = "full" /\ ~scan.partial /\ Scanning =>
          \A f \in Files : disk[f] # Gone => f \in scan.todo \cup scan.looked \cup scan.skipped

\* The stamps of the open transaction are those of the scan's own reports, its
\* protections those of its own skips, and a commit adds what was reported.
Reported ==
    /\ \A f \in Files : Live(work, f) = Live(base, f) \cup scan.report[f]
    /\ Scanning => \A f \in Files, r \in Rules :
                      work.seen[f][r] = scan.run <=> r \in scan.report[f]
    /\ Scanning /\ scan.mode = "full" =>
          \A f \in Files : work.keep[f] = scan.run <=> f \in scan.skipped
    /\ Scanning /\ scan.mode = "retry" => work = base

Covers(d) ==
    \A f \in Files : d.receipt[f] # Gone /\ disk[f] # Gone => d.receipt[f] \subseteq Live(d, f)

ReceiptsOrdered ==
    /\ Covers(base) /\ Covers(work)
    /\ \A f \in scan.looked : work.receipt[f] \in {Gone, scan.report[f]}
    /\ \A f \in scan.skipped : work.receipt[f] = Gone

Inv == TypeOK /\ RunsOrdered /\ ScanConsistent /\ Reported /\ ReceiptsOrdered

-----------------------------------------------------------------------------
(* Every step preserves the invariant and is a step of the promise.        *)

Simulates == [Promise!Next]_(Promise!cvars)

LEMMA InitInv == Init => Inv /\ Promise!Init
<1> SUFFICES ASSUME Init PROVE Inv /\ Promise!Init
  OBVIOUS
<1>1. Empty \in Database /\ 0 \in Runs /\ NoScan \in ScanState
  BY MaxRunAssumption DEF Empty, Database, Runs, NoScan, ScanState, Modes, NoReport
<1>2. TypeOK
  BY <1>1 DEF Init, TypeOK
<1>3. Bounded(Empty, 0)
  BY DEF Empty, Bounded
<1>4. RunsOrdered
  BY <1>3 DEF Init, RunsOrdered, Scanning, NoScan
<1>5. scan = NoScan /\ work = base
  BY DEF Init
<1>6. ScanConsistent
  BY <1>5 DEF ScanConsistent, NoScan, NoReport, Scanning
<1>7. Reported
  BY <1>5 DEF Reported, NoScan, NoReport, Scanning
<1>8. ReceiptsOrdered
  BY <1>5 DEF Init, ReceiptsOrdered, Covers, Empty, NoScan
<1>9. \A f \in Files : Live(base, f) = {}
  BY DEF Init, Live, Empty
<1>10. Promise!Init
  BY <1>5, <1>9 DEF Promise!Init, NoScan, NoReport
<1> QED BY <1>2, <1>4, <1>6, <1>7, <1>8, <1>10 DEF Inv

\* A scan starts with a number of its own and nothing to report.
LEMMA StartInv ==
    ASSUME Inv, NEW mode \in Modes, NEW targets \in SUBSET Files,
           NEW partial \in BOOLEAN, NEW broken \in BOOLEAN,
           Start(mode, targets, partial, broken), retryable' \subseteq Files,
           broken => mode = "full" /\ partial,
           mode = "full" /\ ~partial => \A f \in Files : disk[f] # Gone => f \in targets
    PROVE  Inv' /\ Simulates
<1>1. /\ seq \in Runs /\ seq < MaxRun /\ seq' = seq + 1 /\ seq' \in Runs /\ seq' # 0
  BY MaxRunAssumption DEF Inv, TypeOK, Start, Runs
<1>2. scan = NoScan /\ work = base /\ disk' = disk /\ base' = base /\ work' = work
  BY DEF Inv, RunsOrdered, Scanning, Start
<1>3. scan' = [pc |-> "files", mode |-> mode, run |-> seq', todo |-> targets, looked |-> {},
               skipped |-> {}, report |-> NoReport, partial |-> partial, broken |-> broken]
  BY DEF Start, NoScan
<1>4. TypeOK'
  <2>1. scan' \in ScanState
    BY <1>1, <1>3 DEF ScanState, NoReport
  <2> QED BY <1>1, <1>2, <2>1 DEF Inv, TypeOK
<1>5. Bounded(base, seq) /\ base \in Database
  BY DEF Inv, RunsOrdered, TypeOK
<1>6. Bounded(base, seq')
  BY <1>1, <1>5, MaxRunAssumption DEF Bounded, Database, Runs
<1>7. RunsOrdered'
  BY <1>1, <1>2, <1>3, <1>6 DEF RunsOrdered, Scanning
<1>8. ScanConsistent'
  BY <1>2, <1>3 DEF ScanConsistent, Scanning, NoReport
<1>9. Reported'
  <2>1. \A f \in Files : base.keep[f] # seq' /\ \A r \in Rules : base.seen[f][r] # seq'
    BY <1>1, <1>5, MaxRunAssumption DEF Bounded, Database, Runs
  <2> QED BY <1>2, <1>3, <2>1 DEF Reported, Scanning, NoReport
<1>10. ReceiptsOrdered'
  BY <1>2, <1>3 DEF Inv, ReceiptsOrdered, Covers
<1>11. Simulates
  BY <1>2, <1>3 DEF Simulates, NoReport, Promise!Next, Promise!Begin, Promise!Forget
<1> QED BY <1>4, <1>7, <1>8, <1>9, <1>10, <1>11 DEF Inv

\* What the invariant says while a scan goes through its files.
LEMMA FilesFacts ==
    ASSUME Inv, scan.pc = "files", NEW f \in scan.todo
    PROVE  /\ f \in Files /\ f \notin scan.looked /\ f \notin scan.skipped
           /\ scan.run = seq /\ seq # 0 /\ seq \in Runs /\ scan \in ScanState
           /\ work \in Database /\ base \in Database
           /\ Bounded(work, seq) /\ Bounded(base, seq)
           /\ scan.report[f] = {} /\ Live(work, f) = Live(base, f)
<1>1. scan \in ScanState /\ work \in Database /\ base \in Database /\ seq \in Runs
  BY DEF Inv, TypeOK
<1>2. f \in Files
  BY <1>1 DEF ScanState
<1>3. f \notin scan.looked /\ f \notin scan.skipped
  BY DEF Inv, ScanConsistent
<1>4. scan.run = seq /\ seq # 0 /\ Bounded(work, seq) /\ Bounded(base, seq)
  BY DEF Inv, RunsOrdered, Scanning
<1>5. scan.report[f] = {}
  BY <1>2, <1>3 DEF Inv, ScanConsistent
<1>6. Live(work, f) = Live(base, f)
  BY <1>2, <1>5 DEF Inv, Reported
<1> QED BY <1>1, <1>2, <1>3, <1>4, <1>5, <1>6

\* Reading a file puts its findings into the open transaction.
LEMMA LookInv ==
    ASSUME Inv, NEW f \in scan.todo, scan.pc = "files", scan.mode # "retry",
           NEW found \in SUBSET Rules, NEW receipt \in {found, Gone},
           work' = [UpsertFindings(work, f, found, scan.run) EXCEPT !.receipt[f] = receipt],
           scan' = [Advance(f) EXCEPT !.looked = @ \cup {f}, !.report[f] = found],
           UNCHANGED <<disk, base, seq, retryable>>
    PROVE  Inv' /\ Simulates
<1> DEFINE e == UpsertFindings(work, f, found, scan.run)
<1>0. /\ f \in Files /\ f \notin scan.looked /\ f \notin scan.skipped
      /\ scan.run = seq /\ seq # 0 /\ seq \in Runs /\ scan \in ScanState
      /\ work \in Database /\ base \in Database
      /\ Bounded(work, seq) /\ Bounded(base, seq)
      /\ scan.report[f] = {} /\ Live(work, f) = Live(base, f)
  BY FilesFacts
<1>1. /\ e \in Database /\ Bounded(e, seq) /\ e.keep = work.keep
      /\ e.done = work.done /\ e.covered = work.covered
      /\ \A r \in Rules : e.seen[f][r] = IF r \in found THEN seq ELSE work.seen[f][r]
      /\ Live(e, f) = Live(work, f) \cup found
      /\ \A g \in Files \ {f} : SameFile(work, e, g) /\ Live(e, g) = Live(work, g)
  <2>1. Upserted(work, e, f, found, seq)
    BY <1>0, UpsertAdds
  <2> QED BY <2>1 DEF Upserted
<1>2. /\ work' \in Database /\ work'.seen = e.seen /\ work'.keep = e.keep
      /\ work'.covered = e.covered /\ work'.done = e.done
      /\ work'.receipt = [e.receipt EXCEPT ![f] = receipt]
  BY <1>0, <1>1 DEF Database
<1>3. \A g \in Files : Live(work', g) = Live(e, g)
  BY <1>0, <1>2 DEF Live, CoveredBy
<1>4. /\ scan'.pc = scan.pc /\ scan'.mode = scan.mode /\ scan'.run = scan.run
      /\ scan'.todo = scan.todo \ {f} /\ scan'.looked = scan.looked \cup {f}
      /\ scan'.skipped = scan.skipped /\ scan'.partial = scan.partial
      /\ scan'.broken = scan.broken /\ scan'.report = [scan.report EXCEPT ![f] = found]
      /\ scan' \in ScanState
  BY <1>0 DEF Advance, ScanState
<1>5. scan'.report[f] = found /\ \A g \in Files \ {f} : scan'.report[g] = scan.report[g]
  BY <1>0, <1>4 DEF ScanState
<1>6. TypeOK'
  BY <1>0, <1>2, <1>4 DEF Inv, TypeOK
<1>7. RunsOrdered'
  <2>1. Bounded(work', seq)
    BY <1>0, <1>1, <1>2 DEF Bounded
  <2> QED BY <1>0, <1>4, <2>1 DEF RunsOrdered, Scanning, Bounded
<1>8. ScanConsistent'
  BY <1>0, <1>4, <1>5 DEF Inv, ScanConsistent, Scanning
<1>9. Reported'
  <2>1. \A g \in Files : Live(work', g) = Live(base, g) \cup scan'.report[g]
    BY <1>0, <1>1, <1>3, <1>5 DEF Inv, Reported
  <2>2. \A g \in Files, r \in Rules : work'.seen[g][r] = scan.run <=> r \in scan'.report[g]
    BY <1>0, <1>1, <1>2, <1>5 DEF Inv, Reported, Scanning, SameFile
  <2>3. scan.mode = "full" => \A g \in Files : work'.keep[g] = scan.run <=> g \in scan.skipped
    BY <1>0, <1>1, <1>2 DEF Inv, Reported, Scanning
  <2> QED BY <1>0, <1>4, <2>1, <2>2, <2>3 DEF Reported, Live, CoveredBy
<1>10. ReceiptsOrdered'
  <2>1. work'.receipt[f] = receipt /\ \A g \in Files \ {f} : work'.receipt[g] = work.receipt[g]
    BY <1>0, <1>1, <1>2 DEF Database, SameFile
  <2>2. \A g \in Files : work'.receipt[g] # Gone /\ disk[g] # Gone =>
            work'.receipt[g] \subseteq Live(work', g)
    BY <1>0, <1>1, <1>3, <2>1 DEF Inv, ReceiptsOrdered, Covers
  <2>3. \A g \in scan'.looked : work'.receipt[g] \in {Gone, scan'.report[g]}
    BY <1>0, <1>4, <1>5, <2>1 DEF Inv, ReceiptsOrdered, ScanState
  <2>4. \A g \in scan'.skipped : work'.receipt[g] = Gone
    BY <1>0, <1>4, <2>1 DEF Inv, ReceiptsOrdered, ScanState
  <2> QED BY <1>0, <2>2, <2>3, <2>4 DEF Inv, ReceiptsOrdered, Covers, Live, CoveredBy
<1>11. Simulates
  <2>1. Promise!Look(f, found)
    BY <1>0, <1>4 DEF Promise!Look, Live, CoveredBy
  <2> QED BY <1>0, <2>1 DEF Simulates, Promise!Next
<1> QED BY <1>6, <1>7, <1>8, <1>9, <1>10, <1>11 DEF Inv

\* A retry commits the file it has read together with its coverage.
LEMMA RetryInv ==
    ASSUME Inv, NEW f \in scan.todo, scan.pc = "files", scan.mode = "retry",
           ScanFile(f)
    PROVE  Inv' /\ Simulates
<1> DEFINE found == disk[f]
<1> DEFINE e == UpsertFindings(work, f, found, seq)
<1>0. /\ f \in Files /\ f \notin scan.looked /\ f \notin scan.skipped
      /\ scan.run = seq /\ seq # 0 /\ seq \in Runs /\ scan \in ScanState
      /\ work \in Database /\ base \in Database
      /\ Bounded(work, seq) /\ Bounded(base, seq)
      /\ scan.report[f] = {} /\ Live(work, f) = Live(base, f)
  BY FilesFacts
<1>1. found \in SUBSET Rules /\ work = base
  BY <1>0 DEF ScanFile, Inv, TypeOK, Reported, Scanning
<1>2. Upserted(work, e, f, found, seq)
  BY <1>0, <1>1, UpsertAdds
<1>3. work' = CompleteFile(e, f, seq) /\ base' = work' /\ disk' = disk /\ seq' = seq
      /\ retryable' = retryable
  BY <1>0 DEF ScanFile, Store
<1>4. FileCompleted(e, work', f, seq)
  BY <1>0, <1>2, <1>3, CompleteFileCovers DEF Upserted
<1>5. /\ scan'.pc = scan.pc /\ scan'.mode = scan.mode /\ scan'.run = scan.run
      /\ scan'.todo = scan.todo \ {f} /\ scan'.looked = scan.looked \cup {f}
      /\ scan'.skipped = scan.skipped /\ scan'.partial = scan.partial
      /\ scan'.broken = scan.broken /\ scan'.report = [scan.report EXCEPT ![f] = found]
      /\ scan' \in ScanState
  BY <1>0, <1>1 DEF ScanFile, Advance, ScanState
<1>6. scan'.report[f] = found /\ \A g \in Files \ {f} : scan'.report[g] = scan.report[g]
  BY <1>0, <1>5 DEF ScanState
<1>7. \A r \in Rules : work'.seen[f][r] = seq <=> r \in found
  <2>1. \A r \in Rules : work.seen[f][r] # seq
    BY <1>0 DEF Inv, Reported, Scanning
  <2> QED BY <1>2, <1>4, <2>1 DEF Upserted, FileCompleted
<1>8. /\ Live(work', f) = found
      /\ \A g \in Files \ {f} : Live(work', g) = Live(work, g) /\ SameFile(work, work', g)
  BY <1>1, <1>2, <1>4, <1>7 DEF Upserted, FileCompleted, SameFile
<1>9. TypeOK'
  BY <1>3, <1>4, <1>5 DEF Inv, TypeOK, FileCompleted
<1>10. RunsOrdered'
  BY <1>0, <1>3, <1>4, <1>5 DEF RunsOrdered, Scanning, FileCompleted
<1>11. ScanConsistent'
  BY <1>0, <1>3, <1>5, <1>6 DEF Inv, ScanConsistent, Scanning
<1>12. Reported'
  <2>1. \A g \in Files : Live(work', g) = Live(work', g) \cup scan'.report[g]
    BY <1>1, <1>6, <1>8 DEF Inv, Reported
  <2>2. \A g \in Files, r \in Rules : work'.seen[g][r] = scan'.run <=> r \in scan'.report[g]
    BY <1>0, <1>5, <1>6, <1>7, <1>8 DEF Inv, Reported, Scanning, SameFile
  <2> QED BY <1>3, <1>5, <2>1, <2>2 DEF Reported
<1>13. ReceiptsOrdered'
  <2>1. work'.receipt[f] = found
    BY <1>2, <1>4 DEF Upserted, FileCompleted
  <2>2. Covers(work)'
    BY <1>3, <1>8, <2>1 DEF Inv, ReceiptsOrdered, Covers, SameFile
  <2>3. \A g \in scan'.looked : work'.receipt[g] \in {Gone, scan'.report[g]}
    BY <1>0, <1>5, <1>6, <1>8, <2>1 DEF Inv, ReceiptsOrdered, ScanState, SameFile
  <2>4. \A g \in scan'.skipped : work'.receipt[g] = Gone
    BY <1>0, <1>5, <1>8 DEF Inv, ReceiptsOrdered, ScanState, SameFile
  <2> QED BY <1>3, <2>2, <2>3, <2>4 DEF ReceiptsOrdered
<1>14. Simulates
  <2>1. [g \in Files |-> Live(base, g)]' = [[g \in Files |-> Live(base, g)] EXCEPT ![f] = found]
    BY <1>0, <1>1, <1>3, <1>8
  <2>2. Promise!Retry(f, found)
    BY <1>0, <1>5, <2>1 DEF Promise!Retry
  <2> QED BY <1>0, <1>1, <2>2 DEF Simulates, Promise!Next
<1> QED BY <1>9, <1>10, <1>11, <1>12, <1>13, <1>14 DEF Inv

\* What a skipped file has in the open transaction: its live findings and those
\* reported of it, and no receipt.
SkipStored(d, e, f, found, run) ==
    /\ e \in Database /\ Bounded(e, run)
    /\ e.keep[f] = run /\ e.receipt[f] = Gone
    /\ \A r \in Rules : e.seen[f][r] = IF r \in found THEN run ELSE d.seen[f][r]
    /\ Live(e, f) = Live(d, f) \cup found
    /\ \A g \in Files \ {f} : SameFile(d, e, g) /\ Live(e, g) = Live(d, g)

\* Protecting a file first keeps its live findings among those that are stored.
LEMMA StoreSkippedAdds ==
    ASSUME NEW d \in Database, NEW f \in Files, NEW found \in SUBSET Rules,
           scan.run \in Runs, scan.run # 0, Bounded(d, scan.run),
           NEW e, e = StoreSkipped(d, f, found)
    PROVE  SkipStored(d, e, f, found, scan.run)
<1> DEFINE p == ProtectFile(d, f, scan.run)
<1> DEFINE u == UpsertFindings(p, f, found, scan.run)
<1>1. Protected(d, p, f, scan.run)
  BY ProtectKeeps
<1>2. Upserted(p, u, f, found, scan.run)
  BY <1>1, UpsertAdds DEF Protected
<1>3. e = [u EXCEPT !.receipt[f] = Gone]
  BY DEF StoreSkipped
<1>4. /\ e \in Database /\ e.seen = u.seen /\ e.keep = u.keep
      /\ e.covered = u.covered /\ e.done = u.done
      /\ e.receipt = [u.receipt EXCEPT ![f] = Gone]
  <2>1. u \in Database
    BY <1>2 DEF Upserted
  <2>2. /\ e.seen = u.seen /\ e.keep = u.keep /\ e.covered = u.covered /\ e.done = u.done
        /\ e.receipt = [u.receipt EXCEPT ![f] = Gone]
    <3> HIDE DEF u
    <3> QED BY <1>3, <2>1 DEF Database
  <2>3. e.receipt \in [Files -> {Gone} \cup SUBSET Rules]
    <3>1. u.receipt \in [Files -> {Gone} \cup SUBSET Rules]
      BY <2>1 DEF Database
    <3> HIDE DEF u
    <3> QED BY <2>2, <3>1
  <2>4. e \in Database
    <3> HIDE DEF u
    <3>1. e = [u EXCEPT !.receipt = e.receipt]
      BY <1>3, <2>1, <2>2 DEF Database
    <3> QED BY <2>1, <2>3, <3>1 DEF Database
  <2> QED BY <2>2, <2>4
<1>5. \A g \in Files : Live(e, g) = Live(u, g)
  BY <1>4 DEF Live, CoveredBy
<1>6. e.receipt[f] = Gone /\ \A g \in Files \ {f} : e.receipt[g] = u.receipt[g]
  BY <1>2, <1>4 DEF Upserted, Database
<1>7. Bounded(e, scan.run)
  BY <1>2, <1>4 DEF Upserted, Bounded
<1>8. Live(e, f) = Live(d, f) \cup found
  BY <1>1, <1>2, <1>5 DEF Protected, Upserted
<1>9. \A g \in Files \ {f} : SameFile(d, e, g) /\ Live(e, g) = Live(d, g)
  BY <1>1, <1>2, <1>4, <1>5, <1>6 DEF Protected, Upserted, SameFile
<1>10. e.keep[f] = scan.run
  BY <1>1, <1>2, <1>4 DEF Protected, Upserted
<1>11. \A r \in Rules : e.seen[f][r] = IF r \in found THEN scan.run ELSE d.seen[f][r]
  BY <1>1, <1>2, <1>4 DEF Protected, Upserted
<1> QED BY <1>4, <1>6, <1>7, <1>8, <1>9, <1>10, <1>11 DEF SkipStored

\* A file that cannot be read keeps what it had and gains what is said of it.
LEMMA SkipInv ==
    ASSUME Inv, NEW f \in Files, SkipFile(f)
    PROVE  Inv' /\ Simulates
<1>0. /\ f \in Files /\ f \notin scan.looked /\ f \notin scan.skipped
      /\ scan.run = seq /\ seq # 0 /\ seq \in Runs /\ scan \in ScanState
      /\ work \in Database /\ base \in Database
      /\ Bounded(work, seq) /\ Bounded(base, seq)
      /\ scan.report[f] = {} /\ Live(work, f) = Live(base, f)
  BY FilesFacts DEF SkipFile
<1>a. PICK found \in SUBSET Rules :
        /\ work' = StoreSkipped(work, f, found)
        /\ scan' = [Advance(f) EXCEPT !.skipped = @ \cup {f}, !.report[f] = found]
  BY DEF SkipFile
<1>1. SkipStored(work, work', f, found, seq)
  BY <1>0, <1>a, StoreSkippedAdds
<1>2. /\ disk' = disk /\ seq' = seq /\ retryable' = retryable /\ scan.pc = "files"
      /\ base' = IF scan.mode = "retry" THEN work' ELSE base
  BY DEF SkipFile
<1>3. /\ scan'.pc = scan.pc /\ scan'.mode = scan.mode /\ scan'.run = scan.run
      /\ scan'.todo = scan.todo \ {f} /\ scan'.looked = scan.looked
      /\ scan'.skipped = scan.skipped \cup {f} /\ scan'.partial = scan.partial
      /\ scan'.broken = scan.broken /\ scan'.report = [scan.report EXCEPT ![f] = found]
      /\ scan' \in ScanState
  BY <1>0, <1>a DEF Advance, ScanState
<1>b. scan'.report[f] = found /\ \A g \in Files \ {f} : scan'.report[g] = scan.report[g]
  BY <1>0, <1>3 DEF ScanState
<1>4. /\ Live(work', f) = Live(work, f) \cup found
      /\ \A g \in Files \ {f} : Live(work', g) = Live(work, g)
  BY <1>1 DEF SkipStored
<1>5. \/ \A g \in Files : Live(base, g)' = Live(base, g)
      \/ /\ scan.mode = "retry"
         /\ Live(base, f)' = Live(base, f) \cup found
         /\ \A g \in Files \ {f} : Live(base, g)' = Live(base, g)
  <2>1. CASE scan.mode = "retry"
    <3>1. work = base /\ base' = work'
      BY <1>2, <2>1 DEF Inv, Reported, Scanning
    <3>2. \A g \in Files : Live(base, g)' = Live(work', g)
      BY <3>1 DEF Live, CoveredBy
    <3> QED BY <1>0, <1>4, <2>1, <3>1, <3>2
  <2>2. CASE scan.mode # "retry"
    BY <1>2, <2>2 DEF Live, CoveredBy
  <2> QED BY <2>1, <2>2
<1>6. TypeOK'
  BY <1>0, <1>1, <1>2, <1>3 DEF Inv, TypeOK, SkipStored
<1>7. RunsOrdered'
  <2>1. Bounded(base', seq)
    BY <1>0, <1>1, <1>2 DEF SkipStored
  <2> QED BY <1>0, <1>1, <1>2, <1>3, <2>1 DEF RunsOrdered, Scanning, SkipStored
<1>8. ScanConsistent'
  BY <1>0, <1>2, <1>3, <1>b DEF Inv, ScanConsistent, Scanning
<1>9. Reported'
  <2>1. \A g \in Files : Live(work', g) = Live(base', g) \cup scan'.report[g]
    <3>1. CASE scan.mode = "retry"
      <4>1. work = base /\ base' = work'
        BY <1>2, <3>1 DEF Inv, Reported, Scanning
      <4> QED BY <1>0, <1>4, <1>b, <4>1 DEF Inv, Reported
    <3>2. CASE scan.mode # "retry"
      <4>1. base' = base
        BY <1>2, <3>2
      <4> QED BY <1>0, <1>4, <1>b, <4>1 DEF Inv, Reported
    <3> QED BY <3>1, <3>2
  <2>2. \A g \in Files, r \in Rules : work'.seen[g][r] = scan'.run <=> r \in scan'.report[g]
    BY <1>0, <1>1, <1>2, <1>3, <1>b DEF Inv, Reported, Scanning, SkipStored, SameFile
  <2>3. scan.mode = "full" => \A g \in Files : work'.keep[g] = scan'.run <=> g \in scan'.skipped
    BY <1>0, <1>1, <1>2, <1>3 DEF Inv, Reported, Scanning, SkipStored, SameFile
  <2>4. scan.mode = "retry" => work' = base'
    BY <1>2
  <2>5. \A g \in Files : Live(work, g)' = Live(base, g)' \cup scan'.report[g]
    BY <2>1 DEF Live, CoveredBy
  <2> QED BY <1>2, <1>3, <2>5, <2>2, <2>3, <2>4 DEF Reported
<1>10. ReceiptsOrdered'
  <2>1. work'.receipt[f] = Gone /\ \A g \in Files \ {f} : work'.receipt[g] = work.receipt[g]
    BY <1>1 DEF SkipStored, SameFile
  <2>2. Covers(work)'
    BY <1>2, <1>4, <2>1 DEF Inv, ReceiptsOrdered, Covers, Live, CoveredBy
  <2>3. Covers(base)'
    <3>1. CASE scan.mode = "retry"
      BY <1>2, <2>2, <3>1 DEF Covers, Live, CoveredBy
    <3>2. CASE scan.mode # "retry"
      BY <1>2, <3>2 DEF Inv, ReceiptsOrdered, Covers, Live, CoveredBy
    <3> QED BY <3>1, <3>2
  <2>4. \A g \in scan'.looked : work'.receipt[g] \in {Gone, scan'.report[g]}
    BY <1>0, <1>3, <1>b, <2>1 DEF Inv, ReceiptsOrdered, ScanState
  <2>5. \A g \in scan'.skipped : work'.receipt[g] = Gone
    BY <1>0, <1>3, <2>1 DEF Inv, ReceiptsOrdered, ScanState
  <2> QED BY <2>2, <2>3, <2>4, <2>5 DEF ReceiptsOrdered
<1>11. Simulates
  <2>1. \/ UNCHANGED [g \in Files |-> Live(base, g)]
        \/ [g \in Files |-> Live(base, g)]' =
              [[g \in Files |-> Live(base, g)] EXCEPT ![f] = @ \cup found]
    BY <1>0, <1>5
  <2>2. Promise!Skip(f, found)
    BY <1>0, <1>3, <2>1 DEF Promise!Skip
  <2> QED BY <1>0, <1>a, <2>2 DEF Simulates, Promise!Next
<1> QED BY <1>6, <1>7, <1>8, <1>9, <1>10, <1>11 DEF Inv

\* A commit makes the reports visible and takes nothing away.
LEMMA CommitInv ==
    ASSUME Inv, base' = work, UNCHANGED <<disk, work, seq>>, scan.pc \in {"files", "save"},
           retryable' \subseteq Files,
           \/ scan' = scan
           \/ scan' = NoScan
           \/ /\ scan.pc = "save" /\ scan.mode = "full" /\ ~scan.partial
              /\ scan' = [scan EXCEPT !.pc = "retire"]
    PROVE  Inv' /\ Simulates
<1>1. /\ work \in Database /\ Bounded(work, seq) /\ scan.run = seq /\ seq # 0
      /\ scan \in ScanState
  BY DEF Inv, TypeOK, RunsOrdered, Scanning
<1>2. \A f \in Files : Live(base, f)' = Live(work, f)
  BY DEF Live, CoveredBy
<1>3. \A f \in Files : Live(work, f)' = Live(work, f)
  BY DEF Live, CoveredBy
<1>4. \A f \in Files : Live(base, f)' = Live(base, f) \cup scan.report[f]
  BY <1>2 DEF Inv, Reported
<1>5. NoScan \in ScanState
  BY MaxRunAssumption DEF NoScan, ScanState, Modes, NoReport, Runs
<1>6. /\ ReceiptsOrdered => Covers(work)'
      /\ Covers(work)' => Covers(base)'
  BY <1>2, <1>3 DEF ReceiptsOrdered, Covers
<1>7. CASE scan' = NoScan
  <2>1. TypeOK'
    BY <1>1, <1>5, <1>7 DEF Inv, TypeOK
  <2>2. RunsOrdered'
    BY <1>1, <1>7 DEF RunsOrdered, Scanning, NoScan
  <2>3. ScanConsistent'
    BY <1>7 DEF ScanConsistent, Scanning, NoScan, NoReport
  <2>4. Reported'
    BY <1>2, <1>3, <1>7 DEF Reported, Scanning, NoScan, NoReport
  <2>5. ReceiptsOrdered'
    BY <1>6, <1>7 DEF Inv, ReceiptsOrdered, NoScan
  <2>6. Promise!Publish
    BY <1>4, <1>7 DEF Promise!Publish, Promise!Forget, NoScan, NoReport
  <2> QED BY <2>1, <2>2, <2>3, <2>4, <2>5, <2>6 DEF Inv, Simulates, Promise!Next
<1>8. CASE scan' # NoScan
  <2>1. /\ scan'.mode = scan.mode /\ scan'.run = scan.run /\ scan'.todo = scan.todo
        /\ scan'.looked = scan.looked /\ scan'.skipped = scan.skipped
        /\ scan'.report = scan.report /\ scan'.partial = scan.partial
        /\ scan'.broken = scan.broken /\ scan' \in ScanState
        /\ scan'.pc # "idle"
        /\ \/ scan'.pc = scan.pc
           \/ scan.pc = "save" /\ scan'.pc = "retire" /\ scan.mode = "full" /\ ~scan.partial
    <3>1. CASE scan' = scan
      BY <1>1, <3>1
    <3>2. CASE scan.pc = "save" /\ scan.mode = "full" /\ ~scan.partial
               /\ scan' = [scan EXCEPT !.pc = "retire"]
      BY <1>1, <3>2 DEF ScanState
    <3> QED BY <1>8, <3>1, <3>2
  <2>2. TypeOK'
    BY <1>1, <2>1 DEF Inv, TypeOK
  <2>3. RunsOrdered'
    BY <1>1, <2>1 DEF RunsOrdered, Scanning
  <2>4. ScanConsistent'
    BY <2>1 DEF Inv, ScanConsistent, Scanning
  <2>5. Reported'
    <3>1. \A f \in Files : Live(work, f)' = Live(base, f)' \cup scan'.report[f]
      BY <1>2, <1>3, <1>4, <2>1
    <3> QED BY <2>1, <3>1 DEF Inv, Reported, Scanning
  <2>6. ReceiptsOrdered'
    BY <1>6, <2>1 DEF Inv, ReceiptsOrdered
  <2>7. Promise!Publish
    BY <1>4, <2>1 DEF Promise!Publish, Promise!scanvars
  <2> QED BY <2>2, <2>3, <2>4, <2>5, <2>6, <2>7 DEF Inv, Simulates, Promise!Next
<1> QED BY <1>7, <1>8

\* Only a complete traversal retires, and only what it looked for in vain.
LEMMA RetireInv == Inv /\ Retire => Inv' /\ Simulates
<1> SUFFICES ASSUME Inv, Retire PROVE Inv' /\ Simulates
  OBVIOUS
<1>1. /\ scan.pc = "retire" /\ disk' = disk /\ seq' = seq /\ base' = work'
      /\ scan' = NoScan /\ retryable' = scan.skipped
      /\ work' = CompleteFileScan(work, scan.run)
  BY DEF Retire
<1>2. /\ work \in Database /\ Bounded(work, seq) /\ scan.run = seq /\ seq # 0
      /\ seq \in Runs /\ scan \in ScanState
  BY <1>1 DEF Inv, TypeOK, RunsOrdered, Scanning
<1>3. ScanCompleted(work, work', seq)
  BY <1>1, <1>2, CompleteScanRetires
<1>4. work = base /\ scan.mode = "full" /\ ~scan.partial /\ scan.todo = {}
  BY <1>1 DEF Inv, ScanConsistent
<1>5. ASSUME NEW f \in Files
      PROVE  Live(work', f) = IF f \in scan.skipped THEN Live(base, f) \cup scan.report[f]
                              ELSE scan.report[f]
  <2>1. scan.report[f] = {r \in Rules : work.seen[f][r] = seq}
    <3>1. scan.report[f] \subseteq Rules
      BY <1>2 DEF ScanState
    <3>2. \A r \in Rules : work.seen[f][r] = seq <=> r \in scan.report[f]
      BY <1>1, <1>2 DEF Inv, Reported, Scanning
    <3> QED BY <3>1, <3>2
  <2>2. work.keep[f] = seq <=> f \in scan.skipped
    BY <1>1, <1>2, <1>4 DEF Inv, Reported, Scanning
  <2>3. Live(work, f) = Live(base, f) \cup scan.report[f]
    BY DEF Inv, Reported
  <2> QED BY <1>3, <2>1, <2>2, <2>3 DEF ScanCompleted
<1>6. NoScan \in ScanState
  BY MaxRunAssumption DEF NoScan, ScanState, Modes, NoReport, Runs
<1>7. TypeOK'
  BY <1>1, <1>2, <1>3, <1>6 DEF Inv, TypeOK, ScanCompleted, ScanState
<1>8. RunsOrdered'
  BY <1>1, <1>2, <1>3 DEF RunsOrdered, Scanning, NoScan, ScanCompleted
<1>9. ScanConsistent'
  BY <1>1 DEF ScanConsistent, Scanning, NoScan, NoReport
<1>10. Reported'
  BY <1>1 DEF Reported, Scanning, NoScan, NoReport
<1>11. ReceiptsOrdered'
  <2>1. ASSUME NEW f \in Files, work'.receipt[f] # Gone, disk[f] # Gone
        PROVE  work'.receipt[f] \subseteq Live(work', f)
    <3>1. work'.receipt[f] = work.receipt[f]
      BY <1>3 DEF ScanCompleted
    <3>2. f \in scan.looked /\ f \notin scan.skipped
      BY <1>1, <1>4, <2>1, <3>1 DEF Inv, ScanConsistent, ReceiptsOrdered, Scanning
    <3>3. work.receipt[f] = scan.report[f]
      BY <2>1, <3>1, <3>2 DEF Inv, ReceiptsOrdered
    <3> QED BY <1>5, <3>1, <3>2, <3>3
  <2> QED BY <1>1, <2>1 DEF ReceiptsOrdered, Covers, NoScan
<1>12. Promise!Retire
  BY <1>1, <1>5 DEF Promise!Retire, Promise!Forget, NoScan, NoReport
<1> QED BY <1>7, <1>8, <1>9, <1>10, <1>11, <1>12 DEF Inv, Simulates, Promise!Next

\* A rollback forgets the scan and keeps what was committed.
LEMMA AbortInv == Inv /\ Abort => Inv' /\ Simulates
<1> SUFFICES ASSUME Inv, Abort PROVE Inv' /\ Simulates
  OBVIOUS
<1>1. /\ work' = base /\ base' = base /\ scan' = NoScan /\ disk' = disk
      /\ seq' = seq /\ retryable' = retryable
  BY DEF Abort
<1>2. NoScan \in ScanState
  BY MaxRunAssumption DEF NoScan, ScanState, Modes, NoReport, Runs
<1>3. TypeOK'
  BY <1>1, <1>2 DEF Inv, TypeOK
<1>4. RunsOrdered'
  BY <1>1 DEF Inv, RunsOrdered, Scanning, NoScan
<1>5. ScanConsistent' /\ Reported'
  BY <1>1 DEF ScanConsistent, Reported, Scanning, NoScan, NoReport
<1>6. ReceiptsOrdered'
  BY <1>1 DEF Inv, ReceiptsOrdered, Covers, NoScan
<1>7. Promise!Begin
  BY <1>1 DEF Promise!Begin, Promise!Forget, NoScan, NoReport
<1> QED BY <1>3, <1>4, <1>5, <1>6, <1>7 DEF Inv, Simulates, Promise!Next

\* The end of the loop and an edit of a file concern no finding.
LEMMA QuietInv ==
    ASSUME Inv, EndLoop \/ (\E f \in Files : Edit(f)) \/ UNCHANGED vars
    PROVE  Inv' /\ Simulates
<1>1. base' = base /\ work' = work /\ seq' = seq /\ retryable' = retryable
  BY DEF EndLoop, Edit, vars
<1>2. /\ scan' \in ScanState /\ scan'.mode = scan.mode /\ scan'.run = scan.run
      /\ scan'.todo = scan.todo /\ scan'.looked = scan.looked
      /\ scan'.skipped = scan.skipped /\ scan'.report = scan.report
      /\ scan'.broken = scan.broken /\ (scan.partial => scan'.partial)
      /\ \/ scan' = scan
         \/ scan.pc = "files" /\ scan'.pc = "save" /\ (scan'.partial \/ scan.todo = {})
  BY DEF EndLoop, Edit, vars, Inv, TypeOK, ScanState
<1>3. disk' \in [Files -> {Gone} \cup SUBSET Rules]
  BY DEF EndLoop, Edit, vars, Inv, TypeOK
<1>4. \A f \in Files : disk'[f] # Gone => disk[f] # Gone
  BY DEF EndLoop, Edit, vars, Inv, TypeOK
<1>5. TypeOK'
  BY <1>1, <1>2, <1>3 DEF Inv, TypeOK
<1>6. RunsOrdered'
  BY <1>1, <1>2 DEF Inv, RunsOrdered, Scanning
<1>7. ScanConsistent'
  BY <1>1, <1>2, <1>4 DEF Inv, ScanConsistent, Scanning
<1>8. Reported'
  BY <1>1, <1>2 DEF Inv, Reported, Scanning, Live, CoveredBy
<1>9. ReceiptsOrdered'
  BY <1>1, <1>2, <1>4 DEF Inv, ReceiptsOrdered, Covers, Live, CoveredBy
<1>10. UNCHANGED Promise!cvars
  BY <1>1, <1>2 DEF Promise!cvars, Live, CoveredBy
<1> QED BY <1>5, <1>6, <1>7, <1>8, <1>9, <1>10 DEF Inv, Simulates

LEMMA StepInv == Inv /\ [Next]_vars => Inv' /\ Simulates
<1> SUFFICES ASSUME Inv, [Next]_vars PROVE Inv' /\ Simulates
  OBVIOUS
<1>0. disk \in [Files -> {Gone} \cup SUBSET Rules] /\ retryable \subseteq Files
      /\ scan \in ScanState /\ Present \subseteq Files
  BY DEF Inv, TypeOK, Present
<1>1. CASE StartFull
  <2>1. CASE \E broken \in BOOLEAN : Start("full", Present, broken, broken)
    BY <1>0, <1>1, <2>1, StartInv DEF StartFull, Modes, Present
  <2>2. CASE \E targets \in SUBSET Present : Start("full", targets, TRUE, FALSE)
    BY <1>0, <1>1, <2>2, StartInv DEF StartFull, Modes
  <2> QED BY <1>1, <2>1, <2>2 DEF StartFull
<1>2. CASE StartNew
  BY <1>0, <1>2, StartInv DEF StartNew, Modes
<1>3. CASE StartRetry
  BY <1>0, <1>3, StartInv DEF StartRetry, Modes
<1>4. ASSUME NEW f \in Files, ScanFile(f) PROVE Inv' /\ Simulates
  <2>1. CASE scan.mode = "retry"
    BY <1>4, <2>1, RetryInv DEF ScanFile
  <2>2. CASE scan.mode # "retry"
    <3> DEFINE e == UpsertFindings(work, f, disk[f], scan.run)
    <3>1. disk[f] \in SUBSET Rules /\ f \in scan.todo /\ scan.pc = "files"
      BY <1>0, <1>4 DEF ScanFile
    <3>2. work' = e /\ UNCHANGED <<disk, base, seq, retryable>>
          /\ scan' = [Advance(f) EXCEPT !.looked = @ \cup {f}, !.report[f] = disk[f]]
      BY <1>4, <2>2 DEF ScanFile, Store
    <3>3. e = [e EXCEPT !.receipt[f] = disk[f]]
      <4>1. work \in Database
        BY DEF Inv, TypeOK
      <4> QED BY <4>1, <3>1 DEF UpsertFindings, Database
    <3> QED BY <2>2, <3>1, <3>2, <3>3, LookInv
  <2> QED BY <2>1, <2>2
<1>5. ASSUME NEW f \in Files, ScanFileBroken(f) PROVE Inv' /\ Simulates
  <2>1. scan.mode # "retry" /\ f \in scan.todo /\ scan.pc = "files"
    BY <1>5 DEF ScanFileBroken, Inv, ScanConsistent
  <2>2. PICK found \in SUBSET disk[f] :
          /\ work' = [UpsertFindings(work, f, found, scan.run) EXCEPT !.receipt[f] = Gone]
          /\ scan' = [Advance(f) EXCEPT !.looked = @ \cup {f}, !.report[f] = found]
    BY <1>5 DEF ScanFileBroken
  <2>3. found \in SUBSET Rules
    BY <1>0, <1>5, <2>2 DEF ScanFileBroken
  <2> QED BY <1>5, <2>1, <2>2, <2>3, LookInv DEF ScanFileBroken
<1>6. ASSUME NEW f \in Files, SkipFile(f) PROVE Inv' /\ Simulates
  BY <1>6, SkipInv
<1>7. CASE CommitBatch
  BY <1>0, <1>7, CommitInv DEF CommitBatch
<1>8. CASE Save
  <2>1. retryable' \subseteq Files
    BY <1>0, <1>8 DEF Save, ScanState
  <2> QED BY <1>8, <2>1, CommitInv DEF Save
<1>9. CASE Retire
  BY <1>9, RetireInv
<1>10. CASE Abort
  BY <1>10, AbortInv
<1>11. CASE EndLoop \/ (\E f \in Files : Edit(f)) \/ UNCHANGED vars
  BY <1>11, QuietInv
<1> QED BY <1>1, <1>2, <1>3, <1>4, <1>5, <1>6, <1>7, <1>8, <1>9, <1>10, <1>11 DEF Next

-----------------------------------------------------------------------------
(* The theorems.                                                           *)

LEMMA Invariance == Spec => []Inv
<1>1. Init => Inv
  BY InitInv
<1>2. Inv /\ [Next]_vars => Inv'
  BY StepInv
<1> QED BY <1>1, <1>2, PTL DEF Spec

\* The variables keep their types: in particular no stamp, coverage or
\* protection ever exceeds the run numbers drawn.
THEOREM TypeCorrect == Spec => []TypeOK
<1>1. Inv => TypeOK
  BY DEF Inv
<1> QED BY <1>1, Invariance, PTL

\* A receipt never vouches for a file whose findings were retired or lost,
\* whatever the interleaving of scans, retries, edits and crashes
\* (file_scan_receipts.record in one transaction with upsert_finding).
THEOREM ReceiptsHold == Spec => []ReceiptCovers
<1>1. Inv => ReceiptCovers
  BY DEF Inv, ReceiptsOrdered, Covers, ReceiptCovers
<1> QED BY <1>1, Invariance, PTL

\* The run numbers of findings, engine_done and file_completion implement the
\* promise of CurrentFindings: only a look at the file takes findings away.
THEOREM Refinement == Spec => KeepsPromise
<1>1. Init => Promise!Init
  BY InitInv
<1>2. Inv /\ [Next]_vars => [Promise!Next]_(Promise!cvars)
  BY StepInv DEF Simulates
<1> QED BY <1>1, <1>2, Invariance, PTL DEF Spec, KeepsPromise, Promise!Spec

=============================================================================
