# TLA+ models of Shellhound

Shellhound is a forensic workbench: an analyst registers evidence (web roots,
access logs, other logs, SQL dumps) in a *case*, a local server analyzes it with
a set of *engines*, and the analyst decides about the findings in a browser.
This directory models the parts of the server (`src/server`) in which the order
of steps matters: background jobs and the receipts of an analysis, the derived
databases that engines build and requests read, the decisions of the analyst and
how they travel, the files a case and a workspace consist of, and the transfer
of a case to OpenCTI.

## The system

| Part | State | Operations | Hard behaviour | Module |
| --- | --- | --- | --- | --- |
| Job manager (`jobs.py`) and its users in `app.py` | table `jobs`, registry `live`, cancel events, thread pool of 2, `_schedule_lock` | submit, submit_after_current, cancel, case_operation, recover_interrupted, wait_for, cancel_all_and_wait, `_run`; analyze, hunts, archive, delete, import | a job exists as a row *and* in memory; request threads, pool threads, crash, failing writes | Jobs |
| Analysis receipts (`analysis.py`) | `evidence.scanned_at`, `last_attempt`, in-memory join | plan, wrap, cancel, refresh_receipts | three writers, done events between pool threads, two looks at the cancel flag | Analysis |
| Finding retirement (`db.py`) and file engines (`webshell.py`, `yarascan.py`, `file_scan_receipts.py`) | `seen_run`, `engine_done:*`, `file_completion`, receipts per file | scan (full, incremental, retry), complete, retire | what is current is a comparison of numbers written by different scans; files change while they are read | FileFindings, CurrentFindings |
| Skipped files (`scan_retries.py`) | `job_skips`, `file_scan_results`, `skip_reviews` | retry, execute, accept | a status derived from three tables; rules and files change between request and run | SkipReviews |
| Review (`app.py`, `artifacts.py`, `artifact_review.py`, `backups.py`) | triage of findings, content assessments, inheritance, collected indicators | triage, share, withdraw, rescan, progress | decisions travel by content and along the log index | Review |
| Indicators (`ioc/`, `app.py`) | objects, observations, links, support, assessments | collect, link, withdraw, assess, edit, delete | row ids are used again; PATCH checks and writes in two transactions | Iocs |
| Backups (`backups*.py`) | snapshots, generations, receipts | register, prepare, scan, compare | files change under the walk and between scan and answer | Backups |
| Log index (`engines/logindex.py`) | derived database, alert findings | register, build, publish, alerts | edits and cancellation during a build, fragments | LogIndex |
| Hunts (`patterns.py`, `hunt_batches.py`, `huntrules.py`) | pattern library, roster of a batch, tests | check, batch, apply, collect | a library and an index that change under a batch | Hunts |
| Other logs (`log_evidence.py`) | sources with two formats, `logevents.db`, selections, the receipt of a folder | configure, build, reconcile, accept, select | two databases with one commit each, a receipt derived from what the last reading stored | LogEvidence |
| Inventories and dumps (`cmsinventory.py`, `sqldump.py`, `ioc/software.py`) | items, accounts, corrections | inventory, read dumps, correct, flag | ids are used again, pages grow old, cancellation | Inventories |
| Case on disk (`workspace.py`) | folder, `case.json`, archives | create, save, export, close, import, delete | several steps of the file system, crash in between, decisions meanwhile | Workspace |
| Case profile (`casework/profile.py`) | `case.json`, its copy in the database, organizations | open, save, import | editors with old revisions, two files for one fact | Profiles |
| Schema (`db.py`) | `case.db` | connect, upgrade | statement-wise commits, several connections, locks, crash | Schema |
| Settings (`settings.py`, `ruleswitch.py`, `yarascan.py`, `enrich.py`) | `settings.json`, rule files | save, switch, look up | whole-file rewrites from several threads | Preferences |
| Country database (`integrations/geoip.py`) | the file, its download, the reader, a cache | download, look up | one temporary file for all requests | GeoIp |
| OpenCTI (`integrations/opencti`) | previews, receipts, `_ACTIVE`, mappings | preview, transfer, retry, work | push and save are separate; late, partial or no answers | Transfers |
| Start (`main.py`, `startup.py`, `runtime.py`) | environment, packages, interface, receipts, `run.lock` | start, update, prepare, swap | interruption between any two steps, two starts | Launcher |
| Chronology (`chain.py`, `first_sign.py`) | the chosen first sign | build a chronology, choose, report | read from three places one after the other, times that cannot be read | Chronology |
| Event hub (`events.py`) | subscriber queues | publish | bounded queues | - |

Request threads and pool threads share the registry (under `_lock`) and the case
databases (one SQLite transaction each).  Pool threads call the engines through
the wrapper of `AnalysisReceipts`; the engines write findings through `db.py`, and
what they derive (log index, events, generations of backups, inventories) is read
by requests that decide, hunt, compare and export.  The remaining parts are pure
functions over text or files, forms over one table, or the browser.  PROJECT.json
lists them with the reason they are left out, and the hazards of the code, each
with the properties that cover it.

## The modules

### Jobs, receipts and findings

**Jobs** models `jobs.py` and the handlers that use it.  `rows` is the column
`state` of the table of each case and survives a crash; `live`, `cancelled` and
`queue` are the registry, the cancel events and the executor's queue; `worker`
and `client` hold the program counter and the local variables of every pool and
request thread.  One action is one step between two points at which another
thread can be seen: `RecoverSnapshot` (registry read under `_lock`) and
`RecoverInterrupted` (the transaction) are two actions, as are `InsertRow`,
`Register` and `Enqueue` of `_submit`, and each of the tests and writes of `_run`.
`Busy` is the test of `case_operation`, `Drain...` are `_drain_jobs`, `DeleteCase`
and `Body` the way out of a case.  `submit_after_current` is modelled although no
handler uses it in this version.

**Analysis** extends Jobs with `_analyze` and `analysis.py`: `Tasks` is the plan
for the chosen evidence, `DependsOn` the done events an engine waits for,
`Required` the join of `AnalysisReceipts`.  `stage` says where a thread is inside
the wrapped engine, `outcome`/`finished` are the fields of AnalysisReceipts,
`attempt` and `scanned` what is stored with the evidence.  The steps of Jobs are
reused as conjuncts: `CancelEngine` is `BeginCancelled` with `on_cancel` and the
receipts refreshed in the same transaction.

**CurrentFindings** is the abstract promise of the file engines: for every file
a set of current findings; only a look at the very file (a retry) or a complete
traversal takes findings away; a file that could not be read keeps what it had, and
what a scan says of it without reading it is added; an unfinished scan only adds.

**FileFindings** is how the code does it: `base` is the committed database,
`work` the database as the open transaction sees it, `CoveredBy` and `Live` are
RETIRE_JOIN and LIVE_PREDICATE, `scan` the local variables of `scan()`.
`StoreSkipped` are the findings that webshell stores of a file it could not read (its
name, its place, its size, or what it had found before the file changed), beside the
protection of what the file had.  `KeepsPromise` is the refinement of CurrentFindings,
where `current` is `Live` of the committed database.

**JobsProofs**, **AnalysisProofs** and **FileFindingsProofs** hold the proofs about
them, and below so do **SkipReviewsProofs**, **ReviewProofs** and **TransfersProofs**.
**RecordsProofs** has the proofs about Workspace, Preferences, Profiles, Schema, Launcher
and Iocs, **EvidenceProofs** those about LogIndex, Hunts, Inventories, LogEvidence,
Backups and Chronology.

### Decisions, records of a case and of the workspace

**SkipReviews** derives the status of a skipped file as the code does (`Status`
from `retry` and `reviews`) and keeps beside it, as history, what happened last
(`last`).  `BeginRetry`, reading, and the end of a retry are separate actions, so
that rules, files and registrations change between request and run; `receipt`
is the copy of the warnings that `refresh_receipts` stores.

**Review** takes a triage request, a preparation and a scan of one file as one
transaction each.  An artifact has one row per finding; `inherit` is
what a file inherited through its content, `except` its exception from that.
`Share` and `ShareUnbound` are the shared decision with and without a
prepared content; decisions travel one step along `Requests`, the log index.

**Backups** keeps the walk of `build()` in `walk`: the paths it listed, those it has
hashed.  `World` is an edit of the disk, which may happen at every step.  `saw`
(history) is what was there during the whole walk of a generation, `examined`
what scanners looked at.  `OpenDiff`, `DiffHash` and `DiffLines` are the reads
of one line comparison.

**Chronology** has one action per read of `case_chain`: the case, the freshness of
the index, its identity, its requests, and the files with the identity once more.
`read` holds what was read; for a choice the write lock (`locked`) is taken first.
`Requested` computes the events of a file from the rows of the query in `chain_facts`,
whose minimum includes unreadable times.

**Iocs** hands out the row ids as SQLite does (the id of the last deleted row comes
again).  Each request of `ioc/api.py` is one transaction; `PATCH` is two actions
(`patch` is what it found out).  A link is shown as long as it is active and its
support is.

**Schema** has one action per commit of `connect` and `_upgrade`, for several
connections to one file.  Every correction the upgrades make is represented by one
row, so that "made twice" and "not made" can be told apart.  What an upgrade reads
before the first write of a transaction is an action of its own (`ReadSource`,
`ReadImports`), since nothing is locked until then: other connections may withdraw the
source or import the software in between.  `withdrawn` (history) says whether the last
withdrawal fell into such a gap.

**Workspace** has one action per step on the file system: snapshot, publication of
the zip, renaming and removal of the folder, unpacking, identity and metadata.
`op` is what the holder of the case lock is doing.  Deleting does not take the
lock, and `Decide` is a commit to the database: behind the fence of
`case_operation` for shared content, at any time otherwise.

**Profiles** is `create_case`, the profile requests and the organizations of
`pseudonyms.json`; **Preferences** the settings file, the YARA rule files and the
lookups that need a key.  In both a request is a few steps (`editing`, `request`), as
lock and file reads divide them.

**Launcher** models a start as `main.py` runs it, a coordinator and the child of an
update, with `version` for the sources and what is Nothing, a part or whole on disk.

**Transfers** has one action per call to the platform and per save of the receipt;
`there` and `works` are the platform, which imports late, partly or never.
`caller` is a transfer or retry request between its read and its write.  `Split` cuts
an export into batches; a job keeps the connection it was queued with in `worker`, and
`astray` (history) are the receipts that a job of another connection has worked on.
`Pick` is the beginning of `JobManager._run`: a job that was cancelled in the queue pauses
its receipt, and one whose start cannot be written is dropped ("unstarted") with its key
still in `_ACTIVE`.

### Evidence

**LogIndex**: a file has a form (a log, one that breaks off, no log, unreadable)
and a stamp; `builder` is what `build()` holds; `Declared` are the alerts of
committed lines.  **Hunts** extends it with the library of patterns, a check in
its three steps (match, verify, store), the batch with its roster and
the requests that apply a test.

**LogEvidence** has the two databases apart: the commit of the entries in
`logevents.db` (`indexed`), the commit in `case.db` (`src`, `findings`) and the switch of
what is served (`served`) are three actions, and cancelling, failing and dying fall
between them.  A source has the format it is configured with (`format`) and the one that
was stored with it when it was registered or read (`stored`, the column of
`log_sources`).  The first decides who reads it, the second is all that
`reconcile_receipts` sees (`Certifies`).  A build runs alone or as the last engine of an
analysis (`plan`), behind the rebuild of the access index, of which `http` holds what these
sources depend on: the files it was built over and how it came out.  No request clears the
receipt of the folder but a configuration; it is written when a build ends, and by
`AnalysisReceipts` as soon as the engines of an analysis are through (`AnalysisComplete`).

**Inventories** is the CMS inventory, one open transaction beside the analyst's
corrections, and the reading of dumps with their accounts and observations.

**GeoIp** distinguishes a name from the file it stands for: `Open` empties the
file that another request still has open under the same name.

### Running them

MCJobs, MCAnalysis, MCTransfers and MCChronology give values to constants
(MCJobs in two profiles: the requests that enter a case, and jobs that wait and are cancelled), and
**MCLiveness** puts the liveness of Jobs and of Analysis into one run.
**MCFileFindings**, **MCEvidence** and **MCRecords** bring several components
together.  The components of one such module share no state here, and a behaviour
follows one of them (`part`): TLC explores the sum of their state spaces in one
run, not the product.  Each component is extended, so that the run checks the very
formulas that the theorems state; one that is not followed stays as it starts (`StartOf`,
`AtRest`).  Only Hunts and LogIndex share state: Hunts extends LogIndex, and the part
"logs" is the index without a hunt.

Because the components of one run are extended together, names that several of them would
use bear the name of what they belong to (`deaths`, `cuts`, `restarts` are crashes of
Schema, Profiles and Preferences; `MaxCalls`, `MaxActs`, `MaxTurns` bound the requests of
LogEvidence, Backups and Inventories).

Some names are there for checks of the checks: an operator whose comment starts
with "Mutant" is the operator below it with a plausible mistake.  PROJECT.json
names for every property the mistake that breaks it.

## What is left out of the modelled parts

* What an engine computes.  A file is the set of rules that match it; an engine
  returns complete or partial results, or raises.
* Two database accesses of one thread with nothing visible in between are one
  step: the row read and the signals of `_drain_jobs`; the receipt and the state
  row of a job cancelled in the queue; the cancel flag and the return of an engine.
* Progress messages, `hub.publish`, statistics, re-use of the name of a
  deleted case.
* In Analysis there is one evidence row of each kind, the access logs are not
  empty when a log source is chosen, and a shutdown is the cancellation of each
  job.  In FileFindings a file that was removed and comes back is a new file,
  and every retry ends with its terminal row written.
* `archive?require_idle` is the refusal of a busy case before it is drained.
* Review: classifications, notes, the audit trail, and the diff of webroots.  A request is one transaction there; the code reads the
  previous decisions before its first write.
* Chronology: alerts, accounts and selected observations are further events of the
  kinds that are there; previews, pages, zones and clock offsets change what is shown
  of them, not which there are.
* Iocs: tags, verification of files, the text of edits, export formats.
* Hunts: the older request that hunts one pattern in the foreground of a job.
* LogEvidence: of the access index only whether it covers the files of now and how it and
  its rules came out of the last analysis; the rest is LogIndex.  One folder is
  registered, and sources are not added to it.
* Backups: recorded observations, comparison of whole snapshots, records of sites.
* Workspace: how a folder is named; deletion of a case that is being archived is
  covered by Jobs.
* Inventories: detection of versions, rules that are switched off, and whether a
  dump is a schema or an export.
* Event hub: a queue per subscriber that drops when it is full.  That the browser
  then reads again is not in the server.

## The runs

| Run | Instance | What it shows |
| --- | --- | --- |
| `jobs_safety` | 2 cases with one row each, 2 threads, 2 clients; either hunt, apply, list, archive, delete with one crash, or submit_after_current and cancel with one failing write and one crash | `CaseOperationIsExclusive`: no job of a case runs beside an operation that needs it idle. `WorkIsRegistered`: no job runs that `wait_for` cannot see. `ArchiveIsSettled`: no engine works on a case that has been packed. `InterruptsOnlyDeadJobs`: recovery never hits a job of this process. `TerminalIsFinal`: an ended row keeps its state |
| `jobs_delete` | 1 case, 2 clients | violates `DeleteIsQuiet` (below) |
| `analysis_safety` | combined logs: index_logs, sigma, log_events; cancellation, one failure, one crash | `ScannedMeansComplete`: evidence counts as scanned only by a run whose required engines all gave complete results. `CorrelatesSettledResults`: what correlates starts after all engines submitted before it have ended. `ReceiptsSettle`: no receipt stays at running. `WaitsAreAnswered`: what a thread waits for is at work in another thread |
| `pool_liveness` | two parts: 1 case, 3 rows, 2 threads, 1 client, one failing write, with submit_after_current, cancel and shutdown; the combined logs again, two rows, cancellation | `EveryJobLeaves`: no two threads wait on each other, and dependents of a cancelled or failed engine are released. `ShutdownEnds` |
| `analysis_failures` | one SQL dump, two runs | violates `FailuresNeverContribute` (below) |
| `file_findings` | three parts, 0.9 million states: 2 files, 1 rule, 3 scans (`ScanBounds`); skipped files, 2 with one scan and one retry; 1 with two of each | `KeepsPromise`, `ReceiptCovers`. `StatusFollowsHistory`: the status of a skip is what happened to it last. `ReadsWithinApproval`: a retry reads no more than was approved. `ReceiptsAgree`: the stored warnings are the unresolved skips |
| `case_evidence` | the parts below, 1.2 million states | see below |
| `case_records` | the parts below, 0.5 million states | see below |
| `transfers_retry` | one receipt, two batches, one caller | violates `CompletedIsNotResubmitted` (below) |
| `transfers_rebound` | one receipt, two batches, one change of the connection and back | violates `CompletionIsVerified` (below) |
| `chronology_undated` | 2 files, 1 client, 2 contents of the log | violates `UndatedIsUnrequested` (below) |
| `geoip_downloads` | two downloads, one lookup | violates `HalfAFileReplacesNothing` (below) |

Parts of `case_evidence`:

| Part | Instance | Properties |
| --- | --- | --- |
| logs | 2 files, 4 contents to change to, 1 edit, 2 builds, flood at 2 logins within 3 hours | `FreshMeansAll`: a trusted index holds every line of every registered log. `AlertsRestateIndex`: the alerts are those of its lines |
| hunts | 2 files, 1 build, 2 patterns of up to 2 versions, up to 2 tests, 1 application; tests and versions together at most 4, while one is applied 3 (`HuntBounds`) | `BatchTellsTheTruth`: a pattern counts as checked exactly when a test of its listed version on the batch's index is stored |
| inventories | 2 webroots, 2 extensions, 2 dumps, 4 jobs or requests | `DumpsAreReadOnce`: no account of a dump is left behind under an old id or taken twice |
| log evidence | 2 sources, each registered and configured as other or as access log; three of an edit, two requests and a stop (`LogBounds`) | `FreshTellsTheTruth`: what is shown as fresh is what the file holds. `NothingUnreadIsCertified`: no pass retires the old engine, and no receipt stands once the job is over, while a source that is stored as another log is unread |
| review | 2 files, 1 client, 2 contents, 1 edit, 2 scans, 2 requests | `InheritanceMatchesIndex`: nothing is inherited from old content. `NothingLeftMeansDecided`: progress tells the truth. `HandDecisionsStand`: what was decided by hand is not rewritten, except where the only row that carries it retires |
| backups | 2 roots, 2 contents, 2 snapshots, 1 edit, 2 jobs | `AbsenceIsHonest`: "not present" only of what was away. `CleanMeansExamined`: "no detections" only of what all scans saw |
| chronology | 1 file, 1 client, 2 contents of the log, 3 builds, 2 changes meanwhile | `SelectableIsSupported`: what may be chosen as first sign is confirmed, current evidence of an index that was there |

Parts of `case_records`:

| Part | Instance | Properties |
| --- | --- | --- |
| iocs | 5 values, 5 ids, 5 requests | `WithdrawnStaysOut`, `NothingOutlivesItsObject` |
| schema | 2 connections, 4 kinds of file, 1 crash, 1 long lock, 2 verdicts | `CurrentMeansCorrected`, `UpgradesKeepDecisions` |
| workspace | 2 cases, 2 folders, 3 operations, 1 crash | `DecisionsSurvive`: a fenced decision is in the case or in an archive. `CaseIdsAreKept` |
| launcher | 2 starts at a time, 3 in all, 1 edit, 1 kill | `ABuildSurvives`: a whole interface is always left |
| preferences | 2 requests at a time, 3 in all, 2 hosts, 1 crash | `SettingsAreKept`: no save puts back what another has changed |
| profiles | 2 cases, 2 editors, 3 requests, 1 crash | `EditorsKeepEachOther` |
| transfers | 3 objects in 2 batches, 2 destinations, 1 receipt, 2 changes, 1 retry | `CompleteIsVisible`, `BlockedOnlyByAJob`, `SendsAgainOnlyWhatFailed` |

*Bounds.*  Two cases are enough for ids that collide, two clients for a request
that overtakes another, two threads is the size of the pool in the code, three
rows for two waiting jobs and the one they wait for.  One failing write and one
crash reach every error branch; more of them only repeat it.  In FileFindings
three scans give a finding, a scan that does not see it, and a scan that finds
out.  There a file
changes when a scan is still to come to it, or is removed before one, and the last scan is
of all files or a retry (`ScanBounds`): an edit at another time is seen by the next scan
only, which is the same as an edit before that scan comes to the file.
FileFindingsProofs has no such bound.  In the other parts two
of a kind is what a confusion needs (two files with one content, two sources, two
connections, two dumps whose ids may be swapped), one edit is what makes a copy
stale, and the bound on operations is enough for a request, its undoing and a
repetition.  In the first profile of `jobs_safety` no write
fails; JobsProofs covers any number of failing writes and crashes in both.  Larger instances were checked once without a new outcome: Review
with three requests (640 thousand states), SkipReviews with two files and two retries
(320 thousand).  Every action
of every part was seen to be taken in its own instance.  Deadlock checking is off
where an instance stops when its bounded operations are used up (`file_findings`,
`case_*`, `chronology_undated`, `transfers_*`, `geoip_downloads`).  Symmetry is used in
runs without liveness properties; a file of SkipReviews is named after its
root, so that both are exchanged together.

*Fairness.*  `Jobs!Fairness` asks three things: a pool thread that can take a step
does (the operating system schedules threads, engines end), a request thread
that holds `_schedule_lock` goes on to release it, and a shutdown returns when
its condition holds (`notify_all` at the end of `_run`).  No request, cancellation,
crash or archive is ever forced.  A write of state "running" that fails
leaves the dependents of that engine waiting until they are cancelled, so in
`pool_liveness` no write fails in the part of Analysis; in that of Jobs one does.  The other
modules state no fairness and have safety properties only: what they wait for is
another process, the platform or the analyst, of whom the code may expect nothing.

## Disagreements with the text

* `server/app.py:379` says that archive and delete both refuse while an engine
  runs.  `archive` takes `case_operation` after draining and looks again;
  `delete_case` does not, and a job that is submitted after the drain runs on a
  case that is gone (`jobs_delete`).
* `server/analysis.py:193` says that a cancelled engine never contributes a
  success.  The wrapper reads the cancel flag at line 242 and marks the evidence;
  `jobs.py:311` reads it again for the state of the row.  A cancellation between
  the two marks the evidence as scanned by a job that ends "cancelled", and mode
  "new" does not select it again (`analysis_failures`).
* `docs/opencti.md:80` says that completed batches are not resubmitted during
  retry.  `retry` reads the receipt, rebuilds the preview and saves the copy it
  read; a job that completes a batch in between is overwritten, and the batch
  is sent again (`transfers_retry`).  `SendsAgainOnlyWhatFailed` holds for all
  receipts that were not overwritten like that (`stale`).
* `docs/opencti.md:74` says that the server binds a preview to its destination, and
  that completion requires visible objects.  `_queue_export` reads the connection
  when the job is queued (`service.py:314`) and `run` builds its client from it, but
  compares the settings of the moment it runs with the receipt (line 335).  A
  connection that is changed before and changed back after the receipt is queued
  sends the case to the other platform, and the receipt says complete for the one
  that was reviewed (`transfers_rebound`).  `CompleteIsVisible` holds for all
  receipts no such job has worked on (`astray`).
* `server/integrations/geoip.py:153` says "Check first, adopt second: half a file
  replacing a working one would be worse than none at all".  All downloads of a
  workspace write the same `.mmdb.part`: a second request empties what a first
  has probed and then moves over the working database (`geoip_downloads`).

* `chain_facts` (`engines/logindex.py:3384`) takes the minimum of the times of a
  client's requests for a file, where a time that could not be read is 0, and
  `case_chain` drops a group whose minimum is 0.  One such request hides all others
  of the group, and a confirmed file whose copy is gone is listed with the text of
  `server/i18n.py:43`, "the log proves no request for this file"
  (`chronology_undated`).

Noticed while modelling, each without a run of its own.  For the first three a property
names the exception; TLC finds the trace when it is left out (the second with three sources).

* `ioc/model.py:182` says that later upgrades preserve withdrawn observations.  The state of
  the source is read at line 175, before anything is locked, and written to the file that is
  registered for it at lines 190 and 191: a dismissal that commits in between is overwritten,
  and the file of a withdrawn source is active.  `UpgradesKeepDecisions` leaves out a
  withdrawal in exactly that gap (`AboutToRegister`).
* `log_evidence.py:511` says that a retry "cannot certify an unprocessed sibling".
  `reconcile_receipts` leaves out the sources that are stored as access, and `configure` does
  not change what is stored.  Three sources are registered, two of them as access logs, and
  one of these by mistake; the analyst sets its format, the analysis rebuilds the access index
  and is then stopped before that source, and a retry of another source leaves the folder
  complete, with a source nobody has read.  `NothingUnreadIsCertified` is what holds: the
  same for the sources that are stored as others.
* `service.py:318` refuses a retry with "This transfer already has a running job".  The key
  in `_ACTIVE` is released by the job or by its cancellation in the queue, and
  `JobManager._run` calls neither when it cannot write the state "running"
  (`jobs.py:309`): the receipt is refused until the process ends.  `BlockedOnlyByAJob`
  names this one exception.
* An engine whose row cannot be set to "running" (`jobs.py:309` raises) is never
  called, so its wrapper sets no done event, and engines of the run that depend on
  it wait inside a pool thread until they are cancelled (`app.py:1080`,
  `app.py:1160`, `app.py:1189`).  (For a transfer see above.)
  `WaitsAreAnswered` and the liveness of Analysis leave
  failing writes out; the other theorems about Analysis do not.
* `app.py:630` and `settings.py:43` say that reputation lookups are refused until
  their notice is accepted; `enrich.lookup` does not read `enrichment_ack`.
* A broken `settings.json` counts as empty, and the next save of one setting
  replaces all others; the list of YARA rules is read outside the lock, so a
  deleted file may be listed as switched off.
* A triage decision outside the fence that commits between the snapshot of an
  archive and the removal of the folder goes with the folder; a decision made
  while an import unpacks goes when the import fails; an import that is killed
  leaves a case in the list.  `DecisionsSurvive` leaves these three out.
* A file inherits a decision about content A in the row that sharing adds, the analyst
  then decides about the file itself, a scan adds a newer finding, and the content
  changes to B, about which there is a shared decision.  `restore_inheritance` retires
  the shared row even though the decision is independent (`backups.py:109`), so the
  file counts as open, and `inherit_all` (`backups.py:455`) marks every row with
  the decision about B.  `docs/website-backups.md:71` says "Independent earlier
  decisions are preserved, with conflicts reported", and further down that changed
  bytes need a new decision.  `HandDecisionsStand` leaves this step out
  (`LosesItsRow`); the proof of the property led to it.
* A triage request reads the previous and the inherited decision before its first write
  (`app.py:1985`), and a preparation identifies a file before it inherits for it
  (`backups.py:444`); Review takes each as one transaction, so what commits in between, or
  changes on the disk, is not covered.
* A push whose acknowledgement is lost is sent again when the transfer resumes
  (`service.py:364`), by design; `SendsAgainOnlyWhatFailed` leaves it out.
* Dismissing a finding after a rescan leaves the sources of its indicator active
  (`app.py:2079`); `set_item_version` and `flag_account` name rows by ids
  that a scan may have handed out again (`app.py:5127`, `app.py:5638`);
  `patch_ioc` checks outside the transaction that writes.
* A cancelled CMS inventory commits what it has found so far over the old one
  (`cmsinventory.py:304`); accounts of a dump that was removed stay.
* Removing a source of other logs while a build runs is undone by the build;
  registering its folder again shows the source as ready although its findings
  stay retired.
* A country lookup between clearing the cache and moving the new file reopens the
  old one and keeps it, although its docstring says the file is opened anew when
  it changed.
* Saving a case after importing an organization of the same name but another id
  changes the id of the case's organization (`profile.py:168`); notes are not
  part of the revision an editor sends.
* An index that is missing has an empty identity (`logindex.py:2475`): a chronology
  that finds it missing at both looks takes it for unchanged, so requests of a build
  that was published and removed in between may be chosen in a report.
  `SelectableIsSupported` leaves this out (`read.gen`).
* A pattern with mode "all" intersects lists of clients that are capped
  (`logindex.py`, `match_patterns`).
* A child that prepares after its coordinator was killed holds no lock
  (`startup.py:445`): `ABuildSurvives` leaves that case out (`orphaned`).

## What is proved

### Jobs

`JobsProofs` proves for any number of cases, rows, threads and clients, through
failing writes, crashes and shutdowns:

* `TypeCorrect`: `Spec => []TypeOK`
* `AllWorkRegistered`: `Spec => []WorkIsRegistered`
* `ExclusiveCase`: `Spec => []CaseOperationIsExclusive`
* `ArchiveSettled`: `Spec => []ArchiveIsSettled`
* `RecoveryIsSafe`: `Spec => InterruptsOnlyDeadJobs`
* `EndedStaysEnded`: `Spec => TerminalIsFinal`

Assumed is only what the module assumes of its constants: `None` is neither a
job nor a client, `Ops` are requests there are, the bounds are natural numbers.
None of the six is inductive.  The invariant `Inv` that carries them says

* `Locking`: exactly the holder of `_schedule_lock` is between entering and
  leaving it.
* `Requests`: a request thread is at a step its request leads to.
* `Placed`: a job waits in the queue once, or one thread has it, or one request
  is about to submit it.  Without it a second thread could write an ended row.
* `RowsFollow`: the row agrees with that place ("queued" in the queue, "running"
  in the engine, pending in the except branch).  `EndedStaysEnded` is its
  consequence.
* `InRegistry`: queue and threads hold registered jobs only; a request registers
  before it enqueues.
* `Known`: between the look at the registry and the transaction of
  `recover_interrupted` every job at work stays in the snapshot, since a new one
  needs the lock.
* `Exclusive`: every live job of the case is tolerated by the operation.
* `Archived`: the case an archive packs, and every archived case, has no live job
  and no pending row.  It needs `Known` with an empty snapshot: recovery has then
  marked all that is left of earlier processes.

There is one lemma per step or group of steps that touch the same state
(`ThreadGoesOn` for the nine steps of `_run` between taking and giving up a job,
`OutsideTheLock` for requests that do not hold it, `LeaveInv` for those that let
go of it), and `QueuePut` and `QueueTake` for the queue.

### FileFindings

`FileFindingsProofs` proves for every set of files and rules, every number of
scans and every behaviour:

* `TypeCorrect`: `Spec => []TypeOK`
* `ReceiptsHold`: `Spec => []ReceiptCovers`
* `Refinement`: `Spec => KeepsPromise`, FileFindings implements CurrentFindings.

Assumptions are only those of the module: the value for "no file" is not a set of
rules, the bound on run numbers is a natural number.  The inductive invariant
`Inv` strengthens `TypeOK` by four facts: `RunsOrdered` (no stamp, override or
completion mark is newer than the last run number, which is that of the scan in
progress; without a scan nothing is open), `ScanConsistent` (a file is on the
list, read, or skipped; only a complete full scan reaches the retirement, and
then it has met every file that is there), `Reported` (in the open transaction
the stamps of the scan's number are exactly its reports, the overrides of that
number exactly its skips, and it differs from the committed database by the
reports, those of skipped files included, and nothing else) and `ReceiptsOrdered` (the
receipts of the open transaction too list current findings only).  Without the first, a stamp could not be told from
that of an earlier scan; without the second and third, `Save` and `Retire` could
take away findings of a file nobody looked at.  Each
action has its lemma (`StartInv`, `LookInv`, ...), which rest on lemmas about the
helpers of `db.py`: `ProtectKeeps` (a protected file keeps exactly its current
findings), `UpsertAdds`, `StoreSkippedAdds` (a skipped file has what it had and what is
reported of it, and no receipt), `CompleteFileCovers`, `CompleteScanRetires`.

### Analysis

`AnalysisProofs` proves for any registered evidence, any number of runs, rows,
threads and clients, and through cancellation, failing receipts and writes, crashes:

* `Scanned`: `ASpec => []ScannedMeansComplete`
* `Correlation`: `ASpec => []CorrelatesSettledResults`
* `Waits`: `ASpec => []WaitsAreAnswered`
* `Settling`: `ASpec => []ReceiptsSettle`
* `AnalysisInvariance`: `ASpec => []AInv`

Assumed, beside the assumptions of Jobs, is what Analysis assumes of its constants:
registered evidence is of the kinds there are, `MaxRuns` is a natural number, and
there is one case (`CaseAssumption`): receipts, plan and run number are those of
the case that is analyzed, other cases meet it only in the pool and at the lock,
which is what JobsProofs covers for many.

A step of Analysis is a step of Jobs, leaves the variables of Jobs alone, or ends a
request or an engine as Jobs does.  So `AInv` begins with the invariant `Inv` of
JobsProofs, whose lemmas are cited again, and adds

* `Plan`: a run starts only when no job of the case is left (`Current`); rows are
  numbered without gaps (`Rowed`); queue, threads and the submitting request hold
  them in that order (`Ordered`); a run has one job per engine, what an engine
  depends on has a smaller number, and what correlates depends on every engine with
  a smaller number (`Planned`).
* `Pool`: for each step of a thread, whether its done event is set and its result is
  there (`Threads`, `Over`), that an engine at work has waited (`Waited`), and that
  every job of a current run is still to be taken, at work, or done (`Whereabouts`).
  `Waits` follows from it: what a thread waits for has a smaller number, so the
  pool took it earlier.
* `Receipts`: what the join has seen complete did complete (`Outcomes`), and a receipt
  says "running" only of engines without a job or behind a pending one (`Attempted`).

That the plans of `_analyze` are ordered like that for every choice of evidence is a
lemma of its own (`PlanFacts`), by giving each engine a place.

### Skipped files

`SkipReviewsProofs` proves, for any roots, files, numbers of scans, retries and rule
versions:

* `SkipStatus`: `SkSpec => []StatusFollowsHistory`
* `ApprovedReads`: `SkSpec => []ReadsWithinApproval`
* `AgreeingReceipts`: `SkSpec => []ReceiptsAgree`

assuming `SkipConstants` (bounds are natural numbers, every file has a root, sizes
are sizes).  `SInv` adds that scans and retries are numbered without a gap
(`Numbered`), so that the retry that runs has the greatest number and what it leaves
is the latest outcome (`Running`); that a review names an outcome that is there
(`Bound`), so that none is waiting for a retry still to come; and that rows not used
yet say nothing (`Fresh`, `Owned`).

### Records

`RecordsProofs` has a part for each of six components, for any number of cases, requests,
editors, connections, starts, indicators and crashes.

*Workspace*, assuming `NamesAreNames` (the values for "no case", "no folder" and "no Case
ID" are none of them):

* `CaseIdsKept`: `WSpec => []CaseIdsAreKept`
* `DecisionsKept`: `WSpec => []DecisionsSurvive`
* `WTyping`: `WSpec => []WTypeOK`

`WInv` adds that a Case ID still is what was checked when it is written (`Naming`), what
an import has unpacked so far (`Unpacking`), that an archive has the Case ID its export
has bound (`Packed`), and that from its snapshot on the folder of an archive holds no
fenced decision the archive does not hold (`Retiring`).

*Preferences*, assuming `PreferenceConstants` (nobody is not a request, and the host of a
broken file is not one of the hosts):

* `SettingsStand`: `PSpec => []SettingsAreKept`

The file is what the answered saves left (`StoredAsAnswered`).  That is inductive only
with `HoldsWhatItLoaded`: whoever is between loading and saving holds the lock, and
what it has in hand is what is stored.

*Profiles*, assuming `ProfileConstants` (nobody is not an editor, the bound on identifiers
is a number):

* `EditorsStand`: `PrSpec => []EditorsKeepEachOther`

Who is past the check of a request holds the case lock (`OneAtWork`), so what was loaded
is still there when it is replaced (`LoadedIsThere`).  For the organizations, what is about
to be written names one that is registered (`FormsAreRegistered`), so every case does
(`CasesAreRegistered`), but for an import that a crash cut off.

*Schema*, without assumptions:

* `CurrentIsCorrected`: `SSpec => []CurrentMeansCorrected`
* `DecisionsSurviveUpgrades`: `SSpec => []UpgradesKeepDecisions`
* `SchemaInvariant`: `SSpec => []SchemaInv`

`SchemaInv` says for every version what the file then has (`VersionHas`), what the stamp
means (`Stamped`), and what each connection has behind it at its step (`Reached`).  With
several connections the last is the difficult part: it must not be undone by
the others.  `Grows` is the lemma: no step of an upgrade, verdict, engine or crash takes
away what another connection relies on.  For the decisions it adds that after a withdrawal
outside the gap nobody is about to register the file as active (`NobodyRegisters`): whoever
looks at the source later finds it withdrawn.

*Launcher*, assuming `LauncherConstants` (nobody is not a start):

* `BuildsSurvive`: `LSpec => []ABuildSurvives`

As long as no coordinator was killed alone, whoever works holds `run.lock` (`WorkersHold`),
and each step has what the steps before it have made (`Made`).  `Interfaces` says of the
three folders which may be missing or in part: the old interface is put aside only when
the next one is whole.

*Iocs*, without assumptions:

* `WithdrawnStays`: `ISpec => []WithdrawnStaysOut`
* `NothingOutlives`: `ISpec => []NothingOutlivesItsObject`
* `IocsInvariant`: `ISpec => []IocsInv`

Both properties hold by what every request does to five tables at once (`Owned`, `Out`), and
collecting runs through them repeatedly (`Follows` is kept by each of its steps).  That
row ids are given out again makes it depend on numbers: the ids are numbers below a bound,
so the next is free (`NextIdNumbers`), although it may have been used.

### Evidence

`EvidenceProofs` has a part for each component that derives evidence, for any number of
logs, lines, patterns, dumps, sources, backups, edits, builds and crashes.

*LogIndex*, assuming `LogIndexConstants` (a file is a log, one that breaks off, no log or
unreadable):

* `FreshIsAll`: `IxSpec => []FreshMeansAll`
* `AlertsFollowIndex`: `IxSpec => []AlertsSettled`
* `IndexInvariant`: `IxSpec => []IndexInv`

`FreshMeansAll` speaks of the files as they are now, `build()` has read them then.
`IndexInv` bridges the two by the times recorded with each file: unless the index is partial,
if no recorded time has changed (`Lasting`) it holds exactly the lines of these files
(`WholeOf`), and the same holds of what a build has read so far (`ReadingInv`).
`AlertsFollowIndex` is the part of `AlertsRestateIndex` that can be proved: the findings of
a settled index are those `build()` computes from its rows, whatever fell between its
steps.

*Hunts*, assuming `HuntConstants` (the bound on patterns is a number):

* `BatchTells`: `HSpec => []BatchTellsTheTruth`
* `HuntsImplementIndex`: `HSpec => IxSpec`, Hunts implements LogIndex
* `HuntsInvariant`: `HSpec => []HuntsInv`

The entries of a roster stand for different patterns and never change what they stand for
(`RosterTyped`), the check in hand is of the entry the loop is at (`CheckInHand`), so the test
it stores is of an entry of the roster (`TestsRecorded`), and an entry is marked as done
only when its test is stored (`DoneIsStored`).  By the refinement the theorems
about the index hold while it is hunted in.

*Inventories*, without assumptions:

* `DumpsReadOnce`: `InSpec => []DumpsAreReadOnce`

What is needed beside the property is that a dump has one row and an id is of one dump
(`DumpIds`); the id of a new row is greater than those that are there.

*LogEvidence*, assuming `LogEvidenceConstants` (a text is made of lines there are, "unset"
is not a format):

* `FreshIsTrue`: `ESpec => []FreshTellsTheTruth`
* `NothingUnreadCertified`: `ESpec => []NothingUnreadIsCertified`

What a build has in hand is of the file as it was at the first look, unless the file has
changed since (`InHand`); the entries of a fingerprint are the lines of its text
(`EntriesAreRead`); so a source that is ready was read under its format and its findings
are those of what was read (`ReadyIsRead`), which neither of the two commits alone would
give.  A pass over all sources that met no failure leaves each of them ready that is not
still to do or in hand (`FullPass`).  While a build is at work its job is shown as running
(`WorkIsShown`), so an old receipt that still stands then vouches for nothing new, and
`reconcile_receipts`, in the commit that ends the job, looks at every source that is stored
as another log.

*Backups*, without assumptions:

* `AbsenceHonest`: `BSpec => []AbsenceIsHonest`
* `CleanExamined`: `BSpec => []CleanMeansExamined`
* `BackupsInvariant`: `BSpec => []BackupsInv`

A path that was there all through a walk is still to be taken or has a row, until
discovery fails (`NothingSkipped`), and only a walk without failures is published, so a
published generation lists every such path (`PublishedIsComplete`).  A receipt without a hit
stands for a scan that reported nothing of that content (`ReceiptsAreTrue`), also when
the webroot was registered again and run numbers were compared with those of another
registration.

*Chronology*, assuming `ChronologyConstants` (a log is a finite set of requests for the
files and by the clients there are):

* `SelectableSupported`: `ChSpec => []SelectableIsSupported`

The index between its removal and the next build is the last that was built
(`IndexIsLast`), so what was read under one number is what the index of that number holds
(`ReadsOneIndex`), and a match that was applied to it is a request in it
(`MatchesAreRequests`).  While the analyst chooses, the write lock keeps decisions as they
were read (`ChoiceHolds`).

### Transfers

`TransfersProofs` proves, for any export, batch size, connections, callers, receipts,
changes, retries and crashes:

* `BlockedReceipts`: `Spec => []BlockedOnlyByAJob` (a job whose start could not be written
  is the exception the property names)
* `Completion`: `Spec => []CompleteIsVisible`
* `Resubmission`: `Spec => SendsAgainOnlyWhatFailed`
* `TInvariant`: `Spec => []TInv`

assuming `TransferConstants` (the export has an order, batches have a size).  A receipt
exists three times: as it is saved, as its job holds it, and as a request has read
it (`Saved`, `Working`, `Asking`).  `TInv` says of each copy that it is well formed
(batches share no object, and with what was looked up they cover the export) and that
what it calls found or verified is at its collection and recorded; of the job,
what it has done at each of its steps (`AtStep`); and of a receipt that was not
overwritten, that only what may be sent again counts as sendable (`Unsent`).  That
`Split` cuts an export without loss and into disjoint batches is proved by counting:
an object is in the batch that its rank in the export gives it (`SplitBatches`).

### Review

`ReviewProofs` proves, for any files, clients, rules, contents and log, and any number
of edits, scans and requests:

* `InheritanceIsOfIndexedContent`: `Spec => []InheritanceMatchesIndex`
* `DecisionsByHandStand`: `Spec => HandDecisionsStand`
* `ProgressIsHonest`: `Spec => []NothingLeftMeansDecided`
* `ReviewInvariant`: `Spec => []RInv`

assuming `ReviewConstants` (files are not clients, every file has a content).  Neither
of the first two is inductive: `RInv` adds that a decision by hand is the decision of
its artifact and that its file is an exception of whatever content it has inherited
from (`Independent`).  From that, withdrawing an inheritance leaves the rows as
they are marked (`RestoreFacts`), inheriting again does nothing (`InheritStands`), and
a decision travelling along the log finds the artifact closed (`HandIsClosed`).  The
third theorem needs no invariant, only what folding and grouping do.

The proof is where `HandDecisionsStand` turned out too strong as it had been stated
and checked: with five requests TLC finds the step that breaks it (it is described
with the disagreements above).  The property now names that step (`LosesItsRow`) and
holds of every other.

### Not proved

Every safety property of a passing run but one is a theorem.  What stays with TLC:

* `AlertsRestateIndex` as a whole.  `build()` finds the busiest window of logins by a walk
  over sorted hours, the property says the same without it; that the walk finds
  the window for every set of lines needs induction over data, for which the library's
  theorems take an operator the provers cannot instantiate.  Its other half is
  `AlertsFollowIndex`.
* The liveness properties `EveryJobLeaves` and `ShutdownEnds`: the prover has no rule for
  fairness and ENABLED.
* The properties of the runs that expect a violation; they do not hold.

No module declares a RECURSIVE operator, so all are open to proofs.

## Not modelled

What engines and parsers compute from text (rules, detections, versions, STIX
contents), reports and catalogues, the views that only read, the event hub, the
generator of test cases, the browser and the packaging scripts: pure functions,
layout and I/O, in which no order of steps is at stake.

## Plan

The plan was followed in this order, and each step kept the earlier ones checked:

1. Jobs with its proofs, Analysis, FileFindings with its abstract promise and its proofs.
2. Skip reviews, transfers, review, log index and hunts, log evidence, backups,
   indicators, schema, workspace, profiles, preferences, launcher, inventories and the
   country database.
3. Proofs of Analysis on top of those of Jobs, of SkipReviews, Transfers, Review and
   Workspace.
4. Proofs of the records (RecordsProofs) and of derived evidence (EvidenceProofs).

What could follow: one module for Workspace and Jobs together (an archive while jobs
leave), one for LogIndex and LogEvidence over one registration of evidence, and one for
LogIndex and Chronology, which has an index of its own with the steps of publication
only.
