------------------------------ MODULE LogEvidence ------------------------------
(* The sources of other logs of a case (log_evidence.py): their settings and     *)
(* states in case.db, the rebuildable index of their events in logevents.db, the *)
(* build that reads one source after another and publishes it over two           *)
(* databases, and what the analyst then accepts and selects.                     *)
(*                                                                               *)
(* One folder is registered and holds every source.  A text is a set of lines:   *)
(* "hit" is a detection of a scanner, "odd" a line that no adapter understands.  *)
(* A marker (size and times) is the number of changes a file has seen.           *)
(*                                                                               *)
(* A source has two formats.  The one it is configured with (or that is          *)
(* detected) decides who reads it; the one stored with it, which is written when *)
(* it is registered and when it was read, decides what the receipt of the folder *)
(* asks of it (reconcile_receipts).  Between the two lies the index of access    *)
(* logs, here as it looks from these sources: the files it was built over, and   *)
(* how it and its rules came out of the last analysis (LogIndex has the rest).   *)
EXTENDS Naturals, FiniteSets

CONSTANTS Sources, Texts, Formats, MaxLogEdits, MaxCalls, MaxStops

Unset == "none"
Lines == {"hit", "odd"}
ASSUME LogEvidenceConstants == Texts \subseteq SUBSET Lines /\ Unset \notin Formats

VARIABLES
    logs,                   \* the files: text and marker
    folderHeld,             \* the folder is evidence of the case
    scanned,                \* its receipt certifies a complete analysis (evidence.scanned_at)
    http,                   \* the access index, and its part in the last analysis
    src,                    \* table log_sources
    seq, done,              \* the last run number, and engine_done of each source
    findings,               \* the run that last reproduced a finding, by source and line
    manual,                 \* what the analyst selected
    indexed,                \* logevents.db: the committed events, a set of lines per fingerprint
    served,                 \* logevents.db: the generation served
    legacy,                 \* the old case-wide error engine still stands for its findings
    build, jobRow,          \* the build, and the state of the last log_events job
    retiredOver,            \* sources that were not ready when the old engine was retired (history)
    removed,                \* sources removed since they were published (history)
    logEdits, calls, stops  \* counters of the bounds; cancelling and dying are stops

fileVars == <<logs, logEdits>>
case == <<folderHeld, scanned, http, src, manual, legacy>>
runVars == <<seq, done, findings>>
indexVars == <<indexed, served>>
work == <<build, jobRow>>
past == <<retiredOver, removed>>
evars == <<fileVars, case, runVars, indexVars, work, past, calls, stops>>

NoFp == [text |-> {}, format |-> Unset]
NoJob == [pc |-> "idle", scoped |-> FALSE, plan |-> FALSE, todo |-> {}, s |-> Unset, before |-> 0,
          fp |-> NoFp, lines |-> {}, run |-> 0, cancel |-> FALSE, failed |-> FALSE]
New(format, stored) ==
    [state |-> "new", format |-> format, stored |-> stored, marker |-> 0, fp |-> NoFp,
     warning |-> Unset, accepted |-> <<>>]

EInit ==
    /\ \E t \in Texts : logs = [s \in Sources |-> [text |-> t, mark |-> 0]]
    /\ \E configured, detected \in [Sources -> Formats] :
          src = [s \in Sources |-> New(configured[s], detected[s])]
    /\ folderHeld = TRUE /\ scanned = FALSE /\ http = [over |-> {}, ran |-> "none"]
    /\ seq = 0 /\ done = [s \in Sources |-> 0]
    /\ findings = [s \in Sources |-> [l \in Lines |-> 0]]
    /\ manual = [s \in Sources |-> {}]
    /\ indexed = [s \in Sources |-> {}] /\ served = [s \in Sources |-> NoFp]
    /\ legacy = TRUE /\ build = NoJob /\ jobRow = Unset
    /\ retiredOver = {} /\ removed = {}
    /\ logEdits = 0 /\ calls = 0 /\ stops = 0

----------------------------------------------------------------------------
(* What is read and what it says                                           *)

Fingerprint(s) == [text |-> logs[s].text, format |-> src[s].format]
Detected(lines, format) == IF format = "clamav" THEN lines \cap {"hit"} ELSE {}
WarningOf(lines, format) ==
    IF format = "text" THEN "not analyzed" ELSE IF "odd" \in lines THEN "unparsed" ELSE Unset

OtherSources == {s \in Sources : src[s].format # "access"}
StoredAsOther == {s \in Sources : src[s].stored # "access"}
AccessTargets == {<<s, logs[s].mark>> : s \in Sources \ OtherSources}
Unchanged(s) == src[s].marker = logs[s].mark
Served(s) == UNION {e.lines : e \in {x \in indexed[s] : x.fp = served[s]}}
FreshSource(s) ==
    /\ folderHeld /\ s \in OtherSources
    /\ src[s].state = "ready" /\ Unchanged(s) /\ served[s] = src[s].fp
Live(s) == {l \in Lines : findings[s][l] > 0 /\ findings[s][l] >= done[s]}

\* source_status: a source that no job works on was interrupted.
Warning(s) ==
    IF src[s].state = "indexing" /\ build.pc = "idle" THEN "interrupted" ELSE src[s].warning
WarningKey(s) == <<logs[s].mark, Fingerprint(s), Warning(s)>>
Accepted(s) == Warning(s) # Unset /\ src[s].accepted = WarningKey(s)

\* reconcile_receipts, in the commit that ends a job: the last job of these sources,
\* the sources stored as others, and the access index where one is stored as access.
Processed(s) == src[s].state = "failed" \/ (src[s].state = "ready" /\ Unchanged(s))
HttpFresh == http.over # {} /\ http.over = AccessTargets
Certifies(state) ==
    /\ folderHeld /\ state = "done"
    /\ \A s \in StoredAsOther : Processed(s)
    /\ IF StoredAsOther = Sources THEN http.ran \in {"none", "complete"}
                                  ELSE http.ran = "complete" /\ HttpFresh
Reconcile(state) == scanned' = Certifies(state)

----------------------------------------------------------------------------
(* Requests: each holds the case, save the removal of evidence             *)

EditLog(s, t) ==
    /\ logEdits < MaxLogEdits /\ logEdits' = logEdits + 1
    /\ logs' = [logs EXCEPT ![s] = [text |-> t, mark |-> @.mark + 1]]
    /\ UNCHANGED <<case, runVars, indexVars, work, past, calls, stops>>

Asked == calls < MaxCalls /\ calls' = calls + 1
NoLogJob == build.pc = "idle" /\ jobRow # "running" /\ http.ran # "running"
HoldsCase == Asked /\ NoLogJob /\ folderHeld /\ UNCHANGED <<fileVars, runVars, indexVars, stops>>

RegisterFolder ==
    /\ Asked /\ NoLogJob /\ ~folderHeld
    /\ folderHeld' = TRUE /\ scanned' = FALSE /\ http' = [http EXCEPT !.ran = "none"]
    /\ UNCHANGED <<fileVars, src, manual, legacy, runVars, indexVars, work, past, stops>>

\* remove_evidence and retire_removed, also while a build is running.
RemoveFolder ==
    /\ Asked /\ folderHeld
    /\ folderHeld' = FALSE /\ scanned' = FALSE
    /\ seq' = seq + 1 /\ done' = [s \in Sources |-> seq']
    /\ removed' = Sources
    /\ UNCHANGED <<fileVars, http, src, manual, legacy, findings, indexVars, work, retiredOver,
                   stops>>

\* The format stored with the source stays until the source is read.
Configure(s, format) ==
    /\ HoldsCase /\ format # src[s].format
    /\ src' = [src EXCEPT ![s].format = format, ![s].state = "new", ![s].accepted = <<>>]
    /\ scanned' = FALSE
    /\ UNCHANGED <<folderHeld, http, manual, legacy, work, past>>

AcceptWarning(s) ==
    /\ HoldsCase /\ s \in OtherSources /\ Warning(s) # Unset /\ ~Accepted(s)
    /\ src' = [src EXCEPT ![s].accepted = WarningKey(s)]
    /\ UNCHANGED <<folderHeld, scanned, http, manual, legacy, work, past>>

\* The entry shown, its generation and the file must still agree.
SelectEntry(s, line) ==
    /\ HoldsCase /\ FreshSource(s) /\ line \in Served(s) /\ served[s] = Fingerprint(s)
    /\ manual' = [manual EXCEPT ![s] = @ \cup {line}]
    /\ UNCHANGED <<folderHeld, scanned, http, src, legacy, work, past>>

\* All sources, in an analysis of the case (plan) or alone, or selected ones; an
\* analysis rebuilds the access index too.  The receipt stays as it is.
Analyze(chosen) ==
    /\ HoldsCase /\ chosen \in (SUBSET OtherSources \ {{}}) \cup {Sources}
    /\ \E scoped, plan \in BOOLEAN :
          /\ scoped => chosen \subseteq OtherSources /\ ~plan
          /\ ~scoped => chosen = Sources
          /\ build' = [NoJob EXCEPT !.pc = "inventory", !.scoped = scoped, !.plan = plan,
                                   !.todo = chosen]
          /\ http' = IF ~plan THEN http
                     ELSE [http EXCEPT !.ran = IF AccessTargets = {} THEN "none" ELSE "running"]
    /\ jobRow' = "running"
    /\ UNCHANGED <<folderHeld, scanned, src, manual, legacy, past>>

\* The job of the access index ends, over the files as they are, or without success.
IndexAccess ==
    /\ http.ran = "running"
    /\ http' \in {[over |-> AccessTargets, ran |-> "complete"], [over |-> {}, ran |-> "partial"],
                  [http EXCEPT !.ran = "partial"]}
    /\ scanned' = FALSE
    /\ UNCHANGED <<fileVars, folderHeld, src, manual, legacy, runVars, indexVars, work, past, calls,
                   stops>>

Cancel ==
    /\ build.pc # "idle" /\ ~build.cancel /\ stops < MaxStops /\ stops' = stops + 1
    /\ build' = [build EXCEPT !.cancel = TRUE]
    /\ UNCHANGED <<fileVars, case, runVars, indexVars, jobRow, past, calls>>

----------------------------------------------------------------------------
(* build                                                                   *)

At(pc) == build.pc = pc /\ UNCHANGED <<fileVars, folderHeld, http, manual, calls, stops>>
Goto(pc) == build' = [build EXCEPT !.pc = pc]

\* An analysis reads these sources when the access index is built, unless it is cancelled.
StopWaiting ==
    /\ At("inventory") /\ build.cancel
    /\ Goto("end")
    /\ UNCHANGED <<scanned, src, legacy, runVars, indexVars, jobRow, past>>

\* Evidence removed in the meantime: a full pass finds nothing, a scoped one fails.
ListSources ==
    /\ At("inventory") /\ http.ran # "running"
    /\ IF folderHeld \/ ~build.scoped
       THEN /\ build' = [build EXCEPT !.pc = "next", !.todo = IF folderHeld THEN @ ELSE {}]
            /\ UNCHANGED <<jobRow, scanned>>
       ELSE build' = NoJob /\ jobRow' = "failed" /\ Reconcile("failed")
    /\ UNCHANGED <<src, legacy, runVars, indexVars, past>>

\* Requests of access logs belong to the other index.
PassAccess(s) ==
    /\ At("next") /\ ~build.cancel /\ s \in build.todo \ OtherSources
    /\ src' = [src EXCEPT ![s].state = "ready", ![s].stored = "access",
                          ![s].marker = logs[s].mark, ![s].warning = Unset]
    /\ build' = [build EXCEPT !.todo = @ \ {s}]
    /\ UNCHANGED <<scanned, legacy, runVars, indexVars, jobRow, past>>

BeginSource(s) ==
    /\ At("next") /\ ~build.cancel /\ s \in build.todo \cap OtherSources
    /\ seq' = seq + 1
    /\ src' = [src EXCEPT ![s].state = "indexing"]
    /\ build' = [build EXCEPT !.pc = "hash", !.s = s, !.todo = @ \ {s}, !.run = seq',
                              !.before = logs[s].mark]
    /\ UNCHANGED <<scanned, legacy, done, findings, indexVars, jobRow, past>>

Hash ==
    /\ At("hash")
    /\ build' = [build EXCEPT !.pc = "read", !.fp = Fingerprint(build.s)]
    /\ UNCHANGED <<scanned, src, legacy, runVars, indexVars, jobRow, past>>

Read ==
    /\ At("read")
    /\ build' = [build EXCEPT !.pc = "recheck", !.lines = logs[build.s].text]
    /\ UNCHANGED <<scanned, src, legacy, runVars, indexVars, jobRow, past>>

Recheck ==
    /\ At("recheck") /\ logs[build.s].mark = build.before /\ Fingerprint(build.s) = build.fp
    /\ indexed' = [indexed EXCEPT ![build.s] = {e \in @ : e.fp # build.fp}
                                           \cup {[fp |-> build.fp, lines |-> build.lines]}]
    /\ Goto("publish")
    /\ UNCHANGED <<scanned, src, legacy, runVars, served, jobRow, past>>

\* Mutant: the marker is taken when the source is published.
MarkerNow == logs[build.s].mark
MarkerRead == build.before

Saved(found, lines) == [l \in DOMAIN found |-> IF l \in lines THEN build.run ELSE found[l]]

\* The findings, the completion of the run and the state of the source in one commit.
PublishSource ==
    /\ At("publish")
    /\ findings' = [findings EXCEPT
                       ![build.s] = Saved(@, Detected(build.lines, src[build.s].format))]
    /\ done' = [done EXCEPT ![build.s] = build.run]
    /\ src' = [src EXCEPT ![build.s] = [@ EXCEPT !.state = "ready", !.stored = src[build.s].format,
                                               !.fp = build.fp, !.marker = MarkerRead,
                                               !.warning = WarningOf(build.lines, src[build.s].format)]]
    /\ removed' = removed \ {build.s}
    /\ Goto("switch")
    /\ UNCHANGED <<scanned, legacy, seq, indexVars, jobRow, retiredOver>>

Switch ==
    /\ At("switch")
    /\ served' = [served EXCEPT ![build.s] = build.fp]
    /\ indexed' = [indexed EXCEPT ![build.s] = {e \in @ : e.fp = build.fp}]
    /\ Goto("next")
    /\ UNCHANGED <<scanned, src, legacy, runVars, jobRow, past>>

\* A source that changed, could not be read or written, or was cancelled.
Fail ==
    /\ At(build.pc) /\ build.pc \in {"hash", "read", "recheck", "publish", "switch"}
    /\ src' = [src EXCEPT ![build.s].state = IF build.cancel THEN "cancelled" ELSE "failed",
                          ![build.s].warning = "failure", ![build.s].accepted = <<>>]
    /\ build' = [build EXCEPT !.pc = "next", !.failed = TRUE]
    /\ UNCHANGED <<scanned, legacy, runVars, indexVars, jobRow, past>>

\* Mutant: a pass over selected sources counts like one over all of them.
ReplacesAnyPass == ~build.failed /\ ~build.cancel /\ folderHeld
ReplacesLegacy == ~build.scoped /\ ~build.failed /\ ~build.cancel /\ folderHeld

\* Of an analysis the receipt is written as soon as all its engines are through.
AnalysisComplete == build.plan /\ ~build.cancel /\ folderHeld /\ http.ran # "partial"

FinishBuild ==
    /\ At("next") /\ (build.todo = {} \/ build.cancel)
    /\ legacy' = (legacy /\ ~ReplacesLegacy)
    /\ retiredOver' = IF legacy /\ ~legacy' THEN {s \in Sources : src[s].state # "ready"}
                                           ELSE retiredOver
    /\ scanned' = (scanned \/ AnalysisComplete)
    /\ Goto("end")
    /\ UNCHANGED <<src, runVars, indexVars, jobRow, removed>>

\* The end of the job and the receipts in one commit.
EndLogJob ==
    /\ At("end")
    /\ build' = NoJob
    /\ jobRow' = IF build.cancel THEN "cancelled" ELSE "done"
    /\ Reconcile(jobRow')
    /\ UNCHANGED <<src, legacy, runVars, indexVars, past>>

\* Another job ends and the receipts are brought up to date.
Refresh ==
    /\ folderHeld /\ Reconcile(jobRow)
    /\ UNCHANGED <<fileVars, folderHeld, http, src, manual, legacy, runVars, indexVars, work, past,
                   calls, stops>>

\* The process dies, or the end of the job cannot be written.
ECrash ==
    /\ build.pc # "idle" \/ http.ran = "running"
    /\ stops < MaxStops /\ stops' = stops + 1
    /\ build' = NoJob
    /\ http' = IF http.ran = "running" THEN [http EXCEPT !.ran = "partial"] ELSE http
    /\ UNCHANGED <<fileVars, folderHeld, scanned, src, manual, legacy, runVars, indexVars, jobRow,
                   past, calls>>

Recover ==
    /\ build.pc = "idle" /\ jobRow = "running"
    /\ jobRow' = "failed" /\ Reconcile("failed")
    /\ UNCHANGED <<fileVars, folderHeld, http, src, manual, legacy, runVars, indexVars, build, past,
                   calls, stops>>

ENext ==
    \/ \E s \in Sources : PassAccess(s) \/ BeginSource(s) \/ AcceptWarning(s)
    \/ \E s \in Sources : \E t \in Texts : EditLog(s, t)
    \/ \E s \in Sources : \E f \in Formats : Configure(s, f)
    \/ \E s \in Sources : \E l \in Lines : SelectEntry(s, l)
    \/ \E chosen \in SUBSET Sources : Analyze(chosen)
    \/ RegisterFolder \/ RemoveFolder \/ Cancel
    \/ IndexAccess \/ StopWaiting
    \/ ListSources \/ Hash \/ Read \/ Recheck \/ PublishSource \/ Switch \/ Fail
    \/ FinishBuild \/ EndLogJob
    \/ Refresh \/ ECrash \/ Recover

ESpec == EInit /\ [][ENext]_evars

----------------------------------------------------------------------------
(* Properties                                                              *)

\* A source that is shown as fresh serves exactly the entries of the file that
\* is there now, read under the settings of now, and its live findings are the
\* detections among them: over edits at any moment of the reading, cancelled,
\* failed and killed builds, and the two commits between which they may fall.
\* (Findings a removal retired stay retired until the next build.)
FreshTellsTheTruth ==
    \A s \in Sources : FreshSource(s) =>
        /\ Served(s) = logs[s].text /\ served[s] = Fingerprint(s)
        /\ Live(s) \subseteq Detected(logs[s].text, src[s].format)
        /\ s \notin removed => Live(s) = Detected(logs[s].text, src[s].format)

\* A pass over some sources, a failed or a cancelled one vouches for no source it
\* did not finish: neither does it retire the old error engine, nor does it leave,
\* once no job is at work, the receipt of the folder complete while a source that
\* is stored as one of these formats is unread.  (While a job is at work the last
\* receipt stands.  Of a source that is stored as access and was set to another
\* format since, reconcile_receipts asks nothing: this does not hold of it.)
NothingUnreadIsCertified ==
    /\ retiredOver = {}
    /\ scanned /\ jobRow # "running" => \A s \in StoredAsOther : src[s].state \in {"ready", "failed"}
=============================================================================
