------------------------------ MODULE LogIndex ------------------------------
(* The derived log index of a case (engines/logindex.py): how it is built     *)
(* from the registered access logs, when it may be trusted, and how its       *)
(* alerts become findings.                                                    *)
(*                                                                            *)
(* A line of a log is a record: the client, what the URI looks like (hit),    *)
(* whether the answer was a 2xx (ok), and the hour, 0 if the line has no      *)
(* readable time.  A file has a form: a log that can be read, one whose       *)
(* reading breaks off after its lines, one that cannot be opened, or          *)
(* something that is no access log.  Every edit of a file gives it a new      *)
(* stamp, which stands for size and time of the file.                         *)
EXTENDS Integers, FiniteSets, SequencesExt

CONSTANTS
    AccessLogs,     \* the files that may be registered as access logs
    LogVersions,    \* what a file may hold after an edit: [form, lines]
    FirstVersions,  \* what the files hold at first
    BfThreshold,    \* login POSTs that make a flood
    BfWindow,       \* hours in which they have to lie for a break-in
    Switchable,     \* the alert kinds the analyst may switch off
    MaxEdits,       \* bound: edits of one file after which nothing is edited
    MaxIndexBuilds  \* bound: builds of the index

VARIABLES
    accessLogs,   \* file -> [form, lines, stamp]
    registered,   \* the access logs registered in the case
    accessIndex,  \* the committed index, NoLogIndex while there is none
    builder,      \* local variables of build()
    found,        \* the live findings of the engine "logindex"
    off,          \* alert kinds the analyst switched off
    alertsOf      \* the build that last retired what it did not report, and
                  \* what was switched off when alerts were last written

ixvars == <<accessLogs, registered, accessIndex, builder, found, off, alertsOf>>

NoLogIndex == [gen |-> 0, partial |-> FALSE, sources |-> {}, rows |-> {}]
NoBuilder == [at |-> "idle", todo |-> {}, sizes |-> <<>>, sources |-> {},
              rows |-> {}, cancelled |-> FALSE, incomplete |-> FALSE, gen |-> 0]

Forms == {"log", "broken", "unreadable", "other"}
ASSUME LogIndexConstants ==
    /\ \A f \in AccessLogs : FirstVersions[f].form \in Forms
    /\ \A c \in LogVersions : c.form \in Forms

-----------------------------------------------------------------------------
(* What is derived from the lines.                                            *)

Of(rows, ip, hit) == {l \in rows : l.ip = ip /\ l.hit = hit}
Answered(rows, ip, hit) == {l \in Of(rows, ip, hit) : l.ok}

\* Mutant: the start of the window is never moved.
BusiestWhole(posts) == Cardinality(posts)
\* The most login POSTs inside any window: two pointers over the sorted times.
BusiestWindow(posts) ==
    LET times == SetToSortSeq(posts, LAMBDA a, b :
                    a.hour < b.hour \/ (a.hour = b.hour /\ a.n < b.n))
        InWindow(s, end) == times[end].hour - times[s].hour < BfWindow
        Advance(walk, end) ==
            LET start == CHOOSE s \in walk.start .. end :
                            /\ InWindow(s, end)
                            /\ \A r \in walk.start .. s - 1 : ~InWindow(r, end)
                span == end - start + 1
            IN  [start |-> start,
                 best |-> IF span > walk.best THEN span ELSE walk.best]
    IN  FoldLeft(Advance, [start |-> 1, best |-> 0],
                 [i \in 1 .. Len(times) |-> i]).best

Flooded(rows, ip) == Cardinality(Of(rows, ip, "login")) >= BfThreshold

\* Requests that say something only when the server answered them.
GatedKinds == {"upload_php", "cms_dir_php", "sqli", "traversal"}

Alerts(rows) ==
    LET ips == {l.ip : l \in rows}
        Kind(kind, P(_)) == {[ip |-> ip, kind |-> kind] : ip \in {i \in ips : P(i)}}
    IN  UNION {Kind(k, LAMBDA ip : Answered(rows, ip, k) # {}) : k \in GatedKinds}
        \cup Kind("scanner_ua", LAMBDA ip : Of(rows, ip, "scanner") # {})
        \cup Kind("login_flood", LAMBDA ip : Flooded(rows, ip))
        \cup Kind("login_success", LAMBDA ip :
                    /\ Flooded(rows, ip)
                    /\ Answered(rows, ip, "admin") # {}
                    /\ BusiestWindow({l \in Of(rows, ip, "login") : l.hour # 0})
                          >= BfThreshold)

-----------------------------------------------------------------------------
(* When the index may be trusted.                                             *)

\* The fingerprint of the files on disk.
SourceFingerprint(targets) ==
    {[file |-> f, size |-> accessLogs[f].stamp, mtime |-> accessLogs[f].stamp] : f \in targets}

FreshIndex(targets) ==
    /\ accessIndex # NoLogIndex
    /\ ~accessIndex.partial
    /\ SourceFingerprint(targets) = accessIndex.sources

-----------------------------------------------------------------------------
IxInit ==
    /\ accessLogs = [f \in AccessLogs |-> [form |-> FirstVersions[f].form,
                                           lines |-> FirstVersions[f].lines, stamp |-> 0]]
    /\ registered = AccessLogs
    /\ accessIndex = NoLogIndex
    /\ builder = NoBuilder
    /\ found = {}
    /\ off = {}
    /\ alertsOf = [gen |-> 0, off |-> {}]

\* add_evidence and remove_evidence change the registration of a log.
Register ==
    /\ \E f \in AccessLogs : registered' = (registered \ {f}) \cup ({f} \ registered)
    /\ UNCHANGED <<accessLogs, accessIndex, builder, found, off, alertsOf>>

\* Somebody changes a log outside the program.
Edit ==
    /\ \E f \in AccessLogs, c \in LogVersions :
         /\ \A g \in AccessLogs : accessLogs[g].stamp < MaxEdits
         /\ accessLogs' = [accessLogs EXCEPT ![f] = [form |-> c.form, lines |-> c.lines,
                                                     stamp |-> @.stamp + 1]]
    /\ UNCHANGED <<registered, accessIndex, builder, found, off, alertsOf>>

\* The analyst switches an alert rule off or on again.
SwitchKind(kinds) ==
    /\ \E k \in kinds : off' = (off \ {k}) \cup ({k} \ off)
    /\ UNCHANGED <<accessLogs, registered, accessIndex, builder, found, alertsOf>>

\* build() removes the old index before it looks at anything; cancelled while
\* it waits for readers of the old one, it returns without touching it.
BuildStart ==
    /\ builder.at = "idle"
    /\ builder.gen < MaxIndexBuilds
    /\ registered # {}
    /\ accessIndex' = NoLogIndex
    /\ builder' = [NoBuilder EXCEPT !.at = "reading", !.todo = registered,
                               !.sizes = [f \in registered |-> accessLogs[f].stamp],
                               !.gen = builder.gen + 1]
    /\ UNCHANGED <<accessLogs, registered, found, off, alertsOf>>

\* The row of a source: its size is that of the list made at the start, its
\* time the one read when its turn comes.
Source(f) == [file |-> f, size |-> builder.sizes[f], mtime |-> accessLogs[f].stamp]

\* What cannot be opened, or is a binary or an error log, is only named.
Skips(f) == accessLogs[f].form \in {"unreadable", "other"}
\* The lines a file adds to the table of requests.
Parsed(f) == IF Skips(f) THEN {} ELSE accessLogs[f].lines

\* Mutant: a log that breaks off half-way counts as read.
ReadLoses(f) ==
    /\ builder.at = "reading" /\ f \in builder.todo
    /\ builder' = [builder EXCEPT
         !.todo = @ \ {f},
         !.sources = @ \cup {Source(f)},
         !.rows = @ \cup Parsed(f),
         !.incomplete = @ \/ accessLogs[f].form = "unreadable"]
    /\ UNCHANGED <<accessLogs, registered, accessIndex, found, off, alertsOf>>
\* One file: it is skipped, or its lines are parsed and counted.  What cannot
\* be opened or breaks off makes the index incomplete; what is no access log
\* does not.
ReadFile(f) ==
    /\ builder.at = "reading" /\ f \in builder.todo
    /\ builder' = [builder EXCEPT
         !.todo = @ \ {f},
         !.sources = @ \cup {Source(f)},
         !.rows = @ \cup Parsed(f),
         !.incomplete = @ \/ accessLogs[f].form \in {"unreadable", "broken"}]
    /\ UNCHANGED <<accessLogs, registered, accessIndex, found, off, alertsOf>>

\* The cancel flag is seen between two files or inside one, of which the lines
\* read so far are kept.
Cancelled ==
    /\ builder.at = "reading"
    /\ \/ builder' = [builder EXCEPT !.cancelled = TRUE, !.todo = {}]
       \/ \E f \in builder.todo :
            /\ ~Skips(f)
            /\ \E some \in {{}} \cup {{l} : l \in Parsed(f)} :
                 builder' = [builder EXCEPT
                    !.cancelled = TRUE, !.todo = {},
                    !.sources = @ \cup {Source(f)}, !.rows = @ \cup some]
    /\ UNCHANGED <<accessLogs, registered, accessIndex, found, off, alertsOf>>

\* What the metadata says of the index.
Committed ==
    [gen |-> builder.gen, sources |-> builder.sources, rows |-> builder.rows,
     partial |-> builder.cancelled \/ builder.incomplete]
\* Tables, actors, alerts and, last, the metadata are committed together.
Publish ==
    /\ builder.at = "reading" /\ builder.todo = {}
    /\ accessIndex' = Committed
    /\ builder' = [builder EXCEPT !.at = "alerts"]
    /\ UNCHANGED <<accessLogs, registered, found, off, alertsOf>>

\* The alerts become findings of the case, but for those switched off.
WriteAlerts ==
    /\ builder.at = "alerts"
    /\ LET reported == {a \in Alerts(accessIndex.rows) : a.kind \notin off}
       IN  /\ found' = found \cup reported
           /\ builder' = [builder EXCEPT !.at = "retire", !.rows = reported]
    /\ alertsOf' = [gen |-> alertsOf.gen, off |-> off]
    /\ UNCHANGED <<accessLogs, registered, accessIndex, off>>

\* Only a build that ran to its end retires what it did not report.
CompleteAlerts ==
    /\ builder.at = "retire"
    /\ IF accessIndex.partial THEN UNCHANGED <<found, alertsOf>>
       ELSE /\ found' = builder.rows
            /\ alertsOf' = [alertsOf EXCEPT !.gen = accessIndex.gen]
    /\ builder' = [NoBuilder EXCEPT !.gen = builder.gen]
    /\ UNCHANGED <<accessLogs, registered, accessIndex, off>>

\* The process ends; without metadata the file is no index.
Crash ==
    /\ builder.at # "idle"
    /\ builder' = [NoBuilder EXCEPT !.gen = builder.gen]
    /\ UNCHANGED <<accessLogs, registered, accessIndex, found, off, alertsOf>>

IxNext ==
    \/ Register \/ Edit \/ SwitchKind(Switchable)
    \/ BuildStart \/ (\E f \in AccessLogs : ReadFile(f)) \/ Cancelled
    \/ Publish \/ WriteAlerts \/ CompleteAlerts \/ Crash

IxSpec == IxInit /\ [][IxNext]_ixvars

-----------------------------------------------------------------------------
(* An index that is trusted holds every line of every registered log as it is *)
(* now: no cancelled build, no log that could not be read to its end, no      *)
(* registration or edit since the list of files was made.                     *)
FreshMeansAll ==
    FreshIndex(registered) =>
        /\ \A f \in registered : accessLogs[f].form \in {"log", "other"}
        /\ accessIndex.rows = UNION {accessLogs[f].lines : f \in {g \in registered :
                                                  accessLogs[g].form = "log"}}

\* The alerts of a set of lines, said without the walk of BusiestWindow.
Declared(rows) ==
    {a \in [ip : {l.ip : l \in rows},
            kind : GatedKinds \cup {"scanner_ua", "login_flood", "login_success"}] :
        LET Some(hit) == \E l \in rows : l.ip = a.ip /\ l.hit = hit
            Yes(hit) == \E l \in rows : l.ip = a.ip /\ l.hit = hit /\ l.ok
            Posts(from, to) == {l \in rows : l.ip = a.ip /\ l.hit = "login"
                                             /\ l.hour \in from .. to}
        IN  CASE a.kind = "scanner_ua" -> Some("scanner")
              [] a.kind = "login_flood" ->
                    Cardinality({l \in rows : l.ip = a.ip /\ l.hit = "login"})
                        >= BfThreshold
              [] a.kind = "login_success" ->
                    /\ Yes("admin")
                    /\ \E l \in rows : l.hour # 0
                         /\ Cardinality(Posts(l.hour, l.hour + BfWindow - 1))
                               >= BfThreshold
              [] OTHER -> Yes(a.kind)}

(* Once the alerts of an index are settled the live findings are exactly the  *)
(* alerts of its lines, but for kinds that were switched off when they were   *)
(* written: a fragment retires nothing, a break-in is a burst of login POSTs  *)
(* of a client the backend has answered, and never a slow series.             *)
AlertsRestateIndex ==
    builder.at = "idle" /\ accessIndex # NoLogIndex /\ alertsOf.gen = accessIndex.gen =>
        found = {a \in Declared(accessIndex.rows) : a.kind \notin alertsOf.off}
=============================================================================
