----------------------------- MODULE Chronology -----------------------------
(* The chronology of a case (chain.py) and the first known sign, which the   *)
(* analyst may choose from it (first_sign.py).  A chronology is put together *)
(* from the case database, the log index, the index once more and the copies *)
(* of the evidence, read one after the other while decisions, scans, edits   *)
(* and builds go on; only choosing keeps writers of the database away.       *)
(*                                                                           *)
(* An artifact has one finding, and a match of a hunt is one request.  A     *)
(* request names the file, the client, its time (0: unreadable) and whether  *)
(* it was answered with a 2xx; a build of the index is a number, as its      *)
(* fingerprint hashes a generation.  Left out are accounts of dumps, alerts  *)
(* and selected observations, which are more events of the same kinds, and   *)
(* zones and offsets, which shift all times.                                 *)
EXTENDS Integers, FiniteSets, FiniteSetsExt

CONSTANTS
    FileArtifacts, ClientArtifacts,
    LogContents,  \* what the registered logs may hold: sets of requests
    EventCap,     \* the most events of a report
    MaxBuilds, MaxMeanwhile

Logged == [file : FileArtifacts, ip : ClientArtifacts, at : Nat, ok : BOOLEAN]
ASSUME ChronologyConstants ==
    \A lines \in LogContents : lines \subseteq Logged /\ IsFiniteSet(lines)

VARIABLES
    requestLogs,  \* the registered logs: what they hold, how often they were edited
    logIndex,     \* the committed log index
    rebuild,      \* the job that builds it: its row, where it is, its last build
    decided,      \* artifact -> the decision on its finding, whether it is current
    applied,      \* table hunt_application_clusters: [client, at, gen]
    roots,        \* the files lie in registered evidence
    copies,       \* file -> the time of its copy, 0 while it is not there
    locked,       \* a request holds the write lock of the case database
    read,         \* the chronology that is put together
    anchor,       \* meta.first_sign_override
    meanwhile

chvars == <<requestLogs, logIndex, rebuild, decided, applied, roots, copies, locked,
            read, anchor, meanwhile>>

ChronArtifacts == FileArtifacts \cup ClientArtifacts
RemovedIndex == [gen |-> 0, rows |-> {}, stamp |-> -1]
NoAnchor == [artifact |-> "none"]
Nothing == [pc |-> "idle", for |-> "report", confirmed |-> {}, live |-> {}, roots |-> FALSE,
            matches |-> {}, indexing |-> FALSE, fresh |-> FALSE, gen |-> 0, rows |-> {},
            shown |-> {}, undated |-> {}, beyond |-> {}, last |-> RemovedIndex]

ChInit ==
    /\ \E c \in LogContents : /\ requestLogs = [lines |-> c, stamp |-> 0]
                           /\ logIndex = [gen |-> 1, rows |-> c, stamp |-> 0]
    /\ rebuild = [row |-> "done", at |-> "idle", gen |-> 1] /\ applied = {} /\ roots = TRUE
    /\ decided \in [ChronArtifacts -> [triage : {"new", "confirmed"}, live : {TRUE}]]
    /\ copies = [f \in FileArtifacts |-> 2]
    /\ locked = FALSE /\ read = Nothing /\ anchor = NoAnchor /\ meanwhile = 0

-----------------------------------------------------------------------------
(* What is measured                                                          *)

Times(rows) == {r.at : r \in rows}
Ok(rows) == {r \in rows : r.ok}
\* min() and max() of the query, whose rows are the requests of a file by client.
Lowest(rows) == IF rows = {} THEN 0 ELSE Min(Times(rows))
Highest(rows) == IF rows = {} THEN 0 ELSE Max(Times(rows))
Hits(f, rows) ==
    {{r \in rows : r.file = f /\ r.ip = ip} : ip \in {r.ip : r \in {q \in rows : q.file = f}}}

Event(kind, artifact, at, source) ==
    [kind |-> kind, artifact |-> artifact, at |-> at, source |-> source, selectable |-> FALSE]

\* The first success, or the first attempt, and the last ones, if they are other times.
Requested(f, rows) ==
    LET hits   == Hits(f, rows)
        firsts == {Lowest(h) : h \in hits} \ {0}
        oks    == {Lowest(Ok(h)) : h \in hits} \ {0}
        last   == Max({Highest(h) : h \in hits})
        first  == IF oks # {} THEN Min(oks) ELSE Min(firsts)
        lastOk == IF oks = {} THEN first
                  ELSE Max({first} \cup {t \in {Highest(Ok(h)) : h \in hits} : first <= t /\ t <= last})
    IN  IF firsts = {} THEN {}
        ELSE {Event(IF oks # {} THEN "success" ELSE "attempt", f, first, "log")}
             \cup {Event("last success", f, t, "log") : t \in {lastOk} \ {first}}
             \cup {Event("last", f, t, "log") : t \in {last} \ {first, lastOk}}

\* The actor of the index knows readable times only.
Contacts(c, rows) ==
    LET times == Times({r \in rows : r.ip = c}) \ {0} IN
    IF times = {} THEN {}
    ELSE {Event("first contact", c, Min(times), "log"), Event("last", c, Max(times), "log")}

Copied(f) ==
    IF read.roots /\ copies[f] # 0 THEN {Event("modified", f, copies[f], "filesystem")} ELSE {}

\* A match counts for the index that was current first, and among its applications
\* the one of that index.
CurrentMatch(c, at) == read.gen # 0 /\ [client |-> c, at |-> at, gen |-> read.gen] \in read.matches
Matches(c) == {Event("hunt", c, m.at, "log") : m \in {k \in read.matches : k.client = c}}

\* Mutant: the index is not looked at again.
SelectableAsRead(e) ==
    /\ e.artifact \in read.live
    /\ e.source = "log" => read.fresh
    /\ e.kind = "hunt" => CurrentMatch(e.artifact, e.at)
    /\ e.artifact \in FileArtifacts => read.roots /\ copies[e.artifact] # 0

\* Whether the analyst may choose the event: its finding is current, it is no event of
\* an index that is stale or was replaced, and its file is there.
Selectable(e) ==
    /\ e.artifact \in read.live
    /\ e.source = "log" => read.fresh /\ logIndex.gen = read.gen
    /\ e.kind = "hunt" => CurrentMatch(e.artifact, e.at)
    /\ e.artifact \in FileArtifacts => read.roots /\ copies[e.artifact] # 0

Marked(events) == {[e EXCEPT !.selectable = Selectable(e)] : e \in events}

\* Of the confirmed artifacts.
Events ==
    (UNION {Copied(f) \cup Requested(f, read.rows) : f \in read.confirmed \cap FileArtifacts})
    \cup (UNION {Contacts(c, read.rows) \cup Matches(c) :
                  c \in read.confirmed \cap ClientArtifacts})

-----------------------------------------------------------------------------
(* case_chain                                                                *)

Rest == UNCHANGED <<requestLogs, logIndex, rebuild, decided, applied, roots, copies, meanwhile>>

\* The choice of the analyst begins the write transaction before it reads.
Begin(for) ==
    /\ read.pc = "idle"
    /\ locked' = (for = "choice")
    /\ read' = [Nothing EXCEPT !.pc = "case", !.for = for]
    /\ UNCHANGED anchor /\ Rest

ReadCase ==
    /\ read.pc = "case"
    /\ LET confirmed == {a \in ChronArtifacts : decided[a].triage = "confirmed"}
           live == {a \in ChronArtifacts : decided[a].live}
       IN  read' = [read EXCEPT !.pc = "status", !.confirmed = confirmed, !.live = live,
                                !.roots = roots, !.indexing = rebuild.row \in {"queued", "running"},
                                !.matches = {m \in applied : m.client \in confirmed \cap live}]
    /\ UNCHANGED <<locked, anchor>> /\ Rest

ReadStatus ==
    /\ read.pc = "status"
    /\ read' = [read EXCEPT !.pc = "identity",
                            !.fresh = ~read.indexing /\ logIndex.stamp = requestLogs.stamp]
    /\ UNCHANGED <<locked, anchor>> /\ Rest

ReadIdentity ==
    /\ read.pc = "identity"
    /\ read' = [read EXCEPT !.pc = "facts", !.gen = IF read.fresh THEN logIndex.gen ELSE 0]
    /\ UNCHANGED <<locked, anchor>> /\ Rest

ReadFacts ==
    /\ read.pc = "facts"
    /\ read' = [read EXCEPT !.pc = "files", !.rows = logIndex.rows]
    /\ UNCHANGED <<locked, anchor>> /\ Rest

\* The earliest events, as many as the cap lets through.
Earliest(events, cap) ==
    {s \in SUBSET events : /\ Cardinality(s) = Min({cap, Cardinality(events)})
                           /\ \A e \in s, c \in events \ s : e.at <= c.at}
Named(events) == {e.artifact : e \in events}

\* The files are looked at and the index once more.  What the cap cuts off is not
\* undated.
FinishReading ==
    /\ read.pc = "files"
    /\ LET events == Marked(Events) IN
       \E shown \in Earliest(events, IF read.for = "report" THEN EventCap ELSE Cardinality(events)) :
          read' = [read EXCEPT !.pc = "done", !.shown = shown, !.last = logIndex,
                               !.beyond = Named(events \ shown) \ Named(shown),
                               !.undated = read.confirmed \ Named(events)]
    /\ UNCHANGED <<locked, anchor>> /\ Rest

Answer ==
    /\ read.pc = "done" /\ read.for = "report" /\ read' = Nothing
    /\ UNCHANGED <<locked, anchor>> /\ Rest

\* An event that may be chosen is saved; what is none is answered with an error.
Choose ==
    /\ read.pc = "done" /\ read.for = "choice"
    /\ \/ \E e \in {x \in read.shown : x.selectable} : anchor' = e
       \/ anchor' \in {anchor, NoAnchor}
    /\ locked' = FALSE /\ read' = Nothing /\ Rest

-----------------------------------------------------------------------------
(* Meanwhile                                                                 *)

\* A transaction on the case database can begin.
Unlocked == ~locked

Meanwhile == meanwhile < MaxMeanwhile /\ meanwhile' = meanwhile + 1
Unaffected == UNCHANGED <<locked, read, anchor>>

Retriage ==
    /\ Unlocked /\ Meanwhile
    /\ \E a \in ChronArtifacts, t \in {"new", "confirmed"} :
          decided' = [decided EXCEPT ![a].triage = t]
    /\ UNCHANGED <<requestLogs, logIndex, rebuild, applied, roots, copies>> /\ Unaffected

\* A scan completes without having seen a finding again, or sees it again.
Rescan ==
    /\ Unlocked /\ Meanwhile
    /\ \E a \in ChronArtifacts : decided' = [decided EXCEPT ![a].live = ~@]
    /\ UNCHANGED <<requestLogs, logIndex, rebuild, applied, roots, copies>> /\ Unaffected

RegisterRoots ==
    /\ Unlocked /\ Meanwhile /\ roots' = ~roots
    /\ UNCHANGED <<requestLogs, logIndex, rebuild, decided, applied, copies>> /\ Unaffected

\* A test is applied while its index is current.
ApplyHunt ==
    /\ Unlocked /\ Meanwhile /\ logIndex.stamp = requestLogs.stamp
    /\ \E r \in {x \in logIndex.rows : x.at # 0} :
          /\ applied' = applied \cup {[client |-> r.ip, at |-> r.at, gen |-> logIndex.gen]}
          /\ decided' = [decided EXCEPT ![r.ip].live = TRUE]
    /\ UNCHANGED <<requestLogs, logIndex, rebuild, roots, copies>> /\ Unaffected

\* Outside the program.
RewriteLog ==
    /\ Meanwhile
    /\ \E c \in LogContents : requestLogs' = [lines |-> c, stamp |-> requestLogs.stamp + 1]
    /\ UNCHANGED <<logIndex, rebuild, decided, applied, roots, copies>> /\ Unaffected

Move ==
    /\ Meanwhile /\ \E f \in FileArtifacts : copies' = [copies EXCEPT ![f] = IF @ = 0 THEN 2 ELSE 0]
    /\ UNCHANGED <<requestLogs, logIndex, rebuild, decided, applied, roots>> /\ Unaffected

\* A build: its row, the removal of the old index, the new one, its row again.
Queue ==
    /\ Unlocked /\ Meanwhile /\ rebuild.row = "done" /\ rebuild.gen < MaxBuilds
    /\ rebuild' = [rebuild EXCEPT !.row = "queued"]
    /\ UNCHANGED <<requestLogs, logIndex, decided, applied, roots, copies>> /\ Unaffected

Start ==
    /\ Unlocked /\ rebuild.row = "queued"
    /\ rebuild' = [rebuild EXCEPT !.row = "running", !.at = "remove"]
    /\ UNCHANGED <<requestLogs, logIndex, decided, applied, roots, copies, meanwhile>> /\ Unaffected

RemoveIndex ==
    /\ rebuild.at = "remove"
    /\ logIndex' = RemovedIndex /\ rebuild' = [rebuild EXCEPT !.at = "load"]
    /\ UNCHANGED <<requestLogs, decided, applied, roots, copies, meanwhile>> /\ Unaffected

\* A partial one is never fresh.
PublishIndex ==
    /\ rebuild.at = "load"
    /\ \E stamp \in {requestLogs.stamp, -1} :
          logIndex' = [gen |-> rebuild.gen + 1, rows |-> requestLogs.lines, stamp |-> stamp]
    /\ rebuild' = [rebuild EXCEPT !.at = "end", !.gen = @ + 1]
    /\ UNCHANGED <<requestLogs, decided, applied, roots, copies, meanwhile>> /\ Unaffected

End ==
    /\ Unlocked /\ rebuild.at = "end"
    /\ rebuild' = [rebuild EXCEPT !.row = "done", !.at = "idle"]
    /\ UNCHANGED <<requestLogs, logIndex, decided, applied, roots, copies, meanwhile>> /\ Unaffected

ChNext ==
    \/ (\E for \in {"report", "choice"} : Begin(for))
    \/ ReadCase \/ ReadStatus \/ ReadIdentity \/ ReadFacts \/ FinishReading \/ Answer \/ Choose
    \/ Retriage \/ Rescan \/ RegisterRoots \/ ApplyHunt \/ RewriteLog \/ Move
    \/ Queue \/ Start \/ RemoveIndex \/ PublishIndex \/ End

ChSpec == ChInit /\ [][ChNext]_chvars

-----------------------------------------------------------------------------
(* Properties                                                                *)

Measured(e, rows) == \E r \in rows : r.at = e.at /\ e.artifact \in {r.file, r.ip}

\* What may be chosen as the first known sign is evidence: a request of the index that
\* was there when the chronology was finished, although builds replace it between the
\* reads; and when a choice is saved, of the index that is there now, of a finding that
\* is confirmed and current now, in evidence that is registered now.
SelectableIsSupported ==
    read.pc = "done" => \A e \in {x \in read.shown : x.selectable} :
        /\ e.source = "log" /\ read.gen # 0 => Measured(e, read.last.rows)
        /\ read.for = "choice" =>
              /\ e.source = "log" => Measured(e, logIndex.rows)
              /\ decided[e.artifact] = [triage |-> "confirmed", live |-> TRUE]
              /\ e.artifact \in FileArtifacts => roots

\* What server/i18n.py:43 tells the reader of a confirmed file without an event: the log
\* proves no request for it.
UndatedIsUnrequested ==
    read.pc = "done" => \A r \in read.rows : r.at # 0 => r.file \notin read.undated
=============================================================================
